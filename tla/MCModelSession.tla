--------------------------- MODULE MCModelSession ---------------------------
(***************************************************************************)
(* Three heartbeats; a reboot with short pauses and deadlines; an app with   *)
(* one App Server to fail over to; two controls of pages and two of the      *)
(* endpoint, and every page with two iterations.                             *)
(***************************************************************************)
EXTENDS ModelSession

Level == {0, 1}
=============================================================================
