-------------------------- MODULE MCEndpointsCache --------------------------
(***************************************************************************)
(* Two devices that change their kind, one call, and a journal of the      *)
(* initial list and two updates.                                           *)
(***************************************************************************)
EXTENDS EndpointsCache

CONSTANTS a, b, l, c1
=============================================================================
