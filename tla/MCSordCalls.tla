---------------------------- MODULE MCSordCalls -----------------------------
(***************************************************************************)
(* One sord, two labels, one call, and a journal of the initial endpoint   *)
(* and three updates: a reset, an insert that it makes the cache show      *)
(* twice, and the removal a call waits for.                                *)
(***************************************************************************)
EXTENDS SordCalls, TLC

CONSTANTS a, v, w, c1

Symmetry == Permutations({v, w})
=============================================================================
