-------------------------- MODULE MCTerminalCalls ---------------------------
(***************************************************************************)
(* One destination, a source and the empty source, one call, and a journal *)
(* of the initial endpoint and two updates.                                *)
(***************************************************************************)
EXTENDS TerminalCalls

CONSTANTS a, v, w, c1
=============================================================================
