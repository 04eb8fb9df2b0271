--------------------------- MODULE MCDeviceMirror ---------------------------
(***************************************************************************)
(* Two items that are there or not, one label, which no property tells from *)
(* another, and a journal of the initial endpoint and three updates: a     *)
(* reset, an update it races with and one after.                           *)
(***************************************************************************)
EXTENDS DeviceMirror

CONSTANTS a, b, v
=============================================================================
