---------------------------- MODULE MCMcxSession ----------------------------
(***************************************************************************)
(* A button with three lamps and any wiring, parameters of two fields with  *)
(* two values of which one or both are told, listens with the values of a    *)
(* call and others, signals in and out of a bundle and a surround master,    *)
(* two file calls next to one of another user, four buses of each kind and   *)
(* two plain settings, whose numbers lie as close together as they may.      *)
(***************************************************************************)
EXTENDS McxSession

FirstIndex == [INP |-> 0, GRP |-> 4, SUM |-> 8, AUX |-> 12]

AuxFirst == [LevelL |-> 1, OnOffR |-> 2, LevelR |-> 3, OnOffL |-> 4]

EqFirst ==
  LET place == [BandBypass |-> 0, BandType |-> 1, Quality |-> 2, Freq |-> 3, Level1 |-> 4]
  IN  [e \in Fields \X Bands |-> 72 + place[e[1]] + 5 * (e[2] - 1)]
=============================================================================
