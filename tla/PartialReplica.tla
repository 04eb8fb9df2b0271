--------------------------- MODULE PartialReplica ---------------------------
(***************************************************************************)
(* What a cache fed by a subscription promises, whatever its mechanics: a  *)
(* copy of a source that moves through the source's states in order, one   *)
(* at a time, and knows of which items it is sure.  Of those it shows      *)
(* exactly what the source had at the copy's position.  While it is        *)
(* attached it gains certainty step by step and loses it only as a whole   *)
(* (Suspend), to be sure again of some items after a Refresh.              *)
(***************************************************************************)
EXTENDS Integers, Sequences

CONSTANTS
  Ids,      \* items
  States,   \* states of an item
  Unsure,   \* shown of an item the copy is not sure of; no member of States
  MaxHist   \* bound: length of the history

VARIABLES
  hist,   \* states the source went through, each [Ids -> States]
  pos,    \* position of the copy in hist, 0 = detached
  view    \* what the copy is sure of: [Ids -> States \cup {Unsure}]

vars == <<hist, pos, view>>

SureOf(S, p) == [i \in Ids |-> IF i \in S THEN hist[p][i] ELSE Unsure]

Known == {i \in Ids : view[i] # Unsure}

Init ==
  /\ \E s \in [Ids -> States] : hist = <<s>>
  /\ pos = 0
  /\ view = [i \in Ids |-> Unsure]

Publish ==
  /\ Len(hist) < MaxHist
  /\ \E s \in [Ids -> States] : hist' = Append(hist, s)
  /\ UNCHANGED <<pos, view>>

Attach ==
  /\ pos = 0
  /\ pos' = Len(hist)
  /\ \E S \in SUBSET Ids : view' = SureOf(S, Len(hist))
  /\ UNCHANGED hist

\* The next source state; nothing that was known is forgotten.
Follow ==
  /\ 0 < pos /\ pos < Len(hist)
  /\ pos' = pos + 1
  /\ \E S \in SUBSET Ids : Known \subseteq S /\ view' = SureOf(S, pos + 1)
  /\ UNCHANGED hist

Suspend ==
  /\ 0 < pos /\ pos < Len(hist)
  /\ pos' = pos + 1
  /\ view' = [i \in Ids |-> Unsure]
  /\ UNCHANGED hist

Refresh ==
  /\ 0 < pos
  /\ Known = {}
  /\ \E S \in SUBSET Ids : view' = SureOf(S, pos)
  /\ UNCHANGED <<hist, pos>>

Detach ==
  /\ 0 < pos
  /\ pos' = 0
  /\ view' = [i \in Ids |-> Unsure]
  /\ UNCHANGED hist

Next == Publish \/ Attach \/ Follow \/ Suspend \/ Refresh \/ Detach

Spec == Init /\ [][Next]_vars
=============================================================================
