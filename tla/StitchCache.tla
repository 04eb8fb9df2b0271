---------------------------- MODULE StitchCache -----------------------------
(***************************************************************************)
(* The stitches of all switches in one list                                *)
(* (ldf/models/home_controller/routes.py): fetched switch by switch, kept   *)
(* by one subscription per switch.  Each subscription hands its updates    *)
(* over in order; those of two switches mix freely.                        *)
(*                                                                         *)
(* A stitch joins an input to an output for one multicast group: that      *)
(* triple is its Key.  The list looks for an older stitch by the key alone *)
(* when one is added, by key and source address when one is removed, and   *)
(* never by the switch.                                                    *)
(***************************************************************************)
EXTENDS Integers, Sequences, FiniteSets, SequencesExt

CONSTANTS
  Switches,   \* IDs of the switches
  Keys,       \* triples input, output, multicast group
  Srcs,       \* source addresses
  MaxUpdates  \* bound: updates of all switches together

Stitch == [sw: Switches, key: Keys, src: Srcs]

\* What HOME lists is finite.
ASSUME StitchAssumption ==
  MaxUpdates \in Nat /\ IsFiniteSet(Switches) /\ IsFiniteSet(Stitch)

VARIABLES
  init,      \* HOME: stitches of all switches at the beginning
  updates,   \* HOME: Switches -> journal of updates [op, st]
  order,     \* switches not yet fetched, in the order they are fetched
  readAt,    \* Switches -> length of the journal when fetched, -1 = never
  stitches,  \* self._stitches
  since,     \* Switches -> its length at the subscription, -1 = none
  handled    \* Switches -> updates handled

stitchVars == <<init, updates, order, readAt, stitches, since, handled>>

StitchesTypeOK ==
  /\ init \subseteq Stitch
  /\ updates \in [Switches -> Seq([op: {"insert", "change", "remove"}, st: Stitch])]
  /\ \A w \in Switches :
       /\ Len(updates[w]) <= MaxUpdates
       /\ readAt[w] \in -1..Len(updates[w]) /\ since[w] \in -1..Len(updates[w])
       /\ handled[w] \in 0..Len(updates[w])
  /\ order \in Seq(Switches)
  /\ stitches \in Seq(Stitch)

-----------------------------------------------------------------------------
(* HOME.                                                                    *)

\* What n updates of a journal make of a switch's stitches.
Replayed(S, journal, n) ==
  LET after[k \in 0..n] ==
        IF k = 0 THEN S
        ELSE LET u == journal[k]
             IN  IF u.op = "remove" THEN after[k - 1] \ {u.st}
                 ELSE {x \in after[k - 1] : x.key # u.st.key} \cup {u.st}
  IN  after[n]

\* The stitches of a switch after the first n updates of its journal.
At(w, n) == Replayed({x \in init : x.sw = w}, updates[w], n)

Held(w) == At(w, Len(updates[w]))

Published ==
  Cardinality({x \in Switches \X (1..MaxUpdates) : x[2] <= Len(updates[x[1]])})

\* HOME's switches never hold two stitches of one key.
Issue(op, x) ==
  /\ updates' = [updates EXCEPT ![x.sw] = Append(@, [op |-> op, st |-> x])]
  /\ UNCHANGED <<init, order, readAt, stitches, since, handled>>

HomeInsert(x) == (\A y \in Held(x.sw) : y.key # x.key) /\ Issue("insert", x)
HomeChange(x) == (\E y \in Held(x.sw) : y.key = x.key) /\ Issue("change", x)
HomeRemove(x) == x \in Held(x.sw) /\ Issue("remove", x)

-----------------------------------------------------------------------------
(* The list.                                                                *)

\* collect_stitches asks one switch after the other.
AskSwitch ==
  /\ order # <<>>
  /\ LET w == Head(order)
     IN  /\ \E s \in SetToSeqs(Held(w)) : stitches' = stitches \o s
         /\ readAt' = [readAt EXCEPT ![w] = Len(updates[w])]
  /\ order' = Tail(order)
  /\ UNCHANGED <<init, updates, since, handled>>

\* A switch that does not answer, or answers with an error, is passed over.
NoAnswer ==
  /\ order # <<>>
  /\ order' = Tail(order)
  /\ UNCHANGED <<init, updates, readAt, stitches, since, handled>>

\* _run_subscriptions, one topic after the other.
SubscribeTo(w) ==
  /\ order = <<>> /\ since[w] = -1
  /\ since' = [since EXCEPT ![w] = Len(updates[w])]
  /\ handled' = [handled EXCEPT ![w] = Len(updates[w])]
  /\ UNCHANGED <<init, updates, order, readAt, stitches>>

\* _add_to_stitches
AddStitch(s, x) == Append(RemoveFirstMatch(s, LAMBDA y : y.key = x.key), x)

\* _remove_from_stiches
DropStitch(s, x) ==
  RemoveFirstMatch(s, LAMBDA y : y.key = x.key /\ y.src = x.src)

\* Mutant of HandOver: a stitch that was removed is not dropped.
HandOver_KeepRemoved(w) ==
  /\ since[w] # -1 /\ handled[w] < Len(updates[w])
  /\ LET u == updates[w][handled[w] + 1]
     IN  stitches' = IF u.op = "remove" THEN stitches ELSE AddStitch(stitches, u.st)
  /\ handled' = [handled EXCEPT ![w] = @ + 1]
  /\ UNCHANGED <<init, updates, order, readAt, since>>

\* cb_update_stitches
HandOver(w) ==
  /\ since[w] # -1 /\ handled[w] < Len(updates[w])
  /\ LET u == updates[w][handled[w] + 1]
     IN  stitches' = IF u.op = "remove" THEN DropStitch(stitches, u.st)
                     ELSE AddStitch(stitches, u.st)
  /\ handled' = [handled EXCEPT ![w] = @ + 1]
  /\ UNCHANGED <<init, updates, order, readAt, since>>

-----------------------------------------------------------------------------
stitchInit ==
  /\ init \in {S \in SUBSET Stitch :
                 \A x, y \in S : (x.sw = y.sw /\ x.key = y.key) => x = y}
  /\ updates = [w \in Switches |-> <<>>]
  /\ order \in SetToSeqs(Switches)
  /\ readAt = [w \in Switches |-> -1]
  /\ stitches = <<>>
  /\ since = [w \in Switches |-> -1]
  /\ handled = [w \in Switches |-> 0]

stitchNext ==
  \/ /\ Published < MaxUpdates
     /\ \E x \in Stitch : HomeInsert(x) \/ HomeChange(x) \/ HomeRemove(x)
  \/ AskSwitch \/ NoAnswer
  \/ \E w \in Switches : SubscribeTo(w) \/ HandOver(w)

stitchSpec == stitchInit /\ [][stitchNext]_stitchVars

-----------------------------------------------------------------------------
(* Properties.                                                              *)

Ever ==
  init \cup UNION {{updates[w][k].st : k \in 1..Len(updates[w])} : w \in Switches}

\* A key that one switch alone uses is listed exactly as that switch has it --
\* once, or not at all -- however the updates of the switches mix, if the switch
\* answered and nothing was published before it was subscribed to.
LoneKeysAreExact ==
  \A w \in Switches, key \in Keys :
    (/\ since[w] # -1 /\ since[w] = readAt[w]
     /\ \A x \in Ever : x.key = key => x.sw = w)
    => LET held == {x \in At(w, handled[w]) : x.key = key}
           listed == {k \in 1..Len(stitches) : stitches[k].key = key}
       IN  {stitches[k] : k \in listed} = held /\ Cardinality(listed) = Cardinality(held)
=============================================================================
