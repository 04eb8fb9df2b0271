----------------------------- MODULE SordCalls ------------------------------
(***************************************************************************)
(* Creating and removing senders and receivers ("sords") through a device  *)
(* model (ldf/attributes/sords.py), on top of the endpoint cache the calls *)
(* poll: DeviceMirror with the sord IDs as Ids and the labels as Vals.     *)
(*                                                                         *)
(* HOME answers a request before or after the device has published the     *)
(* insert or remove updates, and an accepted request may never be carried  *)
(* out.  A poll that does not find what it waits for may be the last one.  *)
(***************************************************************************)
EXTENDS DeviceCalls

Kinds == {"create", "create_audio", "remove", "remove_all"}

\* `asked' (journal position at the call), `made' (sords HOME made for it) and
\* `refused' are history for the properties.
SordCall == [kind: Kinds \cup {"none"},
             st: {"idle", "asked", "served", "waiting", "ok", "SordCreationError"},
             label: Vals \cup {None}, count: 0..Cardinality(Ids),
             ids: SUBSET Ids, left: SUBSET Ids, made: SUBSET Ids,
             asked: 0..MaxLog, blank: BOOLEAN]

NoSordCall == [kind |-> "none", st |-> "idle", label |-> None, count |-> 0,
               ids |-> {}, left |-> {}, made |-> {}, asked |-> 0, blank |-> FALSE]

SordsTypeOK ==
  /\ TypeOK
  /\ work \subseteq [op: {"insert", "remove"}, id: Ids, label: Vals \cup {None}]
  /\ call \in [Calls -> SordCall]

-----------------------------------------------------------------------------
(* HOME and the device.                                                     *)

Free == {i \in Ids : now.items[i] = None /\ ~\E t \in work : t.id = i}

\* endpoints_create_sords: the IDs are HOME's choice.  Some devices return the
\* sords without IDs (`blank'); create does not look at them.
ServeCreate(c, S, blank) ==
  /\ call[c].st = "asked" /\ call[c].kind \in {"create", "create_audio"}
  /\ S \subseteq Free /\ Cardinality(S) = call[c].count
  /\ blank => call[c].kind = "create_audio"
  /\ work' = work \cup {[op |-> "insert", id |-> i, label |-> call[c].label] : i \in S}
  /\ call' = [call EXCEPT ![c].st = "served", ![c].made = S, ![c].blank = blank]
  /\ UNCHANGED mirror

ServeRemove(c) ==
  /\ call[c].st = "asked" /\ call[c].kind \in {"remove", "remove_all"}
  /\ work' = work \cup {[op |-> "remove", id |-> i, label |-> None] : i \in call[c].ids}
  /\ call' = [call EXCEPT ![c].st = "served"]
  /\ UNCHANGED mirror

\* HOME refuses: a creation raises, a removal does not look at the answer.
RefuseSords(c) ==
  /\ call[c].st = "asked"
  /\ call' = [call EXCEPT ![c].st =
       IF call[c].kind \in {"create", "create_audio"} THEN "SordCreationError"
       ELSE "served"]
  /\ UNCHANGED <<mirror, work>>

CarryOutSord(t) ==
  /\ t \in work
  /\ work' = work \ {t}
  /\ IF t.op = "insert"
     THEN IF now.items[t.id] = None THEN HomeInsert(t.id, t.label)
          ELSE UNCHANGED mirror
     ELSE IF now.items[t.id] # None THEN HomeRemove(t.id)
          ELSE UNCHANGED mirror
  /\ UNCHANGED call

-----------------------------------------------------------------------------
(* The calls.                                                               *)

CachedLabelled(l) ==
  {i \in Ids : \E k \in 1..Len(local.items[i]) : local.items[i][k] = l}

AskSords(c, kind, l, n, S) ==
  /\ pc \in {"online", "resetting"} /\ call[c].st = "idle"
  /\ call' = [call EXCEPT ![c] =
       [NoSordCall EXCEPT !.kind = kind, !.st = "asked", !.label = l, !.count = n,
                    !.ids = S, !.asked = Len(log)]]
  /\ UNCHANGED <<mirror, work>>

Create(c, l, n) == \E kind \in {"create", "create_audio"} : AskSords(c, kind, l, n, {})
Remove(c, S) == AskSords(c, "remove", None, 0, S)
RemoveAll(c) == AskSords(c, "remove_all", None, 0, Cached)

\* What a call does with the answer.  create and remove wait for every sord of
\* the answer; create_audio, given no IDs, takes the sords cached under the
\* label instead -- its time.sleep(1) lets no update in; remove_all does not
\* wait.
SordTargets(c) ==
  CASE call[c].kind = "create_audio" /\ call[c].blank -> CachedLabelled(call[c].label)
    [] call[c].kind = "remove_all" -> {}
    [] call[c].kind = "remove" -> call[c].ids
    [] OTHER -> call[c].made

SordsAnswered(c) ==
  /\ call[c].st = "served"
  /\ call' = [call EXCEPT ![c].st = "waiting", ![c].left = SordTargets(c),
                          ![c].ids = IF @ = {} THEN SordTargets(c) ELSE @]
  /\ UNCHANGED <<mirror, work>>

\* Mutant of SordShown: the wait for a creation is content with any sord.
SordShown_AnySord(c, i) ==
  IF call[c].kind \in {"create", "create_audio"} THEN Cached # {}
  ELSE i \notin Cached

\* Mutant of SordShown: the wait for a removal looks for the other sords.
SordShown_Inverted(c, i) ==
  IF call[c].kind \in {"create", "create_audio"}
  THEN CachedLabelled(call[c].label) # {}
  ELSE Cached \ {i} = {}

\* _wait_for_sord_creation looks for the label, _wait_for_sord_removal for
\* the ID.
SordShown(c, i) ==
  IF call[c].kind \in {"create", "create_audio"}
  THEN CachedLabelled(call[c].label) # {}
  ELSE i \notin Cached

PollSord(c, i) ==
  /\ call[c].st = "waiting" /\ i \in call[c].left
  /\ SordShown(c, i)
  /\ call' = [call EXCEPT ![c].left = @ \ {i}]
  /\ UNCHANGED <<mirror, work>>

\* One wait past its deadline fails the gather, and the call.
SordTimeout(c, i) ==
  /\ call[c].st = "waiting" /\ i \in call[c].left
  /\ ~SordShown(c, i)
  /\ call' = [call EXCEPT ![c].st = "SordCreationError"]
  /\ UNCHANGED <<mirror, work>>

-----------------------------------------------------------------------------
SordsInit == Init /\ work = {} /\ call = [c \in Calls |-> NoSordCall]

SordsServeStep(c) ==
  \/ \E S \in SUBSET Ids, b \in BOOLEAN : ServeCreate(c, S, b)
  \/ ServeRemove(c) \/ RefuseSords(c)

SordsWaitStep(c) ==
  \/ SordsAnswered(c) \/ Return(c)
  \/ \E i \in Ids : PollSord(c, i) \/ SordTimeout(c, i)

SordsAskStep(c) ==
  \/ \E l \in Vals, n \in 1..Cardinality(Ids) : Create(c, l, n)
  \/ \E S \in SUBSET Ids : Remove(c, S)
  \/ RemoveAll(c)

SordsNext ==
  \/ (HomeStep \/ ServeGet \/ Enter \/ ClientStep) /\ UNCHANGED <<work, call>>
  \/ Leave
  \/ \E t \in work : CarryOutSord(t)
  \/ \E c \in Calls : SordsAskStep(c) \/ SordsServeStep(c) \/ SordsWaitStep(c)

SordsSpec == SordsInit /\ [][SordsNext]_callVars

-----------------------------------------------------------------------------
(* Properties.                                                              *)

\* In HOME nothing but the sords made for the call ever had its label.
FreshLabel(c) ==
  \A k \in 1..Len(log), i \in Ids :
    log[k].sec.items[i] = call[c].label => i \in call[c].made /\ k > call[c].asked

\* A creation under a label that was fresh in HOME waits until a sord made for
\* it is in the cache: the wait by label is then as good as one by ID, for a
\* single sord.  The cache may be as stale as it likes.
FreshCreateIsCached ==
  [][\A c \in Calls :
       (/\ call[c].kind \in {"create", "create_audio"}
        /\ call'[c].left # call[c].left /\ call[c].st = "waiting"
        /\ FreshLabel(c))
       => \E i \in call[c].made : call[c].label \in
            {local.items[i][k] : k \in 1..Len(local.items[i])}]_callVars

\* A removal that returns has seen each of its sords gone, and where the cache
\* was sure of the sord it was gone from HOME too: duplicates in the cache
\* never make the wait end early.
RemovedWasGone ==
  [][\A c \in Calls : \A i \in call[c].left \ call'[c].left :
       (call[c].kind = "remove" /\ Sure(i)) => log[cursor].sec.items[i] = None]_callVars

-----------------------------------------------------------------------------
(* Claims of the documentation that the code does not keep.                 *)

InsertHandled(c, i) ==
  \E k \in call[c].asked..cursor : k > 0 /\ log[k].sec.items[i] # None

\* external_usage_agreement.md:34, creation waits until the "Sender or
\* Receiver information exists in the device Endpoint datamodel"; the assertion
\* of tests/base/test_updates.py:25 on what create_audio returns.
CreatedSordExists ==
  \A c \in Calls :
    (call[c].kind = "create" /\ call[c].st = "ok" /\ pc = "online" /\ asof = base)
      => \A i \in call[c].made : InsertHandled(c, i)

\* sords.py:449-450, of create_audio: "This cororoutine will block until the
\* expected sord updates are received" -- of any one of them.
AudioCreateBlocks ==
  \A c \in Calls :
    (call[c].kind = "create_audio" /\ call[c].st = "ok" /\ pc = "online" /\ asof = base)
      => \E i \in call[c].made : InsertHandled(c, i)
=============================================================================
