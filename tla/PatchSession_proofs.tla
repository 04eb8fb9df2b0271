------------------------ MODULE PatchSession_proofs ------------------------
(***************************************************************************)
(* Patching, for any number of gates, sords, devices, calls and updates.    *)
(*                                                                         *)
(* One device: where SureIsExact speaks of a gate, its entry is what HOME   *)
(* had at the update handled last.  The argument needs two facts that       *)
(* SureIsExact does not tell: a gate that no entry of HOME's journal names  *)
(* is the same at its two ends (JournalIsTold), and between fetch and       *)
(* subscription the dictionary is the journal at the fetch (PlaceFits).     *)
(*                                                                         *)
(* Several devices: the sords of the devices still to come stand in the     *)
(* flattened list right after those whose turn has been (Aligned), what is  *)
(* left of the receivers is the end of the list (SinksFit), and HOME was    *)
(* asked for what is wanted of the receivers before that end and for        *)
(* nothing of the others (OrderedFits).  A blocking call has waited for the *)
(* links of the turns it is past, or still does (MetInv).                   *)
(***************************************************************************)
EXTENDS PatchSession, FiniteSetTheorems, SequenceTheorems, WellFoundedInduction, TLAPS

Entry == [gate: Own \cup {None}, tab: Table]

JournalIsTold ==
  \A g \in Own : \A i, j \in 1..Len(log) :
    (i <= j /\ \A k \in (i + 1)..j : log[k].gate # g) => log[i].tab[g] = log[j].tab[g]

Typed ==
  /\ log \in Seq(Entry) /\ Len(log) >= 1
  /\ snap \in 0..Len(log) /\ fresh \in 0..Len(log)
  /\ base \in 0..Len(log) /\ cursor \in 0..Len(log)
  /\ state \in Table

PlaceFits ==
  /\ pc \in {"away", "asking"} => fresh = 0
  /\ (pc = "subscribing" /\ fresh # 0) => state = log[fresh].tab
  /\ pc = "online" => 1 <= base /\ base <= cursor /\ fresh <= base

PatchInv == Typed /\ JournalIsTold /\ PlaceFits /\ SureIsExact

-----------------------------------------------------------------------------
LEMMA PatchInvInit == patchInit => PatchInv
<1> SUFFICES ASSUME NEW t \in Table, log = <<[gate |-> None, tab |-> t]>>,
                    pc = "away", snap = 0, state = [g \in Own |-> Gone],
                    fresh = 0, base = 0, cursor = 0
             PROVE  PatchInv
  BY DEF patchInit
<1>1. log \in Seq(Entry) /\ Len(log) = 1
  <2>1. [gate |-> None, tab |-> t] \in Entry BY DEF Entry
  <2> QED BY <2>1
<1>2. state \in Table BY DEF Table, Peers
<1>3. Typed BY <1>1, <1>2 DEF Typed
<1>4. JournalIsTold BY <1>1 DEF JournalIsTold
<1>5. PlaceFits /\ SureIsExact BY DEF PlaceFits, SureIsExact, Sure
<1> QED BY <1>3, <1>4, <1>5 DEF PatchInv

\* The journal grows at its end, by an entry for one gate.
LEMMA PublishGrows ==
  ASSUME PatchInv, NEW g \in Own, NEW p \in Peers, Publish(g, p)
  PROVE  /\ log' \in Seq(Entry) /\ Len(log') = Len(log) + 1 /\ JournalIsTold'
         /\ \A k \in 1..Len(log) : log'[k] = log[k]
<1> DEFINE new == [gate |-> g, tab |-> [now EXCEPT ![g] = p]]
<1>1. log \in Seq(Entry) /\ Len(log) \in Nat /\ Len(log) >= 1 BY DEF PatchInv, Typed
<1>2. log[Len(log)] \in Entry BY <1>1
<1>3. now \in Table BY <1>2 DEF now, Entry
<1>4. new \in Entry BY <1>3 DEF Entry, Table
<1>5. log' = Append(log, new) BY DEF Publish
<1>6. /\ log' \in Seq(Entry) /\ Len(log') = Len(log) + 1 /\ log'[Len(log) + 1] = new
      /\ \A k \in 1..Len(log) : log'[k] = log[k]
  BY <1>1, <1>4, <1>5
<1>7. \A h \in Own : h # g => new.tab[h] = log[Len(log)].tab[h]
  BY <1>3 DEF now, Table
<1>8. JournalIsTold'
  <2> SUFFICES ASSUME NEW h \in Own, NEW i \in 1..(Len(log) + 1), NEW j \in 1..(Len(log) + 1),
                      i <= j, \A k \in (i + 1)..j : log'[k].gate # h
               PROVE  log'[i].tab[h] = log'[j].tab[h]
    BY <1>6 DEF JournalIsTold
  <2>1. CASE j <= Len(log)
    <3>1. \A k \in (i + 1)..j : log[k].gate # h
      <4>1. \A k \in (i + 1)..j : k \in 1..Len(log) BY <2>1, <1>1
      <4> QED BY <4>1, <1>6
    <3>2. i \in 1..Len(log) /\ j \in 1..Len(log) BY <2>1, <1>1
    <3>3. JournalIsTold BY DEF PatchInv
    <3>4. log[i].tab[h] = log[j].tab[h] BY <3>1, <3>2, <3>3 DEF JournalIsTold
    <3> QED BY <3>2, <3>4, <1>6
  <2>2. CASE i <= Len(log) /\ j = Len(log) + 1
    <3>1. h # g
      <4>1. log'[j].gate # h BY <2>2, <1>1
      <4> QED BY <4>1, <2>2, <1>6
    <3>2. \A k \in (i + 1)..Len(log) : log[k].gate # h BY <2>2, <1>1, <1>6
    <3>3. log[i].tab[h] = log[Len(log)].tab[h]
      <4>1. i \in 1..Len(log) /\ Len(log) \in 1..Len(log) BY <2>2, <1>1
      <4>2. JournalIsTold BY DEF PatchInv
      <4> QED BY <3>2, <4>1, <4>2 DEF JournalIsTold
    <3>4. log'[j].tab[h] = log[Len(log)].tab[h] BY <2>2, <3>1, <1>6, <1>7
    <3> QED BY <2>2, <3>3, <3>4, <1>1, <1>6
  <2>3. CASE i = j BY <2>3
  <2> QED BY <2>1, <2>2, <2>3, <1>1
<1> QED BY <1>6, <1>8

\* What HOME and other clients do is behind the cursor's back.
LEMMA HomeKeeps ==
  ASSUME PatchInv, UNCHANGED mirror,
         log' = log \/ \E g \in Own, p \in Peers : Publish(g, p)
  PROVE  PatchInv'
<1>1. UNCHANGED <<pc, snap, state, fresh, base, cursor>> BY DEF mirror
<1>2. CASE log' = log
  BY <1>1, <1>2 DEF PatchInv, Typed, JournalIsTold, PlaceFits, SureIsExact, Sure, HandledSince,
                    MissedIn
<1>3. CASE \E g \in Own, p \in Peers : Publish(g, p)
  <2>1. /\ log' \in Seq(Entry) /\ Len(log') = Len(log) + 1 /\ JournalIsTold'
        /\ \A k \in 1..Len(log) : log'[k] = log[k]
    BY <1>3, PublishGrows
  <2>2. Len(log) \in Nat /\ Len(log) >= 1 BY DEF PatchInv, Typed
  <2>3. Typed' BY <1>1, <2>1, <2>2 DEF PatchInv, Typed
  <2>4. PlaceFits' BY <1>1, <2>1, <2>2 DEF PatchInv, Typed, PlaceFits
  <2>5. SureIsExact'
    <3> SUFFICES ASSUME NEW g \in Own, Sure(g)'
                 PROVE  state'[g] = log'[cursor'].tab[g]
      BY DEF SureIsExact
    <3>1. pc = "online" /\ 1 <= base /\ base <= cursor /\ cursor <= Len(log)
      BY <1>1, <2>2 DEF Sure, PatchInv, PlaceFits, Typed
    <3>2. HandledSince(g)' => HandledSince(g) BY <1>1, <2>1, <2>2, <3>1 DEF HandledSince, PatchInv, Typed
    <3>3. MissedIn(g) => MissedIn(g)' BY <1>1, <2>1, <2>2 DEF MissedIn, PatchInv, Typed
    <3>4. Sure(g) BY <1>1, <3>2, <3>3 DEF Sure
    <3>5. state[g] = log[cursor].tab[g] BY <3>4 DEF PatchInv, SureIsExact
    <3>6. cursor \in 1..Len(log) BY <3>1, <2>2 DEF PatchInv, Typed
    <3> QED BY <1>1, <2>1, <3>5, <3>6
  <2> QED BY <2>1, <2>3, <2>4, <2>5 DEF PatchInv
<1> QED BY <1>2, <1>3

\* Asking, fetching and leaving.
LEMMA FetchKeeps ==
  ASSUME PatchInv, ServeGet \/ Enter \/ Sync \/ SyncError \/ Exit
  PROVE  PatchInv'
<1>1. log' = log /\ pc' # "online"
  BY DEF ServeGet, Enter, Sync, SyncError, Exit
<1>2. Len(log) \in Nat /\ Len(log) >= 1 BY DEF PatchInv, Typed
<1>3. Typed'
  <2>1. CASE Sync
    <3>1. snap \in 1..Len(log) BY <2>1, <1>2 DEF Sync, PatchInv, Typed
    <3>2. log[snap] \in Entry BY <3>1 DEF PatchInv, Typed
    <3>3. log[snap].tab \in Table BY <3>2 DEF Entry
    <3> QED BY <2>1, <1>1, <1>2, <3>1, <3>3 DEF Sync, PatchInv, Typed
  <2>2. CASE ServeGet \/ Enter \/ SyncError \/ Exit
    BY <2>2, <1>1, <1>2 DEF ServeGet, Enter, SyncError, Exit, PatchInv, Typed
  <2> QED BY <2>1, <2>2
<1>4. PlaceFits'
  BY <1>1, <1>2 DEF ServeGet, Enter, Sync, SyncError, Exit, PatchInv, PlaceFits
<1>5. JournalIsTold'
  <2>1. JournalIsTold /\ log' = log BY <1>1 DEF PatchInv
  <2> SUFFICES ASSUME NEW g \in Own, NEW i \in 1..Len(log), NEW j \in 1..Len(log),
                      i <= j, \A k \in (i + 1)..j : log[k].gate # g
               PROVE  log[i].tab[g] = log[j].tab[g]
    BY <2>1 DEF JournalIsTold
  <2> QED BY <2>1 DEF JournalIsTold
<1>6. SureIsExact' BY <1>1 DEF SureIsExact, Sure
<1> QED BY <1>3, <1>4, <1>5, <1>6 DEF PatchInv

\* What was fetched is right for the gates that nothing changed since.
LEMMA SubscribeKeeps ==
  ASSUME PatchInv, Subscribe
  PROVE  PatchInv'
<1>1. /\ pc = "subscribing" /\ pc' = "online" /\ base' = Len(log) /\ cursor' = Len(log)
      /\ UNCHANGED <<log, snap, state, fresh>>
  BY DEF Subscribe
<1>2. Len(log) \in Nat /\ Len(log) >= 1 /\ fresh \in 0..Len(log) BY DEF PatchInv, Typed
<1>3. Typed' BY <1>1, <1>2 DEF PatchInv, Typed
<1>4. JournalIsTold' BY SMTT(20), <1>1 DEF PatchInv, JournalIsTold
<1>5. PlaceFits' BY <1>1, <1>2 DEF PlaceFits
<1>6. SureIsExact'
  <2> SUFFICES ASSUME NEW g \in Own, Sure(g)'
               PROVE  state[g] = log[Len(log)].tab[g]
    BY <1>1 DEF SureIsExact
  <2>1. ~HandledSince(g)' BY <1>1, <1>2 DEF HandledSince
  <2>2. fresh # 0 /\ ~MissedIn(g)' BY <1>1, <2>1 DEF Sure
  <2>3. fresh \in 1..Len(log) /\ \A k \in (fresh + 1)..Len(log) : log[k].gate # g
    BY <1>1, <1>2, <2>2 DEF MissedIn
  <2>4. log[fresh].tab[g] = log[Len(log)].tab[g] BY <1>2, <2>3 DEF PatchInv, JournalIsTold
  <2> QED BY <1>1, <2>2, <2>4 DEF PatchInv, PlaceFits
<1> QED BY <1>3, <1>4, <1>5, <1>6 DEF PatchInv

\* One update of a gate is enough to make its entry right.
LEMMA DeliverKeeps ==
  ASSUME PatchInv, Deliver
  PROVE  PatchInv'
<1> DEFINE g0 == log[cursor + 1].gate
<1>1. /\ pc = "online" /\ cursor < Len(log) /\ cursor' = cursor + 1
      /\ state' = [state EXCEPT ![g0] = log[cursor + 1].tab[g0]]
      /\ UNCHANGED <<log, pc, snap, fresh, base>>
  BY DEF Deliver
<1>2. /\ Len(log) \in Nat /\ cursor \in Nat /\ base \in Nat
      /\ 1 <= base /\ base <= cursor /\ fresh <= base /\ state \in Table
  BY <1>1 DEF PatchInv, Typed, PlaceFits
<1>3. cursor + 1 \in 1..Len(log) /\ cursor \in 1..Len(log) BY <1>1, <1>2
<1>4. log[cursor + 1] \in Entry BY <1>3 DEF PatchInv, Typed
<1>5. Typed'
  <2>1. state' \in Table BY <1>1, <1>2, <1>4 DEF Entry, Table
  <2> QED BY <1>1, <1>2, <1>3, <2>1 DEF PatchInv, Typed
<1>6. JournalIsTold' BY <1>1 DEF PatchInv, JournalIsTold
<1>7. PlaceFits' BY <1>1, <1>2 DEF PlaceFits
<1>8. SureIsExact'
  <2> SUFFICES ASSUME NEW g \in Own, Sure(g)'
               PROVE  state'[g] = log[cursor + 1].tab[g]
    BY <1>1 DEF SureIsExact
  <2>1. CASE g = g0 BY <1>1, <1>2, <2>1 DEF Table
  <2>2. CASE g # g0
    <3>1. HandledSince(g)' => HandledSince(g)
      BY <1>1, <1>2, <2>2 DEF HandledSince
    <3>2. Sure(g) BY <1>1, <3>1 DEF Sure, MissedIn
    <3>3. state[g] = log[cursor].tab[g] BY <3>2 DEF PatchInv, SureIsExact
    <3>4. \A k \in (cursor + 1)..(cursor + 1) : log[k].gate # g
      <4>1. \A k \in (cursor + 1)..(cursor + 1) : k = cursor + 1 BY <1>2
      <4> QED BY <2>2, <4>1
    <3>5. log[cursor].tab[g] = log[cursor + 1].tab[g]
      BY <1>2, <1>3, <3>4 DEF PatchInv, JournalIsTold
    <3> QED BY <1>1, <1>2, <2>2, <3>3, <3>5 DEF Table
  <2> QED BY <2>1, <2>2
<1> QED BY <1>5, <1>6, <1>7, <1>8 DEF PatchInv

-----------------------------------------------------------------------------
LEMMA PatchInvStep == PatchInv /\ [patchNext]_patchVars => PatchInv'
<1> SUFFICES ASSUME PatchInv, [patchNext]_patchVars PROVE PatchInv'
  OBVIOUS
<1>1. CASE HomeStep
  <2>1. UNCHANGED mirror /\ (log' = log \/ \E g \in Own, p \in Peers : Publish(g, p))
    <3>1. ASSUME NEW g \in Own, NEW p \in Peers, HomeOther(g, p)
          PROVE  UNCHANGED mirror /\ Publish(g, p)
      BY <3>1 DEF HomeOther
    <3>2. ASSUME NEW g \in Own, NEW r \in Remote, HomeConnect(g, r)
          PROVE  UNCHANGED mirror /\ (log' = log \/ \E p \in Peers : Publish(g, p))
      <4>1. CASE now[g] = Gone BY <3>2, <4>1 DEF HomeConnect
      <4>2. CASE now[g] # Gone
        <5>1. log[Len(log)] \in Entry BY DEF PatchInv, Typed
        <5>2. now[g] \in SUBSET Remote BY <5>1, <4>2 DEF now, Entry, Table, Peers
        <5>3. now[g] \cup {r} \in Peers BY <5>2 DEF Peers
        <5> QED BY <3>2, <4>2, <5>3 DEF HomeConnect
      <4> QED BY <4>1, <4>2
    <3>3. ASSUME NEW g \in Own, HomeDisconnect(g)
          PROVE  UNCHANGED mirror /\ (log' = log \/ \E p \in Peers : Publish(g, p))
      <4>1. {} \in Peers BY DEF Peers
      <4> QED BY <3>3, <4>1 DEF HomeDisconnect
    <3> QED BY <1>1, <3>1, <3>2, <3>3 DEF HomeStep
  <2> QED BY <2>1, HomeKeeps
<1>2. CASE ServeGet \/ Enter \/ Exit BY <1>2, FetchKeeps
<1>3. CASE MirrorStep BY <1>3, FetchKeeps, SubscribeKeeps, DeliverKeeps DEF MirrorStep
<1>4. CASE \E c \in Calls : AskStep(c) \/ Accepted(c) \/ Refused(c) \/ WaitStep(c)
  <2>1. UNCHANGED mirror /\ log' = log
    BY <1>4 DEF AskStep, Connect, Disconnect, Accepted, Refused, WaitStep, PollShown, Timeout,
                NoAddress, Return
  <2> QED BY <2>1, HomeKeeps
<1>5. CASE UNCHANGED patchVars
  <2>1. UNCHANGED mirror /\ log' = log BY <1>5 DEF patchVars, mirror
  <2> QED BY <2>1, HomeKeeps
<1> QED BY <1>1, <1>2, <1>3, <1>4, <1>5 DEF patchNext

LEMMA PatchInvHolds == patchSpec => []PatchInv
<1> QED BY PatchInvInit, PatchInvStep, PTL DEF patchSpec

\* One update of an address since the subscription, or a fetch with nothing lost
\* before it, and its entry is what HOME had at the update handled last.
THEOREM SureHolds == patchSpec => []SureIsExact
<1>1. PatchInv => SureIsExact BY DEF PatchInv
<1> QED BY <1>1, PatchInvHolds, PTL

-----------------------------------------------------------------------------
(* What the waits of one device saw.                                        *)

Goals == Patches \cup Own

CallsFit ==
  /\ call \in [Calls -> [kind: {"none", "connect", "disconnect"}, want: SUBSET Goals,
                         left: SUBSET Goals, st: {"idle", "asked", "waiting", "ok",
                         "AddressConnectError", "AttributeError"}, asked: Nat,
                         seen: SUBSET (Goals \X Nat)]]
  /\ \A c \in Calls : /\ call[c].kind = "none" => call[c].left = {}
                      /\ call[c].kind = "connect" => call[c].left \subseteq Patches
                      /\ call[c].kind = "disconnect" => call[c].left \subseteq Own

LEMMA CallsFitInit == patchInit => CallsFit
<1> SUFFICES ASSUME call = [c \in Calls |-> Idle] PROVE CallsFit BY DEF patchInit
<1>1. \A c \in Calls : call[c].left = {} BY DEF Idle
<1>2. {} \subseteq Goals /\ {} \subseteq Goals \X Nat /\ 0 \in Nat OBVIOUS
<1> QED BY <1>1, <1>2 DEF CallsFit, Idle

LEMMA CallsFitStep ==
  ASSUME CallsFit, PatchInv, [patchNext]_patchVars
  PROVE  CallsFit'
<1>1. CASE HomeStep \/ ServeGet \/ Enter \/ MirrorStep \/ Exit \/ UNCHANGED patchVars
  <2>1. call' = call
    BY <1>1 DEF HomeStep, HomeOther, HomeConnect, HomeDisconnect, ServeGet, Enter, MirrorStep,
                Sync, SyncError, Subscribe, Deliver, Exit, patchVars
  <2> QED BY <2>1 DEF CallsFit
<1>2. ASSUME NEW c \in Calls, AskStep(c) PROVE CallsFit'
  <2>1. Len(log) \in Nat BY DEF PatchInv, Typed
  <2>2. ASSUME NEW C \in SUBSET Patches, Connect(c, C) PROVE CallsFit'
    BY <2>1, <2>2 DEF Connect, CallsFit, Goals
  <2>3. ASSUME NEW G \in SUBSET Own, Disconnect(c, G) PROVE CallsFit'
    BY <2>1, <2>3 DEF Disconnect, CallsFit, Goals
  <2> QED BY <1>2, <2>2, <2>3 DEF AskStep
<1>3. ASSUME NEW c \in Calls, NEW s \in {"waiting", "ok", "AddressConnectError", "AttributeError"},
             call' = [call EXCEPT ![c].st = s]
      PROVE  CallsFit'
  BY <1>3 DEF CallsFit
<1>4. ASSUME NEW c \in Calls, NEW x \in Goals, PollShown(c, x) PROVE CallsFit'
  <2>1. call' = [call EXCEPT ![c].left = @ \ {x}, ![c].seen = @ \cup {<<x, cursor>>}]
    BY <1>4 DEF PollShown
  <2>2. <<x, cursor>> \in Goals \X Nat BY DEF PatchInv, Typed
  <2>3. /\ call[c].left \ {x} \subseteq call[c].left
        /\ call[c].seen \cup {<<x, cursor>>} \subseteq Goals \X Nat
    BY <2>2 DEF CallsFit
  <2> DEFINE rest == call[c].left \ {x}
             seen == call[c].seen \cup {<<x, cursor>>}
  <2>4. call' = [call EXCEPT ![c].left = rest, ![c].seen = seen] BY <2>1
  <2>5. rest \subseteq call[c].left /\ seen \in SUBSET (Goals \X Nat) BY <2>3
  <2> HIDE DEF rest, seen
  <2>6. ASSUME NEW d \in Calls
        PROVE  /\ call'[d].kind = call[d].kind
               /\ call'[d].left \subseteq call[d].left
    BY <2>4, <2>5 DEF CallsFit
  <2>7. rest \in SUBSET Goals BY <2>5 DEF CallsFit
  <2> DEFINE T == [kind: {"none", "connect", "disconnect"}, want: SUBSET Goals,
                   left: SUBSET Goals, st: {"idle", "asked", "waiting", "ok",
                   "AddressConnectError", "AttributeError"}, asked: Nat,
                   seen: SUBSET (Goals \X Nat)]
  <2>8. call'[c] \in T /\ call' = [call EXCEPT ![c] = call'[c]]
    BY ZenonT(30), <2>4, <2>5, <2>7 DEF CallsFit
  <2>9. call \in [Calls -> T] BY DEF CallsFit
  <2> HIDE DEF T
  <2>10. call' \in [Calls -> T] BY <2>8, <2>9
  <2> QED BY <2>6, <2>10 DEF CallsFit, T
<1>5. ASSUME NEW c \in Calls, Accepted(c) \/ Refused(c) PROVE CallsFit'
  BY <1>3, <1>5 DEF Accepted, Refused
<1>6. ASSUME NEW c \in Calls, WaitStep(c) PROVE CallsFit'
  <2>1. ASSUME NEW x, Timeout(c, x) PROVE CallsFit' BY <1>3, <2>1 DEF Timeout
  <2>2. ASSUME NEW x, NoAddress(c, x) PROVE CallsFit' BY <1>3, <2>2 DEF NoAddress
  <2>3. CASE Return(c) BY <1>3, <2>3 DEF Return
  <2> QED BY <1>4, <1>6, <2>1, <2>2, <2>3 DEF WaitStep, Goals
<1> QED BY <1>1, <1>2, <1>5, <1>6 DEF patchNext

\* A step that adds to what a wait has seen is a poll.
LEMMA SeenByPolls ==
  ASSUME CallsFit, [patchNext]_patchVars, NEW c \in Calls,
         NEW e \in call'[c].seen \ call[c].seen
  PROVE  /\ call'[c].kind = call[c].kind
         /\ \E x \in call[c].left : Shown(call[c].kind, x) /\ e = <<x, cursor>>
         /\ UNCHANGED log
<1>1. CASE HomeStep \/ ServeGet \/ Enter \/ MirrorStep \/ Exit \/ UNCHANGED patchVars
  <2>1. call' = call
    BY <1>1 DEF HomeStep, HomeOther, HomeConnect, HomeDisconnect, ServeGet, Enter, MirrorStep,
                Sync, SyncError, Subscribe, Deliver, Exit, patchVars
  <2> QED BY <2>1
<1>2. ASSUME NEW d \in Calls, AskStep(d) PROVE FALSE
  BY <1>2 DEF AskStep, Connect, Disconnect, CallsFit
<1>3. ASSUME NEW d \in Calls, NEW s, call' = [call EXCEPT ![d].st = s] PROVE FALSE
  BY <1>3 DEF CallsFit
<1>4. ASSUME NEW d \in Calls, Accepted(d) \/ Refused(d) PROVE FALSE
  BY <1>3, <1>4 DEF Accepted, Refused
<1>5. ASSUME NEW d \in Calls, WaitStep(d)
      PROVE  \E x : PollShown(d, x)
  BY <1>3, <1>5 DEF WaitStep, Timeout, NoAddress, Return
<1>6. ASSUME NEW d \in Calls, NEW x, PollShown(d, x)
      PROVE  /\ call'[c].kind = call[c].kind
             /\ \E y \in call[c].left : Shown(call[c].kind, y) /\ e = <<y, cursor>>
             /\ UNCHANGED log
  <2>1. /\ call' = [call EXCEPT ![d].left = @ \ {x}, ![d].seen = @ \cup {<<x, cursor>>}]
        /\ x \in call[d].left /\ Shown(call[d].kind, x) /\ UNCHANGED log
    BY <1>6 DEF PollShown
  <2>2. call'[c].kind = call[c].kind BY <2>1 DEF CallsFit
  <2>3. c = d BY <2>1 DEF CallsFit
  <2>4. call'[c].seen = call[c].seen \cup {<<x, cursor>>} BY <2>1, <2>3 DEF CallsFit
  <2> QED BY <2>1, <2>2, <2>3, <2>4
<1> QED BY <1>1, <1>2, <1>4, <1>5, <1>6 DEF patchNext

\* No wait of connect or disconnect ends on a patch HOME never had, as far as
\* the dictionary is sure of the gate (_wait_for_connection).
THEOREM SeenHolds == patchSpec => SeenIsBacked
<1> DEFINE seenNow == \A c \in Calls : \A e \in call'[c].seen \ call[c].seen :
              Sure(IF call[c].kind = "connect" THEN e[1][1] ELSE e[1])
              => Backed(call[c].kind, e[1], e[2])
<1>1. PatchInv /\ CallsFit /\ [patchNext]_patchVars => seenNow
  <2> SUFFICES ASSUME PatchInv, CallsFit, [patchNext]_patchVars, NEW c \in Calls,
                      NEW e \in call'[c].seen \ call[c].seen,
                      Sure(IF call[c].kind = "connect" THEN e[1][1] ELSE e[1])
               PROVE  Backed(call[c].kind, e[1], e[2])
    OBVIOUS
  <2>1. PICK x \in call[c].left : Shown(call[c].kind, x) /\ e = <<x, cursor>>
    BY SeenByPolls
  <2>2. e[1] = x /\ e[2] = cursor BY <2>1
  <2>3. call[c].kind \in {"connect", "disconnect"}
        /\ (call[c].kind = "connect" => x \in Patches)
        /\ (call[c].kind = "disconnect" => x \in Own)
    BY <2>1 DEF CallsFit
  <2>4. SureIsExact BY DEF PatchInv
  <2>5. CASE call[c].kind = "connect"
    <3>1. x[1] \in Own /\ Sure(x[1]) BY <2>2, <2>3, <2>5 DEF Patches
    <3>2. state[x[1]] = log[cursor].tab[x[1]] BY <3>1, <2>4 DEF SureIsExact
    <3> QED BY <3>2, <2>1, <2>2, <2>5 DEF Shown, Backed
  <2>6. CASE call[c].kind = "disconnect"
    <3>1. x \in Own /\ Sure(x) BY <2>2, <2>3, <2>6
    <3>2. state[x] = log[cursor].tab[x] BY <3>1, <2>4 DEF SureIsExact
    <3> QED BY <3>2, <2>1, <2>2, <2>6 DEF Shown, Backed
  <2> QED BY <2>3, <2>5, <2>6
<1>2. PatchInv /\ CallsFit /\ [patchNext]_patchVars => [seenNow]_patchVars BY <1>1
<1>3. CallsFit /\ PatchInv /\ [patchNext]_patchVars => CallsFit' BY CallsFitStep
<1> HIDE DEF seenNow
<1>4. patchSpec => [][seenNow]_patchVars
  BY <1>2, <1>3, CallsFitInit, PatchInvHolds, PTL DEF patchSpec
<1> QED BY <1>4 DEF SeenIsBacked, seenNow

-----------------------------------------------------------------------------
(* Several devices: lists.                                                  *)

LEMMA LeastIs ==
  ASSUME NEW S, S \subseteq Nat, S # {}
  PROVE  \E x \in S : \A y \in S : x <= y
<1> DEFINE R == {ss \in Nat \X Nat : ss[1] < ss[2]}
<1>1. IsWellFoundedOn(R, Nat) BY NatLessThanWellFounded DEF OpToRel
<1>2. \A x, y \in Nat : <<y, x>> \in R <=> y < x OBVIOUS
<1> HIDE DEF R
<1>3. \E x \in S : \A y \in S : ~ (<<y, x>> \in R) BY <1>1, WFMin
<1>4. PICK x \in S : \A y \in S : ~ (<<y, x>> \in R) BY <1>3
<1>5. ASSUME NEW y \in S PROVE x <= y
  <2>1. x \in Nat /\ y \in Nat /\ ~ (y < x) BY <1>2, <1>4
  <2> QED BY <2>1
<1> QED BY <1>5

\* f[m] are the first m lists, one after the other.
IsFlat(f, seqs, n) ==
  f = [i \in 1..n |-> IF i = 1 THEN seqs[i] ELSE f[i - 1] \o seqs[i]]

LEMMA FlatExists ==
  ASSUME NEW seqs, NEW n \in Nat
  PROVE  \E f : IsFlat(f, seqs, n)
<1> DEFINE T == {m \in Nat : ~\E f : IsFlat(f, seqs, m)}
<1> SUFFICES ASSUME T # {} PROVE FALSE OBVIOUS
<1>1. PICK m \in T : \A k \in T : m <= k BY LeastIs
<1>2. m # 0
  <2>1. IsFlat([i \in 1..0 |-> seqs], seqs, 0) BY DEF IsFlat
  <2> QED BY <2>1
<1>3. m \in Nat /\ m - 1 \in Nat /\ m - 1 \notin T BY <1>1, <1>2
<1>4. PICK f : IsFlat(f, seqs, m - 1) BY <1>3
<1> DEFINE last == IF m = 1 THEN seqs[m] ELSE f[m - 1] \o seqs[m]
           g == [i \in 1..m |-> IF i = m THEN last ELSE f[i]]
<1>5. \A i \in 1..(m - 1) : f[i] = IF i = 1 THEN seqs[i] ELSE f[i - 1] \o seqs[i]
  BY <1>4 DEF IsFlat
<1>6. ASSUME NEW i \in 1..m
      PROVE  g[i] = IF i = 1 THEN seqs[i] ELSE g[i - 1] \o seqs[i]
  <2>1. CASE i = m
    <3>1. i # 1 => i - 1 \in 1..m /\ i - 1 # m BY <1>3, <2>1
    <3>2. i # 1 => g[i - 1] = f[i - 1] BY <3>1
    <3> QED BY <2>1, <3>2
  <2>2. CASE i # m
    <3>1. i \in 1..(m - 1) BY <2>2, <1>3
    <3>2. i # 1 => i - 1 \in 1..m /\ i - 1 # m BY <3>1, <1>3
    <3>3. i # 1 => g[i - 1] = f[i - 1] BY <3>2
    <3> QED BY <2>2, <3>1, <3>3, <1>5
  <2> QED BY <2>1, <2>2
<1>7. IsFlat(g, seqs, m)
  <2>1. g = [i \in 1..m |-> g[i]] OBVIOUS
  <2> HIDE DEF g
  <2> QED BY <1>6, <2>1 DEF IsFlat
<1> QED BY <1>3, <1>7

\* The lists of seqs stand in q from the places `off' on.
Lies(q, seqs, n, off) ==
  /\ off \in [1..(n + 1) -> Nat] /\ off[1] = 0 /\ Len(q) = off[n + 1]
  /\ \A i \in 1..n : /\ off[i + 1] = off[i] + Len(seqs[i])
                     /\ \A k \in 1..Len(seqs[i]) : q[off[i] + k] = seqs[i][k]

\* q is s and then t.
Joined(q, s, t) ==
  /\ Len(q) = Len(s) + Len(t)
  /\ \A k \in 1..Len(s) : q[k] = s[k]
  /\ \A k \in 1..Len(t) : q[Len(s) + k] = t[k]

LEMMA Joining ==
  ASSUME NEW S, NEW s \in Seq(S), NEW t \in Seq(S)
  PROVE  Joined(s \o t, s, t) /\ s \o t \in Seq(S)
BY DEF Joined

LEMMA OffGrows ==
  ASSUME NEW S, NEW n \in Nat, NEW seqs, \A i \in 1..n : seqs[i] \in Seq(S),
         NEW q, NEW off, Lies(q, seqs, n, off)
  PROVE  \A i \in 1..(n + 1) : off[i] <= off[n + 1]
<1> DEFINE T == {m \in 0..n : ~(off[n + 1 - m] <= off[n + 1])}
<1> SUFFICES ASSUME T # {} PROVE FALSE
  <2> SUFFICES ASSUME T = {}, NEW i \in 1..(n + 1) PROVE off[i] <= off[n + 1] OBVIOUS
  <2>1. n + 1 - i \in 0..n /\ n + 1 - (n + 1 - i) = i OBVIOUS
  <2> QED BY <2>1
<1>1. PICK m \in T : \A k \in T : m <= k
  <2>1. T \subseteq Nat OBVIOUS
  <2> QED BY <2>1, LeastIs
<1>2. m # 0 BY <1>1 DEF Lies
<1>3. m \in 1..n /\ m - 1 \in 0..n /\ m - 1 \notin T
  <2>1. m \in 0..n OBVIOUS
  <2> HIDE DEF T
  <2>2. m \in 1..n /\ m - 1 \in 0..n /\ ~(m <= m - 1) BY <2>1, <1>2
  <2> QED BY <2>2, <1>1
<1> DEFINE i == n + 1 - m
<1>4. i \in 1..n /\ n + 1 - (m - 1) = i + 1 BY <1>3
<1>5. off[i + 1] <= off[n + 1] BY <1>3, <1>4
<1>6. off[i + 1] = off[i] + Len(seqs[i]) /\ Len(seqs[i]) \in Nat BY <1>4 DEF Lies
<1>7. i \in 1..(n + 1) /\ i + 1 \in 1..(n + 1) /\ n + 1 \in 1..(n + 1) BY <1>4
<1>8. off[i] \in Nat /\ off[i + 1] \in Nat /\ off[n + 1] \in Nat BY <1>7 DEF Lies
<1> QED BY <1>1, <1>5, <1>6, <1>8

\* The lists one after the other.
LEMMA Flattens ==
  ASSUME NEW S, NEW n \in Nat \ {0}, NEW seqs \in [1..n -> Seq(S)]
  PROVE  /\ FlattenSeq(seqs) \in Seq(S)
         /\ \E off : Lies(FlattenSeq(seqs), seqs, n, off)
<1> DEFINE f == CHOOSE f : IsFlat(f, seqs, n)
<1>1. IsFlat(f, seqs, n) BY FlatExists
<1>2. Len(seqs) = n OBVIOUS
<1>3. FlattenSeq(seqs) = f[n] BY <1>2 DEF FlattenSeq, IsFlat
<1> HIDE DEF f
<1>4. \A i \in 1..n : f[i] = IF i = 1 THEN seqs[i] ELSE f[i - 1] \o seqs[i]
  BY <1>1 DEF IsFlat
<1> DEFINE T == {m \in 1..n : ~(f[m] \in Seq(S) /\ \E off : Lies(f[m], seqs, m, off))}
<1> SUFFICES ASSUME T # {} PROVE FALSE
  <2> SUFFICES ASSUME T = {}
               PROVE  f[n] \in Seq(S) /\ \E off : Lies(f[n], seqs, n, off)
    BY <1>3
  <2>1. n \in 1..n OBVIOUS
  <2>2. n \notin T OBVIOUS
  <2> QED BY <2>1, <2>2
<1>5. PICK m \in T : \A k \in T : m <= k
  <2>1. T \subseteq Nat OBVIOUS
  <2> QED BY <2>1, LeastIs
<1>6. seqs[m] \in Seq(S) /\ Len(seqs[m]) \in Nat /\ m \in 1..n OBVIOUS
<1>7. CASE m = 1
  <2>1. f[m] = seqs[m] BY <1>4, <1>7
  <2> DEFINE off == [i \in 1..(1 + 1) |-> IF i = 1 THEN 0 ELSE Len(seqs[1])]
  <2>2. off \in [1..(1 + 1) -> Nat] /\ off[1] = 0 /\ off[1 + 1] = Len(seqs[1])
    BY <1>6, <1>7
  <2> HIDE DEF off
  <2>3. \A i \in 1..1 : i = 1 OBVIOUS
  <2>4. \A k \in 1..Len(seqs[1]) : 0 + k = k OBVIOUS
  <2>5. Lies(seqs[1], seqs, 1, off) BY <2>2, <2>3, <2>4, <1>6, <1>7 DEF Lies
  <2> QED BY <1>5, <1>6, <1>7, <2>1, <2>5
<1>8. CASE m # 1
  <2>1. m - 1 \in 1..n /\ m - 1 \notin T /\ m \in Nat /\ m - 1 \in Nat
    <3> HIDE DEF T
    <3>1. m - 1 \in 1..n /\ m \in Nat /\ ~(m <= m - 1) BY <1>6, <1>8
    <3> QED BY <3>1, <1>5
  <2>2. f[m - 1] \in Seq(S) BY <2>1
  <2>3. PICK off : Lies(f[m - 1], seqs, m - 1, off) BY <2>1
  <2>4. f[m] = f[m - 1] \o seqs[m] BY <1>4, <1>8
  <2>5. Joined(f[m], f[m - 1], seqs[m]) /\ f[m] \in Seq(S)
    BY <2>2, <2>4, <1>6, Joining
  <2> DEFINE new == [i \in 1..(m + 1) |-> IF i = m + 1 THEN off[m] + Len(seqs[m]) ELSE off[i]]
  <2>6. (m - 1) + 1 = m /\ m \in 1..m BY <2>1
  <2>7. off \in [1..m -> Nat] /\ off[m] \in Nat /\ Len(f[m - 1]) = off[m] /\ off[1] = 0
    BY <2>3, <2>6 DEF Lies
  <2>8. /\ new \in [1..(m + 1) -> Nat] /\ new[m + 1] = off[m] + Len(seqs[m])
        /\ \A i \in 1..m : new[i] = off[i]
    <3>1. \A i \in 1..m : i \in 1..(m + 1) /\ i # m + 1 BY <2>1
    <3>2. \A i \in 1..(m + 1) : i # m + 1 => i \in 1..m BY <2>1
    <3>3. m + 1 \in 1..(m + 1) BY <2>1
    <3> QED BY <2>7, <3>1, <3>2, <3>3, <1>6
  <2> HIDE DEF new
  <2>9. Len(f[m]) = new[m + 1] BY <2>5, <2>7, <2>8 DEF Joined
  <2>10. ASSUME NEW i \in 1..m
         PROVE  /\ new[i + 1] = new[i] + Len(seqs[i])
                /\ \A k \in 1..Len(seqs[i]) : f[m][new[i] + k] = seqs[i][k]
    <3>1. CASE i = m
      <4>1. new[i] = off[m] BY <3>1, <2>8
      <4>2. \A k \in 1..Len(seqs[m]) : f[m][off[m] + k] = seqs[m][k] BY <2>5, <2>7 DEF Joined
      <4> QED BY <3>1, <4>1, <4>2, <2>8
    <3>2. CASE i # m
      <4>1. i \in 1..(m - 1) /\ i + 1 \in 1..m BY <3>2, <2>1
      <4>2. /\ off[i + 1] = off[i] + Len(seqs[i])
            /\ \A k \in 1..Len(seqs[i]) : f[m - 1][off[i] + k] = seqs[i][k]
        BY <4>1, <2>3 DEF Lies
      <4>3. off[i] \in Nat /\ off[i + 1] \in Nat /\ off[i + 1] <= off[m]
        <5>1. \A j \in 1..(m - 1) : seqs[j] \in Seq(S) BY <2>1
        <5>2. \A j \in 1..((m - 1) + 1) : off[j] <= off[(m - 1) + 1]
          BY <2>1, <2>3, <5>1, OffGrows, Zenon
        <5> QED BY <5>2, <4>1, <2>6, <2>7
      <4>4. seqs[i] \in Seq(S) /\ Len(seqs[i]) \in Nat BY <4>1, <2>1
      <4>5. \A k \in 1..Len(seqs[i]) : off[i] + k \in 1..Len(f[m - 1])
        <5> HIDE DEF T
        <5>1. off[i] + Len(seqs[i]) <= off[m] BY <4>2, <4>3
        <5>2. ASSUME NEW k \in 1..Len(seqs[i]) PROVE off[i] + k \in 1..off[m]
          BY SMTT(20), <5>1, <4>3, <4>4, <2>7
        <5> QED BY <5>2, <2>7
      <4>6. \A k \in 1..Len(seqs[i]) : f[m][off[i] + k] = seqs[i][k]
        BY <4>2, <4>5, <2>5 DEF Joined
      <4> QED BY <4>1, <4>2, <4>6, <2>8
    <3> QED BY <3>1, <3>2
  <2>11. new[1] = 0 BY <2>1, <2>7, <2>8
  <2>12. Lies(f[m], seqs, m, new) BY <2>8, <2>9, <2>10, <2>11 DEF Lies
  <2> QED BY <1>5, <2>5, <2>12
<1> QED BY <1>7, <1>8

-----------------------------------------------------------------------------
(* The invariant of the calls.                                             *)

\* How many of the receivers have had their turn.
Done == Len(asked) - Len(sinks)

\* The sords of the devices still to come stand in the list from Done on: those
\* of the i-th from off[i] on.  They are all that is left of it, except for a
\* single sord repeated for a device that does not hold it.
Aligned(off) ==
  /\ off \in [1..(Len(turns) + 1) -> Int] /\ off[1] = 0
  /\ \A i \in 1..(Len(turns) + 1) : off[i] <= Len(sinks)
  /\ \/ off[Len(turns) + 1] = Len(sinks)
     \/ Len(turns) = 1 /\ sources[turns[1]] = <<>>
  /\ \A i \in 1..Len(turns) :
       /\ off[i + 1] = off[i] + Len(sources[turns[i]])
       /\ \A k \in 1..Len(sources[turns[i]]) :
            asked[Done + off[i] + k][1] = sources[turns[i]][k]

SinksFit ==
  /\ Len(sinks) <= Len(asked)
  /\ \A j \in 1..Len(sinks) : asked[Done + j][2] = sinks[j]

\* Gates of receivers that had their turn are ordered as wanted, others as before.
OrderedFits ==
  \A g \in Gates(RxSords) :
    \/ (\E j \in 1..Done : asked[j][2] = g[1]) /\ ordered[g] = Wanted(g)
    \/ (\A j \in 1..Done : asked[j][2] # g[1]) /\ ordered[g] = before[g]

ConnectTypes ==
  /\ DOMAIN ordered = Gates(RxSords)
  /\ turns \in Seq(Devices) /\ sources \in [Devices -> Seq(TxSords)]
  /\ sinks \in Seq(RxSords) /\ asked \in Seq(TxSords \X RxSords)
  /\ \A i, j \in 1..Len(asked) : asked[i][2] = asked[j][2] => i = j

ConnectInv ==
  /\ ConnectTypes
  /\ stage = "disconnect" => asked = <<>>
  /\ (asked # <<>> \/ stage = "connect") => SinksFit /\ OrderedFits
  /\ stage = "connect" => \E off : Aligned(off)
  /\ (stage = "returned" /\ asked # <<>>) => Len(sinks) = 0

LEMMA ConnectInvInit == connectInit => ConnectInv
<1> SUFFICES ASSUME connectInit PROVE ConnectInv OBVIOUS
<1>1. /\ DOMAIN ordered = Gates(RxSords) /\ asked = <<>> /\ turns = <<>>
      /\ sources = [d \in Devices |-> <<>>] /\ sinks = <<>> /\ stage = "returned"
  BY DEF connectInit
<1>2. ConnectTypes
  <2>1. <<>> \in Seq(TxSords) OBVIOUS
  <2> QED BY <1>1, <2>1 DEF ConnectTypes
<1> QED BY <1>1, <1>2 DEF ConnectInv

-----------------------------------------------------------------------------
(* The calls.                                                              *)

\* What is left of a list without its first l.
LEMMA Rest ==
  ASSUME NEW s \in Seq(RxSords), NEW l \in Nat
  PROVE  /\ SubSeq(s, l + 1, Len(s)) \in Seq(RxSords)
         /\ l <= Len(s) =>
              /\ Len(SubSeq(s, l + 1, Len(s))) = Len(s) - l
              /\ \A j \in 1..(Len(s) - l) : SubSeq(s, l + 1, Len(s))[j] = s[l + j]
<1>1. Len(s) \in Nat /\ \A i \in (l + 1)..Len(s) : s[i] \in RxSords OBVIOUS
<1> DEFINE t == SubSeq(s, l + 1, Len(s))
<1>2. /\ t \in Seq(RxSords) /\ Len(t) = IF l + 1 <= Len(s) THEN Len(s) - (l + 1) + 1 ELSE 0
      /\ \A j \in 1..(Len(s) - (l + 1) + 1) : t[j] = s[l + 1 + j - 1]
  BY <1>1, SubSeqProperties
<1> HIDE DEF t
<1>3. ASSUME l <= Len(s) PROVE Len(t) = Len(s) - l BY <1>1, <1>2, <1>3
<1>4. ASSUME NEW j \in 1..(Len(s) - l) PROVE t[j] = s[l + j]
  <2>1. j \in 1..(Len(s) - (l + 1) + 1) /\ l + 1 + j - 1 = l + j BY <1>1
  <2> QED BY <2>1, <1>2
<1> QED BY <1>2, <1>3, <1>4 DEF t

LEMMA FunctionIsList ==
  ASSUME NEW S, NEW n \in Nat, NEW f \in [1..n -> S]
  PROVE  f \in Seq(S) /\ Len(f) = n
OBVIOUS

LEMMA OrderIsList ==
  ASSUME NEW S, S \subseteq Sords, NEW o \in Orders({Holder[s] : s \in S})
  PROVE  o \in Seq(Devices) /\ Len(o) \in Nat \ {0} /\ DOMAIN o = 1..Len(o)
<1>1. PICK T \in SUBSET {Holder[s] : s \in S} : T # {} /\ o \in SetToSeqs(T) BY DEF Orders
<1>2. IsFiniteSet(T)
  <2>1. IsFiniteSet(Sords) BY ConnectAssumption, FS_Union DEF Sords
  <2>2. IsFiniteSet(S) BY <2>1, FS_Subset
  <2>3. IsFiniteSet({Holder[s] : s \in S})
    <3> DEFINE f == [s \in S |-> Holder[s]]
    <3>1. f \in Surjection(S, {Holder[s] : s \in S}) BY DEF Surjection
    <3> QED BY <2>2, <3>1, FS_Surjection
  <2> QED BY <2>3, FS_Subset
<1>3. Cardinality(T) \in Nat /\ Cardinality(T) # 0 BY <1>1, <1>2, FS_CardinalityType, FS_EmptySet
<1>4. o \in [1..Cardinality(T) -> T] BY <1>1 DEF SetToSeqs
<1>5. T \subseteq Devices BY <1>1 DEF Devices
<1>6. o \in [1..Cardinality(T) -> Devices] BY <1>4, <1>5
<1> QED BY <1>3, <1>6

LEMMA ReceiversAreList ==
  ASSUME NEW T \in SUBSET RxSords, NEW rx \in SetToSeqs(T)
  PROVE  rx \in Seq(RxSords) /\ \A i, j \in 1..Len(rx) : rx[i] = rx[j] => i = j
<1>1. IsFiniteSet(T) BY ConnectAssumption, FS_Subset
<1>2. Cardinality(T) \in Nat BY <1>1, FS_CardinalityType
<1>3. rx \in [1..Cardinality(T) -> T] /\ \A i, j \in 1..Cardinality(T) : i # j => rx[i] # rx[j]
  BY DEF SetToSeqs
<1>4. rx \in [1..Cardinality(T) -> RxSords] BY <1>3
<1> QED BY <1>2, <1>3, <1>4

LEMMA MapsAreLists == Maps \subseteq [Devices -> Seq(TxSords)]
<1>1. SeqOf(TxSords, MaxListed) \subseteq Seq(TxSords)
  <2> SUFFICES ASSUME NEW s \in SeqOf(TxSords, MaxListed) PROVE s \in Seq(TxSords) OBVIOUS
  <2>1. PICK m \in 0..MaxListed : s \in [1..m -> TxSords] BY DEF SeqOf
  <2>2. m \in Nat BY ConnectAssumption
  <2> QED BY <2>1, <2>2
<1> QED BY <1>1 DEF Maps

LEMMA DisconnectStarts ==
  ASSUME ConnectInv, NEW o \in Seq(Devices), NEW t, CallDisconnect(o, t)
  PROVE  ConnectInv'
<1>1. /\ turns' = o /\ stage' = "disconnect" /\ asked' = <<>>
      /\ UNCHANGED <<ordered, sources, sinks>>
  BY DEF CallDisconnect, ConnectCall
<1> QED BY <1>1 DEF ConnectInv, ConnectTypes

LEMMA ConnectStarts ==
  ASSUME ConnectInv, NEW o \in Seq(Devices), Len(o) \in Nat \ {0},
         NEW src \in [Devices -> Seq(TxSords)], NEW rx \in Seq(RxSords),
         \A i, j \in 1..Len(rx) : rx[i] = rx[j] => i = j,
         CallConnect(o, src, rx)
  PROVE  ConnectInv'
<1> DEFINE seqs == [n \in DOMAIN o |-> src[o[n]]]
           all == FlattenSeq(seqs)
           n == Len(o)
<1>1. n \in Nat \ {0} /\ DOMAIN o = 1..n /\ o[1] \in Devices OBVIOUS
<1>2. seqs \in [1..n -> Seq(TxSords)] /\ \A i \in 1..n : seqs[i] = src[o[i]]
  OBVIOUS
<1> HIDE DEF seqs
<1>3. all \in Seq(TxSords) /\ \E off : Lies(all, seqs, n, off) BY <1>1, <1>2, Flattens
<1>4. PICK off : Lies(all, seqs, n, off) BY <1>3
<1>5. PICK single \in BOOLEAN : single = (Len(all) = 1) OBVIOUS
<1> DEFINE repeated == [d \in Devices |-> IF d = o[1] /\ src[d] # <<>>
                                          THEN [j \in DOMAIN rx |-> src[d][1]] ELSE <<>>]
<1>6. /\ turns' = IF single THEN <<o[1]>> ELSE o
      /\ sources' = IF single THEN repeated ELSE src
      /\ stage' = IF single \/ Len(all) = Len(rx) THEN "connect" ELSE "raised"
      /\ asked' = IF single \/ Len(all) = Len(rx)
                  THEN [j \in DOMAIN rx |-> <<all[IF single THEN 1 ELSE j], rx[j]>>]
                  ELSE <<>>
      /\ sinks' = rx /\ before' = ordered /\ ordered' = ordered
  BY <1>5 DEF CallConnect, ConnectCall, seqs
<1> HIDE DEF all
<1>7. repeated \in [Devices -> Seq(TxSords)]
  <2> SUFFICES ASSUME NEW d \in Devices, d = o[1], src[d] # <<>>
               PROVE  [j \in DOMAIN rx |-> src[d][1]] \in Seq(TxSords)
    <3>1. <<>> \in Seq(TxSords) OBVIOUS
    <3> QED BY <3>1
  <2>1. src[d] \in Seq(TxSords) /\ src[d][1] \in TxSords OBVIOUS
  <2>2. DOMAIN rx = 1..Len(rx) /\ Len(rx) \in Nat OBVIOUS
  <2> QED BY <2>1, <2>2
<1>8. DOMAIN rx = 1..Len(rx) /\ Len(rx) \in Nat OBVIOUS
<1>9. CASE ~(single \/ Len(all) = Len(rx))
  <2>1. asked' = <<>> /\ stage' = "raised" /\ turns' = o /\ sources' = src BY <1>6, <1>9
  <2>2. ConnectTypes' BY <2>1, <1>6 DEF ConnectInv, ConnectTypes
  <2> QED BY <2>1, <2>2 DEF ConnectInv
<1>10. CASE single \/ Len(all) = Len(rx)
  <2>1. /\ stage' = "connect"
        /\ asked' = [j \in 1..Len(rx) |-> <<all[IF single THEN 1 ELSE j], rx[j]>>]
    BY <1>6, <1>8, <1>10
  <2>2. \A j \in 1..Len(rx) : all[IF single THEN 1 ELSE j] \in TxSords
    <3>1. CASE single
      <4>1. Len(all) = 1 BY <3>1, <1>5
      <4>2. all[1] \in TxSords
        <5>1. all \in Seq(TxSords) /\ 1 \in 1..Len(all) BY <4>1, <1>3
        <5> QED BY <5>1
      <4> QED BY <3>1, <4>2
    <3>2. CASE ~single
      <4>1. Len(all) = Len(rx) BY <3>2, <1>10
      <4> QED BY <3>2, <4>1, <1>3
    <3> QED BY <3>1, <3>2
  <2>3. /\ asked' \in Seq(TxSords \X RxSords) /\ Len(asked') = Len(rx)
        /\ \A j \in 1..Len(rx) : /\ asked'[j][1] = all[IF single THEN 1 ELSE j]
                                 /\ asked'[j][2] = rx[j]
    <3>1. \A j \in 1..Len(rx) : rx[j] \in RxSords OBVIOUS
    <3>2. asked' \in [1..Len(rx) -> TxSords \X RxSords] BY <2>1, <2>2, <3>1
    <3>3. asked' \in Seq(TxSords \X RxSords) /\ Len(asked') = Len(rx)
      BY <3>2, <1>8, FunctionIsList
    <3> QED BY <2>1, <3>3
  <2>4. turns' \in Seq(Devices) /\ sources' \in [Devices -> Seq(TxSords)]
    <3>1. <<o[1]>> \in Seq(Devices) BY <1>1
    <3> QED BY <1>6, <1>7, <3>1
  <2>5. ConnectTypes'
    <3>1. \A i, j \in 1..Len(asked') : asked'[i][2] = asked'[j][2] => i = j
      <4> SUFFICES ASSUME NEW i \in 1..Len(rx), NEW j \in 1..Len(rx), rx[i] = rx[j]
                   PROVE  i = j
        BY <2>3
      <4> QED OBVIOUS
    <3>2. DOMAIN ordered' = Gates(RxSords) BY <1>6 DEF ConnectInv, ConnectTypes
    <3>3. sinks' \in Seq(RxSords) BY <1>6
    <3> HIDE DEF repeated
    <3> QED BY <2>3, <2>4, <3>1, <3>2, <3>3 DEF ConnectTypes
  <2>6. Done' = 0 BY <2>3, <1>6, <1>8 DEF Done
  <2>7. SinksFit' BY <2>3, <2>6, <1>6, <1>8 DEF SinksFit
  <2>8. OrderedFits' BY <2>6, <1>6 DEF OrderedFits
  <2>9. \E z : Aligned(z)'
    <3>2. CASE ~single
      <4>1. turns' = o /\ sources' = src /\ Len(all) = Len(rx) /\ sinks' = rx
        BY <3>2, <1>6, <1>10
      <4>2. off \in [1..(n + 1) -> Nat] /\ off[1] = 0 /\ off[n + 1] = Len(rx)
            /\ \A j \in 1..(n + 1) : off[j] <= Len(rx)
        <5>1. n \in Nat /\ \A j \in 1..n : seqs[j] \in Seq(TxSords) BY <1>1, <1>2
        <5>2. \A j \in 1..(n + 1) : off[j] <= off[n + 1] BY <1>4, <5>1, OffGrows
        <5> QED BY <4>1, <5>2, <1>4 DEF Lies
      <4>3. ASSUME NEW i \in 1..n
            PROVE  /\ off[i + 1] = off[i] + Len(src[o[i]])
                   /\ \A k \in 1..Len(src[o[i]]) : asked'[0 + off[i] + k][1] = src[o[i]][k]
        <5>1. /\ off[i + 1] = off[i] + Len(src[o[i]])
              /\ \A k \in 1..Len(src[o[i]]) : all[off[i] + k] = src[o[i]][k]
          BY <1>2, <1>4 DEF Lies
        <5>2. /\ i \in 1..(n + 1) /\ i + 1 \in 1..(n + 1) /\ off[i] \in Nat
              /\ off[i + 1] <= Len(rx) /\ Len(src[o[i]]) \in Nat
          <6>2. src[o[i]] \in Seq(TxSords) BY <1>1
          <6>3. i \in 1..(n + 1) /\ i + 1 \in 1..(n + 1) BY <1>1
          <6>4. Len(src[o[i]]) \in Nat BY <6>2
          <6>5. off[i] \in Nat /\ off[i + 1] <= Len(rx) BY <4>2, <6>3
          <6> HIDE DEF n, repeated
          <6> QED BY <6>3, <6>4, <6>5
        <5>3. ASSUME NEW k \in 1..Len(src[o[i]])
              PROVE  asked'[0 + off[i] + k][1] = src[o[i]][k]
          <6> DEFINE a == off[i]
                     l == Len(src[o[i]])
          <6>1. a \in Nat /\ l \in Nat /\ a + l <= Len(rx) BY <5>1, <5>2
          <6>2. k \in 1..l OBVIOUS
          <6>3. all[a + k] = src[o[i]][k] BY <5>1
          <6> HIDE DEF a, l
          <6>4. 0 + a + k = a + k /\ a + k \in 1..Len(rx) BY <6>1, <6>2, <1>8
          <6>5. asked'[a + k][1] = all[a + k]
            <7> HIDE DEF repeated, n
            <7> QED BY <3>2, <6>4, <2>3
          <6> QED BY <6>3, <6>4, <6>5 DEF a
        <5> QED BY <5>1, <5>3
      <4>4. /\ off \in [1..(n + 1) -> Int] /\ Len(turns') = n /\ Len(sinks') = Len(rx)
            /\ off[Len(turns') + 1] = Len(sinks')
        BY <4>1, <4>2
      <4> HIDE DEF n, repeated
      <4>5. Aligned(off)' BY <4>1, <4>2, <4>3, <4>4, <2>6 DEF Aligned
      <4> QED BY <4>5
    <3>3. CASE single
      <4> DEFINE z == [i \in 1..2 |-> IF i = 1 THEN 0 ELSE Len(repeated[o[1]])]
      <4>1. /\ turns' = <<o[1]>> /\ sources' = repeated /\ sinks' = rx /\ Len(all) = 1
            /\ Len(turns') = 1 /\ turns'[1] = o[1]
        BY <3>3, <1>5, <1>6
      <4>2. repeated[o[1]] \in Seq(TxSords) /\ Len(repeated[o[1]]) \in Nat
        <5> HIDE DEF repeated
        <5>1. repeated[o[1]] \in Seq(TxSords) BY <1>1, <1>7
        <5> QED BY <5>1
      <4>3. z \in [1..2 -> Nat] /\ z[1] = 0 /\ z[2] = Len(repeated[o[1]]) BY <4>2
      <4> HIDE DEF z
      <4>4. CASE src[o[1]] # <<>>
        <5>1. repeated[o[1]] = [j \in 1..Len(rx) |-> src[o[1]][1]] BY <4>4, <1>1, <1>8
        <5>2. Len(repeated[o[1]]) = Len(rx) BY <5>1, <1>8
        <5>3. all[1] = src[o[1]][1]
          <6>1. 1 \in 1..n /\ seqs[1] = src[o[1]] /\ off[1] = 0 BY <1>1, <1>2, <1>4 DEF Lies
          <6>2. 1 \in 1..Len(src[o[1]]) BY <4>4, <1>1
          <6>3. all[off[1] + 1] = seqs[1][1] BY <6>1, <6>2, <1>4 DEF Lies
          <6> QED BY <6>1, <6>3
        <5>4. \A k \in 1..Len(rx) : asked'[0 + 0 + k][1] = repeated[o[1]][k]
          <6>1. \A k \in 1..Len(rx) : 0 + 0 + k = k OBVIOUS
          <6> QED BY <6>1, <5>1, <5>3, <2>3, <3>3
        <5> HIDE DEF repeated
        <5>5. \A i \in 1..1 : i = 1 /\ i + 1 = 2 OBVIOUS
        <5>6. /\ 1 + 1 = 2 /\ z \in [1..(1 + 1) -> Int] /\ z[1] = 0 /\ z[1 + 1] = Len(rx)
              /\ \A i \in 1..(1 + 1) : z[i] <= Len(rx)
          BY <4>3, <5>2, <1>8
        <5>7. \A i \in 1..1 : z[i + 1] = z[i] + Len(sources'[turns'[i]])
          BY <4>1, <4>3, <5>2, <5>5, <1>8
        <5>8. ASSUME NEW i \in 1..1, NEW k \in 1..Len(sources'[turns'[i]])
              PROVE  asked'[0 + z[i] + k][1] = sources'[turns'[i]][k]
          <6>1. turns'[i] = o[1] /\ z[i] = 0 /\ sources' = repeated BY <4>1, <4>3, <5>5
          <6>2. k \in 1..Len(rx) BY <5>2, <6>1
          <6> QED BY <5>4, <6>1, <6>2
        <5>9. Len(sinks') = Len(rx) BY <4>1
        <5>10. Aligned(z)'
          BY <4>1, <5>6, <5>7, <5>8, <5>9, <2>6, <1>8 DEF Aligned
        <5> QED BY <5>10
      <4>5. CASE src[o[1]] = <<>>
        <5>1. \A d \in Devices : repeated[d] = <<>> BY <4>5
        <5>2. Len(turns') = 1 /\ sources'[turns'[1]] = <<>> BY <4>1, <5>1, <1>1
        <5>3. Len(repeated[o[1]]) = 0 BY <5>1, <1>1
        <5> HIDE DEF repeated
        <5>4. \A i \in 1..1 : i = 1 /\ i + 1 = 2 OBVIOUS
        <5>5. 1..0 = {} OBVIOUS
        <5>6. Aligned(z)' BY <4>1, <4>3, <5>2, <5>3, <5>4, <5>5, <2>6, <1>8 DEF Aligned
        <5> QED BY <5>6
      <4> QED BY <4>4, <4>5
    <3> QED BY <3>2, <3>3
  <2> QED BY <2>1, <2>5, <2>7, <2>8, <2>9 DEF ConnectInv
<1> QED BY <1>9, <1>10

-----------------------------------------------------------------------------
(* The turns.                                                              *)

LEMMA WantedIs ==
  ASSUME ConnectTypes, NEW g
  PROVE  /\ \A j \in 1..Len(asked) : asked[j][2] = g[1] =>
              Wanted(g) = IF g[3] <= Flows[asked[j][1]][g[2]]
                          THEN <<asked[j][1], g[2], g[3]>> ELSE before[g]
         /\ (\A j \in 1..Len(asked) : asked[j][2] # g[1]) => Wanted(g) = before[g]
<1> DEFINE pairs == Places(g)
<1>1. DOMAIN asked = 1..Len(asked) BY DEF ConnectTypes
<1>2. Wanted(g) = IF pairs = {} THEN before[g]
                  ELSE <<asked[CHOOSE j \in pairs : TRUE][1], g[2], g[3]>>
  BY DEF Wanted
<1>3. ASSUME NEW j \in 1..Len(asked), asked[j][2] = g[1]
      PROVE  pairs = IF g[3] <= Flows[asked[j][1]][g[2]] THEN {j} ELSE {}
  BY <1>1, <1>3 DEF ConnectTypes, Places
<1>4. (\A j \in 1..Len(asked) : asked[j][2] # g[1]) => pairs = {} BY <1>1 DEF Places
<1> HIDE DEF pairs
<1>5. \A j : (CHOOSE i \in {j} : TRUE) = j OBVIOUS
<1> QED BY <1>2, <1>3, <1>4, <1>5

\* The links of a turn say what is wanted.
LEMMA LinksAreWanted ==
  ASSUME ConnectTypes, SinksFit, NEW tx \in Seq(TxSords), Len(tx) <= Len(sinks),
         \A k \in 1..Len(tx) : asked[Done + k][1] = tx[k],
         NEW g \in Gates(RxSords)
  PROVE  /\ \A x \in Links(tx, sinks) : x[2] = g =>
              x[1] = Wanted(g) /\ \E k \in 1..Len(tx) : sinks[k] = g[1]
         /\ (\A x \in Links(tx, sinks) : x[2] # g) =>
              \A k \in 1..Len(tx) : sinks[k] = g[1] => Wanted(g) = before[g]
         /\ \A k \in 1..Len(tx) :
              (sinks[k] = g[1] /\ g[3] <= Flows[tx[k]][g[2]]) =>
                <<Wanted(g), g>> \in Links(tx, sinks)
<1>1. /\ Len(tx) \in Nat /\ DOMAIN tx = 1..Len(tx) /\ Len(sinks) \in Nat /\ Len(asked) \in Nat
      /\ Done \in Nat /\ Done + Len(sinks) = Len(asked)
  BY DEF ConnectTypes, SinksFit, Done
<1>2. ASSUME NEW k \in 1..Len(tx), sinks[k] = g[1]
      PROVE  Wanted(g) = IF g[3] <= Flows[tx[k]][g[2]] THEN <<tx[k], g[2], g[3]>> ELSE before[g]
  <2>1. k \in 1..Len(sinks) /\ Done + k \in 1..Len(asked) BY <1>1
  <2>2. asked[Done + k][2] = g[1] /\ asked[Done + k][1] = tx[k]
    BY <2>1, <1>2 DEF SinksFit
  <2> QED BY <2>1, <2>2, WantedIs
<1>3. /\ g[1] \in RxSords /\ g[2] \in Essences /\ g[3] \in 1..2 /\ g = <<g[1], g[2], g[3]>>
      /\ g[3] <= Flows[g[1]][g[2]]
  BY DEF Gates
<1>4. ASSUME NEW x \in Links(tx, sinks), x[2] = g
      PROVE  x[1] = Wanted(g) /\ \E k \in 1..Len(tx) : sinks[k] = g[1]
  <2>1. PICK y \in (DOMAIN tx) \X Essences \X (1..2) :
          /\ y[3] <= Flows[tx[y[1]]][y[2]] /\ y[3] <= Flows[sinks[y[1]]][y[2]]
          /\ x = <<<<tx[y[1]], y[2], y[3]>>, <<sinks[y[1]], y[2], y[3]>>>>
    BY DEF Links
  <2>2. y[1] \in 1..Len(tx) BY <1>1
  <2>3. g[1] = sinks[y[1]] /\ g[2] = y[2] /\ g[3] = y[3] BY <1>4, <2>1
  <2>4. x[1] = <<tx[y[1]], g[2], g[3]>> /\ g[3] <= Flows[tx[y[1]]][g[2]] BY <2>1, <2>3
  <2> QED BY <2>2, <2>3, <2>4, <1>2
<1>5. ASSUME NEW k \in 1..Len(tx), sinks[k] = g[1], g[3] <= Flows[tx[k]][g[2]]
      PROVE  <<Wanted(g), g>> \in Links(tx, sinks)
  <2> DEFINE y == <<k, g[2], g[3]>>
             x == <<<<tx[y[1]], y[2], y[3]>>, <<sinks[y[1]], y[2], y[3]>>>>
  <2>1. y \in (DOMAIN tx) \X Essences \X (1..2) BY <1>1, <1>3
  <2>2. y[3] <= Flows[tx[y[1]]][y[2]] /\ y[3] <= Flows[sinks[y[1]]][y[2]]
    BY <1>3, <1>5
  <2>3. x \in Links(tx, sinks) BY <2>1, <2>2 DEF Links
  <2>4. Wanted(g) = <<tx[k], g[2], g[3]>> BY <1>2, <1>5
  <2>5. x = <<Wanted(g), g>> BY <2>4, <1>3, <1>5
  <2> QED BY <2>3, <2>5
<1>6. ASSUME \A x \in Links(tx, sinks) : x[2] # g, NEW k \in 1..Len(tx), sinks[k] = g[1]
      PROVE  Wanted(g) = before[g]
  <2>1. CASE g[3] <= Flows[tx[k]][g[2]] BY <2>1, <1>5, <1>6
  <2>2. CASE ~(g[3] <= Flows[tx[k]][g[2]]) BY <2>2, <1>2, <1>6
  <2> QED BY <2>1, <2>2
<1> QED BY <1>4, <1>5, <1>6

\* HOME is asked for what is wanted by the links of a turn, and the other gates
\* are left alone.
LEMMA OrderedByIs ==
  ASSUME ConnectTypes, SinksFit, NEW tx \in Seq(TxSords), Len(tx) <= Len(sinks),
         \A k \in 1..Len(tx) : asked[Done + k][1] = tx[k],
         NEW g \in Gates(RxSords)
  PROVE  /\ (\A k \in 1..Len(tx) : sinks[k] # g[1]) =>
              OrderedBy(Links(tx, sinks))[g] = ordered[g]
         /\ (ordered[g] = before[g] /\ \E k \in 1..Len(tx) : sinks[k] = g[1]) =>
              OrderedBy(Links(tx, sinks))[g] = Wanted(g)
<1> DEFINE M == Links(tx, sinks)
<1>1. g \in DOMAIN ordered BY DEF ConnectTypes
<1>2. OrderedBy(M)[g] = IF \E x \in M : x[2] = g THEN (CHOOSE x \in M : x[2] = g)[1]
                        ELSE ordered[g]
  BY <1>1 DEF OrderedBy
<1>3. \A x \in Links(tx, sinks) : x[2] = g =>
         x[1] = Wanted(g) /\ \E k \in 1..Len(tx) : sinks[k] = g[1]
  BY ZenonT(20), LinksAreWanted
<1>4. ASSUME \E x \in M : x[2] = g PROVE (CHOOSE x \in M : x[2] = g)[1] = Wanted(g)
  <2>1. PICK z : z = CHOOSE x \in M : x[2] = g OBVIOUS
  <2>2. z \in M /\ z[2] = g BY <1>4, <2>1
  <2>3. \A x \in M : x[2] = g => x[1] = Wanted(g) BY <1>3
  <2> HIDE DEF M
  <2> QED BY <2>1, <2>2, <2>3
<1>5. (\E x \in M : x[2] = g) => \E k \in 1..Len(tx) : sinks[k] = g[1] BY <1>3
<1>6. (\A x \in M : x[2] # g) =>
        \A k \in 1..Len(tx) : sinks[k] = g[1] => Wanted(g) = before[g]
  BY LinksAreWanted
<1> QED BY <1>2, <1>4, <1>5, <1>6

\* The sords of the next device stand at the first places that are left.
LEMMA TurnFits ==
  ASSUME ConnectInv, stage = "connect", turns # <<>>, NEW tx, tx = sources[Head(turns)]
  PROVE  /\ tx \in Seq(TxSords) /\ Len(tx) \in Nat /\ Len(tx) <= Len(sinks)
         /\ \A k \in 1..Len(tx) : asked[Done + k][1] = tx[k]
         /\ Done \in Nat /\ Done + Len(sinks) = Len(asked) /\ Len(asked) \in Nat
         /\ \A k \in 1..Len(sinks) : Done + k \in 1..Len(asked) /\ asked[Done + k][2] = sinks[k]
<1>1. ConnectTypes /\ SinksFit BY DEF ConnectInv
<1>2. /\ turns \in Seq(Devices) /\ Len(turns) \in Nat \ {0} /\ Head(turns) = turns[1]
      /\ turns[1] \in Devices /\ Len(sinks) \in Nat /\ Len(asked) \in Nat
  BY <1>1 DEF ConnectTypes
<1>3. tx \in Seq(TxSords) /\ Len(tx) \in Nat BY <1>1, <1>2 DEF ConnectTypes
<1>4. PICK off : Aligned(off) BY DEF ConnectInv
<1>5. 1 \in 1..Len(turns) /\ 1 + 1 = 2 /\ 2 \in 1..(Len(turns) + 1) BY <1>2
<1>6. off[1] = 0 /\ off[2] = off[1] + Len(tx) /\ off[2] <= Len(sinks)
      /\ \A k \in 1..Len(tx) : asked[Done + off[1] + k][1] = tx[k]
  BY <1>5, <1>4, <1>2 DEF Aligned
<1>7. \A k \in 1..Len(tx) : Done + 0 + k = Done + k BY <1>2 DEF Done
<1>8. /\ Done \in Nat /\ Done + Len(sinks) = Len(asked)
      /\ \A k \in 1..Len(sinks) : Done + k \in 1..Len(asked) /\ asked[Done + k][2] = sinks[k]
  BY <1>1, <1>2 DEF SinksFit, Done
<1> QED BY <1>2, <1>3, <1>6, <1>7, <1>8

\* After a turn, its receivers are done.
LEMMA TurnPasses ==
  ASSUME ConnectInv, ConnectTurn, NEW tx, tx = sources[Head(turns)]
  PROVE  /\ Len(sinks') = Len(sinks) - Len(tx) /\ sinks' \in Seq(RxSords)
         /\ \A j \in 1..Len(sinks') : sinks'[j] = sinks[Len(tx) + j]
         /\ Done' = Done + Len(tx)
<1>1. /\ stage = "connect" /\ turns # <<>> /\ asked' = asked
      /\ sinks' = SubSeq(sinks, Len(tx) + 1, Len(sinks))
  BY DEF ConnectTurn, Stays
<1>2. Len(tx) \in Nat /\ Len(tx) <= Len(sinks) /\ Len(asked) \in Nat BY <1>1, TurnFits
<1>3. sinks \in Seq(RxSords) /\ Len(sinks) \in Nat BY DEF ConnectInv, ConnectTypes
<1>4. /\ SubSeq(sinks, Len(tx) + 1, Len(sinks)) \in Seq(RxSords)
      /\ Len(SubSeq(sinks, Len(tx) + 1, Len(sinks))) = Len(sinks) - Len(tx)
      /\ \A j \in 1..(Len(sinks) - Len(tx)) :
           SubSeq(sinks, Len(tx) + 1, Len(sinks))[j] = sinks[Len(tx) + j]
  BY <1>2, <1>3, Rest, Zenon
<1>5. Done' = Len(asked) - (Len(sinks) - Len(tx)) BY <1>1, <1>4 DEF Done
<1>6. Done' = Done + Len(tx) BY <1>2, <1>3, <1>5 DEF Done
<1> QED BY <1>1, <1>4, <1>6

LEMMA ConnectTurnKeeps ==
  ASSUME ConnectInv, ConnectTurn, NEW tx, tx = sources[Head(turns)],
         NEW links, links = Links(tx, sinks), NEW l, l = Len(tx)
  PROVE  ConnectInv'
<1>1. /\ stage = "connect" /\ turns # <<>> /\ links # {}
      /\ UNCHANGED <<sources, asked, before>>
      /\ ordered' = OrderedBy(links) /\ turns' = Tail(turns)
      /\ stage' \in {stage, "raised"}
  BY DEF ConnectTurn, Stays, Order
<1>2. ConnectTypes /\ SinksFit /\ OrderedFits BY <1>1 DEF ConnectInv
<1>3. /\ turns \in Seq(Devices) /\ Len(turns) \in Nat \ {0} /\ Head(turns) = turns[1]
      /\ turns[1] \in Devices /\ Len(sinks) \in Nat
      /\ sources \in [Devices -> Seq(TxSords)]
  BY <1>1, <1>2 DEF ConnectTypes
<1>4. /\ tx \in Seq(TxSords) /\ l \in Nat /\ l <= Len(sinks)
      /\ \A k \in 1..l : asked[Done + k][1] = tx[k]
      /\ Done \in Nat /\ Done + Len(sinks) = Len(asked) /\ Len(asked) \in Nat
      /\ \A k \in 1..Len(sinks) : Done + k \in 1..Len(asked) /\ asked[Done + k][2] = sinks[k]
  BY <1>1, TurnFits
<1>5. tx # <<>>
  <2> SUFFICES ASSUME tx = <<>> PROVE links = {} BY <1>1
  <2>1. DOMAIN tx = {} OBVIOUS
  <2>2. (DOMAIN tx) \X Essences \X (1..2) = {} BY <2>1
  <2> QED BY <2>2 DEF Links
<1>6. Tail(turns) \in Seq(Devices) /\ Len(Tail(turns)) = Len(turns) - 1
      /\ \A i \in 1..Len(Tail(turns)) : Tail(turns)[i] = turns[i + 1]
  BY <1>1, <1>3
<1>7. /\ Len(sinks') = Len(sinks) - l /\ sinks' \in Seq(RxSords)
      /\ \A j \in 1..Len(sinks') : sinks'[j] = sinks[l + j]
      /\ Done' = Done + l
  BY TurnPasses
<1>8. ConnectTypes'
  <2>1. DOMAIN ordered' = DOMAIN ordered BY <1>1 DEF OrderedBy
  <2> QED BY <1>1, <1>2, <1>6, <1>7, <2>1 DEF ConnectTypes
<1>9. \A g : Wanted(g)' = Wanted(g) BY <1>1 DEF Wanted, Places
<1>10. \A g \in Gates(RxSords) :
         /\ (\A k \in 1..l : sinks[k] # g[1]) => ordered'[g] = ordered[g]
         /\ (ordered[g] = before[g] /\ \E k \in 1..l : sinks[k] = g[1]) =>
              ordered'[g] = Wanted(g)
  BY <1>1, <1>2, <1>4, OrderedByIs
\* A receiver has one place in the list.
<1>11. \A i, j \in 1..Len(asked) : asked[i][2] = asked[j][2] => i = j
  BY <1>2 DEF ConnectTypes
<1>12. SinksFit'
  <2>1. Len(sinks') <= Len(asked) BY <1>3, <1>4, <1>7
  <2>2. ASSUME NEW j \in 1..Len(sinks')
        PROVE  asked[Done + l + j][2] = sinks'[j]
    <3>1. l + j \in 1..Len(sinks) /\ Done + l + j = Done + (l + j) BY <1>3, <1>4, <1>7
    <3> QED BY <3>1, <1>4, <1>7
  <2> QED BY <2>1, <2>2, <1>1, <1>7 DEF SinksFit
<1>13. OrderedFits'
  <2> SUFFICES ASSUME NEW g \in Gates(RxSords)
               PROVE  \/ /\ \E j \in 1..(Done + l) : asked[j][2] = g[1]
                         /\ ordered'[g] = Wanted(g)
                      \/ /\ \A j \in 1..(Done + l) : asked[j][2] # g[1]
                         /\ ordered'[g] = before[g]
    BY <1>1, <1>7, <1>9 DEF OrderedFits
  <2>1. CASE (\E j \in 1..Done : asked[j][2] = g[1]) /\ ordered[g] = Wanted(g)
    <3>1. PICK j \in 1..Done : asked[j][2] = g[1] BY <2>1
    <3>2. j \in 1..(Done + l) BY <1>4
    <3>3. \A k \in 1..l : sinks[k] # g[1]
      <4> SUFFICES ASSUME NEW k \in 1..l, sinks[k] = g[1] PROVE FALSE OBVIOUS
      <4>1. k \in 1..Len(sinks) /\ j \in 1..Len(asked) /\ j # Done + k
        BY <1>3, <1>4
      <4> QED BY <4>1, <3>1, <1>4, <1>11
    <3> QED BY <2>1, <3>1, <3>2, <3>3, <1>10
  <2>2. CASE (\A j \in 1..Done : asked[j][2] # g[1]) /\ ordered[g] = before[g]
    <3>1. CASE \E k \in 1..l : sinks[k] = g[1]
      <4>1. PICK k \in 1..l : sinks[k] = g[1] BY <3>1
      <4>2. Done + k \in 1..(Done + l) /\ k \in 1..Len(sinks) BY <1>3, <1>4
      <4>3. asked[Done + k][2] = g[1] BY <4>1, <4>2, <1>4
      <4> QED BY <2>2, <3>1, <4>2, <4>3, <1>10
    <3>2. CASE \A k \in 1..l : sinks[k] # g[1]
      <4>1. ASSUME NEW j \in 1..(Done + l) PROVE asked[j][2] # g[1]
        <5>1. CASE j \in 1..Done BY <5>1, <2>2
        <5>2. CASE j \notin 1..Done
          <6>1. j - Done \in 1..l /\ Done + (j - Done) = j BY <5>2, <1>4
          <6>2. j - Done \in 1..Len(sinks) BY <6>1, <1>3, <1>4
          <6>3. asked[j][2] = sinks[j - Done] BY <6>1, <6>2, <1>4
          <6> QED BY <6>1, <6>3, <3>2
        <5> QED BY <5>1, <5>2
      <4> QED BY <2>2, <3>2, <4>1, <1>10
    <3> QED BY <3>1, <3>2
  <2> QED BY <2>1, <2>2, <1>2 DEF OrderedFits
<1>14. \E z : Aligned(z)'
  <2> DEFINE n == Len(turns)
  <2>1. /\ n \in Nat \ {0} /\ Len(turns') + 1 = n /\ Len(turns') = n - 1
        /\ \A i \in 1..(n - 1) : turns'[i] = turns[i + 1]
    BY <1>1, <1>3, <1>6
  <2>2. PICK off : Aligned(off) BY <1>1 DEF ConnectInv
  <2>3. /\ off \in [1..(n + 1) -> Int] /\ \A i \in 1..(n + 1) : off[i] <= Len(sinks)
        /\ off[1] = 0
        /\ off[n + 1] = Len(sinks) \/ (n = 1 /\ sources[turns[1]] = <<>>)
        /\ \A i \in 1..n :
             /\ off[i + 1] = off[i] + Len(sources[turns[i]])
             /\ \A k \in 1..Len(sources[turns[i]]) :
                  asked[Done + off[i] + k][1] = sources[turns[i]][k]
    BY <2>2 DEF Aligned
  <2>4. off[n + 1] = Len(sinks) BY <2>3, <1>3, <1>5
  <2>5. \A i \in 1..n : i + 1 \in 1..(n + 1) /\ off[i + 1] \in Int BY <2>1, <2>3
  <2>6. off[2] = l
    <3>1. 1 \in 1..n /\ 1 + 1 = 2 BY <2>1
    <3>2. off[2] = off[1] + Len(sources[turns[1]]) BY <3>1, <2>3
    <3> QED BY <3>2, <2>3, <1>3, <1>4
  <2>7. PICK z \in [1..n -> Int] : \A i \in 1..n : z[i] = off[i + 1] - l
    <3>1. [i \in 1..n |-> off[i + 1] - l] \in [1..n -> Int] BY <2>5, <1>4
    <3> QED BY <3>1
  <2> HIDE DEF n
  <2>8. z[1] = 0
    <3>1. 1 \in 1..n /\ 1 + 1 = 2 BY <2>1
    <3> QED BY <3>1, <2>6, <2>7, <1>4
  <2>9. \A i \in 1..n : z[i] <= Len(sinks')
    <3> SUFFICES ASSUME NEW i \in 1..n PROVE z[i] <= Len(sinks') OBVIOUS
    <3>1. off[i + 1] \in Int /\ off[i + 1] <= Len(sinks) /\ z[i] = off[i + 1] - l
      BY <2>3, <2>5, <2>7
    <3>2. Len(sinks') = Len(sinks) - l BY <1>7
    <3> QED BY <3>1, <3>2, <1>3, <1>4
  <2>10. z[n] = Len(sinks')
    <3>1. n \in 1..n BY <2>1
    <3> QED BY <3>1, <2>4, <2>7, <1>3, <1>4, <1>7
  <2>11. ASSUME NEW i \in 1..(n - 1)
         PROVE  /\ z[i + 1] = z[i] + Len(sources[turns[i + 1]])
                /\ \A k \in 1..Len(sources[turns[i + 1]]) :
                     asked[Done + l + z[i] + k][1] = sources[turns[i + 1]][k]
    <3>1. i \in 1..n /\ i + 1 \in 1..n BY <2>1
    <3>2. /\ off[(i + 1) + 1] = off[i + 1] + Len(sources[turns[i + 1]])
          /\ \A k \in 1..Len(sources[turns[i + 1]]) :
               asked[Done + off[i + 1] + k][1] = sources[turns[i + 1]][k]
      BY <3>1, <2>3
    <3>3. /\ z[i] = off[i + 1] - l /\ z[i + 1] = off[(i + 1) + 1] - l
          /\ off[i + 1] \in Int /\ off[(i + 1) + 1] \in Int
      BY <3>1, <2>5, <2>7
    <3>4. turns[i + 1] \in Devices BY <3>1, <1>3 DEF n
    <3>5. Len(sources[turns[i + 1]]) \in Nat BY <3>4, <1>3
    <3>6. \A k \in 1..Len(sources[turns[i + 1]]) :
            Done + l + z[i] + k = Done + off[i + 1] + k
      BY SMTT(20), <3>3, <3>5, <1>4
    <3>7. z[i + 1] = z[i] + Len(sources[turns[i + 1]])
      <4> DEFINE m == Len(sources[turns[i + 1]])
      <4>1. off[(i + 1) + 1] = off[i + 1] + m BY <3>2
      <4>2. m \in Nat BY <3>5
      <4> HIDE DEF m
      <4>3. z[i + 1] = z[i] + m BY SMTT(20), <4>1, <4>2, <3>3, <1>4
      <4> QED BY <4>3 DEF m
    <3>8. ASSUME NEW k \in 1..Len(sources[turns[i + 1]])
          PROVE  asked[Done + l + z[i] + k][1] = sources[turns[i + 1]][k]
      <4>1. Done + l + z[i] + k = Done + off[i + 1] + k BY <3>6
      <4>2. asked[Done + off[i + 1] + k][1] = sources[turns[i + 1]][k] BY <3>2
      <4> QED BY <4>1, <4>2, Zenon
    <3> QED BY <3>7, <3>8
  <2>12. Aligned(z)'
    <3>1. /\ n - 1 \in Nat /\ Len(turns') = n - 1 /\ (n - 1) + 1 = n
          /\ Len(sinks') \in Nat /\ sources' = sources /\ asked' = asked
      BY <2>1, <1>1, <1>3, <1>4, <1>7
    <3>2. z \in [1..((n - 1) + 1) -> Int]
          /\ \A i \in 1..((n - 1) + 1) : z[i] <= Len(sinks')
      BY <2>7, <2>9, <3>1
    <3>3. ASSUME NEW i \in 1..(n - 1) PROVE z[i + 1] = z[i] + Len(sources'[turns'[i]])
      <4>1. sources' = sources /\ turns'[i] = turns[i + 1] BY <2>1, <3>1
      <4>2. z[i + 1] = z[i] + Len(sources[turns[i + 1]]) BY <2>11
      <4> QED BY <4>1, <4>2
    <3>4. ASSUME NEW i \in 1..(n - 1), NEW k \in 1..Len(sources'[turns'[i]])
          PROVE  asked'[Done + l + z[i] + k][1] = sources'[turns'[i]][k]
      <4>1. sources' = sources /\ asked' = asked /\ turns'[i] = turns[i + 1]
        BY <2>1, <3>1
      <4>2. k \in 1..Len(sources[turns[i + 1]]) BY <4>1
      <4> QED BY <4>1, <4>2, <2>11
    <3>5. z[(n - 1) + 1] = Len(sinks') BY <2>10, <3>1
    <3> QED BY <3>1, <3>2, <3>3, <3>4, <3>5, <2>8, <1>7 DEF Aligned
  <2> QED BY <2>12
<1> QED BY <1>1, <1>8, <1>12, <1>13, <1>14 DEF ConnectInv

LEMMA DisconnectTurnKeeps ==
  ASSUME ConnectInv, DisconnectTurn
  PROVE  ConnectInv'
<1>1. /\ asked = <<>> /\ UNCHANGED <<sources, asked, sinks>> /\ turns # <<>>
      /\ turns' = Tail(turns) /\ stage' \in {"disconnect", "raised"}
      /\ DOMAIN ordered' = DOMAIN ordered
  <2>1. stage = "disconnect" /\ stage' \in {stage, "raised"} BY DEF DisconnectTurn, Order
  <2>2. DOMAIN ordered' = DOMAIN ordered BY DEF DisconnectTurn, Order, OrderedBy
  <2> QED BY <2>1, <2>2 DEF ConnectInv, DisconnectTurn, Stays
<1>2. turns' \in Seq(Devices)
  <2>1. turns \in Seq(Devices) BY DEF ConnectInv, ConnectTypes
  <2> QED BY <1>1, <2>1
<1>3. ConnectTypes' BY <1>1, <1>2 DEF ConnectInv, ConnectTypes
<1> QED BY <1>1, <1>3 DEF ConnectInv

\* When no device is left, no receiver is.
LEMMA ConnectReturnsKeeps ==
  ASSUME ConnectInv, ConnectReturns
  PROVE  ConnectInv'
<1>1. /\ stage \in {"connect", "disconnect"} /\ turns = <<>> /\ stage' = "returned"
      /\ UNCHANGED <<ordered, turns, sinks, sources, asked, before>>
  BY DEF ConnectReturns, Stays
<1>2. ConnectTypes' BY <1>1 DEF ConnectInv, ConnectTypes
<1>3. \A g : Wanted(g)' = Wanted(g) BY <1>1 DEF Wanted, Places
<1>4. ASSUME asked # <<>> PROVE SinksFit' /\ OrderedFits' /\ Len(sinks) = 0
  <2>1. stage = "connect" BY <1>1, <1>4 DEF ConnectInv
  <2>2. SinksFit /\ OrderedFits BY <2>1 DEF ConnectInv
  <2>3. PICK off : Aligned(off) BY <2>1 DEF ConnectInv
  <2>4. Len(sinks) = 0
    <3>1. Len(turns) + 1 = 1 /\ Len(turns) # 1 BY <1>1
    <3> QED BY <3>1, <2>3 DEF Aligned
  <2>5. SinksFit' /\ OrderedFits' BY <1>1, <1>3, <2>2 DEF SinksFit, OrderedFits, Done
  <2> QED BY <2>4, <2>5
<1> QED BY <1>1, <1>2, <1>4 DEF ConnectInv

\* What goes on between the turns.
LEMMA BetweenKeeps ==
  ASSUME ConnectInv, UNCHANGED <<ordered, turns, sources, sinks, asked, before>>,
         stage' \in {stage, "raised"}
  PROVE  ConnectInv'
<1>1. \A g : Wanted(g)' = Wanted(g) BY DEF Wanted, Places
<1>2. Done' = Done BY DEF Done
<1>3. ConnectTypes' BY DEF ConnectInv, ConnectTypes
<1>4. SinksFit => SinksFit' BY <1>2 DEF SinksFit
<1>5. OrderedFits => OrderedFits' BY <1>1, <1>2 DEF OrderedFits
<1>6. \A off : Aligned(off) => Aligned(off)' BY <1>2 DEF Aligned
<1> QED BY <1>3, <1>4, <1>5, <1>6 DEF ConnectInv

LEMMA ConnectInvStep ==
  ASSUME ConnectInv, [connectNext]_connectVars
  PROVE  ConnectInv'
<1>1. CASE UNCHANGED connectVars \/ TurnRaises \/ (\E x \in due : CarryOut(x))
           \/ (\E x \in left : WaitEnds(x) \/ WaitRaises(x))
  <2>1. /\ UNCHANGED <<ordered, turns, sources, sinks, asked, before>>
        /\ stage' \in {stage, "raised"}
    BY <1>1 DEF connectVars, TurnRaises, CarryOut, WaitEnds, WaitRaises, Stays
  <2> QED BY <2>1, BetweenKeeps
<1>2. ASSUME NEW o \in Orders({Holder[s] : s \in TxSords}), NEW src \in Maps,
             NEW T \in SUBSET RxSords, NEW rx \in SetToSeqs(T),
             CallConnect(o, src, rx)
      PROVE  ConnectInv'
  <2>1. TxSords \subseteq Sords BY DEF Sords
  <2>2. o \in Seq(Devices) /\ Len(o) \in Nat \ {0} BY <2>1, OrderIsList
  <2>3. src \in [Devices -> Seq(TxSords)] BY MapsAreLists
  <2>4. rx \in Seq(RxSords) /\ \A i, j \in 1..Len(rx) : rx[i] = rx[j] => i = j
    BY ReceiversAreList
  <2> QED BY <1>2, <2>2, <2>3, <2>4, ConnectStarts
<1>3. ASSUME NEW o \in Orders({Holder[s] : s \in RxSords}), NEW t,
             CallDisconnect(o, t)
      PROVE  ConnectInv'
  <2>1. RxSords \subseteq Sords BY DEF Sords
  <2>2. o \in Seq(Devices) BY <2>1, OrderIsList
  <2> QED BY <1>3, <2>2, DisconnectStarts
<1>4. CASE ConnectTurn BY <1>4, ConnectTurnKeeps
<1>5. CASE DisconnectTurn BY <1>5, DisconnectTurnKeeps
<1>6. CASE ConnectReturns BY <1>6, ConnectReturnsKeeps
<1> QED BY <1>1, <1>2, <1>3, <1>4, <1>5, <1>6, Zenon DEF connectNext

LEMMA ConnectInvHolds == connectSpec => []ConnectInv
<1> QED BY ConnectInvInit, ConnectInvStep, PTL DEF connectSpec

\* A call that connects asks HOME, for every receiver, for what stands at its
\* place, or leaves those after the turn it failed at alone (connections.py).
THEOREM AskedHolds == connectSpec => []AskedAsListed
<1>1. ConnectInv => AskedAsListed
  <2> SUFFICES ASSUME ConnectInv, asked # <<>>, NEW g \in Gates(RxSords)
               PROVE  /\ stage = "returned" => ordered[g] = Wanted(g)
                      /\ stage = "raised" =>
                           ordered[g] = IF \E j \in DOMAIN sinks : sinks[j] = g[1]
                                        THEN before[g] ELSE Wanted(g)
    BY DEF AskedAsListed
  <2>1. ConnectTypes /\ SinksFit /\ OrderedFits BY DEF ConnectInv
  <2>2. /\ Len(asked) \in Nat /\ Len(sinks) \in Nat /\ DOMAIN sinks = 1..Len(sinks)
        /\ \A i, j \in 1..Len(asked) : asked[i][2] = asked[j][2] => i = j
    BY <2>1 DEF ConnectTypes
  <2>3. Done \in Nat /\ Done + Len(sinks) = Len(asked) BY <2>1, <2>2 DEF Done, SinksFit
  <2>4. \/ (\E j \in 1..Done : asked[j][2] = g[1]) /\ ordered[g] = Wanted(g)
        \/ (\A j \in 1..Done : asked[j][2] # g[1]) /\ ordered[g] = before[g]
    BY <2>1 DEF OrderedFits
  <2>5. ASSUME NEW j \in 1..Len(sinks), sinks[j] = g[1] PROVE ordered[g] = before[g]
    <3>1. Done + j \in 1..Len(asked) BY <2>2, <2>3
    <3>2. asked[Done + j][2] = g[1] BY <2>1, <2>5 DEF SinksFit
    <3>3. \A i \in 1..Done : i \in 1..Len(asked) /\ i # Done + j BY <2>2, <2>3
    <3>4. \A i \in 1..Done : asked[i][2] # g[1] BY <3>1, <3>2, <3>3, <2>2
    <3> QED BY <3>4, <2>4
  <2>6. ASSUME \A j \in 1..Len(sinks) : sinks[j] # g[1] PROVE ordered[g] = Wanted(g)
    <3>1. CASE \A j \in 1..Done : asked[j][2] # g[1]
      <4>1. ASSUME NEW j \in 1..Len(asked), asked[j][2] = g[1] PROVE FALSE
        <5>1. CASE j \in 1..Done BY <5>1, <3>1, <4>1
        <5>2. CASE j \notin 1..Done
          <6>1. j - Done \in 1..Len(sinks) /\ Done + (j - Done) = j BY <5>2, <2>2, <2>3
          <6>2. asked[j][2] = sinks[j - Done] BY <6>1, <2>1 DEF SinksFit
          <6> QED BY <6>1, <6>2, <2>6, <4>1
        <5> QED BY <5>1, <5>2
      <4>2. Wanted(g) = before[g] BY <4>1, <2>1, WantedIs
      <4> QED BY <4>2, <3>1, <2>4
    <3>2. CASE \E j \in 1..Done : asked[j][2] = g[1] BY <3>2, <2>4
    <3> QED BY <3>1, <3>2
  <2>7. stage = "returned" => Len(sinks) = 0 BY DEF ConnectInv
  <2>8. CASE stage = "returned" BY <2>6, <2>7, <2>8
  <2>9. CASE stage = "raised" BY <2>2, <2>5, <2>6, <2>9
  <2> QED BY <2>8, <2>9
<1> QED BY <1>1, ConnectInvHolds, PTL
-----------------------------------------------------------------------------
(* The waits of a blocking call.                                           *)

Seen(x) == x \in had \cup left \/ Watched(x) \in stale

\* Links of the places that had their turn.
PlacesSeen ==
  \A g \in Gates(RxSords) : \A j \in Places(g) : j <= Done => Seen(<<Wanted(g), g>>)

\* Gates of the devices that had their turn.
FreesSeen ==
  \A d \in Devices : (\A n \in DOMAIN turns : turns[n] # d) =>
    \A g \in freeing[d] : Seen(<<NoSender, g>>)

MetTypes ==
  /\ DOMAIN patched = Gates(RxSords)
  /\ left \subseteq AnyLink /\ due \subseteq AnyLink
  /\ stage \in {"connect", "disconnect", "returned", "raised"}
  /\ freeing \in [Devices -> SUBSET Gates(RxSords)]

MetInv ==
  /\ MetTypes
  /\ stage \in {"connect", "disconnect"} =>
       \A g \in Gates(RxSords) : <<patched[g], g>> \in had
  /\ (blocking /\ stage # "raised") => PlacesSeen /\ FreesSeen
  /\ stage = "connect" => \A d \in Devices : freeing[d] = {}
  /\ stage = "returned" => turns = <<>> /\ left = {}

LEMMA MetInvInit == connectInit => MetInv
<1> SUFFICES ASSUME connectInit PROVE MetInv OBVIOUS
<1>1. /\ DOMAIN patched = Gates(RxSords) /\ left = {} /\ due = {} /\ blocking = FALSE
      /\ freeing = [d \in Devices |-> {}] /\ stage = "returned" /\ turns = <<>>
  BY DEF connectInit
<1> QED BY <1>1 DEF MetInv, MetTypes

\* The beginning of a call: nothing is waited for.
LEMMA CallMeets ==
  ASSUME MetInv, ConnectCall
  PROVE  /\ DOMAIN patched' = Gates(RxSords)
         /\ left' \subseteq AnyLink /\ due' \subseteq AnyLink
         /\ \A g \in Gates(RxSords) : <<patched'[g], g>> \in had'
BY DEF MetInv, MetTypes, ConnectCall

LEMMA ConnectMeets ==
  ASSUME MetInv, NEW o, NEW src, NEW rx \in Seq(RxSords), CallConnect(o, src, rx),
         ConnectInv'
  PROVE  MetInv'
<1>1. /\ ConnectCall /\ freeing' = [d \in Devices |-> {}] /\ sinks' = rx
      /\ stage' \in {"connect", "raised"}
  BY DEF CallConnect
<1>2. stage' = "connect" => Len(asked') = Len(rx)
  <2> SUFFICES ASSUME stage' = "connect" PROVE Len(asked') = Len(rx) OBVIOUS
  <2>1. Len(asked') \in Nat /\ DOMAIN asked' = 1..Len(asked')
    BY DEF ConnectInv, ConnectTypes
  <2>2. DOMAIN asked' = DOMAIN rx BY DEF CallConnect
  <2> QED BY <2>1, <2>2
<1>3. stage' = "connect" => PlacesSeen'
  <2> SUFFICES ASSUME stage' = "connect", NEW g \in Gates(RxSords), NEW j \in Places(g)',
                      j <= Done'
               PROVE  FALSE
    BY DEF PlacesSeen
  <2>1. Done' = 0 BY <1>1, <1>2 DEF Done
  <2>2. DOMAIN asked' = 1..Len(asked') BY DEF ConnectInv, ConnectTypes
  <2>3. j \in 1..Len(asked') BY <2>2 DEF Places
  <2> QED BY <2>1, <2>3
<1>4. FreesSeen' BY <1>1 DEF FreesSeen
<1>5. MetTypes' BY <1>1, CallMeets DEF MetTypes
<1> QED BY <1>1, <1>3, <1>4, <1>5, CallMeets DEF MetInv

LEMMA DisconnectMeets ==
  ASSUME MetInv, NEW o, NEW t, CallDisconnect(o, t)
  PROVE  MetInv'
<1>1. /\ ConnectCall /\ stage' = "disconnect" /\ asked' = <<>> /\ turns' = o
      /\ freeing' = [d \in Devices |-> {g \in Gates(RxSords) :
                       /\ Holder[g[1]] = d /\ \E n \in DOMAIN o : o[n] = d
                       /\ g[1] \in t \/ g \in t}]
  BY DEF CallDisconnect
<1>2. PlacesSeen' BY <1>1 DEF PlacesSeen, Places
<1>3. FreesSeen' BY <1>1 DEF FreesSeen
<1>4. freeing' \in [Devices -> SUBSET Gates(RxSords)] BY <1>1
<1>5. MetTypes' BY <1>4, <1>1, CallMeets DEF MetTypes
<1> QED BY <1>1, <1>2, <1>3, <1>5, CallMeets DEF MetInv

\* A turn waits for its links, and has none to wait for from before.
LEMMA ConnectTurnMeets ==
  ASSUME ConnectInv, MetInv, ConnectTurn, NEW tx, tx = sources[Head(turns)],
         NEW links, links = Links(tx, sinks)
  PROVE  MetInv'
<1>1. /\ stage = "connect" /\ turns # <<>> /\ left = {}
      /\ due' = due \cup links /\ stage' \in {stage, "raised"}
      /\ left' = IF blocking /\ stage' = stage THEN links ELSE {}
      /\ UNCHANGED <<patched, had, sources, freeing, blocking, asked, stale, before>>
  BY DEF ConnectTurn, Order, Stays
<1>2. /\ tx \in Seq(TxSords) /\ Len(tx) \in Nat /\ Len(tx) <= Len(sinks)
      /\ \A k \in 1..Len(tx) : asked[Done + k][1] = tx[k]
      /\ Done \in Nat /\ Done + Len(sinks) = Len(asked) /\ Len(asked) \in Nat
      /\ \A k \in 1..Len(sinks) : Done + k \in 1..Len(asked) /\ asked[Done + k][2] = sinks[k]
  BY <1>1, TurnFits
<1>3. ConnectTypes /\ SinksFit BY <1>1 DEF ConnectInv
<1>4. sinks \in Seq(RxSords) /\ Len(sinks) \in Nat BY <1>3 DEF ConnectTypes
<1>5. links \subseteq AnyLink
  <2> SUFFICES ASSUME NEW x \in links PROVE x \in AnyLink OBVIOUS
  <2>1. PICK y \in (DOMAIN tx) \X Essences \X (1..2) :
          /\ y[3] <= Flows[tx[y[1]]][y[2]] /\ y[3] <= Flows[sinks[y[1]]][y[2]]
          /\ x = <<<<tx[y[1]], y[2], y[3]>>, <<sinks[y[1]], y[2], y[3]>>>>
    BY DEF Links
  <2>2. y[1] \in 1..Len(tx) /\ y[2] \in Essences /\ y[3] \in 1..2 BY <1>2
  <2>3. tx[y[1]] \in TxSords /\ sinks[y[1]] \in RxSords BY <2>2, <1>2, <1>4
  <2>4. <<tx[y[1]], y[2], y[3]>> \in Gates(TxSords) BY <2>1, <2>2, <2>3 DEF Gates
  <2>5. <<sinks[y[1]], y[2], y[3]>> \in Gates(RxSords) BY <2>1, <2>2, <2>3 DEF Gates
  <2> QED BY <2>1, <2>4, <2>5 DEF AnyLink, Senders
<1>6. MetTypes' BY <1>1, <1>5 DEF MetInv, MetTypes
<1>7. Done' = Done + Len(tx) BY TurnPasses
<1>8. \A g : Wanted(g)' = Wanted(g) /\ Places(g)' = Places(g) BY <1>1 DEF Wanted, Places
<1>9. ASSUME blocking', stage' # "raised" PROVE PlacesSeen' /\ FreesSeen'
  <2>1. blocking /\ left' = links /\ PlacesSeen BY <1>1, <1>9 DEF MetInv
  <2>2. \A x : Seen(x) => Seen(x)' BY <1>1 DEF Seen, Watched
  <2>3. ASSUME NEW g \in Gates(RxSords), NEW j \in Places(g), j <= Done + Len(tx)
        PROVE  Seen(<<Wanted(g), g>>)'
    <3>1. j \in 1..Len(asked) /\ asked[j][2] = g[1] /\ g[3] <= Flows[asked[j][1]][g[2]]
      BY <1>3 DEF Places, ConnectTypes
    <3>2. CASE j <= Done
      <4>1. Seen(<<Wanted(g), g>>) BY <2>1, <3>2 DEF PlacesSeen
      <4> QED BY <4>1, <1>8, <2>2 DEF Seen, Watched
    <3>3. CASE ~(j <= Done)
      <4>1. PICK k \in 1..Len(tx) : j = Done + k
        <5>1. j - Done \in 1..Len(tx) /\ j = Done + (j - Done) BY <3>1, <3>3, <2>3, <1>2
        <5> QED BY <5>1
      <4>2. k \in 1..Len(sinks) BY <1>2, <1>4
      <4>3. sinks[k] = g[1] /\ g[3] <= Flows[tx[k]][g[2]] BY <4>1, <4>2, <3>1, <1>2
      <4>4. <<Wanted(g), g>> \in Links(tx, sinks) BY <4>3, <1>2, <1>3, LinksAreWanted
      <4>5. <<Wanted(g), g>> \in left' BY <4>4, <2>1
      <4> QED BY <4>5, <1>8 DEF Seen
    <3> QED BY <3>2, <3>3
  <2>4. PlacesSeen' BY <2>3, <1>7, <1>8 DEF PlacesSeen
  <2>5. FreesSeen' BY <1>1 DEF FreesSeen, MetInv
  <2> QED BY <2>4, <2>5
<1> QED BY <1>1, <1>6, <1>9 DEF MetInv

LEMMA DisconnectTurnMeets ==
  ASSUME ConnectInv, MetInv, DisconnectTurn,
         NEW links, links = {<<NoSender, g>> : g \in freeing[Head(turns)]}
  PROVE  MetInv'
<1>1. /\ stage = "disconnect" /\ turns # <<>> /\ left = {} /\ turns' = Tail(turns)
      /\ due' \in {due, due \cup links} /\ stage' \in {stage, "raised"}
      /\ left' = IF blocking /\ stage' = stage THEN links ELSE {}
      /\ UNCHANGED <<patched, had, sources, freeing, blocking, asked, stale, before, sinks>>
  BY DEF DisconnectTurn, Order, Stays
<1>2. asked = <<>> BY <1>1 DEF ConnectInv
<1>3. /\ turns \in Seq(Devices) /\ Len(turns) \in Nat \ {0} /\ Head(turns) = turns[1]
      /\ turns[1] \in Devices /\ Len(Tail(turns)) = Len(turns) - 1
      /\ DOMAIN turns = 1..Len(turns) /\ DOMAIN turns' = 1..(Len(turns) - 1)
      /\ \A i \in 1..(Len(turns) - 1) : turns'[i] = turns[i + 1]
  <2>1. turns \in Seq(Devices) BY DEF ConnectInv, ConnectTypes
  <2> QED BY <1>1, <2>1
<1>4. links \subseteq AnyLink
  <2>1. freeing[Head(turns)] \subseteq Gates(RxSords) BY <1>3 DEF MetInv, MetTypes
  <2> QED BY <2>1 DEF AnyLink, Senders
<1>5. MetTypes' BY <1>1, <1>4 DEF MetInv, MetTypes
<1>6. PlacesSeen' BY <1>1, <1>2 DEF PlacesSeen, Places
<1>7. ASSUME blocking', stage' # "raised" PROVE FreesSeen'
  <2>1. blocking /\ left' = links /\ FreesSeen BY <1>1, <1>7 DEF MetInv
  <2> SUFFICES ASSUME NEW d \in Devices, \A n \in DOMAIN turns' : turns'[n] # d,
                      NEW g \in freeing[d]
               PROVE  Seen(<<NoSender, g>>)'
    BY <1>1 DEF FreesSeen
  <2>2. CASE d = turns[1]
    <3>1. <<NoSender, g>> \in left' BY <2>1, <2>2, <1>3
    <3> QED BY <3>1 DEF Seen
  <2>3. CASE d # turns[1]
    <3>1. ASSUME NEW n \in DOMAIN turns PROVE turns[n] # d
      <4>1. n # 1 => n - 1 \in 1..(Len(turns) - 1) /\ (n - 1) + 1 = n BY <1>3
      <4> QED BY <4>1, <1>3, <2>3
    <3>2. Seen(<<NoSender, g>>) BY <3>1, <2>1 DEF FreesSeen
    <3> QED BY <3>2, <1>1 DEF Seen, Watched
  <2> QED BY <2>2, <2>3
<1> QED BY <1>1, <1>5, <1>6, <1>7 DEF MetInv

\* HOME carries a link out, a wait ends or is given up, or the call does.
LEMMA BetweenMeets ==
  ASSUME MetInv,
         \/ \E x \in due : CarryOut(x)
         \/ \E x \in left : WaitEnds(x) \/ WaitRaises(x)
         \/ TurnRaises \/ ConnectReturns \/ UNCHANGED connectVars
  PROVE  MetInv'
<1>1. UNCHANGED <<turns, sinks, freeing, asked, before, blocking, stale>>
  BY DEF CarryOut, WaitEnds, WaitRaises, TurnRaises, ConnectReturns, Stays, connectVars
<1>2. /\ left' \subseteq left /\ due' \subseteq due
      /\ stage' \in {stage, "raised"} \/ ConnectReturns
  BY DEF CarryOut, WaitEnds, WaitRaises, TurnRaises, ConnectReturns, Stays, connectVars
<1>3. /\ DOMAIN patched' = DOMAIN patched /\ had \subseteq had'
      /\ (\A g \in Gates(RxSords) : <<patched[g], g>> \in had) =>
           \A g \in Gates(RxSords) : <<patched'[g], g>> \in had'
  <2>1. ASSUME NEW x \in due, CarryOut(x)
        PROVE  /\ DOMAIN patched' = DOMAIN patched /\ had \subseteq had'
               /\ (\A g \in Gates(RxSords) : <<patched[g], g>> \in had) =>
                    \A g \in Gates(RxSords) : <<patched'[g], g>> \in had'
    <3>1. /\ patched' = [patched EXCEPT ![x[2]] = x[1]] /\ had' = had \cup {x}
      BY <2>1 DEF CarryOut
    <3>2. x \in AnyLink /\ DOMAIN patched = Gates(RxSords) BY DEF MetInv, MetTypes
    <3>3. x = <<x[1], x[2]>> BY <3>2 DEF AnyLink
    <3> QED BY <3>1, <3>2, <3>3
  <2>2. CASE ~\E x \in due : CarryOut(x)
    <3>1. UNCHANGED <<patched, had>>
      BY <2>2 DEF WaitEnds, WaitRaises, TurnRaises, ConnectReturns, Stays, connectVars
    <3> QED BY <3>1
  <2> QED BY <2>1, <2>2
<1>4. MetTypes' BY <1>1, <1>2, <1>3 DEF MetInv, MetTypes, ConnectReturns
\* What a wait ended on was had, or its entry is stale.
<1>5. ASSUME stage' # "raised", NEW x, Seen(x) PROVE Seen(x)'
  <2>1. CASE x \in left /\ x \notin left'
    <3>1. WaitEnds(x)
      BY <2>1, <1>5 DEF CarryOut, WaitEnds, WaitRaises, TurnRaises, ConnectReturns, Stays,
                        connectVars
    <3>2. stage' = stage /\ Shows(x) BY <3>1 DEF WaitEnds
    <3>3. stage \in {"connect", "disconnect"} BY <2>1, <3>2, <1>5 DEF MetInv, MetTypes
    <3>4. x \in AnyLink BY <2>1 DEF MetInv, MetTypes
    <3>5. x[2] \in Gates(RxSords) /\ x = <<x[1], x[2]>> BY <3>4 DEF AnyLink
    <3>6. patched[x[2]] = x[1] => x \in had BY <3>3, <3>5 DEF MetInv
    <3> QED BY <3>2, <3>6, <1>1, <1>3 DEF Shows, Seen, Watched
  <2>2. CASE ~(x \in left /\ x \notin left')
    BY <2>2, <1>1, <1>3, <1>5 DEF Seen, Watched
  <2> QED BY <2>1, <2>2
<1>6. \A g : Wanted(g)' = Wanted(g) /\ Places(g)' = Places(g)
  BY <1>1 DEF Wanted, Places
<1>7. Done' = Done BY <1>1 DEF Done
<1>8. ASSUME blocking', stage' # "raised" PROVE PlacesSeen' /\ FreesSeen'
  <2>1. blocking /\ stage # "raised" BY <1>1, <1>2, <1>8 DEF ConnectReturns
  <2>2. PlacesSeen /\ FreesSeen BY <2>1 DEF MetInv
  <2>3. PlacesSeen'
    <3> SUFFICES ASSUME NEW g \in Gates(RxSords), NEW j \in Places(g), j <= Done
                 PROVE  Seen(<<Wanted(g), g>>)'
      BY <1>6, <1>7 DEF PlacesSeen
    <3>1. Seen(<<Wanted(g), g>>) BY <2>2 DEF PlacesSeen
    <3>2. <<Wanted(g), g>>' = <<Wanted(g), g>> BY <1>6
    <3>3. PICK x : x = <<Wanted(g), g>> OBVIOUS
    <3>4. Seen(x)' BY <3>1, <3>3, <1>5, <1>8
    <3> QED BY <3>2, <3>3, <3>4 DEF Seen, Watched
  <2>4. FreesSeen'
    <3> SUFFICES ASSUME NEW d \in Devices, \A n \in DOMAIN turns : turns[n] # d,
                        NEW g \in freeing[d]
                 PROVE  Seen(<<NoSender, g>>)'
      BY <1>1 DEF FreesSeen
    <3>1. Seen(<<NoSender, g>>) BY <2>2 DEF FreesSeen
    <3> QED BY <3>1, <1>5, <1>8
  <2> QED BY <2>3, <2>4
<1>9. stage' \in {"connect", "disconnect"} => stage = stage' BY <1>2 DEF ConnectReturns
<1>10. stage' = "returned" => turns' = <<>> /\ left' = {}
  <2>1. CASE ConnectReturns BY <2>1 DEF ConnectReturns, Stays
  <2>2. CASE stage' \in {stage, "raised"} BY <2>2, <1>1, <1>2 DEF MetInv
  <2> QED BY <2>1, <2>2, <1>2
<1> QED BY <1>1, <1>3, <1>4, <1>8, <1>9, <1>10 DEF MetInv

LEMMA MetInvStep ==
  ASSUME ConnectInv, ConnectInv', MetInv, [connectNext]_connectVars
  PROVE  MetInv'
<1>1. ASSUME NEW o \in Orders({Holder[s] : s \in TxSords}), NEW src \in Maps,
             NEW T \in SUBSET RxSords, NEW rx \in SetToSeqs(T),
             CallConnect(o, src, rx)
      PROVE  MetInv'
  <2>1. rx \in Seq(RxSords) BY ReceiversAreList
  <2> QED BY <1>1, <2>1, ConnectMeets
<1>2. ASSUME NEW o, NEW t, CallDisconnect(o, t) PROVE MetInv' BY <1>2, DisconnectMeets
<1>3. CASE ConnectTurn BY <1>3, ConnectTurnMeets
<1>4. CASE DisconnectTurn BY <1>4, DisconnectTurnMeets
<1>5. CASE \/ \E x \in due : CarryOut(x)
           \/ \E x \in left : WaitEnds(x) \/ WaitRaises(x)
           \/ TurnRaises \/ ConnectReturns \/ UNCHANGED connectVars
  BY <1>5, BetweenMeets
<1> QED BY <1>1, <1>2, <1>3, <1>4, <1>5, Zenon DEF connectNext

\* A blocking call that returns passed over no turn and no wait of a turn
\* (connections.py, _wait_for_connection, _wait_for_disconnection).
THEOREM PatchedHolds == connectSpec => []PatchedAsListed
<1>1. ConnectInv /\ MetInv => PatchedAsListed
  <2> SUFFICES ASSUME ConnectInv, MetInv, stage = "returned", blocking, NEW x \in Awaited
               PROVE  x \in had \/ Watched(x) \in stale
    BY DEF PatchedAsListed
  <2>1. PlacesSeen /\ FreesSeen /\ turns = <<>> /\ left = {} BY DEF MetInv
  <2>2. Seen(x) => x \in had \/ Watched(x) \in stale BY <2>1 DEF Seen
  <2>3. ASSUME NEW g \in Gates(RxSords), Places(g) # {}, x = <<Wanted(g), g>>
        PROVE  Seen(x)
    <3>1. PICK j : j \in Places(g) BY <2>3
    <3>2. j \in DOMAIN asked BY <3>1 DEF Places
    <3>3. DOMAIN asked = 1..Len(asked) /\ Len(asked) \in Nat BY DEF ConnectInv, ConnectTypes
    <3>4. asked # <<>> BY <3>2
    <3>5. Len(sinks) = 0 BY <3>4 DEF ConnectInv
    <3>6. j <= Done BY <3>2, <3>3, <3>5 DEF Done
    <3> QED BY <3>1, <3>6, <2>1, <2>3 DEF PlacesSeen
  <2>4. ASSUME NEW d \in Devices, NEW g \in freeing[d], x = <<NoSender, g>>
        PROVE  Seen(x)
    <3>1. \A n \in DOMAIN turns : turns[n] # d
      <4>1. DOMAIN turns = {} BY <2>1
      <4> QED BY <4>1
    <3>2. Seen(<<NoSender, g>>) BY <3>1, <2>1 DEF FreesSeen
    <3> QED BY <3>2, <2>4
  <2> QED BY <2>2, <2>3, <2>4 DEF Awaited
<1>2. connectInit => ConnectInv /\ MetInv BY ConnectInvInit, MetInvInit
<1>3. ConnectInv /\ MetInv /\ [connectNext]_connectVars => ConnectInv' /\ MetInv'
  BY ConnectInvStep, MetInvStep
<1> QED BY <1>1, <1>2, <1>3, PTL DEF connectSpec

-----------------------------------------------------------------------------
(* Both together.                                                           *)

\* Whichever way a test patches, through one model or through connections.py.
THEOREM PatchSessionIsSafe ==
  Spec => [](SureIsExact /\ AskedAsListed /\ PatchedAsListed)
<1>1. Init => patchInit /\ connectInit BY DEF Init
<1>2. [Next]_vars => [patchNext]_patchVars /\ [connectNext]_connectVars
  BY DEF Next, vars
<1>3. Spec => patchSpec /\ connectSpec
  BY <1>1, <1>2, PTL DEF Spec, patchSpec, connectSpec
<1> QED BY <1>3, SureHolds, AskedHolds, PatchedHolds, PTL
=============================================================================
