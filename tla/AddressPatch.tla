---------------------------- MODULE AddressPatch ----------------------------
(***************************************************************************)
(* Stream patching through one device model (ldf/attributes/addresses.py): *)
(* the dictionary of the device's own addresses, kept current by           *)
(* cb_update_addresses (ldf/models/base.py), and the connect and disconnect *)
(* calls that ask HOME for a change and then poll that dictionary until it *)
(* shows the change or six seconds have passed.                            *)
(*                                                                         *)
(* HOME accepts a request first and the devices carry it out later; other  *)
(* clients patch too.  The deadline is a choice: a poll that does not find *)
(* what it waits for may be the last one.                                  *)
(***************************************************************************)
EXTENDS Integers, Sequences, FiniteSets

CONSTANTS
  Own,      \* address gates of the device
  Remote,   \* gates of other devices
  Calls,    \* calls of connect and disconnect the test makes
  None,     \* no gate
  MaxLog    \* bound: length of HOME's address journal

ASSUME PatchAssumption ==
  /\ None \notin Own \cup Remote
  /\ MaxLog \in Nat \ {0}

VARIABLES
  log,      \* HOME: journal of the addresses of Own
  work,     \* HOME: accepted patches not yet carried out
  pc,       \* phase of the context manager
  snap,     \* journal position addresses_get_one was answered at, 0 = none
  state,    \* self.addresses.state: Own -> peers, Gone = no such key
  fresh,    \* journal position `state' was fetched at in this session, 0 = not
  base,     \* journal position of the subscription
  cursor,   \* last update handled
  call      \* the calls of connect and disconnect

patchVars == <<log, work, pc, snap, state, fresh, base, cursor, call>>
mirror == <<pc, snap, state, fresh, base, cursor>>

\* No address for the gate: told from every set of peers.
Gone == {None}
Peers == (SUBSET Remote) \cup {Gone}
Table == [Own -> Peers]

\* A patch is <<own gate, remote gate>>; a disconnect names the gate only.
Patches == Own \X Remote

Call == [kind: {"none", "connect", "disconnect"},
         want: (SUBSET Patches) \cup (SUBSET Own),
         left: (SUBSET Patches) \cup (SUBSET Own),
         st: {"idle", "asked", "waiting", "ok", "AddressConnectError",
              "AttributeError"},
         asked: 0..MaxLog,
         seen: SUBSET ((Patches \cup Own) \X (0..MaxLog))]

\* `asked' and `seen' are history: HOME's position at the call, and the
\* positions of the dictionary at which the waits found what they look for.
Idle == [kind |-> "none", want |-> {}, left |-> {}, st |-> "idle",
         asked |-> 0, seen |-> {}]

PatchTypeOK ==
  /\ log \in Seq([gate: Own \cup {None}, tab: Table]) /\ Len(log) \in 1..MaxLog
  /\ work \subseteq [op: {"connect", "disconnect"}, what: Patches \cup Own]
  /\ pc \in {"away", "asking", "subscribing", "online"}
  /\ snap \in 0..Len(log) /\ fresh \in 0..Len(log)
  /\ base \in 0..Len(log) /\ cursor \in 0..Len(log)
  /\ state \in Table
  /\ call \in [Calls -> Call]

-----------------------------------------------------------------------------
(* HOME.                                                                    *)

now == log[Len(log)].tab

Publish(g, p) ==
  /\ Len(log) < MaxLog
  /\ log' = Append(log, [gate |-> g, tab |-> [now EXCEPT ![g] = p]])

\* Another client patches, or the address appears or disappears.
HomeOther(g, p) ==
  /\ now[g] # p
  /\ Publish(g, p)
  /\ UNCHANGED <<work, mirror, call>>

HomeConnect(g, r) ==
  /\ [op |-> "connect", what |-> <<g, r>>] \in work
  /\ work' = work \ {[op |-> "connect", what |-> <<g, r>>]}
  /\ IF now[g] = Gone THEN UNCHANGED log ELSE Publish(g, now[g] \cup {r})
  /\ UNCHANGED <<mirror, call>>

HomeDisconnect(g) ==
  /\ [op |-> "disconnect", what |-> g] \in work
  /\ work' = work \ {[op |-> "disconnect", what |-> g]}
  /\ IF now[g] = Gone THEN UNCHANGED log ELSE Publish(g, {})
  /\ UNCHANGED <<mirror, call>>

ServeGet ==
  /\ pc = "asking" /\ snap = 0
  /\ snap' = Len(log)
  /\ UNCHANGED <<log, work, pc, state, fresh, base, cursor, call>>

-----------------------------------------------------------------------------
(* The dictionary of addresses.                                             *)

Enter ==
  /\ pc = "away"
  /\ pc' = "asking"
  /\ UNCHANGED <<log, work, snap, state, fresh, base, cursor, call>>

\* _sync_state: the dictionary is rebuilt from the answer ...
Sync ==
  /\ pc = "asking" /\ snap # 0
  /\ state' = log[snap].tab
  /\ fresh' = snap /\ snap' = 0
  /\ pc' = "subscribing"
  /\ UNCHANGED <<log, work, base, cursor, call>>

\* ... or, on an error, only logged and left as it was.
SyncError ==
  /\ pc = "asking" /\ snap # 0
  /\ snap' = 0
  /\ pc' = "subscribing"
  /\ UNCHANGED <<log, work, state, fresh, base, cursor, call>>

Subscribe ==
  /\ pc = "subscribing"
  /\ pc' = "online"
  /\ base' = Len(log) /\ cursor' = Len(log)
  /\ UNCHANGED <<log, work, snap, state, fresh, call>>

\* Mutant of Deliver: removals of an address are not applied.
Deliver_IgnoreRemove ==
  /\ pc = "online" /\ cursor < Len(log)
  /\ LET g == log[cursor + 1].gate
         p == log[cursor + 1].tab[g]
     IN  state' = IF p = Gone THEN state ELSE [state EXCEPT ![g] = p]
  /\ cursor' = cursor + 1
  /\ UNCHANGED <<log, work, pc, snap, fresh, base, call>>

\* cb_update_addresses: "insert" and "change" store the address, "remove"
\* deletes the key and ignores an unknown one.
Deliver ==
  /\ pc = "online" /\ cursor < Len(log)
  /\ LET g == log[cursor + 1].gate
     IN  state' = [state EXCEPT ![g] = log[cursor + 1].tab[g]]
  /\ cursor' = cursor + 1
  /\ UNCHANGED <<log, work, pc, snap, fresh, base, call>>

\* The caller leaves `async with' when no call is under way.
Exit ==
  /\ pc = "online"
  /\ \A c \in Calls : call[c].st \notin {"asked", "waiting"}
  /\ pc' = "away"
  /\ fresh' = 0 /\ base' = 0 /\ cursor' = 0
  /\ UNCHANGED <<log, work, snap, state, call>>

-----------------------------------------------------------------------------
(* The calls.                                                               *)

\* connect(conns) and disconnect(gates) send their request.  An empty list of
\* connections is refused before anything is sent.
Connect(c, C) ==
  /\ pc = "online" /\ call[c].st = "idle"
  /\ call' = [call EXCEPT ![c] =
       [kind |-> "connect", want |-> C, left |-> C, asked |-> Len(log), seen |-> {},
        st |-> IF C = {} THEN "AddressConnectError" ELSE "asked"]]
  /\ UNCHANGED <<log, work, mirror>>

Disconnect(c, G) ==
  /\ pc = "online" /\ call[c].st = "idle"
  /\ call' = [call EXCEPT ![c] =
       [kind |-> "disconnect", want |-> G, left |-> G, asked |-> Len(log), seen |-> {},
        st |-> "asked"]]
  /\ UNCHANGED <<log, work, mirror>>

\* HOME accepts, the answer reaches the caller, which starts to wait.
Accepted(c) ==
  /\ call[c].st = "asked"
  /\ work' = work \cup {[op |-> call[c].kind, what |-> x] : x \in call[c].want}
  /\ call' = [call EXCEPT ![c].st = "waiting"]
  /\ UNCHANGED <<log, mirror>>

\* HOME refuses: connect raises, disconnect does not look at the answer.
Refused(c) ==
  /\ call[c].st = "asked"
  /\ call' = [call EXCEPT ![c].st =
       IF call[c].kind = "connect" THEN "AddressConnectError" ELSE "waiting"]
  /\ UNCHANGED <<log, work, mirror>>

\* What _wait_for_connection and _wait_for_disconnection look for.
Shown(kind, x) ==
  IF kind = "connect"
  THEN state[x[1]] # Gone /\ x[2] \in state[x[1]]
  ELSE state[x] \in {Gone, {}}

\* Mutant of PollShown: the wait for a connection accepts any peer.
PollShown_AnyPeer(c, x) ==
  /\ call[c].st = "waiting" /\ x \in call[c].left
  /\ IF call[c].kind = "connect" THEN state[x[1]] \notin {Gone, {}}
     ELSE Shown(call[c].kind, x)
  /\ call' = [call EXCEPT ![c].left = @ \ {x}, ![c].seen = @ \cup {<<x, cursor>>}]
  /\ UNCHANGED <<log, work, mirror>>

\* One of the gathered waits finds its condition; it never looks again.
PollShown(c, x) ==
  /\ call[c].st = "waiting" /\ x \in call[c].left
  /\ Shown(call[c].kind, x)
  /\ call' = [call EXCEPT ![c].left = @ \ {x}, ![c].seen = @ \cup {<<x, cursor>>}]
  /\ UNCHANGED <<log, work, mirror>>

\* Mutant of Timeout: a disconnect never gives up.
Timeout_ConnectOnly(c, x) ==
  /\ call[c].st = "waiting" /\ x \in call[c].left
  /\ call[c].kind = "connect" => state[x[1]] # Gone
  /\ ~Shown(call[c].kind, x)
  /\ call' = IF call[c].kind = "disconnect" THEN call
             ELSE [call EXCEPT ![c].st = "AddressConnectError"]
  /\ UNCHANGED <<log, work, mirror>>

\* A poll past the deadline that does not find it.
Timeout(c, x) ==
  /\ call[c].st = "waiting" /\ x \in call[c].left
  /\ call[c].kind = "connect" => state[x[1]] # Gone
  /\ ~Shown(call[c].kind, x)
  /\ call' = [call EXCEPT ![c].st = "AddressConnectError"]
  /\ UNCHANGED <<log, work, mirror>>

\* state.get(label) is None while a connection is waited for: `.PeerIDs' of it.
NoAddress(c, x) ==
  /\ call[c].st = "waiting" /\ call[c].kind = "connect" /\ x \in call[c].left
  /\ state[x[1]] = Gone
  /\ call' = [call EXCEPT ![c].st = "AttributeError"]
  /\ UNCHANGED <<log, work, mirror>>

Return(c) ==
  /\ call[c].st = "waiting" /\ call[c].left = {}
  /\ call' = [call EXCEPT ![c].st = "ok"]
  /\ UNCHANGED <<log, work, mirror>>

-----------------------------------------------------------------------------
patchInit ==
  /\ \E t \in Table : log = <<[gate |-> None, tab |-> t]>>
  /\ work = {}
  /\ pc = "away" /\ snap = 0
  /\ state = [g \in Own |-> Gone]
  /\ fresh = 0 /\ base = 0 /\ cursor = 0
  /\ call = [c \in Calls |-> Idle]

HomeStep ==
  \/ \E g \in Own, p \in Peers : HomeOther(g, p)
  \/ \E g \in Own, r \in Remote : HomeConnect(g, r)
  \/ \E g \in Own : HomeDisconnect(g)

MirrorStep == Sync \/ SyncError \/ Subscribe \/ Deliver

\* The waits poll every 0.1 s; one that is not answered times out.
WaitStep(c) ==
  \/ \E x \in Patches \cup Own : PollShown(c, x) \/ Timeout(c, x)
  \/ \E x \in Patches : NoAddress(c, x)
  \/ Return(c)

AskStep(c) ==
  \/ \E C \in SUBSET Patches : Connect(c, C)
  \/ \E G \in SUBSET Own : Disconnect(c, G)

patchNext ==
  \/ HomeStep \/ ServeGet \/ Enter \/ MirrorStep \/ Exit
  \/ \E c \in Calls : AskStep(c) \/ Accepted(c) \/ Refused(c) \/ WaitStep(c)

patchSpec == patchInit /\ [][patchNext]_patchVars

\* HOME answers requests, the event loop runs the waits.  Nothing is assumed
\* of the devices: an accepted patch may never be carried out.
patchFair ==
  /\ WF_patchVars(ServeGet) /\ WF_patchVars(MirrorStep)
  /\ \A c \in Calls : WF_patchVars(Accepted(c) \/ Refused(c)) /\ WF_patchVars(WaitStep(c))

-----------------------------------------------------------------------------
(* Properties.                                                              *)

HandledSince(g) ==
  \E k \in 1..Len(log) : base < k /\ k <= cursor /\ log[k].gate = g

MissedIn(g) ==
  \E k \in 1..Len(log) : fresh < k /\ k <= base /\ log[k].gate = g

Sure(g) == pc = "online" /\ (HandledSince(g) \/ (fresh # 0 /\ ~MissedIn(g)))

\* One update of an address is enough to make its entry right, however wrong
\* the dictionary was before; without one it is right if the last fetch
\* succeeded and nothing changed the address before the subscription.
SureIsExact ==
  \A g \in Own : Sure(g) => state[g] = log[cursor].tab[g]

\* What a wait saw was so in HOME, at the position it was seen at, if the
\* dictionary was sure of the gate: no wait ends on a patch HOME never had.
Backed(kind, x, k) ==
  IF kind = "connect"
  THEN log[k].tab[x[1]] # Gone /\ x[2] \in log[k].tab[x[1]]
  ELSE log[k].tab[x] \in {Gone, {}}

SeenIsBacked ==
  [][\A c \in Calls : \A e \in call'[c].seen \ call[c].seen :
       Sure(IF call[c].kind = "connect" THEN e[1][1] ELSE e[1])
       => Backed(call[c].kind, e[1], e[2])]_patchVars

\* Every call of connect and disconnect returns or raises, also when HOME
\* accepts the request and nothing ever happens.
CallsEnd ==
  \A c \in Calls :
    (call[c].st = "asked") ~> (call[c].st \notin {"asked", "waiting"})

-----------------------------------------------------------------------------
(* Claims of the documentation that the code does not keep.                 *)

\* stream_routing.md:64: connect blocks "until confirmation that the
\* appropriate HOME updates have been published by the device": HOME had the
\* connection at some moment of the call.
ConnectedWasPublished ==
  \A c \in Calls :
    (call[c].kind = "connect" /\ call[c].st = "ok")
    => \A x \in call[c].want : \E k \in call[c].asked..Len(log) :
         log[k].tab[x[1]] # Gone /\ x[2] \in log[k].tab[x[1]]

\* addresses.py:209-210, of disconnect: "Wether or not
\* self.device.addresses.state updated with the expected disconnection (The
\* corresponding peer IDs of diconnected gates should be empty)": so they were
\* at some moment of the call.
DisconnectedIsEmpty ==
  \A c \in Calls :
    (call[c].kind = "disconnect" /\ call[c].st = "ok")
    => \A x \in call[c].want : \E k \in call[c].asked..Len(log) :
         log[k].tab[x] \in {Gone, {}}

\* addresses.py:100-101 and 154-155: connect raises AddressConnectError when the
\* expected updates were not received in time, and documents nothing else.
OnlyDocumentedErrors ==
  \A c \in Calls : call[c].st # "AttributeError"
=============================================================================
