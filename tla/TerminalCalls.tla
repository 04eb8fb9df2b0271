--------------------------- MODULE TerminalCalls ----------------------------
(***************************************************************************)
(* Routing the internal terminals of a device (ldf/attributes/             *)
(* terminals.py), on top of the endpoint cache the calls poll: DeviceMirror *)
(* with the destination terminals as Ids and the source terminals as Vals. *)
(* A disconnected destination stays listed with the empty source NoSrc.    *)
(*                                                                         *)
(* HOME's answer and the device's updates are independent; a poll that     *)
(* does not find what it waits for may be the last one (3 s).              *)
(***************************************************************************)
EXTENDS DeviceCalls

CONSTANTS NoSrc   \* the empty SrcID

ASSUME NoSrcAssumption == NoSrc \in Vals

\* `asked' (journal position at the call) and `listed' (destinations
\* cached for sure at the answer, by a cache that had caught up with the call)
\* are history for the properties.
Call == [kind: {"none", "connect", "disconnect", "disconnect_all"},
         st: {"idle", "asked", "served", "waiting", "ok", "False", "TimeoutError"},
         want: SUBSET (Ids \X Vals), left: SUBSET (Ids \X Vals),
         asked: 0..MaxLog, listed: SUBSET Ids]

Idle == [kind |-> "none", st |-> "idle", want |-> {}, left |-> {},
         asked |-> 0, listed |-> {}]

CallsTypeOK ==
  /\ TypeOK
  /\ work \subseteq Ids \X Vals
  /\ call \in [Calls -> Call]

-----------------------------------------------------------------------------
(* HOME and the device.                                                     *)

Routed == {i \in Ids : now.items[i] \notin {None, NoSrc}}

Accept(c) ==
  /\ call[c].st = "asked"
  /\ work' = work \cup (IF call[c].kind = "disconnect_all" THEN Routed \X {NoSrc}
                        ELSE call[c].want)
  /\ call' = [call EXCEPT ![c].st = "served"]
  /\ UNCHANGED mirror

\* HOME refuses: only disconnect_all looks at the answer.
Refuse(c) ==
  /\ call[c].st = "asked"
  /\ call' = [call EXCEPT ![c].st =
       IF call[c].kind = "disconnect_all" THEN "False" ELSE "served"]
  /\ UNCHANGED <<mirror, work>>

CarryOut(t) ==
  /\ t \in work
  /\ work' = work \ {t}
  /\ HomeInsert(t[1], t[2]) \/ HomeChange(t[1], t[2])
  /\ UNCHANGED call

-----------------------------------------------------------------------------
(* The calls.                                                               *)

Sources(i) == {local.items[i][k] : k \in 1..Len(local.items[i])}

Ask(c, kind, W) ==
  /\ pc \in {"online", "resetting"} /\ call[c].st = "idle"
  /\ call' = [call EXCEPT ![c] =
       [Idle EXCEPT !.kind = kind, !.st = "asked", !.want = W, !.asked = Len(log)]]
  /\ UNCHANGED <<mirror, work>>

Connect(c, W) == Ask(c, "connect", W)
Disconnect(c, D) == Ask(c, "disconnect", D \X {NoSrc})
DisconnectAll(c) == Ask(c, "disconnect_all", {})

\* Mutant of Targets: disconnect_all takes HOME's answer for the deed.
Targets_NoWait(c) ==
  IF call[c].kind = "disconnect_all" THEN {} ELSE call[c].want

\* disconnect_all waits for every connection that is cached at the answer.
Targets(c) ==
  IF call[c].kind = "disconnect_all" THEN Cached \X {NoSrc} ELSE call[c].want

Answered(c) ==
  /\ call[c].st = "served"
  /\ call' = [call EXCEPT ![c].st = "waiting", ![c].left = Targets(c),
                          ![c].listed =
                            {i \in Cached : Sure(i) /\ cursor >= call[c].asked}]
  /\ UNCHANGED <<mirror, work>>

\* Mutant of Shown: any source of the destination will do.
Shown_AnySource(x) == Sources(x[1]) # {}

\* wait_for_connection: the source is among those cached for the destination.
Shown(x) == x[2] \in Sources(x[1])

Poll(c, x) ==
  /\ call[c].st = "waiting" /\ x \in call[c].left
  /\ Shown(x)
  /\ call' = [call EXCEPT ![c].left = @ \ {x}]
  /\ UNCHANGED <<mirror, work>>

\* The last poll of the 3 s does not find it.
Timeout(c, x) ==
  /\ call[c].st = "waiting" /\ x \in call[c].left
  /\ ~Shown(x)
  /\ call' = [call EXCEPT ![c].st = "TimeoutError"]
  /\ UNCHANGED <<mirror, work>>

-----------------------------------------------------------------------------
CallsInit == Init /\ work = {} /\ call = [c \in Calls |-> Idle]

WaitStep(c) ==
  \/ Answered(c) \/ Return(c)
  \/ \E x \in Ids \X Vals : Poll(c, x) \/ Timeout(c, x)

AskStep(c) ==
  \/ \E W \in SUBSET (Ids \X (Vals \ {NoSrc})) : Connect(c, W)
  \/ \E D \in SUBSET Ids : Disconnect(c, D)
  \/ DisconnectAll(c)

CallsNext ==
  \/ (HomeStep \/ ServeGet \/ Enter \/ ClientStep) /\ UNCHANGED <<work, call>>
  \/ Leave
  \/ \E t \in work : CarryOut(t)
  \/ \E c \in Calls : AskStep(c) \/ Accept(c) \/ Refuse(c) \/ WaitStep(c)

CallsSpec == CallsInit /\ [][CallsNext]_callVars

-----------------------------------------------------------------------------
(* Properties.                                                              *)

\* A wait ends on a routing HOME had at the position the cache has reached,
\* whenever the cache is sure of the destination (terminals.py:166-180).
ShownIsRouted ==
  [][\A c \in Calls : \A x \in call[c].left \ call'[c].left :
       Sure(x[1]) => log[cursor].sec.items[x[1]] = x[2]]_callVars

\* Since the call, HOME's journal only disconnected i, and nothing was reset.
OnlyDisconnected(c, i) ==
  \A k \in 2..Len(log) :
    k > call[c].asked =>
      /\ log[k].op # "reset"
      /\ log[k].sec.items[i] \in {log[k - 1].sec.items[i], NoSrc}

\* What the tests rely on after disconnect_all: a destination that was
\* cached for sure by a cache that had caught up when the answer came, and that
\* nobody routes again, is shown as disconnected when the call has returned.
\* Without one of these a stale entry, or one that a reset brings early, ends
\* the wait and comes back.
DisconnectAllEmpties ==
  \A c \in Calls :
    (call[c].kind = "disconnect_all" /\ call[c].st = "ok")
    => \A i \in call[c].listed :
         (/\ Sure(i) /\ call[c].asked <= cursor /\ OnlyDisconnected(c, i))
         => local.items[i] = <<NoSrc>>
=============================================================================
