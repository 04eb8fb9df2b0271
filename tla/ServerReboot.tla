---------------------------- MODULE ServerReboot ----------------------------
(***************************************************************************)
(* Rebooting an App Server (reboot and wait_for_online_status of           *)
(* ldf/models/kero.py).  The state of the server is asked for, and between *)
(* two questions the caller sleeps; whether the deadline is over is looked *)
(* at after the sleep, before the next question.                           *)
(***************************************************************************)
EXTENDS Integers

CONSTANTS
  Pause,        \* between two questions
  OffTimeout,   \* deadline for the server to go offline
  OnTimeout,    \* deadline for it to come back
  MaxClock,     \* bound: time that passes
  MayFail       \* questions may go unanswered

ASSUME RebootAssumption ==
  {Pause, OffTimeout, OnTimeout, MaxClock} \subseteq Nat \ {0} /\ MayFail \in BOOLEAN

VARIABLES
  clock,   \* time, in the unit of the constants
  alive,   \* HOME: the server is ONLINE
  st,      \* the call: what it is doing
  args,    \* wait_for_offline, wait_for_online
  goal,    \* the state waited for: TRUE is ONLINE
  begun,   \* start_time of the wait
  wake,    \* end of the sleep, or of HOME's time to answer
  wasOff,  \* history: offline since the reboot was accepted
  back,    \* history: online again after that
  held     \* history: how long HOME has been in the state waited for, during
           \* the wait; -1 = never in it

rebootVars == <<clock, alive, st, args, goal, begun, wake, wasOff, back, held>>

Waiting == st \in {"asking", "sleeping"}

RebootTypeOK ==
  /\ clock \in 0..MaxClock
  /\ alive \in BOOLEAN /\ goal \in BOOLEAN
  /\ args \in [offline: BOOLEAN, online: BOOLEAN]
  /\ st \in {"idle", "rebooting", "asking", "sleeping", "ok", "TimeoutError", "error"}
  /\ begun \in 0..clock /\ wake \in 0..(MaxClock + Pause)
  /\ wasOff \in BOOLEAN /\ back \in BOOLEAN
  /\ held \in -1..MaxClock

-----------------------------------------------------------------------------
(* The server and the clock.                                                *)

Flip ==
  /\ alive' = ~alive
  /\ wasOff' = (wasOff \/ ~alive')
  /\ back' = (back \/ (wasOff /\ alive'))
  /\ held' = IF Waiting /\ alive' = goal /\ held = -1 THEN 0 ELSE held
  /\ UNCHANGED <<clock, st, args, goal, begun, wake>>

\* Time counts from the call on.  A sleep is not overslept, and HOME answers within
\* a unit.
RebootTick ==
  /\ clock < MaxClock /\ st # "idle"
  /\ Waiting => clock < wake
  /\ clock' = clock + 1
  /\ held' = IF Waiting /\ held # -1 THEN held + 1 ELSE held
  /\ UNCHANGED <<alive, st, args, goal, begun, wake, wasOff, back>>

-----------------------------------------------------------------------------
(* The call.                                                                *)

Reboot(off, on) ==
  /\ st = "idle"
  /\ st' = "rebooting" /\ args' = [offline |-> off, online |-> on]
  /\ UNCHANGED <<clock, alive, goal, begun, wake, wasOff, back, held>>

RebootFails ==
  /\ st = "rebooting"
  /\ st' = "error"
  /\ UNCHANGED <<clock, alive, args, goal, begun, wake, wasOff, back, held>>

WaitFor(online) ==
  /\ st' = "asking" /\ goal' = online
  /\ begun' = clock /\ wake' = clock + 1
  /\ held' = IF alive = online THEN 0 ELSE -1

Rebooted ==
  /\ st = "rebooting"
  /\ wasOff' = ~alive /\ back' = FALSE
  /\ IF args.offline THEN WaitFor(FALSE)
     ELSE st' = "ok" /\ UNCHANGED <<goal, begun, wake, held>>
  /\ UNCHANGED <<clock, alive, args>>

\* Mutant of Reached: once offline is seen the reboot counts as done.
Reached_HalfWay ==
  /\ st = "asking" /\ alive = goal
  /\ st' = "ok"
  /\ UNCHANGED <<clock, alive, args, goal, begun, wake, wasOff, back, held>>

\* HOME's answer is the state waited for.
Reached ==
  /\ st = "asking" /\ alive = goal
  /\ IF goal = FALSE /\ args.online THEN WaitFor(TRUE)
     ELSE st' = "ok" /\ UNCHANGED <<goal, begun, wake, held>>
  /\ UNCHANGED <<clock, alive, args, wasOff, back>>

NotReached ==
  /\ st = "asking" /\ alive # goal
  /\ st' = "sleeping" /\ wake' = clock + Pause
  /\ UNCHANGED <<clock, alive, args, goal, begun, wasOff, back, held>>

Deadline == IF goal THEN OnTimeout ELSE OffTimeout

\* `time.time() - start_time > timeout'; exactly at the deadline it may be either.
LookAtClock ==
  \/ /\ clock - begun >= Deadline
     /\ st' = "TimeoutError" /\ UNCHANGED <<wake, begun>>
  \/ /\ clock - begun <= Deadline
     /\ st' = "asking" /\ wake' = clock + 1 /\ UNCHANGED begun

Wake ==
  /\ st = "sleeping" /\ clock >= wake
  /\ LookAtClock
  /\ UNCHANGED <<clock, alive, args, goal, wasOff, back, held>>

\* HOME does not answer, or with no device: ask again without a pause.
AskFails ==
  /\ MayFail
  /\ st = "asking"
  /\ LookAtClock
  /\ UNCHANGED <<clock, alive, args, goal, wasOff, back, held>>

-----------------------------------------------------------------------------
rebootInit ==
  /\ clock = 0 /\ alive = TRUE /\ st = "idle"
  /\ args = [offline |-> TRUE, online |-> TRUE]
  /\ goal = TRUE /\ begun = 0 /\ wake = 0
  /\ wasOff = FALSE /\ back = FALSE /\ held = -1

RebootAnswer == Rebooted \/ RebootFails \/ Reached \/ NotReached \/ AskFails

rebootNext ==
  \/ Flip \/ RebootTick
  \/ \E off, on \in BOOLEAN : Reboot(off, on)
  \/ RebootAnswer \/ Wake

rebootSpec == rebootInit /\ [][rebootNext]_rebootVars

\* Time passes, HOME answers in time or the request fails, sleeps end.
rebootFair ==
  WF_rebootVars(RebootTick) /\ WF_rebootVars(RebootAnswer) /\ WF_rebootVars(Wake)

-----------------------------------------------------------------------------
(* Properties.                                                              *)

\* A reboot that was to wait for both returns only after the server went
\* offline, and came back, since HOME accepted the reboot.
OkMeansCycled == (st = "ok" /\ args.offline /\ args.online) => wasOff /\ back

\* No wait outlasts its deadline by more than a pause and an answer.
EndsInTime == Waiting => clock - begun <= Deadline + Pause + 1

-----------------------------------------------------------------------------
(* Claims of the documentation that the code does not keep.                 *)

\* kero.py:110, "TimeoutError: Raised if the epxected state is not reached in
\* time": not if it was reached before the deadline and never left again.
TimeoutMeansNotReached ==
  st = "TimeoutError" =>
    ~(alive = goal /\ held > 1 /\ clock - held < begun + Deadline - 1)

\* kero.py:76, "Will wait for the server to go ffline then block until it's back
\* online": a server that has gone offline is not missed by the first wait.
CycleIsNoticed == (st = "TimeoutError" /\ goal = FALSE) => ~(wasOff /\ back)
=============================================================================
