----------------------------- MODULE Heartbeats -----------------------------
(***************************************************************************)
(* Waiting for heartbeats (wait_for_heartbeats of ldf/models/base.py) on   *)
(* the one event loop of the client.  A heartbeat the broker has delivered *)
(* is counted by a callback, and callbacks run only while the waiting      *)
(* coroutine is suspended: it suspends itself for a second when it has no  *)
(* timeout, and never when it has one.                                     *)
(***************************************************************************)
EXTENDS Integers

CONSTANTS
  Wanted,        \* num_of_hbs
  Timeouts,      \* timeouts of calls, in seconds; 0 is no timeout
  MaxBeats,      \* bound: heartbeats the device sends
  MaxBeatClock   \* bound: seconds that pass

ASSUME HeartbeatsAssumption ==
  /\ Wanted \in Nat \ {0} /\ Timeouts \subseteq Nat
  /\ MaxBeats \in Nat /\ MaxBeatClock \in Nat

VARIABLES
  beatClock, \* seconds
  sent,      \* heartbeats the device has sent
  queue,     \* heartbeats delivered to the subscription, not yet handled
  hbs,       \* heartbeats counted by cb_heartbeat
  waiter,    \* the waiting coroutine
  timeout,   \* argument of the call
  start,     \* tn, the clock at the call
  beatWake   \* clock at which the sleep ends

beatsVars == <<beatClock, sent, queue, hbs, waiter, timeout, start, beatWake>>

BeatsTypeOK ==
  /\ beatClock \in 0..MaxBeatClock /\ start \in 0..beatClock /\ beatWake \in 0..(MaxBeatClock + 1)
  /\ timeout \in Timeouts \cup {0}
  /\ sent \in 0..MaxBeats /\ queue \in 0..sent /\ hbs \in 0..sent
  /\ waiter \in {"idle", "subscribing", "looking", "sleeping", "ok",
             "HeartbeatTimeoutError"}

-----------------------------------------------------------------------------
(* The device and the clock.                                                *)

BeatsSubscribed == waiter \in {"looking", "sleeping"}

Beat ==
  /\ sent < MaxBeats
  /\ sent' = sent + 1
  /\ queue' = IF BeatsSubscribed THEN queue + 1 ELSE queue
  /\ UNCHANGED <<beatClock, hbs, waiter, timeout, start, beatWake>>

\* Time counts from the call on.  Looking takes none unless it goes on until the
\* deadline; a callback that is ready, and a sleep that is over, do not wait for
\* another second.
BeatTick ==
  /\ beatClock < MaxBeatClock /\ waiter # "idle"
  /\ waiter = "looking" => timeout # 0
  /\ waiter = "sleeping" => beatClock < beatWake /\ queue = 0
  /\ beatClock' = beatClock + 1
  /\ UNCHANGED <<sent, queue, hbs, waiter, timeout, start, beatWake>>

-----------------------------------------------------------------------------
(* The client.                                                              *)

WaitForHeartbeats ==
  /\ waiter = "idle"
  /\ waiter' = "subscribing" /\ start' = beatClock /\ timeout' \in Timeouts
  /\ UNCHANGED <<beatClock, sent, queue, hbs, beatWake>>

\* await self.client.sub(...)
Sub ==
  /\ waiter = "subscribing"
  /\ waiter' = "looking"
  /\ UNCHANGED <<beatClock, sent, queue, hbs, timeout, start, beatWake>>

\* cb_heartbeat; the loop is free for it while the coroutine is suspended.
Count ==
  /\ waiter = "sleeping" /\ queue > 0
  /\ queue' = queue - 1 /\ hbs' = hbs + 1
  /\ UNCHANGED <<beatClock, sent, waiter, timeout, start, beatWake>>

Done ==
  /\ waiter = "looking" /\ hbs >= Wanted
  /\ waiter' = "ok"
  /\ UNCHANGED <<beatClock, sent, queue, hbs, timeout, start, beatWake>>

\* Without a timeout: sleep a second and look again.
Sleep ==
  /\ waiter = "looking" /\ hbs < Wanted /\ timeout = 0
  /\ waiter' = "sleeping" /\ beatWake' = beatClock + 1
  /\ UNCHANGED <<beatClock, sent, queue, hbs, timeout, start>>

\* Mutant of BeatWakes: the sleep goes on for ever.
BeatWakes_Again ==
  /\ waiter = "sleeping" /\ beatClock >= beatWake
  /\ beatWake' = beatClock + 1
  /\ UNCHANGED <<beatClock, sent, queue, hbs, waiter, timeout, start>>

BeatWakes ==
  /\ waiter = "sleeping" /\ beatClock >= beatWake
  /\ waiter' = "looking"
  /\ UNCHANGED <<beatClock, sent, queue, hbs, timeout, start, beatWake>>

\* With a timeout: past the deadline raise, before it look again at once.
GiveUp ==
  /\ waiter = "looking" /\ hbs < Wanted /\ timeout # 0
  /\ beatClock - start >= timeout
  /\ waiter' = "HeartbeatTimeoutError"
  /\ UNCHANGED <<beatClock, sent, queue, hbs, timeout, start, beatWake>>

-----------------------------------------------------------------------------
beatsInit ==
  /\ beatClock = 0 /\ sent = 0 /\ queue = 0 /\ hbs = 0
  /\ waiter = "idle" /\ timeout = 0 /\ start = 0 /\ beatWake = 0

WaiterStep == Sub \/ Count \/ Done \/ Sleep \/ BeatWakes \/ GiveUp

beatsNext == Beat \/ BeatTick \/ WaitForHeartbeats \/ WaiterStep

beatsSpec == beatsInit /\ [][beatsNext]_beatsVars

\* Time passes, the loop runs what is ready.  The device may fall silent.
beatsFair == WF_beatsVars(BeatTick) /\ WF_beatsVars(WaiterStep)

-----------------------------------------------------------------------------
(* Properties.                                                              *)

\* A call without one returns if enough heartbeats come in time for it: here,
\* if they are all there before the last two seconds the bound allows.
EnoughBeatsEnd ==
  [](waiter = "sleeping" /\ hbs + queue >= Wanted /\ beatClock + 2 <= MaxBeatClock
       => <>(waiter = "ok"))

-----------------------------------------------------------------------------
(* A claim of the documentation that the code does not keep.                *)

\* base.py:266-267, "halt code until x number of heartbeat messages are
\* received from the target device": who gives up had not received them.
AliveIsSeen ==
  waiter = "HeartbeatTimeoutError" => hbs + queue < Wanted
=============================================================================
