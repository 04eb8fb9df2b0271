------------------------ MODULE ModelSession_proofs ------------------------
(***************************************************************************)
(* The long calls of a device or app, for any pauses, deadlines and clock,  *)
(* any servers and any number of records.  A reboot that was to wait for     *)
(* both returns only after a full cycle, and no wait outlasts its deadline  *)
(* by more than a pause and an answer; a failover is reported on a record   *)
(* of its own time.                                                         *)
(***************************************************************************)
EXTENDS ModelSession, TLAPS

(***************************************************************************)
(* Rebooting an App Server.                                                 *)
(***************************************************************************)
\* What the proofs need of the types.
Typed ==
  /\ clock \in Nat /\ begun \in Nat /\ wake \in Nat
  /\ alive \in BOOLEAN /\ goal \in BOOLEAN /\ wasOff \in BOOLEAN /\ back \in BOOLEAN
  /\ args \in [offline: BOOLEAN, online: BOOLEAN]

\* While the call waits, and when it has returned, the history tells of the
\* server since HOME accepted the reboot.
HistoryFits ==
  Waiting \/ st = "ok" => (alive \/ wasOff) /\ (wasOff /\ alive => back)

\* It waits for the server to come back only after it has seen it offline.
GoalFits == Waiting => args.offline /\ (goal => wasOff)

\* A question and a sleep begin before the deadline, or end at it.
PlaceFits ==
  /\ Waiting => clock <= wake
  /\ st = "asking" => wake <= begun + Deadline + 1
  /\ st = "sleeping" => wake <= begun + Deadline + 1 + Pause

RebootInv == Typed /\ HistoryFits /\ GoalFits /\ PlaceFits /\ OkMeansCycled

-----------------------------------------------------------------------------
LEMMA DeadlineType ==
  ASSUME Typed  PROVE Deadline \in Nat
BY RebootAssumption DEF Typed, Deadline

LEMMA RebootInvInit == rebootInit => RebootInv
<1> SUFFICES ASSUME rebootInit PROVE RebootInv
  OBVIOUS
<1>1. Typed BY DEF rebootInit, Typed
<1>2. st = "idle" /\ ~Waiting BY DEF rebootInit, Waiting
<1>3. HistoryFits /\ GoalFits /\ PlaceFits /\ OkMeansCycled
  BY <1>2 DEF HistoryFits, GoalFits, PlaceFits, OkMeansCycled
<1> QED BY <1>1, <1>3 DEF RebootInv

\* The server changes: what it has been through is kept.
LEMMA FlipKeeps ==
  ASSUME RebootInv, Flip  PROVE RebootInv'
<1>1. Typed' BY DEF RebootInv, Typed, Flip
<1>2. HistoryFits' BY DEF RebootInv, Typed, HistoryFits, Flip, Waiting
<1>3. GoalFits' BY DEF RebootInv, Typed, GoalFits, Flip, Waiting
<1>4. PlaceFits' BY DEF RebootInv, PlaceFits, Flip, Waiting, Deadline
<1>5. OkMeansCycled' BY DEF RebootInv, Typed, OkMeansCycled, Flip
<1> QED BY <1>1, <1>2, <1>3, <1>4, <1>5 DEF RebootInv

LEMMA TickKeeps ==
  ASSUME RebootInv, RebootTick  PROVE RebootInv'
<1>1. Typed' BY DEF RebootInv, Typed, RebootTick
<1>2. HistoryFits' BY DEF RebootInv, HistoryFits, RebootTick, Waiting
<1>3. GoalFits' BY DEF RebootInv, GoalFits, RebootTick, Waiting
<1>4. PlaceFits'
  BY RebootAssumption DEF RebootInv, Typed, PlaceFits, RebootTick, Waiting, Deadline
<1>5. OkMeansCycled' BY DEF RebootInv, OkMeansCycled, RebootTick
<1> QED BY <1>1, <1>2, <1>3, <1>4, <1>5 DEF RebootInv

\* A wait that begins, for either state, begins within its deadline.
LEMMA WaitForKeepsPlace ==
  ASSUME Typed, NEW online \in BOOLEAN, WaitFor(online), UNCHANGED <<clock, alive>>
  PROVE  PlaceFits' /\ begun' \in Nat /\ wake' \in Nat /\ goal' \in BOOLEAN
<1>1. Deadline' \in Nat
  <2>1. {OnTimeout, OffTimeout} \subseteq Nat BY RebootAssumption
  <2> QED BY <2>1 DEF WaitFor, Deadline
<1>2. st' = "asking" /\ clock' = clock /\ begun' = clock /\ wake' = clock + 1 /\ goal' = online
  BY DEF WaitFor
<1>3. begun' \in Nat /\ wake' \in Nat /\ goal' \in BOOLEAN BY <1>2 DEF Typed
<1>4. PlaceFits'
  <2>1. clock' <= wake' BY <1>2 DEF Typed
  <2>2. wake' <= begun' + Deadline' + 1
    <3>1. PICK d \in Nat : d = Deadline' BY <1>1
    <3>2. wake' <= begun' + d + 1 BY <1>2 DEF Typed
    <3> QED BY <3>1, <3>2
  <2> QED BY <1>2, <2>1, <2>2 DEF PlaceFits
<1> QED BY <1>3, <1>4

LEMMA RebootedKeeps ==
  ASSUME RebootInv, Rebooted  PROVE RebootInv'
<1>1. Typed' /\ PlaceFits'
  <2>1. CASE args.offline
    BY <2>1, WaitForKeepsPlace DEF RebootInv, Rebooted, Typed
  <2>2. CASE ~args.offline
    BY <2>2 DEF RebootInv, Rebooted, Typed, PlaceFits, Waiting
  <2> QED BY <2>1, <2>2
<1>2. HistoryFits' BY DEF RebootInv, Typed, Rebooted, HistoryFits, WaitFor
<1>3. GoalFits' BY DEF RebootInv, Typed, Rebooted, GoalFits, WaitFor, Waiting
<1>4. OkMeansCycled' BY DEF RebootInv, Rebooted, OkMeansCycled, WaitFor
<1> QED BY <1>1, <1>2, <1>3, <1>4 DEF RebootInv

\* The answer is the state waited for: offline, and the wait for the way back
\* begins; or online after it was seen offline.
LEMMA ReachedKeeps ==
  ASSUME RebootInv, Reached  PROVE RebootInv'
<1>1. Typed' /\ PlaceFits'
  <2>1. CASE goal = FALSE /\ args.online
    BY <2>1, WaitForKeepsPlace DEF RebootInv, Reached, Typed
  <2>2. CASE ~(goal = FALSE /\ args.online)
    BY <2>2 DEF RebootInv, Reached, Typed, PlaceFits, Waiting
  <2> QED BY <2>1, <2>2
<1>2. HistoryFits' BY DEF RebootInv, Reached, HistoryFits, Waiting
<1>3. GoalFits' BY DEF RebootInv, Typed, Reached, HistoryFits, GoalFits, WaitFor, Waiting
<1>4. OkMeansCycled'
  <2> SUFFICES ASSUME st' = "ok", args'.offline, args'.online PROVE wasOff' /\ back'
    BY DEF OkMeansCycled
  <2>1. goal = TRUE BY DEF RebootInv, Typed, Reached, WaitFor
  <2> QED BY <2>1 DEF RebootInv, Typed, Reached, HistoryFits, GoalFits, Waiting
<1> QED BY <1>1, <1>2, <1>3, <1>4 DEF RebootInv

LEMMA NotReachedKeeps ==
  ASSUME RebootInv, NotReached  PROVE RebootInv'
<1>1. Typed' BY RebootAssumption DEF RebootInv, Typed, NotReached
<1>2. HistoryFits' BY DEF RebootInv, NotReached, HistoryFits, Waiting
<1>3. GoalFits' BY DEF RebootInv, NotReached, GoalFits, Waiting
<1>4. PlaceFits'
  <2>1. Deadline' = Deadline BY DEF NotReached, Deadline
  <2> QED BY <2>1, DeadlineType, RebootAssumption
          DEF RebootInv, Typed, NotReached, PlaceFits, Waiting
<1>5. OkMeansCycled' BY DEF NotReached, OkMeansCycled
<1> QED BY <1>1, <1>2, <1>3, <1>4, <1>5 DEF RebootInv

\* After a sleep, and after a question that failed.
LEMMA LookAtClockKeeps ==
  ASSUME RebootInv, Waiting, LookAtClock,
         UNCHANGED <<clock, alive, args, goal, wasOff, back, held>>
  PROVE  RebootInv'
<1>1. Typed' BY DEF RebootInv, Typed, LookAtClock
<1>2. HistoryFits' BY DEF RebootInv, LookAtClock, HistoryFits, Waiting
<1>3. GoalFits' BY DEF RebootInv, LookAtClock, GoalFits, Waiting
<1>4. PlaceFits'
  <2>1. Deadline' = Deadline BY DEF Deadline
  <2> QED BY <2>1, DeadlineType DEF RebootInv, Typed, LookAtClock, PlaceFits, Waiting
<1>5. OkMeansCycled' BY DEF LookAtClock, OkMeansCycled
<1> QED BY <1>1, <1>2, <1>3, <1>4, <1>5 DEF RebootInv

\* Every step keeps the invariant.
LEMMA RebootInvStep == RebootInv /\ [rebootNext]_rebootVars => RebootInv'
<1> SUFFICES ASSUME RebootInv, [rebootNext]_rebootVars PROVE RebootInv'
  OBVIOUS
<1>1. CASE Flip BY <1>1, FlipKeeps
<1>2. CASE RebootTick BY <1>2, TickKeeps
<1>3. ASSUME NEW off \in BOOLEAN, NEW on \in BOOLEAN, Reboot(off, on) PROVE RebootInv'
  BY <1>3 DEF RebootInv, Typed, HistoryFits, GoalFits, PlaceFits, OkMeansCycled,
              Waiting, Reboot
<1>4. CASE RebootFails
  BY <1>4 DEF RebootInv, Typed, HistoryFits, GoalFits, PlaceFits, OkMeansCycled,
              Waiting, RebootFails
<1>5. CASE Rebooted BY <1>5, RebootedKeeps
<1>6. CASE Reached BY <1>6, ReachedKeeps
<1>7. CASE NotReached BY <1>7, NotReachedKeeps
<1>8. CASE Wake BY <1>8, LookAtClockKeeps DEF Wake, Waiting
<1>9. CASE AskFails BY <1>9, LookAtClockKeeps DEF AskFails, Waiting
<1>10. CASE UNCHANGED rebootVars
  BY <1>10 DEF RebootInv, Typed, HistoryFits, GoalFits, PlaceFits, OkMeansCycled,
               Waiting, Deadline, rebootVars
<1> QED
  BY <1>1, <1>2, <1>3, <1>4, <1>5, <1>6, <1>7, <1>8, <1>9, <1>10
  DEF rebootNext, RebootAnswer

LEMMA RebootInvHolds == rebootSpec => []RebootInv
BY RebootInvInit, RebootInvStep, PTL DEF rebootSpec

\* A reboot that was to wait for both returns only after the server went offline
\* and came back (reboot, kero.py:85-99).
THEOREM RebootsCycle == rebootSpec => []OkMeansCycled
<1>1. RebootInv => OkMeansCycled BY DEF RebootInv
<1> QED BY <1>1, RebootInvHolds, PTL

\* A wait is over a pause and an answer after its deadline, whatever the server
\* does and however many questions fail (wait_for_online_status, kero.py:113-129).
THEOREM WaitsEndInTime == rebootSpec => []EndsInTime
<1>1. RebootInv => EndsInTime
  <2> SUFFICES ASSUME RebootInv PROVE EndsInTime OBVIOUS
  <2>1. Deadline \in Nat BY DeadlineType DEF RebootInv
  <2> QED BY <2>1, RebootAssumption DEF RebootInv, Typed, PlaceFits, EndsInTime, Waiting
<1> QED BY <1>1, RebootInvHolds, PTL

(***************************************************************************)
(* The failover of an app.                                                  *)
(***************************************************************************)
AppStates ==
  {"away", "entering", "raised", "ready", "triggering", "deciding", "looking", "sleeping", "success",
   "timeout", "not triggered", "asking pages", "pages pause", "pages", "UnknownGCFPageError"}

FailoverType ==
  [st : AppStates, target : Servers \cup {NoServer}, enabled : BOOLEAN, since : Nat,
   wake : Nat, final : Nat]

\* What the proofs need of the types.
RecordsTyped ==
  /\ records \in Seq(Record) /\ Len(records) >= 1
  /\ handled \in Nat /\ info \in Nat /\ fetched \in Nat /\ looked \in Nat
  /\ handled <= Len(records) /\ info <= Len(records) /\ fetched <= Len(records)

FailoverTyped ==
  /\ failover \in FailoverType /\ failover.final <= Len(records)
  /\ settings \in [enabled : BOOLEAN, group : Servers \cup {NoServer}] /\ now \in Nat

\* From entering on there is a record.
RecordIsHeld == failover.st \notin {"away", "entering", "raised"} => info >= 1

\* While the failover is waited for, the record held is one of an update handled
\* since, or does not show the app on the target: the answer to apps_get may be
\* younger than what is handled, so that its number alone says nothing.
WaitIsOpen ==
  failover.st \in {"looking", "sleeping"} =>
    /\ looked <= handled
    /\ info > looked \/ records[info].on # failover.target

AppInv == RecordsTyped /\ FailoverTyped /\ RecordIsHeld /\ WaitIsOpen /\ SuccessWasSeen

-----------------------------------------------------------------------------
LEMMA AppInvInit == appInit => AppInv
<1> SUFFICES ASSUME appInit PROVE AppInv
  OBVIOUS
<1>1. PICK r \in Record : records = <<r>> BY DEF appInit
<1>2. records \in Seq(Record) /\ Len(records) = 1 BY <1>1
<1>3. failover = AppAtRest BY DEF appInit
<1>4. failover \in FailoverType /\ failover.st = "away" /\ failover.final = 0
  BY <1>3 DEF AppAtRest, FailoverType, AppStates
<1>5. RecordsTyped BY <1>2 DEF appInit, RecordsTyped
<1>6. FailoverTyped BY <1>2, <1>4 DEF appInit, FailoverTyped
<1> QED BY <1>4, <1>5, <1>6 DEF AppInv, RecordIsHeld, WaitIsOpen, SuccessWasSeen

\* HOME publishes: what the records of before say stays as it is.
LEMMA HomePublishesKeeps ==
  ASSUME AppInv, HomePublishes  PROVE AppInv'
<1>1. PICK r \in Record : records' = Append(records, r) BY DEF HomePublishes
<1>2. RecordsTyped /\ FailoverTyped BY DEF AppInv
<1>3. /\ records' \in Seq(Record) /\ Len(records') = Len(records) + 1
      /\ \A i \in 1..Len(records) : records'[i] = records[i]
  BY <1>1, <1>2 DEF RecordsTyped
<1>4. UNCHANGED <<settings, handled, info, fetched, failover, now, looked>>
  BY DEF HomePublishes
<1>5. RecordsTyped' BY <1>2, <1>3, <1>4 DEF RecordsTyped
<1>6. FailoverTyped'
  <2>1. failover.final \in Nat BY <1>2 DEF FailoverTyped, FailoverType
  <2> QED BY <1>2, <1>3, <1>4, <2>1 DEF FailoverTyped, RecordsTyped
<1>7. RecordIsHeld' BY <1>4 DEF AppInv, RecordIsHeld
<1>8. WaitIsOpen'
  <2> SUFFICES ASSUME failover.st \in {"looking", "sleeping"} PROVE WaitIsOpen'
    BY <1>4 DEF WaitIsOpen
  <2>1. info \in 1..Len(records) BY <1>2 DEF AppInv, RecordIsHeld, RecordsTyped
  <2> QED BY <2>1, <1>3, <1>4 DEF AppInv, WaitIsOpen
<1>9. SuccessWasSeen'
  <2> SUFFICES ASSUME failover.st = "success" PROVE SuccessWasSeen'
    BY <1>4 DEF SuccessWasSeen
  <2>1. failover.final > looked /\ records[failover.final].on = failover.target
    BY DEF AppInv, SuccessWasSeen
  <2>2. failover.final \in Nat BY <1>2 DEF FailoverTyped, FailoverType
  <2>3. failover.final \in 1..Len(records)
    BY <1>2, <2>1, <2>2 DEF FailoverTyped, RecordsTyped
  <2> QED BY <2>1, <2>3, <1>3, <1>4 DEF SuccessWasSeen
<1> QED BY <1>5, <1>6, <1>7, <1>8, <1>9 DEF AppInv

\* An update is handled: the record that takes the place of the one held is
\* younger than the decision to wait.
LEMMA HandleUpdateKeeps ==
  ASSUME AppInv, HandleUpdate  PROVE AppInv'
<1>1. RecordsTyped BY DEF AppInv
<1>2. UNCHANGED <<records, settings, failover, now, looked, fetched>> BY DEF HandleUpdate
<1>3. handled' = handled + 1 /\ handled' <= Len(records)
  BY <1>1 DEF HandleUpdate, RecordsTyped
<1>4. info' = handled' \/ info' = info BY DEF HandleUpdate
<1>5. RecordsTyped' BY <1>1, <1>2, <1>3, <1>4 DEF RecordsTyped
<1>6. FailoverTyped' BY <1>2 DEF AppInv, FailoverTyped
<1>7. RecordIsHeld' BY <1>1, <1>2, <1>3, <1>4 DEF AppInv, RecordsTyped, RecordIsHeld
<1>8. WaitIsOpen' BY <1>1, <1>2, <1>3, <1>4 DEF AppInv, RecordsTyped, WaitIsOpen
<1>9. SuccessWasSeen' BY <1>2 DEF AppInv, SuccessWasSeen
<1> QED BY <1>5, <1>6, <1>7, <1>8, <1>9 DEF AppInv

\* The answer to apps_get is put in place.
LEMMA InstallAppKeeps ==
  ASSUME AppInv, InstallApp  PROVE AppInv'
<1>1. RecordsTyped /\ FailoverTyped BY DEF AppInv
<1>2. /\ info' = fetched /\ fetched # 0 /\ fetched' = 0
      /\ failover' = [failover EXCEPT !.st = "ready"]
      /\ UNCHANGED <<records, settings, handled, now, looked>>
  BY DEF InstallApp
<1>3. RecordsTyped' BY <1>1, <1>2 DEF RecordsTyped
<1>4. failover \in FailoverType /\ "ready" \in AppStates
  BY <1>1 DEF FailoverTyped, AppStates
<1>5. failover' \in FailoverType /\ failover'.st = "ready" /\ failover'.final = failover.final
  BY <1>2, <1>4 DEF FailoverType
<1>6. FailoverTyped' BY <1>1, <1>2, <1>5 DEF FailoverTyped
<1>7. info' >= 1 BY <1>1, <1>2 DEF RecordsTyped
<1> QED BY <1>3, <1>5, <1>6, <1>7 DEF AppInv, RecordIsHeld, WaitIsOpen, SuccessWasSeen

\* It is decided to wait only for a target the record held does not show.
LEMMA DecideKeeps ==
  ASSUME AppInv, Decide  PROVE AppInv'
<1>1. RecordsTyped /\ FailoverTyped /\ RecordIsHeld BY DEF AppInv
<1>2. /\ UNCHANGED <<records, settings, handled, info, fetched, now>> /\ looked' = handled
      /\ failover.st = "deciding"
  BY DEF Decide, FailoverStep
<1>3. failover \in FailoverType /\ {"not triggered", "looking"} \subseteq AppStates
      /\ now \in Nat /\ info \in Nat
  BY <1>1 DEF FailoverTyped, RecordsTyped, AppStates
<1>4. \/ failover' = [failover EXCEPT !.st = "not triggered", !.final = info]
      \/ failover' = [failover EXCEPT !.st = "looking", !.since = now] /\ ~OnTarget
  BY DEF Decide
<1>5. /\ failover' \in FailoverType /\ failover'.target = failover.target
      /\ failover'.st \in {"not triggered", "looking"}
      /\ failover'.st = "looking" => ~OnTarget
      /\ failover'.final \in {info, failover.final}
  <2>1. CASE failover' = [failover EXCEPT !.st = "not triggered", !.final = info]
    BY <1>3, <2>1 DEF FailoverType
  <2>2. CASE failover' = [failover EXCEPT !.st = "looking", !.since = now] /\ ~OnTarget
    BY <1>3, <2>2 DEF FailoverType
  <2> QED BY <1>4, <2>1, <2>2
<1>6. RecordsTyped' BY <1>1, <1>2 DEF RecordsTyped
<1>7. FailoverTyped' BY <1>1, <1>2, <1>5 DEF FailoverTyped, RecordsTyped
<1>8. RecordIsHeld' BY <1>1, <1>2 DEF RecordIsHeld
<1>9. WaitIsOpen'
  <2>1. looked' <= handled' BY <1>1, <1>2 DEF RecordsTyped
  <2>2. failover'.st # "sleeping" BY <1>5
  <2> QED BY <1>2, <1>5, <2>1, <2>2 DEF WaitIsOpen, OnTarget
<1> QED BY <1>5, <1>6, <1>7, <1>8, <1>9 DEF AppInv, SuccessWasSeen

\* A look at the record: it ends on the target only with the record of an update
\* handled since.
LEMMA LookKeeps ==
  ASSUME AppInv, Look  PROVE AppInv'
<1>1. RecordsTyped /\ FailoverTyped /\ RecordIsHeld /\ WaitIsOpen BY DEF AppInv
<1>2. /\ UNCHANGED <<records, settings, handled, info, fetched, now, looked>>
      /\ failover.st = "looking"
  BY DEF Look, FailoverStep
<1>3. failover \in FailoverType /\ {"success", "timeout", "sleeping"} \subseteq AppStates
      /\ now + 1 \in Nat /\ info \in Nat
  BY <1>1 DEF FailoverTyped, RecordsTyped, AppStates
<1>4. \/ failover' = [failover EXCEPT !.st = "success", !.final = info] /\ OnTarget
      \/ failover' = [failover EXCEPT !.st = "timeout", !.final = info]
      \/ failover' = [failover EXCEPT !.st = "sleeping", !.wake = now + 1]
  BY DEF Look
<1>5. /\ failover' \in FailoverType /\ failover'.target = failover.target
      /\ failover'.st = "success" => OnTarget /\ failover'.final = info
      /\ failover'.final \in {info, failover.final}
  <2>1. CASE failover' = [failover EXCEPT !.st = "success", !.final = info] /\ OnTarget
    BY <1>3, <2>1 DEF FailoverType
  <2>2. CASE failover' = [failover EXCEPT !.st = "timeout", !.final = info]
    BY <1>3, <2>2 DEF FailoverType
  <2>3. CASE failover' = [failover EXCEPT !.st = "sleeping", !.wake = now + 1]
    BY <1>3, <2>3 DEF FailoverType
  <2> QED BY <1>4, <2>1, <2>2, <2>3
<1>6. RecordsTyped' BY <1>1, <1>2 DEF RecordsTyped
<1>7. FailoverTyped' BY <1>1, <1>2, <1>5 DEF FailoverTyped, RecordsTyped
<1>8. RecordIsHeld' BY <1>1, <1>2 DEF RecordIsHeld
<1>9. WaitIsOpen' BY <1>1, <1>2, <1>5 DEF WaitIsOpen
<1>10. SuccessWasSeen'
  <2> SUFFICES ASSUME failover'.st = "success" PROVE SuccessWasSeen'
    BY DEF SuccessWasSeen
  <2>1. OnTarget /\ info > looked BY <1>1, <1>2, <1>5 DEF WaitIsOpen, OnTarget
  <2> QED BY <1>2, <1>5, <2>1 DEF SuccessWasSeen, OnTarget
<1> QED BY <1>6, <1>7, <1>8, <1>9, <1>10 DEF AppInv

\* A sleep ends: the failover is looked for again, or the pages are.
LEMMA WakeUpKeeps ==
  ASSUME AppInv, WakeUp  PROVE AppInv'
<1>1. RecordsTyped /\ FailoverTyped /\ RecordIsHeld /\ WaitIsOpen BY DEF AppInv
<1>2. /\ UNCHANGED <<records, settings, handled, info, fetched, now, looked>>
      /\ failover.st \in {"sleeping", "pages pause"}
      /\ failover' = [failover EXCEPT
           !.st = IF failover.st = "sleeping" THEN "looking" ELSE "asking pages",
           !.wake = now + 1]
  BY DEF WakeUp, FailoverStep, Sleeping
<1>3. failover \in FailoverType /\ {"looking", "asking pages"} \subseteq AppStates
      /\ now + 1 \in Nat
  BY <1>1 DEF FailoverTyped, AppStates
<1>4. /\ failover' \in FailoverType /\ failover'.target = failover.target
      /\ failover'.st = IF failover.st = "sleeping" THEN "looking" ELSE "asking pages"
      /\ failover'.final = failover.final
  <2> DEFINE s == IF failover.st = "sleeping" THEN "looking" ELSE "asking pages"
             w == now + 1
  <2>1. s \in AppStates /\ w \in Nat BY <1>3
  <2>2. failover' = [failover EXCEPT !.st = s, !.wake = w] BY <1>2
  <2> HIDE DEF s, w
  <2>3. failover' \in FailoverType /\ failover'.target = failover.target
        /\ failover'.st = s /\ failover'.final = failover.final
    BY <1>3, <2>1, <2>2 DEF FailoverType
  <2> QED BY <2>3 DEF s
<1>5. RecordsTyped' BY <1>1, <1>2 DEF RecordsTyped
<1>6. FailoverTyped' BY <1>1, <1>2, <1>4 DEF FailoverTyped
<1>7. RecordIsHeld' BY <1>1, <1>2 DEF RecordIsHeld
<1>8. failover'.st \in {"looking", "sleeping"} => failover.st = "sleeping" BY <1>4
<1>9. WaitIsOpen' BY <1>1, <1>2, <1>4, <1>8 DEF WaitIsOpen
<1>10. failover'.st # "success" BY <1>4
<1> QED BY <1>5, <1>6, <1>7, <1>9, <1>10 DEF AppInv, SuccessWasSeen

\* A step of the call that has to do with no wait for a failover.
LEMMA MovesKeep ==
  ASSUME AppInv, UNCHANGED <<records, settings, handled, info, fetched, now, looked>>,
         failover.st \notin {"away", "entering", "raised"},
         failover' \in FailoverType, failover'.final = failover.final,
         failover'.st \notin {"looking", "sleeping", "success"}
  PROVE  AppInv'
<1>1. RecordsTyped' BY DEF AppInv, RecordsTyped
<1>2. FailoverTyped' BY DEF AppInv, FailoverTyped
<1>3. RecordIsHeld' BY DEF AppInv, RecordIsHeld
<1> QED BY <1>1, <1>2, <1>3 DEF AppInv, WaitIsOpen, SuccessWasSeen

\* The steps from one state of the call to another, with or without a time.
LEMMA CallMovesKeep ==
  ASSUME AppInv, TriggerFailover \/ Triggered \/ UpdateCtls \/ PagesLate \/ CtlsAnswer
  PROVE  AppInv'
<1>1. failover \in FailoverType /\ now \in Nat /\ now + 1 \in Nat
  BY DEF AppInv, FailoverTyped
<1>2. {"triggering", "deciding", "asking pages", "pages pause", "pages",
       "UnknownGCFPageError"} \subseteq AppStates
  BY DEF AppStates
<1>3. CASE TriggerFailover
  <2>1. settings.enabled \in BOOLEAN /\ settings.group \in Servers \cup {NoServer}
    BY DEF AppInv, FailoverTyped
  <2>2. failover' = [failover EXCEPT !.st = "triggering", !.enabled = settings.enabled,
                                     !.target = settings.group]
    BY <1>3 DEF TriggerFailover
  <2>3. failover' \in FailoverType /\ failover'.st = "triggering"
        /\ failover'.final = failover.final
    BY <1>1, <1>2, <2>1, <2>2 DEF FailoverType
  <2> QED BY <1>3, <2>3, MovesKeep DEF TriggerFailover, FailoverStep
<1>4. CASE Triggered \/ PagesLate
  <2>1. PICK s \in {"deciding", "UnknownGCFPageError"} : failover' = [failover EXCEPT !.st = s]
    BY <1>4 DEF Triggered, PagesLate
  <2>2. failover' \in FailoverType /\ failover'.st = s /\ failover'.final = failover.final
    BY <1>1, <1>2, <2>1 DEF FailoverType
  <2> QED BY <1>4, <2>2, MovesKeep DEF Triggered, PagesLate, FailoverStep
<1>5. CASE UpdateCtls
  <2>1. failover' = [failover EXCEPT !.st = "asking pages", !.since = now, !.wake = now + 1]
    BY <1>5 DEF UpdateCtls
  <2>2. failover' \in FailoverType /\ failover'.st = "asking pages"
        /\ failover'.final = failover.final
    BY <1>1, <1>2, <2>1 DEF FailoverType
  <2> QED BY <1>5, <2>2, MovesKeep DEF UpdateCtls, FailoverStep
<1>6. CASE CtlsAnswer
  <2>1. \/ failover' = [failover EXCEPT !.st = "pages"]
        \/ failover' = [failover EXCEPT !.st = "pages pause", !.wake = now + 1]
    BY <1>6 DEF CtlsAnswer, PagesPause
  <2>2. failover' \in FailoverType /\ failover'.st \in {"pages", "pages pause"}
        /\ failover'.final = failover.final
    BY <1>1, <1>2, <2>1 DEF FailoverType
  <2> QED BY <1>6, <2>2, MovesKeep DEF CtlsAnswer
<1> QED BY <1>3, <1>4, <1>5, <1>6

\* Every step keeps the invariant.
LEMMA AppInvStep == AppInv /\ [appNext]_appVars => AppInv'
<1> SUFFICES ASSUME AppInv, [appNext]_appVars PROVE AppInv'
  OBVIOUS
<1>1. CASE HomePublishes BY <1>1, HomePublishesKeeps
<1>2. CASE OtherSets \/ PagesAppear \/ AppTick \/ ServeApp \/ UNCHANGED appVars
  <2>1. /\ UNCHANGED <<records, handled, info, failover, looked>>
        /\ fetched' \in {fetched, Len(records)} /\ now' \in {now, now + 1}
        /\ settings' \in [enabled : BOOLEAN, group : Servers \cup {NoServer}]
    BY <1>2 DEF OtherSets, PagesAppear, AppTick, ServeApp, appVars, AppInv, FailoverTyped
  <2>2. RecordsTyped' BY <2>1 DEF AppInv, RecordsTyped
  <2>3. FailoverTyped' BY <2>1 DEF AppInv, FailoverTyped
  <2> QED BY <2>1, <2>2, <2>3 DEF AppInv, RecordIsHeld, WaitIsOpen, SuccessWasSeen
<1>3. CASE EnterApp
  <2>1. failover \in FailoverType /\ "entering" \in AppStates
    BY DEF AppInv, FailoverTyped, AppStates
  <2>2. failover' \in FailoverType /\ failover'.st = "entering"
        /\ failover'.final = failover.final
    BY <1>3, <2>1 DEF FailoverType, EnterApp
  <2>3. RecordsTyped' BY <1>3 DEF EnterApp, AppInv, RecordsTyped
  <2>4. FailoverTyped' BY <1>3, <2>2 DEF EnterApp, AppInv, FailoverTyped
  <2> QED BY <2>2, <2>3, <2>4 DEF AppInv, RecordIsHeld, WaitIsOpen, SuccessWasSeen
<1>4. CASE InstallApp BY <1>4, InstallAppKeeps
<1>10. CASE EnterAppFails
  <2>1. failover \in FailoverType /\ "raised" \in AppStates
    BY DEF AppInv, FailoverTyped, AppStates
  <2>2. failover' \in FailoverType /\ failover'.st = "raised"
        /\ failover'.final = failover.final
    BY <1>10, <2>1 DEF FailoverType, EnterAppFails
  <2>3. RecordsTyped' BY <1>10 DEF EnterAppFails, AppInv, RecordsTyped
  <2>4. FailoverTyped' BY <1>10, <2>2 DEF EnterAppFails, AppInv, FailoverTyped
  <2> QED BY <2>2, <2>3, <2>4 DEF AppInv, RecordIsHeld, WaitIsOpen, SuccessWasSeen
<1>5. CASE HandleUpdate BY <1>5, HandleUpdateKeeps
<1>6. CASE Decide BY <1>6, DecideKeeps
<1>7. CASE Look BY <1>7, LookKeeps
<1>8. CASE WakeUp BY <1>8, WakeUpKeeps
<1>9. CASE TriggerFailover \/ Triggered \/ UpdateCtls \/ PagesLate \/ CtlsAnswer
  BY <1>9, CallMovesKeep
<1> QED
  BY <1>1, <1>2, <1>3, <1>4, <1>5, <1>6, <1>7, <1>8, <1>9, <1>10
  DEF appNext, AppStep

\* A failover is reported to have ended on the target only on an update handled
\* since it was decided to wait (trigger_failover, kero.py:214-291).
THEOREM SuccessIsNew == appSpec => []SuccessWasSeen
<1>1. AppInv => SuccessWasSeen BY DEF AppInv
<1> QED BY <1>1, AppInvInit, AppInvStep, PTL DEF appSpec

(***************************************************************************)
(* The session: each of its behaviours is one of each of the calls.         *)
(***************************************************************************)
LEMMA SessionMakesCalls == Spec => rebootSpec /\ appSpec
<1>1. Init => rebootInit /\ appInit BY DEF Init
<1>2. [Next]_vars => [rebootNext]_rebootVars /\ [appNext]_appVars
  BY DEF Next, vars
<1> QED BY <1>1, <1>2, PTL DEF Spec, rebootSpec, appSpec

\* What the run of the session checks of its reboots and failovers holds for every
\* value of its constants, of whichever call its behaviours make (LawoHomeNativeApp
\* and LawoHomeAppServer of kero.py).
THEOREM ModelSessionIsSafe == Spec => [](OkMeansCycled /\ SuccessWasSeen)
BY SessionMakesCalls, RebootsCycle, SuccessIsNew, PTL
=============================================================================
