------------------------------ MODULE AppModel ------------------------------
(***************************************************************************)
(* The model of one HOME App (LawoHomeNativeApp of ldf/models/kero.py): its  *)
(* info record, which updates replace, a failover that is triggered and      *)
(* awaited on that record, and the wait for the pages of its controls.      *)
(***************************************************************************)
EXTENDS Integers, Sequences

CONSTANTS
  Servers,          \* App Servers
  NoServer,         \* the app runs nowhere; an empty group tag
  FailoverTimeout,  \* failover_timeout and the hold-off, in seconds
  PagesTimeout,     \* timeout of update_ctls
  MaxRecords,       \* bound: records of the app that HOME publishes
  MaxAppClock       \* bound: seconds

ASSUME AppModelAssumption ==
  /\ NoServer \notin Servers
  /\ {FailoverTimeout, PagesTimeout, MaxRecords, MaxAppClock} \subseteq Nat

VARIABLES
  records,   \* HOME: records of the app so far; the last is the current one
  settings,  \* HOME: Mode and Group of the Redundancy page
  pages,     \* HOME: the sub pages of `Send' are there
  handled,   \* how many records were published before the next to handle
  info,      \* the record held, by its number; 0 before the first
  fetched,   \* the record in HOME's answer; 0 = none
  failover,  \* the call: what it does, what it read, when its wait began, and the
             \* record that gave the final server
  ctls,      \* the tree held has the sub pages of `Send'
  now,       \* seconds
  sure,      \* history: an update was handled since the answer was put in place
  looked     \* history: `handled' when the failover was decided on

appVars == <<records, settings, pages, handled, info, fetched, failover, ctls, now,
             sure, looked>>

\* Where the app runs (NoServer for nowhere), which servers it may run on, and
\* whether HOME published it whole or as a partial update.
Record == [on : Servers \cup {NoServer}, targets : SUBSET Servers, whole : BOOLEAN]

AppAtRest == [st |-> "away", target |-> NoServer, enabled |-> FALSE, since |-> 0, wake |-> 0,
              final |-> 0]

AppTypeOK ==
  /\ records \in Seq(Record) /\ Len(records) \in 1..MaxRecords
  /\ settings \in [enabled : BOOLEAN, group : Servers \cup {NoServer}]
  /\ pages \in BOOLEAN /\ ctls \in BOOLEAN /\ sure \in BOOLEAN
  /\ {handled, info, fetched, looked} \subseteq 0..Len(records)
  /\ failover.st \in {"away", "entering", "raised", "ready", "triggering", "deciding", "looking",
                      "sleeping", "success", "timeout", "not triggered",
                      "asking pages", "pages pause", "pages", "UnknownGCFPageError"}
  /\ now \in 0..MaxAppClock /\ failover.wake \in 0..(MaxAppClock + 1)

-----------------------------------------------------------------------------
(* HOME and the clock.                                                      *)

HomePublishes ==
  /\ Len(records) < MaxRecords
  /\ \E r \in Record : records' = Append(records, r) /\ r # records[Len(records)]
  /\ UNCHANGED <<settings, pages, handled, info, fetched, failover, ctls, now, sure, looked>>

OtherSets ==
  /\ failover.st = "ready"
  /\ settings' \in [enabled : BOOLEAN, group : Servers \cup {NoServer}]
  /\ settings' # settings
  /\ UNCHANGED <<records, pages, handled, info, fetched, failover, ctls, now, sure, looked>>

PagesAppear ==
  /\ ~pages /\ pages' = TRUE
  /\ UNCHANGED <<records, settings, handled, info, fetched, failover, ctls, now, sure, looked>>

AppSubscribed == failover.st # "away"

Sleeping == failover.st \in {"sleeping", "pages pause"}

\* Time counts from entering on.  A sleep is not overslept, updates are handled
\* within the second, and HOME answers a question for the pages within one.
AppTick ==
  /\ now < MaxAppClock
  /\ Sleeping \/ failover.st = "asking pages" => now < failover.wake
  /\ failover.st \notin {"looking", "deciding", "success", "timeout"}
  /\ AppSubscribed /\ handled = Len(records)
  /\ now' = now + 1
  /\ UNCHANGED <<records, settings, pages, handled, info, fetched, failover, ctls, sure, looked>>

-----------------------------------------------------------------------------
(* The record.                                                              *)

\* super().__aenter__() has subscribed; apps_get is asked next.
EnterApp ==
  /\ failover.st = "away"
  /\ failover' = [failover EXCEPT !.st = "entering"]
  /\ handled' = Len(records)
  /\ UNCHANGED <<records, settings, pages, info, fetched, ctls, now, sure, looked>>

ServeApp ==
  /\ failover.st = "entering" /\ fetched = 0
  /\ fetched' = Len(records)
  /\ UNCHANGED <<records, settings, pages, handled, info, failover, ctls, now, sure, looked>>

\* The answer takes the place of whatever an update has put there.
InstallApp ==
  /\ failover.st = "entering" /\ fetched # 0
  /\ info' = fetched /\ fetched' = 0 /\ sure' = FALSE
  /\ failover' = [failover EXCEPT !.st = "ready"]
  /\ UNCHANGED <<records, settings, pages, handled, ctls, now, looked>>

\* An answer that lists no app, an IndexError, or no answer at all: __aenter__
\* raises, and what was subscribed to stays so.
EnterAppFails ==
  /\ failover.st = "entering"
  /\ failover' = [failover EXCEPT !.st = "raised"] /\ fetched' = 0
  /\ UNCHANGED <<records, settings, pages, handled, info, ctls, now, sure, looked>>

\* Mutant of HandleUpdate: the record stays what it was while a call goes on.
HandleUpdate_BetweenCalls ==
  /\ AppSubscribed /\ handled < Len(records)
  /\ failover.st \notin {"deciding", "looking"}
  /\ handled' = handled + 1
  /\ IF records[handled'].whole /\ failover.st # "sleeping"
     THEN info' = handled' /\ sure' = TRUE
     ELSE UNCHANGED <<info, sure>>
  /\ UNCHANGED <<records, settings, pages, fetched, failover, ctls, now, looked>>

\* cb_update_application; only update.apps is subscribed to, so that what HOME
\* publishes as a partial update is not seen.
HandleUpdate ==
  /\ AppSubscribed /\ handled < Len(records)
  /\ failover.st \notin {"deciding", "looking"}
  /\ handled' = handled + 1
  /\ IF records[handled'].whole THEN info' = handled' /\ sure' = TRUE
     ELSE UNCHANGED <<info, sure>>
  /\ UNCHANGED <<records, settings, pages, fetched, failover, ctls, now, looked>>

-----------------------------------------------------------------------------
(* trigger_failover.                                                        *)

FailoverStep ==
  UNCHANGED <<records, settings, pages, handled, info, fetched, ctls, now, sure>>

\* Mode, Group and Holdoff are asked for.
TriggerFailover ==
  /\ failover.st = "ready"
  /\ failover' = [failover EXCEPT !.st = "triggering", !.enabled = settings.enabled,
                                  !.target = settings.group]
  /\ FailoverStep /\ UNCHANGED looked

\* The trigger is fetched, sent back and slept over; then it is decided, on the
\* record held by now.
Triggered ==
  /\ failover.st = "triggering"
  /\ failover' = [failover EXCEPT !.st = "deciding"]
  /\ FailoverStep /\ UNCHANGED looked

OnTarget == records[info].on = failover.target

Decide ==
  /\ failover.st = "deciding"
  /\ looked' = handled
  /\ failover' =
       IF ~failover.enabled \/ failover.target = NoServer \/ OnTarget
          \/ failover.target \notin records[info].targets
       THEN [failover EXCEPT !.st = "not triggered", !.final = info]
       ELSE [failover EXCEPT !.st = "looking", !.since = now]
  /\ FailoverStep

\* Mutant of Look: any move of the app is taken for the failover.
Look_AnyMove ==
  /\ failover.st = "looking"
  /\ failover' =
       IF OnTarget \/ info > looked THEN [failover EXCEPT !.st = "success", !.final = info]
       ELSE IF now - failover.since > FailoverTimeout
       THEN [failover EXCEPT !.st = "timeout", !.final = info]
       ELSE [failover EXCEPT !.st = "sleeping", !.wake = now + 1]
  /\ FailoverStep /\ UNCHANGED looked

\* The record first, then the clock; between two looks a second of sleep.
Look ==
  /\ failover.st = "looking"
  /\ failover' =
       IF OnTarget THEN [failover EXCEPT !.st = "success", !.final = info]
       ELSE IF now - failover.since > FailoverTimeout
       THEN [failover EXCEPT !.st = "timeout", !.final = info]
       ELSE [failover EXCEPT !.st = "sleeping", !.wake = now + 1]
  /\ FailoverStep /\ UNCHANGED looked

WakeUp ==
  /\ Sleeping /\ now >= failover.wake
  /\ failover' = [failover EXCEPT
       !.st = IF failover.st = "sleeping" THEN "looking" ELSE "asking pages",
       !.wake = now + 1]
  /\ FailoverStep /\ UNCHANGED looked

-----------------------------------------------------------------------------
(* update_ctls.                                                             *)

UpdateCtls ==
  /\ failover.st = "ready"
  /\ failover' = [failover EXCEPT !.st = "asking pages", !.since = now, !.wake = now + 1]
  /\ FailoverStep /\ UNCHANGED looked

PagesPause == [failover EXCEPT !.st = "pages pause", !.wake = now + 1]

\* ctls_get_ctl_all: the tree is put in place whatever is in it; an error is
\* logged.  Then a second of sleep.
CtlsAnswer ==
  /\ failover.st = "asking pages" /\ now - failover.since <= PagesTimeout
  /\ \/ /\ ctls' = pages
        /\ failover' = IF pages THEN [failover EXCEPT !.st = "pages"] ELSE PagesPause
     \/ failover' = PagesPause /\ UNCHANGED ctls
  /\ UNCHANGED <<records, settings, pages, handled, info, fetched, now, sure, looked>>

\* asyncio.timeout cancels whatever is awaited.
PagesLate ==
  /\ failover.st \in {"asking pages", "pages pause"}
  /\ now - failover.since >= PagesTimeout
  /\ failover' = [failover EXCEPT !.st = "UnknownGCFPageError"]
  /\ FailoverStep /\ UNCHANGED looked

-----------------------------------------------------------------------------
appInit ==
  /\ \E r \in Record : r.whole /\ records = <<r>>
  /\ settings \in [enabled : BOOLEAN, group : Servers \cup {NoServer}]
  /\ pages = FALSE /\ ctls = FALSE /\ handled = 0 /\ info = 0 /\ fetched = 0
  /\ failover = AppAtRest /\ now = 0 /\ sure = FALSE /\ looked = 0

AppStep ==
  \/ ServeApp \/ InstallApp \/ HandleUpdate \/ Triggered \/ Decide \/ Look \/ WakeUp
  \/ CtlsAnswer \/ PagesLate

appNext ==
  \/ HomePublishes \/ OtherSets \/ PagesAppear \/ AppTick \/ EnterApp \/ EnterAppFails
  \/ TriggerFailover \/ UpdateCtls \/ AppStep

appSpec == appInit /\ [][appNext]_appVars

\* Time passes, HOME answers, the loop runs what is ready.
appFair == WF_appVars(AppStep) /\ WF_appVars(AppTick)
-----------------------------------------------------------------------------
(* Properties.                                                              *)

\* A failover is reported to have ended on the target only if an update handled
\* since it was decided to wait showed the app there: a record that was held
\* before, however it came and went, is not enough.
SuccessWasSeen ==
  failover.st = "success" =>
    /\ failover.final > looked
    /\ records[failover.final].on = failover.target

\* A failover that HOME publishes as a whole record while it is waited for, two
\* seconds before the deadline, and after which it publishes no more, is reported.
FailoverIsSeen ==
  LET Due == /\ failover.st = "sleeping" /\ Len(records) = MaxRecords
             /\ handled < Len(records)
             /\ records[Len(records)].whole /\ records[Len(records)].on = failover.target
             /\ now + 2 <= failover.since + FailoverTimeout /\ now + 2 <= MaxAppClock
  IN [](Due => <>(failover.st = "success"))

-----------------------------------------------------------------------------
(* Claims of the documentation that the code does not keep.                 *)

\* kero.py:206, "Get info on current state": the answer replaces the record of
\* an update that was handled while it was on its way.
InfoIsNotOlder ==
  \A i \in 1..handled :
    records[i].whole /\ i > 1 /\ info # 0 /\ failover.st # "entering" /\ looked = 0
      => info >= i

\* kero.py:261, "Failover was not triggered": it has been triggered by then, and
\* the app moves.
NotTriggeredStays ==
  [](failover.st = "not triggered" /\ failover.enabled /\ failover.target # NoServer
       => [](records[Len(records)].on # failover.target))

\* kero.py:214, "Will manually trigger the failover": if the record held is not
\* the current one, a failover that is over is waited for until the deadline.
FailedOverIsSeen ==
  failover.st = "timeout" =>
    ~ \A i \in 1..Len(records) :
        i >= looked => records[i].on = failover.target /\ records[i].whole
=============================================================================
