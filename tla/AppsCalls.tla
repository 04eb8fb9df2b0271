----------------------------- MODULE AppsCalls ------------------------------
(***************************************************************************)
(* Creating, editing, starting, stopping and deleting HOME Apps            *)
(* (ldf/models/apps_controller/apps_controller.py), on top of the          *)
(* dictionary the calls poll: AppsCache.                                   *)
(*                                                                         *)
(* A call is a list of stages: requests, whose answer is not looked at, and *)
(* waits for a condition on the dictionary, looked at every 0.5 s.  A look  *)
(* that does not find it may be the last one.  HOME is free to do what it   *)
(* was asked for, or anything else.                                         *)
(***************************************************************************)
EXTENDS AppsCache

CONSTANTS
  Servers,   \* App Servers
  Calls,     \* calls the test makes
  Subjects   \* bound: the apps they are about

\* What HOME tells about an app, as far as the calls look at it: a device ID,
\* the first server it runs on, its health, the wanted configuration.
ASSUME CallsAssumption ==
  /\ Subjects \subseteq Names
  /\ Infos \subseteq [dev: BOOLEAN, server: Servers \cup {None}, ok: BOOLEAN, wanted: BOOLEAN]

VARIABLE call   \* the calls, see Call

avars == <<log, pc, start, got, data, base, cursor, req, left, snap, call>>

Kinds == {"create", "edit", "start", "stop", "delete", "delete_stopped"}

\* `handled' (the update handled last at the call) is history for the property.
Call == [kind: Kinds \cup {"none"}, blocking: BOOLEAN,
         name: Names \cup {None}, target: Servers \cup {None}, step: 1..6,
         st: {"idle", "going", "ok", "KeyError", "TimeoutError", "AssertionError"},
         handled: 0..MaxLog]

Idle == [kind |-> "none", blocking |-> FALSE, name |-> None, target |-> None,
         step |-> 1, st |-> "idle", handled |-> 0]

CallsTypeOK ==
  /\ TypeOK
  /\ call \in [Calls -> Call]

-----------------------------------------------------------------------------
(* The stages.                                                              *)

\* delete stops the app first unless force_stop is False (delete_stopped); start
\* asks for the server, the license and the targets before it asks for the start.
Stages(kind) ==
  CASE kind = "create" -> <<"request", "listed", "device">>
    [] kind = "edit"   -> <<"request", "edited">>
    [] kind = "stop"   -> <<"request", "stopped">>
    [] kind = "delete" -> <<"request", "stopped", "request", "gone">>
    [] kind = "delete_stopped" -> <<"request", "gone">>
    [] kind = "start"  -> <<"server", "license", "target", "request", "running", "healthy">>

Stage(c) == Stages(call[c].kind)[call[c].step]
App(c) == data[call[c].name]

\* Mutant of Met: a stopped app counts as deleted.
Met_GoneIsStopped(c, stage) ==
  CASE stage = "listed" -> App(c) # None
    [] stage = "gone" -> App(c) = None \/ App(c).server = None
    [] App(c) = None \/ stage = "target" -> FALSE
    [] stage = "device" -> App(c).dev
    [] stage = "edited" -> App(c).wanted
    [] stage = "stopped" -> App(c).server = None
    [] stage = "running" ->
         IF call[c].target = None THEN App(c).server # None
         ELSE App(c).server = call[c].target
    [] stage = "healthy" -> App(c).ok

\* Whether a wait finds its condition on the dictionary; that for a valid target
\* asks HOME.  The target None is 'auto'.
Met(c, stage) ==
  CASE stage = "listed" -> App(c) # None
    [] stage = "gone" -> App(c) = None
    [] App(c) = None \/ stage = "target" -> FALSE
    [] stage = "device" -> App(c).dev
    [] stage = "edited" -> App(c).wanted
    [] stage = "stopped" -> App(c).server = None
    [] stage = "running" ->
         IF call[c].target = None THEN App(c).server # None
         ELSE App(c).server = call[c].target
    [] stage = "healthy" -> App(c).ok

\* self.data[app_name] of an app that is not, or no longer, in the dictionary.
Raises(c, stage) ==
  App(c) = None /\ stage \in {"server", "device", "edited", "stopped",
                              "running", "healthy"}

\* delete_app does not hand `blocking' on to stop_app.
Quiet(c, stage) ==
  ~call[c].blocking /\ ~(call[c].kind = "delete" /\ stage = "stopped")

-----------------------------------------------------------------------------
(* The calls.                                                               *)

Begin(c, kind, n, s, blocking) ==
  /\ pc = "online" /\ call[c].st = "idle"
  /\ call' = [call EXCEPT ![c] =
       [kind |-> kind, blocking |-> blocking, name |-> n, target |-> s, step |-> 1,
        st |-> IF kind \notin {"create", "start"} /\ data[n] = None
               THEN "KeyError" ELSE "going",
        handled |-> cursor["apps"]]]
  /\ UNCHANGED cvars

Advanced(c) ==
  IF call[c].step = Len(Stages(call[c].kind)) THEN [call[c] EXCEPT !.st = "ok"]
  ELSE [call[c] EXCEPT !.step = @ + 1]

Going(c) == call[c].st = "going"

End(c, st) ==
  /\ call' = [call EXCEPT ![c].st = st]
  /\ UNCHANGED cvars

GoOn(c) ==
  /\ call' = [call EXCEPT ![c] = Advanced(c)]
  /\ UNCHANGED cvars

Answered(c) ==
  /\ Going(c) /\ Stage(c) \in {"request", "server", "license", "target"}
  /\ ~Raises(c, Stage(c))
  /\ GoOn(c)

\* Not enough licenses.
Unlicensed(c) ==
  /\ Going(c) /\ Stage(c) = "license" /\ call[c].blocking
  /\ End(c, "AssertionError")

Found(c) ==
  /\ Going(c) /\ Stage(c) \notin {"request", "server", "license", "target"}
  /\ ~Raises(c, Stage(c)) /\ Met(c, Stage(c))
  /\ GoOn(c)

LookupFails(c) ==
  /\ Going(c) /\ Raises(c, Stage(c))
  /\ End(c, "KeyError")

NotMet(c) ==
  /\ Going(c) /\ Stage(c) \notin {"request", "server", "license"}
  /\ ~Raises(c, Stage(c)) /\ ~Met(c, Stage(c))

\* wait_for_condition past its deadline: raise, or warn and go on.
Timeout(c) ==
  /\ NotMet(c)
  /\ IF Quiet(c, Stage(c)) THEN GoOn(c) ELSE End(c, "TimeoutError")

Leave ==
  /\ \A c \in Calls : ~Going(c)
  /\ Exit
  /\ UNCHANGED call

-----------------------------------------------------------------------------
CallsInit == Init /\ call = [c \in Calls |-> Idle]

CallStep(c) == Answered(c) \/ Unlicensed(c) \/ Found(c) \/ LookupFails(c) \/ Timeout(c)

AskStep(c) ==
  \E kind \in Kinds, n \in Subjects, blocking \in BOOLEAN :
    \E s \in (IF kind = "start" THEN Servers ELSE {}) \cup {None} :
      Begin(c, kind, n, s, blocking)

CallsNext ==
  \/ (HomeStep \/ ServeInfo \/ Enter \/ ControllerStep) /\ UNCHANGED call
  \/ Leave
  \/ \E c \in Calls : AskStep(c) \/ CallStep(c)

CallsSpec == CallsInit /\ [][CallsNext]_avars

\* HOME answers, and the loop runs what is ready: the two subscriptions are two
\* tasks.
CallsFairSpec ==
  /\ CallsSpec
  /\ WF_avars(ServeInfo /\ UNCHANGED call)
  /\ WF_avars(Deliver /\ UNCHANGED call)
  /\ WF_avars(DeliverPartial /\ UNCHANGED call)
  /\ WF_avars((InstallPartial \/ PartialFails) /\ UNCHANGED call)
  /\ WF_avars((Install \/ \E n \in Names : Page(n)) /\ UNCHANGED call)
  /\ WF_avars((\E ch \in Chans : Subscribe(ch)) /\ UNCHANGED call)

-----------------------------------------------------------------------------
(* Properties.                                                              *)

RemovedSince(c) ==
  \E k \in (call[c].handled + 1)..cursor["apps"] :
    log[k].op = "remove" /\ call[c].name \in log[k].names

\* A deletion that was to wait returns only after a removal of the app came in
\* since the call: no stop, no change and no partial update looks like one.
DeletedWasRemoved ==
  \A c \in Calls :
    (/\ pc = "online" /\ call[c].kind \in {"delete", "delete_stopped"}
     /\ call[c].blocking /\ call[c].st = "ok")
    => RemovedSince(c)

-----------------------------------------------------------------------------
(* Claims of the documentation that the code does not keep.                 *)

\* external_usage_agreement.md:40, a start waits until the "Application is
\* started and is in "Healthy" state": when it returns, it runs on the server and
\* is healthy, as far as the dictionary knows.
StartedIsHealthyThere ==
  [][\A c \in Calls :
       (call[c].kind = "start" /\ call[c].blocking /\ call[c].target # None
        /\ Going(c) /\ call'[c].st = "ok")
       => App(c).ok /\ App(c).server = call[c].target]_avars

\* apps_controller.py:606, of delete_app: "blocking (bool, optional): If True
\* raises an error on any failure" -- and if False, none for a deadline.
QuietDeleteEnds ==
  \A c \in Calls :
    (call[c].kind = "delete" /\ ~call[c].blocking) => call[c].st # "TimeoutError"

\* apps_controller.py:498, the same of create_app.
QuietCreateEnds ==
  \A c \in Calls :
    (call[c].kind = "create" /\ ~call[c].blocking) => call[c].st # "KeyError"
=============================================================================
