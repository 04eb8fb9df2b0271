----------------------------- MODULE AppsCache ------------------------------
(***************************************************************************)
(* The dictionary of HOME Apps a HomeAppsController keeps                  *)
(* (ldf/models/apps_controller/apps_controller.py): read page by page when *)
(* the controller is entered, then kept by two subscriptions.  An update on *)
(* update.apps carries the apps; one on update.appspartial only names them, *)
(* and its handler asks HOME for one after the other and waits for the     *)
(* answers while the other subscription goes on.  An error in a handler    *)
(* ends it, the apps of its message that are left included; the            *)
(* subscription goes on with the next update.                              *)
(*                                                                         *)
(* HOME is a journal: one entry per update, with the apps it is about and   *)
(* all apps as they were then.  Positions in it stand for moments.         *)
(***************************************************************************)
EXTENDS Integers, Sequences, FiniteSets

CONSTANTS
  Names,     \* names of apps
  Tracked,   \* those that match tracked_names; all of them when it is not given
  Infos,     \* what HOME tells about an app
  None,      \* no such app
  Tables,    \* bound: what HOME may hold at a time, Names -> Infos or None
  Batches,   \* bound: the apps one message may tell of
  MaxLog     \* bound: length of HOME's journal

ASSUME AppsAssumption ==
  /\ Tracked \subseteq Names /\ None \notin Infos \cup Names /\ MaxLog \in Nat \ {0}
  /\ Tables \subseteq [Names -> Infos \cup {None}] /\ Batches \subseteq SUBSET Names

Chans == {"apps", "partial"}

VARIABLES
  log,      \* HOME: journal of records [op, names, tab]
  pc,       \* phase of the controller
  start,    \* journal position at the first page
  got,      \* apps of the pages read: Names -> journal position, 0 = none
  data,     \* self.data: Names -> Infos, None = no such key
  base,     \* Chans -> journal position of the subscription, -1 = none
  cursor,   \* Chans -> journal position of the update handled last
  req,      \* app the handler of a partial update has asked for, or None
  left,     \* apps of its message that it has not come to
  snap      \* journal position of HOME's answer to it, 0 = not yet

home == <<log>>
controller == <<pc, start, got, data, base, cursor, req, left, snap>>
cvars == <<log, pc, start, got, data, base, cursor, req, left, snap>>

TypeOK ==
  /\ log \in Seq([op: {"init", "insert", "change", "partial", "remove"},
                  names: SUBSET Names, tab: Tables])
  /\ Len(log) \in 1..MaxLog
  /\ pc \in {"away", "paging", "subscribing", "online"}
  /\ start \in 0..Len(log) /\ got \in [Names -> 0..Len(log)]
  /\ data \in [Names -> Infos \cup {None}]
  /\ \A ch \in Chans : base[ch] \in -1..Len(log) /\ cursor[ch] \in 0..Len(log)
  /\ req \in Names \cup {None} /\ left \subseteq Names /\ snap \in 0..Len(log)

-----------------------------------------------------------------------------
(* HOME.                                                                    *)

now == log[Len(log)].tab

Publish(op, S, tab) ==
  /\ Len(log) < MaxLog
  /\ \A n \in Names \ S : tab[n] = now[n]
  /\ log' = Append(log, [op |-> op, names |-> S, tab |-> tab])
  /\ UNCHANGED controller

\* What one message tells of: apps S, one or several.
HomeInsert(S, tab) == (\A n \in S : now[n] = None /\ tab[n] # None) /\ Publish("insert", S, tab)
HomeChange(S, tab) == (\A n \in S : now[n] # None /\ tab[n] # None) /\ Publish("change", S, tab)
HomePartial(S, tab) == (\A n \in S : now[n] # None /\ tab[n] # None) /\ Publish("partial", S, tab)
HomeRemove(S, tab) == (\A n \in S : now[n] # None /\ tab[n] = None) /\ Publish("remove", S, tab)

\* HOME answers the request of the handler.
ServeInfo ==
  /\ req # None /\ snap = 0
  /\ snap' = Len(log)
  /\ UNCHANGED <<log, pc, start, got, data, base, cursor, req, left>>

-----------------------------------------------------------------------------
(* __aenter__ and __aexit__.                                                *)

Enter ==
  /\ pc = "away"
  /\ pc' = "paging" /\ start' = Len(log) /\ got' = [n \in Names |-> 0]
  /\ UNCHANGED <<log, data, base, cursor, req, left, snap>>

\* HOME still has to list: those not listed yet.  One that was inserted after
\* the first page may be before or behind the place the pages have reached.
InsertedSince(n) ==
  \E k \in (start + 1)..Len(log) : log[k].op = "insert" /\ n \in log[k].names
Remaining == {n \in Tracked : now[n] # None /\ got[n] = 0}

\* get_all_apps_info: one app of a page; the pages are answered one by one.
Page(n) ==
  /\ pc = "paging" /\ n \in Remaining
  /\ got' = [got EXCEPT ![n] = Len(log)]
  /\ UNCHANGED <<log, pc, start, data, base, cursor, req, left, snap>>

\* The last page: the apps are taken over.  What is cached of other apps stays.
Install ==
  /\ pc = "paging" /\ \A n \in Remaining : InsertedSince(n)
  /\ data' = [n \in Names |-> IF got[n] = 0 THEN data[n] ELSE log[got[n]].tab[n]]
  /\ pc' = "subscribing"
  /\ UNCHANGED <<log, start, got, base, cursor, req, left, snap>>

\* subscribe_for_updates, one subscription after the other.
Subscribe(ch) ==
  /\ pc = "subscribing" /\ base[ch] = -1
  /\ ch = "partial" => base["apps"] # -1
  /\ base' = [base EXCEPT ![ch] = Len(log)]
  /\ cursor' = [cursor EXCEPT ![ch] = Len(log)]
  /\ pc' = IF ch = "partial" THEN "online" ELSE pc
  /\ UNCHANGED <<log, start, got, data, req, left, snap>>

Exit ==
  /\ pc = "online"
  /\ pc' = "away"
  /\ base' = [ch \in Chans |-> -1] /\ cursor' = [ch \in Chans |-> 0]
  /\ req' = None /\ left' = {} /\ snap' = 0
  /\ UNCHANGED <<log, start, got, data>>

-----------------------------------------------------------------------------
(* The updates.                                                             *)

\* Updates waiting in a subscription.
Queued(ch) ==
  IF base[ch] = -1 THEN {}
  ELSE {k \in (cursor[ch] + 1)..Len(log) : (log[k].op = "partial") <=> (ch = "partial")}
Oldest(S) == CHOOSE k \in S : \A j \in S : k <= j

\* Mutant of Update: an "insert" does not replace an app of that name.
Update_KeepOld(d, u) ==
  [n \in Names |->
     IF n \in u.names /\ (IF u.op = "insert" THEN n \in Tracked /\ d[n] = None ELSE d[n] # None)
     THEN u.tab[n] ELSE d[n]]

\* update_apps on update.apps, app by app: only an "insert" adds, if the name is
\* tracked; the others are of apps that are cached.
Update(d, u) ==
  [n \in Names |->
     IF n \in u.names /\ (IF u.op = "insert" THEN n \in Tracked ELSE d[n] # None)
     THEN u.tab[n] ELSE d[n]]

Deliver ==
  /\ Queued("apps") # {}
  /\ LET k == Oldest(Queued("apps"))
     IN  /\ data' = Update(data, log[k])
         /\ cursor' = [cursor EXCEPT !["apps"] = k]
  /\ UNCHANGED <<log, pc, start, got, base, req, left, snap>>

\* update_apps on update.appspartial comes to the next app of the message that
\* is cached and asks for it; those it passes are not.  d: what is cached.
GoesOn(rest, d) ==
  IF \A n \in rest : d[n] = None THEN req' = None /\ left' = {}
  ELSE \E n \in {m \in rest : d[m] # None} :
         \E passed \in SUBSET {m \in rest : d[m] = None} :
           req' = n /\ left' = rest \ (passed \cup {n})

DeliverPartial ==
  /\ req = None /\ Queued("partial") # {}
  /\ LET k == Oldest(Queued("partial"))
     IN  GoesOn(log[k].names, data) /\ cursor' = [cursor EXCEPT !["partial"] = k]
  /\ UNCHANGED <<log, pc, start, got, data, base, snap>>

\* Mutant of InstallPartial: the app is put in whether it is still there or not.
InstallPartial_Put ==
  /\ req # None /\ snap # 0
  /\ data' = [data EXCEPT ![req] = log[snap].tab[req]]
  /\ snap' = 0 /\ GoesOn(left, data')
  /\ UNCHANGED <<log, pc, start, got, base, cursor>>

\* The answer replaces the app, if it is still there.
InstallPartial ==
  /\ req # None /\ snap # 0
  /\ data[req] # None /\ log[snap].tab[req] # None
  /\ data' = [data EXCEPT ![req] = log[snap].tab[req]]
  /\ snap' = 0 /\ GoesOn(left, data')
  /\ UNCHANGED <<log, pc, start, got, base, cursor>>

\* Mutant of PartialFails: only the errors of the request itself end the handler.
PartialFails_Stuck ==
  /\ req # None /\ snap = 0
  /\ req' = None /\ left' = {} /\ snap' = 0
  /\ UNCHANGED <<log, pc, start, got, data, base, cursor>>

\* No such app raises UnknownAppError, an app that has left the dictionary mean-
\* while KeyError; an error as the answer, or none in time, is raised too.  All
\* end the handler, with the rest of its message.
PartialFails ==
  /\ req # None
  /\ req' = None /\ left' = {} /\ snap' = 0
  /\ UNCHANGED <<log, pc, start, got, data, base, cursor>>

-----------------------------------------------------------------------------
Init ==
  /\ \E tab \in Tables : log = <<[op |-> "init", names |-> {}, tab |-> tab]>>
  /\ pc = "away" /\ start = 0 /\ got = [n \in Names |-> 0]
  /\ data = [n \in Names |-> None]
  /\ base = [ch \in Chans |-> -1] /\ cursor = [ch \in Chans |-> 0]
  /\ req = None /\ left = {} /\ snap = 0

HomeStep ==
  \E S \in Batches, tab \in Tables :
    HomeInsert(S, tab) \/ HomeChange(S, tab) \/ HomePartial(S, tab) \/ HomeRemove(S, tab)

ControllerStep ==
  \/ \E n \in Names : Page(n)
  \/ Install
  \/ \E ch \in Chans : Subscribe(ch)
  \/ Deliver \/ DeliverPartial \/ InstallPartial \/ PartialFails

Next == HomeStep \/ ServeInfo \/ Enter \/ ControllerStep \/ Exit

Spec == Init /\ [][Next]_cvars

\* HOME answers, and the loop runs what is ready: the two subscriptions are two
\* tasks.
FairSpec ==
  /\ Spec
  /\ WF_cvars(ServeInfo) /\ WF_cvars(Deliver)
  /\ WF_cvars(DeliverPartial) /\ WF_cvars(InstallPartial \/ PartialFails)
  /\ WF_cvars(Install \/ \E n \in Names : Page(n))
  /\ WF_cvars(\E ch \in Chans : Subscribe(ch))

-----------------------------------------------------------------------------
(* Properties.                                                              *)

\* The update of n handled last on update.apps in this session, 0 = none.
Handled(n) == {k \in (base["apps"] + 1)..cursor["apps"] :
                 n \in log[k].names /\ log[k].op # "partial"}
LastHandled(n) ==
  IF base["apps"] = -1 \/ Handled(n) = {} THEN 0
  ELSE CHOOSE k \in Handled(n) : \A j \in Handled(n) : j <= k

\* Once the removal of an app is handled it is not listed again before the next
\* insert: neither a late "change" nor the answer to a partial update that was
\* under way brings it back (update_apps, the lookup after the await).
RemovedStaysGone ==
  \A n \in Names :
    (LastHandled(n) # 0 /\ log[LastHandled(n)].op = "remove") => data[n] = None

\* No partial update of n after the pages were read.
NoPartial(n) == ~\E k \in 1..Len(log) : k > start /\ log[k].op = "partial" /\ n \in log[k].names

\* An app that update.apps alone tells of, and that was handled in this session
\* since an insert or fetched by a page with nothing lost before the
\* subscription, is listed exactly as HOME had it at the update handled last.
ToldIsExact ==
  pc = "online" =>
    \A n \in Tracked :
      (/\ NoPartial(n)
       /\ \/ \E k \in Handled(n) : log[k].op \in {"insert", "remove"}
          \/ got[n] # 0 /\ ~\E k \in (got[n] + 1)..base["apps"] : n \in log[k].names)
      => data[n] = log[cursor["apps"]].tab[n]

\* Both subscriptions are worked off, again and again: an error in a handler, or
\* an answer that tells of no app, holds up nothing.
UpdatesAreHandled ==
  (pc = "online" /\ (Queued("partial") # {} \/ req # None))
    ~> (pc = "away" \/ (Queued("partial") = {} /\ req = None))

-----------------------------------------------------------------------------
(* Claims of the documentation that the code does not keep.                 *)

\* apps_controller.py:171, "On connection HAC gets all current system App
\* Data": once entered, with every update handled and none partial, what is
\* listed are the apps of the system.
ListedAreCurrent ==
  (pc = "online" /\ Queued("apps") = {} /\ req = None /\ start = Len(log))
    => \A n \in Tracked : data[n] # None => now[n] # None

\* apps_controller.py:152, "will keep track of all apps": the answer to a
\* partial update does not replace an app by what it was before an update that
\* has been handled meanwhile.
AnswersAreNews ==
  [][(req # None /\ snap # 0 /\ snap' = 0 /\ data' # data)
       => LastHandled(req) <= snap]_cvars
=============================================================================
