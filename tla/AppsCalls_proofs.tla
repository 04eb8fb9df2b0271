-------------------------- MODULE AppsCalls_proofs --------------------------
(***************************************************************************)
(* The dictionary of HOME Apps, for any number of apps and updates: an app  *)
(* whose removal was handled is not listed again before the next insert,    *)
(* and one that update.apps alone tells of is listed as HOME had it.        *)
(*                                                                         *)
(* An app is changed by the handler of its own update and by the answer to  *)
(* a partial update, whose app was named by HOME after the pages were read  *)
(* (RequestFits).  What the first skips says nothing of the app (Journal-   *)
(* IsTold), as long as no partial update does.                              *)
(*                                                                         *)
(* For any number of calls a deletion that was to wait, and has returned,   *)
(* was told of a removal: an app that was listed when the call began leaves *)
(* the dictionary in no other way (GoingFits).                              *)
(***************************************************************************)
EXTENDS AppsCalls, WellFoundedInduction, TLAPS

Table == [Names -> Infos \cup {None}]
LogEntry == [op: {"init", "insert", "change", "partial", "remove"},
             names: SUBSET Names, tab: Table]

Typed ==
  /\ log \in Seq(LogEntry) /\ Len(log) >= 1
  /\ start \in 0..Len(log) /\ got \in [Names -> Nat] /\ \A n \in Names : got[n] <= Len(log)
  /\ data \in Table
  /\ base \in [Chans -> Int] /\ cursor \in [Chans -> Nat]
  /\ \A ch \in Chans : -1 <= base[ch] /\ base[ch] <= Len(log) /\ cursor[ch] <= Len(log)
  /\ snap \in 0..Len(log) /\ req \in Names \cup {None} /\ left \in SUBSET Names

JournalIsTold ==
  \A n \in Names : \A j, k \in 1..Len(log) :
    (j <= k /\ \A m \in (j + 1)..k : n \notin log[m].names) => log[j].tab[n] = log[k].tab[n]

\* What the operation of an entry says of its app before and after it.
EntriesAreTold ==
  \A m \in 2..Len(log) :
    /\ log[m].op # "init"
    /\ \A n \in log[m].names :
         /\ log[m].op = "remove" <=> log[m].tab[n] = None
         /\ log[m].op \in {"change", "partial"} => log[m - 1].tab[n] # None

PlaceFits ==
  /\ pc \in {"away", "paging"} => base["apps"] = -1
  /\ pc # "online" => base["partial"] = -1 /\ req = None /\ left = {}
  /\ req = None => left = {}
  /\ pc = "online" => base["apps"] # -1 /\ base["partial"] # -1
  /\ base["apps"] # -1 => /\ 1 <= base["apps"] /\ base["apps"] <= cursor["apps"]
                         /\ start <= base["apps"]
  /\ base["partial"] # -1 => start <= base["partial"] /\ base["partial"] <= cursor["partial"]
  /\ (pc = "subscribing" /\ base["apps"] = -1) =>
       \A n \in Names : got[n] # 0 => data[n] = log[got[n]].tab[n]

\* An app that is asked for was named by a partial update since the pages were read.
RequestFits ==
  \A n \in left \cup ({req} \ {None}) :
    \E k \in 1..Len(log) : k > start /\ log[k].op = "partial" /\ n \in log[k].names

Sure(n) ==
  /\ base["apps"] # -1 /\ NoPartial(n)
  /\ \/ \E k \in Handled(n) : log[k].op \in {"insert", "remove"}
     \/ got[n] # 0 /\ ~\E k \in (got[n] + 1)..base["apps"] : n \in log[k].names

SureFits == \A n \in Tracked : Sure(n) => data[n] = log[cursor["apps"]].tab[n]

AppsInv ==
  /\ Typed /\ JournalIsTold /\ EntriesAreTold /\ PlaceFits
  /\ RequestFits /\ SureFits /\ RemovedStaysGone

-----------------------------------------------------------------------------
LEMMA OldestIsFirst ==
  ASSUME NEW S, S \subseteq Nat, S # {}
  PROVE  Oldest(S) \in S /\ \A j \in S : Oldest(S) <= j
<1> DEFINE R == {ss \in Nat \X Nat : ss[1] < ss[2]}
<1>1. IsWellFoundedOn(R, Nat) BY NatLessThanWellFounded DEF OpToRel
<1>2. \A x, y \in Nat : <<y, x>> \in R <=> y < x OBVIOUS
<1> HIDE DEF R
<1>3. \E x \in S : \A y \in S : ~ (<<y, x>> \in R) BY <1>1, WFMin
<1>4. PICK x \in S : \A y \in S : ~ (<<y, x>> \in R) BY <1>3
<1>5. ASSUME NEW y \in S PROVE x <= y
  <2>1. x \in Nat /\ y \in Nat /\ ~ (y < x) BY <1>2, <1>4
  <2> QED BY <2>1
<1> QED BY <1>5 DEF Oldest

LEMMA SomeIsLast ==
  ASSUME NEW N \in Nat, NEW S, S \subseteq 0..N, S # {}
  PROVE  \E k \in S : \A j \in S : j <= k
<1> DEFINE T == {N - k : k \in S}
<1>1. T \subseteq Nat
  <2>1. \A k \in S : N - k \in Nat OBVIOUS
  <2> QED BY <2>1
<1> T # {} OBVIOUS
<1>2. PICK x \in T : \A y \in T : x <= y BY <1>1, OldestIsFirst
<1>3. PICK k \in S : x = N - k BY <1>2
<1>4. ASSUME NEW j \in S PROVE j <= k
  <2>1. N - k <= N - j BY <1>2, <1>3
  <2>2. j \in 0..N /\ k \in 0..N BY <1>3
  <2> QED BY <2>1, <2>2
<1> QED BY <1>4

\* The update of an app handled last is one of those handled, if there is one.
LEMMA LastIsHandled ==
  ASSUME Typed, base["apps"] # -1, NEW n \in Names, Handled(n) # {}
  PROVE  LastHandled(n) \in Handled(n) /\ \A j \in Handled(n) : j <= LastHandled(n)
<1>1. base["apps"] \in Int /\ -1 <= base["apps"] /\ cursor["apps"] \in Nat BY DEF Typed, Chans
<1>2. Handled(n) \subseteq 0..cursor["apps"] BY <1>1 DEF Handled
<1>3. \E k \in Handled(n) : \A j \in Handled(n) : j <= k BY <1>1, <1>2, SomeIsLast
<1> QED BY <1>3 DEF LastHandled

\* What is last is so in one way.
LEMMA LastIsIt ==
  ASSUME NEW S, S \subseteq Int, NEW x \in S, \A j \in S : j <= x
  PROVE  (CHOOSE m \in S : \A j \in S : j <= m) = x
<1>1. \E m \in S : \A j \in S : j <= m OBVIOUS
<1>2. PICK y \in S : y = (CHOOSE m \in S : \A j \in S : j <= m) /\ \A j \in S : j <= y
  BY <1>1
<1>3. x <= y /\ y <= x /\ x \in Int /\ y \in Int BY <1>2
<1> QED BY <1>2, <1>3

LEMMA AppsInvInit == Init => AppsInv
<1> SUFFICES ASSUME NEW t \in Table, log = <<[op |-> "init", names |-> {}, tab |-> t]>>,
                    pc = "away", start = 0, got = [n \in Names |-> 0],
                    data = [n \in Names |-> None],
                    base = [ch \in Chans |-> -1], cursor = [ch \in Chans |-> 0],
                    req = None, left = {}, snap = 0
             PROVE  AppsInv
  BY AppsAssumption DEF Init, Table
<1>1. log \in Seq(LogEntry) /\ Len(log) = 1
  <2>1. [op |-> "init", names |-> {}, tab |-> t] \in LogEntry BY DEF LogEntry
  <2> QED BY <2>1
<1>2. data \in Table BY DEF Table
<1>3. base["apps"] = -1 /\ base["partial"] = -1 BY DEF Chans
<1>4. Typed BY <1>1, <1>2 DEF Typed
<1>5. JournalIsTold /\ EntriesAreTold BY <1>1 DEF JournalIsTold, EntriesAreTold
<1>6. PlaceFits /\ RequestFits BY <1>3 DEF PlaceFits, RequestFits
<1>7. SureFits BY <1>3 DEF SureFits, Sure
<1>8. RemovedStaysGone BY DEF RemovedStaysGone
<1> QED BY <1>4, <1>5, <1>6, <1>7, <1>8 DEF AppsInv

-----------------------------------------------------------------------------
(* HOME.                                                                    *)

LEMMA PublishGrows ==
  ASSUME AppsInv, NEW op \in {"insert", "change", "partial", "remove"}, NEW S \in SUBSET Names,
         NEW tab \in Table, Publish(op, S, tab),
         \A n \in S : /\ op = "remove" <=> tab[n] = None
                      /\ op \in {"change", "partial"} => now[n] # None
  PROVE  /\ log' \in Seq(LogEntry) /\ Len(log') = Len(log) + 1
         /\ \A k \in 1..Len(log) : log'[k] = log[k]
         /\ JournalIsTold' /\ EntriesAreTold'
<1> DEFINE new == [op |-> op, names |-> S, tab |-> tab]
<1>1. log \in Seq(LogEntry) /\ Len(log) \in Nat /\ Len(log) >= 1 BY DEF AppsInv, Typed
<1>4. new \in LogEntry BY DEF LogEntry
<1>5. log' = Append(log, new) BY DEF Publish
<1>6. /\ log' \in Seq(LogEntry) /\ Len(log') = Len(log) + 1 /\ log'[Len(log) + 1] = new
      /\ \A k \in 1..Len(log) : log'[k] = log[k]
  BY <1>1, <1>4, <1>5
<1>7. /\ new.names = S /\ new.op = op /\ new.tab = tab
      /\ \A h \in Names : h \notin S => tab[h] = log[Len(log)].tab[h]
  BY DEF now, Publish
<1> HIDE DEF new
<1>8. JournalIsTold'
  <2> SUFFICES ASSUME NEW h \in Names, NEW j \in 1..(Len(log) + 1), NEW k \in 1..(Len(log) + 1),
                      j <= k, \A m \in (j + 1)..k : h \notin log'[m].names
               PROVE  log'[j].tab[h] = log'[k].tab[h]
    BY <1>6 DEF JournalIsTold
  <2>1. CASE k <= Len(log)
    <3>1. \A m \in (j + 1)..k : h \notin log[m].names BY <2>1, <1>1, <1>6
    <3>2. j \in 1..Len(log) /\ k \in 1..Len(log) BY <2>1, <1>1
    <3>3. JournalIsTold BY DEF AppsInv
    <3>4. log[j].tab[h] = log[k].tab[h] BY <3>1, <3>2, <3>3 DEF JournalIsTold
    <3> QED BY <3>2, <3>4, <1>6
  <2>2. CASE j <= Len(log) /\ k = Len(log) + 1
    <3>1. h \notin S
      <4>1. h \notin log'[k].names BY <2>2, <1>1
      <4> QED BY <4>1, <2>2, <1>6, <1>7
    <3>2. \A m \in (j + 1)..Len(log) : h \notin log[m].names BY <2>2, <1>1, <1>6
    <3>3. log[j].tab[h] = log[Len(log)].tab[h]
      <4>1. j \in 1..Len(log) /\ Len(log) \in 1..Len(log) BY <2>2, <1>1
      <4>2. JournalIsTold BY DEF AppsInv
      <4> QED BY <3>2, <4>1, <4>2 DEF JournalIsTold
    <3>4. log'[k].tab[h] = log[Len(log)].tab[h] BY <2>2, <3>1, <1>6, <1>7
    <3> QED BY <2>2, <3>3, <3>4, <1>1, <1>6
  <2>3. CASE j = k BY <2>3
  <2> QED BY <2>1, <2>2, <2>3, <1>1
<1>9. EntriesAreTold'
  <2> SUFFICES ASSUME NEW m \in 2..(Len(log) + 1)
               PROVE  /\ log'[m].op # "init"
                      /\ \A n \in log'[m].names :
                           /\ log'[m].op = "remove" <=> log'[m].tab[n] = None
                           /\ log'[m].op \in {"change", "partial"} => log'[m - 1].tab[n] # None
    BY <1>6 DEF EntriesAreTold
  <2>1. CASE m = Len(log) + 1
    <3>1. log'[m - 1] = log[Len(log)] BY <2>1, <1>1, <1>6
    <3> QED BY <2>1, <3>1, <1>6, <1>7 DEF now
  <2>2. CASE m # Len(log) + 1
    <3>1. m \in 2..Len(log) /\ m \in 1..Len(log) /\ m - 1 \in 1..Len(log) BY <2>2, <1>1
    <3> QED BY <3>1, <1>6 DEF AppsInv, EntriesAreTold
  <2> QED BY <2>1, <2>2
<1> QED BY <1>6, <1>8, <1>9

\* The journal grows behind the cursors' back.
LEMMA HomeKeeps ==
  ASSUME AppsInv, HomeStep
  PROVE  AppsInv'
<1>1. UNCHANGED <<pc, start, got, data, base, cursor, req, left, snap>>
  BY DEF HomeStep, HomeInsert, HomeChange, HomePartial, HomeRemove, Publish, controller
<1>2. /\ log' \in Seq(LogEntry) /\ Len(log') = Len(log) + 1
      /\ \A k \in 1..Len(log) : log'[k] = log[k]
      /\ JournalIsTold' /\ EntriesAreTold'
  <2>1. PICK S \in Batches, tab \in Tables :
          HomeInsert(S, tab) \/ HomeChange(S, tab) \/ HomePartial(S, tab) \/ HomeRemove(S, tab)
    BY DEF HomeStep
  <2>2. S \in SUBSET Names /\ tab \in Table BY AppsAssumption DEF Table
  <2>3. \E op \in {"insert", "change", "partial", "remove"} :
          /\ Publish(op, S, tab)
          /\ \A n \in S : /\ op = "remove" <=> tab[n] = None
                          /\ op \in {"change", "partial"} => now[n] # None
    BY <2>1 DEF HomeInsert, HomeChange, HomePartial, HomeRemove
  <2> QED BY <2>2, <2>3, PublishGrows
<1>3. /\ Len(log) \in Nat /\ Len(log) >= 1 /\ start \in Nat
      /\ base["apps"] \in Int /\ cursor["apps"] \in Nat
      /\ base["apps"] <= Len(log) /\ cursor["apps"] <= Len(log)
  BY DEF AppsInv, Typed, Chans
<1>4. Typed' BY <1>1, <1>2, <1>3 DEF AppsInv, Typed
<1>5. PlaceFits'
  <2>1. \A n \in Names : got[n] # 0 => log'[got[n]] = log[got[n]]
    BY <1>2 DEF AppsInv, Typed
  <2>2. PlaceFits BY DEF AppsInv
  <2>3. ASSUME pc = "subscribing", base["apps"] = -1, NEW n \in Names, got[n] # 0
        PROVE  data[n] = log'[got[n]].tab[n]
    <3>1. data[n] = log[got[n]].tab[n] BY <2>2, <2>3 DEF PlaceFits
    <3> QED BY <2>1, <2>3, <3>1
  <2> QED BY <1>1, <2>2, <2>3 DEF PlaceFits
<1>6. RequestFits' BY <1>1, <1>2, <1>3 DEF AppsInv, RequestFits
<1>7. ASSUME base["apps"] # -1
      PROVE  /\ cursor["apps"] \in 1..Len(log)
             /\ \A k \in (base["apps"] + 1)..cursor["apps"] : log'[k] = log[k]
             /\ \A k \in 1..base["apps"] : log'[k] = log[k]
  <2>1. PlaceFits BY DEF AppsInv
  <2>2. 1 <= base["apps"] /\ base["apps"] <= cursor["apps"] BY <1>7, <2>1 DEF PlaceFits
  <2> QED BY <1>2, <1>3, <2>2
<1>8. \A n \in Names : base["apps"] # -1 => Handled(n)' = Handled(n)
  BY <1>1, <1>7 DEF Handled
<1>9. SureFits'
  <2> SUFFICES ASSUME NEW n \in Tracked, Sure(n)'
               PROVE  data[n] = log'[cursor["apps"]].tab[n]
    BY <1>1 DEF SureFits
  <2>1. base["apps"] # -1 /\ n \in Names BY <1>1, AppsAssumption DEF Sure
  <2>2. NoPartial(n) BY <1>1, <1>2, <1>3 DEF Sure, NoPartial
  <2>3. \/ \E k \in Handled(n) : log[k].op \in {"insert", "remove"}
        \/ got[n] # 0 /\ ~\E k \in (got[n] + 1)..base["apps"] : n \in log[k].names
    <3>1. CASE \E k \in Handled(n)' : log'[k].op \in {"insert", "remove"}
      <4>1. \A k \in Handled(n) : log'[k] = log[k] BY <1>7, <2>1 DEF Handled
      <4> QED BY <1>8, <2>1, <3>1, <4>1
    <3>2. CASE got[n] # 0 /\ ~\E k \in (got[n] + 1)..base["apps"] : n \in log'[k].names
      <4>1. got[n] \in Nat BY <2>1 DEF AppsInv, Typed
      <4>2. \A k \in (got[n] + 1)..base["apps"] : log'[k] = log[k] BY <1>3, <1>7, <2>1, <4>1
      <4> QED BY <3>2, <4>2
    <3> QED BY <1>1, <3>1, <3>2 DEF Sure
  <2>4. data[n] = log[cursor["apps"]].tab[n] BY <2>1, <2>2, <2>3 DEF AppsInv, SureFits, Sure
  <2> QED BY <1>2, <1>7, <2>1, <2>4
<1>10. RemovedStaysGone'
  <2> SUFFICES ASSUME NEW n \in Names, LastHandled(n)' # 0, log'[LastHandled(n)'].op = "remove"
               PROVE  data[n] = None
    BY <1>1 DEF RemovedStaysGone
  <2>1. base["apps"] # -1 BY <1>1 DEF LastHandled
  <2>2. Handled(n)' = Handled(n) /\ Handled(n) # {} BY <1>1, <1>8, <2>1 DEF LastHandled
  <2>3. LastHandled(n)' = LastHandled(n) BY <1>1, <2>1, <2>2 DEF LastHandled
  <2>4. LastHandled(n) \in Handled(n) BY <2>1, <2>2, LastIsHandled DEF AppsInv
  <2>5. log'[LastHandled(n)] = log[LastHandled(n)] BY <1>7, <2>1, <2>4 DEF Handled
  <2>6. log[LastHandled(n)].op = "remove" /\ LastHandled(n) # 0 BY <2>3, <2>5
  <2> QED BY <2>6 DEF AppsInv, RemovedStaysGone
<1> QED BY <1>2, <1>4, <1>5, <1>6, <1>9, <1>10 DEF AppsInv

-----------------------------------------------------------------------------
(* The controller.                                                          *)

\* Steps that touch neither what is cached nor the subscription to update.apps.
LEMMA StillKeeps ==
  ASSUME AppsInv, UNCHANGED <<log, start, got, data>>, base'["apps"] = base["apps"],
         cursor'["apps"] = cursor["apps"]
  PROVE  JournalIsTold' /\ EntriesAreTold' /\ SureFits' /\ RemovedStaysGone'
<1>1. JournalIsTold' /\ EntriesAreTold' BY DEF AppsInv, JournalIsTold, EntriesAreTold
<1>2. \A n \in Names : Handled(n)' = Handled(n) /\ (NoPartial(n)' <=> NoPartial(n))
  BY DEF Handled, NoPartial
<1>3. SureFits'
  <2>1. \A n \in Tracked : Sure(n)' => Sure(n) BY <1>2, AppsAssumption DEF Sure
  <2> QED BY <2>1 DEF AppsInv, SureFits
<1>4. RemovedStaysGone'
  <2>1. ASSUME NEW n \in Names PROVE LastHandled(n)' = LastHandled(n)
    <3>1. Handled(n)' = Handled(n) BY <1>2
    <3> QED BY <3>1 DEF LastHandled
  <2> QED BY <2>1 DEF AppsInv, RemovedStaysGone
<1> QED BY <1>1, <1>3, <1>4

\* Without a subscription to update.apps nothing is claimed.
LEMMA AwayKeeps ==
  ASSUME AppsInv, UNCHANGED log, base'["apps"] = -1
  PROVE  JournalIsTold' /\ EntriesAreTold' /\ SureFits' /\ RemovedStaysGone'
<1>1. JournalIsTold' /\ EntriesAreTold' BY DEF AppsInv, JournalIsTold, EntriesAreTold
<1>2. SureFits' BY DEF SureFits, Sure
<1>3. RemovedStaysGone' BY DEF RemovedStaysGone, LastHandled
<1> QED BY <1>1, <1>2, <1>3

LEMMA EnteringKeeps ==
  ASSUME AppsInv, Enter \/ Exit \/ \E n \in Names : Page(n)
  PROVE  AppsInv'
<1>1. log' = log /\ data' = data /\ Len(log) \in Nat /\ Len(log) >= 1
  BY DEF Enter, Exit, Page, AppsInv, Typed
<1>2. base'["apps"] = -1 /\ base'["partial"] = -1 /\ req' = None /\ left' = {}
  BY DEF Enter, Exit, Page, AppsInv, PlaceFits, Chans
<1>3. Typed'
  <2>1. CASE Enter BY <1>1, <2>1 DEF Enter, AppsInv, Typed
  <2>2. CASE Exit BY <1>1, <2>2 DEF Exit, AppsInv, Typed
  <2>3. CASE \E n \in Names : Page(n)
    BY <1>1, <2>3 DEF Page, AppsInv, Typed
  <2> QED BY <2>1, <2>2, <2>3
<1>4. PlaceFits' BY <1>2 DEF PlaceFits, Enter, Exit, Page
<1>5. RequestFits' BY <1>2 DEF RequestFits
<1> QED BY <1>1, <1>2, <1>3, <1>4, <1>5, AwayKeeps DEF AppsInv

LEMMA InstallKeeps ==
  ASSUME AppsInv, Install
  PROVE  AppsInv'
<1>1. /\ pc = "paging" /\ pc' = "subscribing" /\ UNCHANGED <<log, start, got, base, cursor, req, left, snap>>
      /\ data' = [n \in Names |-> IF got[n] = 0 THEN data[n] ELSE log[got[n]].tab[n]]
  BY DEF Install
<1>2. base["apps"] = -1 /\ base["partial"] = -1 /\ req = None /\ left = {}
  BY <1>1 DEF AppsInv, PlaceFits
<1>3. \A n \in Names : got[n] # 0 => log[got[n]].tab[n] \in Infos \cup {None}
  <2> SUFFICES ASSUME NEW n \in Names, got[n] # 0
               PROVE  log[got[n]].tab[n] \in Infos \cup {None}
    OBVIOUS
  <2>1. got[n] \in 1..Len(log) BY DEF AppsInv, Typed
  <2>2. log[got[n]] \in LogEntry BY <2>1 DEF AppsInv, Typed
  <2> QED BY <2>2 DEF LogEntry, Table
<1>4. data' \in Table BY <1>1, <1>3 DEF AppsInv, Typed, Table
<1>5. Typed' BY <1>1, <1>4 DEF AppsInv, Typed
<1>6. PlaceFits' BY <1>1, <1>2 DEF PlaceFits
<1>7. RequestFits' BY <1>1, <1>2 DEF RequestFits
<1> QED BY <1>1, <1>2, <1>5, <1>6, <1>7, AwayKeeps DEF AppsInv

\* What the pages told is right for the apps that nothing changed since.
LEMMA SubscribeKeeps ==
  ASSUME AppsInv, NEW ch \in Chans, Subscribe(ch)
  PROVE  AppsInv'
<1>1. /\ pc = "subscribing" /\ base[ch] = -1
      /\ base' = [base EXCEPT ![ch] = Len(log)] /\ cursor' = [cursor EXCEPT ![ch] = Len(log)]
      /\ UNCHANGED <<log, start, got, data, req, left, snap>>
      /\ pc' = IF ch = "partial" THEN "online" ELSE pc
      /\ ch = "partial" => base["apps"] # -1
  BY DEF Subscribe
<1>2. /\ Len(log) \in Nat /\ Len(log) >= 1 /\ start \in 0..Len(log)
      /\ base \in [Chans -> Int] /\ cursor \in [Chans -> Nat] /\ got \in [Names -> Nat]
  BY DEF AppsInv, Typed
<1>3. req = None /\ left = {} /\ base["partial"] = -1 BY <1>1 DEF AppsInv, PlaceFits
<1>4. /\ base' \in [Chans -> Int] /\ cursor' \in [Chans -> Nat]
      /\ base'[ch] = Len(log) /\ cursor'[ch] = Len(log)
      /\ \A c \in Chans : c # ch => base'[c] = base[c] /\ cursor'[c] = cursor[c]
  BY <1>1, <1>2
<1>5. Typed' BY <1>1, <1>2, <1>4 DEF AppsInv, Typed
<1>6. RequestFits' BY <1>1, <1>3 DEF RequestFits
<1>7. CASE ch = "partial"
  <2>1. base'["apps"] = base["apps"] /\ cursor'["apps"] = cursor["apps"]
    BY <1>4, <1>7 DEF Chans
  <2>2. PlaceFits' BY <1>1, <1>2, <1>3, <1>4, <1>7, <2>1 DEF AppsInv, PlaceFits
  <2> QED BY <1>1, <1>5, <1>6, <2>1, <2>2, StillKeeps DEF AppsInv
<1>8. CASE ch = "apps"
  <2>1. base'["partial"] = -1 BY <1>3, <1>4, <1>8 DEF Chans
  <2>2. PlaceFits' BY <1>1, <1>2, <1>3, <1>4, <1>8, <2>1 DEF PlaceFits
  <2>3. \A n \in Names : Handled(n)' = {} BY <1>1, <1>2, <1>4, <1>8 DEF Handled
  <2>4. RemovedStaysGone' BY <2>3 DEF RemovedStaysGone, LastHandled
  <2>5. SureFits'
    <3> SUFFICES ASSUME NEW n \in Tracked, Sure(n)'
                 PROVE  data[n] = log[Len(log)].tab[n]
      BY <1>1, <1>4, <1>8 DEF SureFits
    <3>1. n \in Names BY AppsAssumption
    <3>2. got[n] # 0 /\ ~\E k \in (got[n] + 1)..Len(log) : n \in log[k].names
      BY <1>1, <1>4, <1>8, <2>3, <3>1 DEF Sure
    <3>3. got[n] \in 1..Len(log) /\ Len(log) \in 1..Len(log) /\ got[n] <= Len(log)
      BY <1>2, <3>1, <3>2 DEF AppsInv, Typed
    <3>4. JournalIsTold BY DEF AppsInv
    <3>5. log[got[n]].tab[n] = log[Len(log)].tab[n] BY <3>1, <3>2, <3>3, <3>4 DEF JournalIsTold
    <3>6. data[n] = log[got[n]].tab[n] BY <1>1, <1>8, <3>1, <3>2 DEF AppsInv, PlaceFits
    <3> QED BY <3>5, <3>6
  <2>6. JournalIsTold' /\ EntriesAreTold'
    <3>1. log' = log BY <1>1
    <3>2. JournalIsTold /\ EntriesAreTold BY DEF AppsInv
    <3>3. JournalIsTold' BY <3>1, <3>2 DEF JournalIsTold
    <3>4. EntriesAreTold' BY <3>1, <3>2 DEF EntriesAreTold
    <3> QED BY <3>3, <3>4
  <2> QED BY <1>5, <1>6, <2>2, <2>4, <2>5, <2>6 DEF AppsInv
<1> QED BY <1>7, <1>8 DEF Chans

-----------------------------------------------------------------------------
(* The updates.                                                             *)

\* An update on update.apps is handled after all that came before it there.
LEMMA DeliverKeeps ==
  ASSUME AppsInv, Deliver
  PROVE  AppsInv'
<1> DEFINE k == Oldest(Queued("apps"))
           a == log[k].names
           c == cursor["apps"]
<1>1. /\ Queued("apps") # {} /\ data' = Update(data, log[k])
      /\ cursor' = [cursor EXCEPT !["apps"] = k]
      /\ UNCHANGED <<log, pc, start, got, base, req, left, snap>>
  BY DEF Deliver
<1>2. base["apps"] # -1 BY <1>1 DEF Queued
<1>3. /\ Len(log) \in Nat /\ start \in Nat /\ base["apps"] \in Nat /\ c \in Nat
      /\ start <= base["apps"] /\ 1 <= base["apps"] /\ base["apps"] <= c /\ c <= Len(log)
      /\ cursor \in [Chans -> Nat] /\ "apps" \in Chans /\ data \in Table
  BY <1>2 DEF AppsInv, Typed, PlaceFits, Chans
<1>4. Queued("apps") = {m \in (c + 1)..Len(log) : log[m].op # "partial"}
  BY <1>2 DEF Queued
<1>5. k \in Queued("apps") /\ \A m \in Queued("apps") : k <= m
  <2>1. Queued("apps") \subseteq Nat BY <1>3, <1>4
  <2> QED BY <1>1, <2>1, OldestIsFirst
<1> HIDE DEF k
<1>6. /\ k \in (c + 1)..Len(log) /\ k \in 2..Len(log) /\ k \in Nat
      /\ log[k].op # "partial" /\ k > start
  BY <1>3, <1>4, <1>5
<1>7. \A m \in (c + 1)..(k - 1) : log[m].op = "partial" BY <1>3, <1>4, <1>5, <1>6
<1>8. cursor' \in [Chans -> Nat] /\ cursor'["apps"] = k /\ cursor'["partial"] = cursor["partial"]
  BY <1>1, <1>3, <1>6 DEF Chans
<1>9. a \subseteq Names /\ log[k].tab \in Table /\ log[k].op \in {"insert", "change", "remove"}
  <2>1. log[k] \in LogEntry BY <1>6 DEF AppsInv, Typed
  <2>2. /\ log[k].op \in {"init", "insert", "change", "partial", "remove"}
        /\ log[k].tab \in Table /\ log[k].names \subseteq Names
    BY <2>1 DEF LogEntry
  <2>3. log[k].op # "init" BY <1>6 DEF AppsInv, EntriesAreTold
  <2> QED BY <1>6, <2>2, <2>3
<1>19. ASSUME NEW n \in Names, n \in a
       PROVE  /\ log[k].op = "remove" => log[k].tab[n] = None
              /\ log[k].op = "change" => log[k - 1].tab[n] # None
  BY <1>6, <1>19 DEF AppsInv, EntriesAreTold
<1>10. /\ data' \in Table
       /\ \A n \in Names : n \notin a => data'[n] = data[n]
       /\ log[k].op = "insert" => \A n \in a : IF n \in Tracked THEN data'[n] = log[k].tab[n]
                                              ELSE data'[n] = data[n]
       /\ log[k].op # "insert" => \A n \in a : IF data[n] = None THEN data'[n] = None
                                              ELSE data'[n] = log[k].tab[n]
  BY <1>1, <1>3, <1>9 DEF Update, Table
<1> HIDE DEF a
<1>11. Typed'
  <2>1. \A ch \in Chans : -1 <= base'[ch] /\ base'[ch] <= Len(log') /\ cursor'[ch] <= Len(log')
    BY <1>1, <1>6, <1>8 DEF AppsInv, Typed, Chans
  <2> QED BY <1>1, <1>8, <1>10, <2>1 DEF AppsInv, Typed
<1>12. PlaceFits'
  <2>1. base["apps"] <= k BY <1>3, <1>6
  <2> QED BY <1>1, <1>2, <1>8, <2>1 DEF AppsInv, PlaceFits
<1>13. RequestFits' BY <1>1 DEF AppsInv, RequestFits
<1>14. ASSUME NEW n \in Names, n \notin a
       PROVE  Handled(n)' = Handled(n)
  <2>1. Handled(n)' = {m \in (base["apps"] + 1)..k : n \in log[m].names /\ log[m].op # "partial"}
    BY <1>1, <1>8 DEF Handled
  <2>2. \A m \in (c + 1)..k : ~(n \in log[m].names /\ log[m].op # "partial")
    BY <1>3, <1>6, <1>7, <1>14 DEF a
  <2> QED BY <1>3, <1>6, <2>1, <2>2 DEF Handled
<1>15. ASSUME NEW n \in Names, n \in a
       PROVE  /\ k \in Handled(n)' /\ Handled(n)' \subseteq Int
              /\ \A j \in Handled(n)' : j <= k
  <2>1. Handled(n)' = {m \in (base["apps"] + 1)..k : n \in log[m].names /\ log[m].op # "partial"}
    BY <1>1, <1>8 DEF Handled
  <2>2. k \in (base["apps"] + 1)..k BY <1>3, <1>6
  <2>3. n \in log[k].names /\ log[k].op # "partial" BY <1>6, <1>15 DEF a
  <2> QED BY <1>3, <1>6, <2>1, <2>2, <2>3
<1>16. RemovedStaysGone'
  <2> SUFFICES ASSUME NEW n \in Names, LastHandled(n)' # 0, log[LastHandled(n)'].op = "remove"
               PROVE  data'[n] = None
    BY <1>1 DEF RemovedStaysGone
  <2>1. CASE n \in a
    <3>1. LastHandled(n)' = CHOOSE m \in Handled(n)' : \A j \in Handled(n)' : j <= m
      BY <1>1, <1>2, <1>15, <2>1 DEF LastHandled
    <3>2. LastHandled(n)' = k BY <1>15, <2>1, <3>1, LastIsIt
    <3>3. log[k].op = "remove" BY <3>2
    <3>4. log[k].tab[n] = None BY <1>19, <2>1, <3>3
    <3> QED BY <1>10, <2>1, <3>3, <3>4
  <2>2. CASE n \notin a
    <3>1. Handled(n)' = Handled(n) BY <1>14, <2>2
    <3>2. LastHandled(n)' = LastHandled(n) BY <1>1, <3>1 DEF LastHandled
    <3> QED BY <1>10, <2>2, <3>2 DEF AppsInv, RemovedStaysGone
  <2> QED BY <2>1, <2>2
<1>17. SureFits'
  <2> SUFFICES ASSUME NEW n \in Tracked, Sure(n)'
               PROVE  data'[n] = log[k].tab[n]
    BY <1>1, <1>8 DEF SureFits
  <2>1. n \in Names BY AppsAssumption
  <2>2. NoPartial(n) BY <1>1 DEF Sure, NoPartial
  <2>3. \A m \in (c + 1)..(k - 1) : n \notin log[m].names
    <3> SUFFICES ASSUME NEW m \in (c + 1)..(k - 1), n \in log[m].names PROVE FALSE
      OBVIOUS
    <3>1. m \in 1..Len(log) /\ m > start BY <1>3, <1>6
    <3>2. log[m].op = "partial" BY <1>7
    <3> QED BY <2>2, <3>1, <3>2 DEF NoPartial
  <2>4. JournalIsTold BY DEF AppsInv
  <2>5. log[c].tab[n] = log[k - 1].tab[n]
    <3>1. c \in 1..Len(log) /\ k - 1 \in 1..Len(log) /\ c <= k - 1 BY <1>3, <1>6
    <3> QED BY <2>1, <2>3, <2>4, <3>1 DEF JournalIsTold
  <2>6. CASE n \notin a
    <3>1. Handled(n)' = Handled(n) BY <1>14, <2>1, <2>6
    <3>2. Sure(n) BY <1>1, <1>2, <2>2, <3>1 DEF Sure
    <3>3. data[n] = log[c].tab[n] BY <3>2 DEF AppsInv, SureFits
    <3>4. log[k - 1].tab[n] = log[k].tab[n]
      <4>1. k - 1 \in 1..Len(log) /\ k \in 1..Len(log) /\ k - 1 <= k BY <1>6
      <4>2. \A m \in ((k - 1) + 1)..k : n \notin log[m].names
        <5>1. \A m \in ((k - 1) + 1)..k : m = k BY <1>6
        <5> QED BY <2>6, <5>1 DEF a
      <4> QED BY <2>1, <2>4, <4>1, <4>2 DEF JournalIsTold
    <3> QED BY <1>10, <2>1, <2>5, <2>6, <3>3, <3>4
  <2>7. CASE n \in a /\ log[k].op = "insert" BY <1>10, <2>7
  <2>8. CASE n \in a /\ log[k].op = "remove"
    <3>1. log[k].tab[n] = None BY <1>19, <2>1, <2>8
    <3> QED BY <1>10, <2>8, <3>1
  <2>9. CASE n \in a /\ log[k].op = "change"
    <3>1. log[k - 1].tab[n] # None BY <1>19, <2>1, <2>9
    <3>2. Sure(n)
      <4>1. \A m \in Handled(n)' : log[m].op \in {"insert", "remove"} => m \in Handled(n)
        <5> SUFFICES ASSUME NEW m \in (base["apps"] + 1)..k, n \in log[m].names,
                            log[m].op \in {"insert", "remove"}
                     PROVE  m \in Handled(n)
          BY <1>1, <1>8 DEF Handled
        <5>1. m # k BY <2>9
        <5>2. m \in (base["apps"] + 1)..c BY <1>3, <1>6, <1>7, <5>1
        <5> QED BY <5>2 DEF Handled
      <4> QED BY <1>1, <1>2, <2>2, <4>1 DEF Sure
    <3>3. data[n] = log[c].tab[n] BY <3>2 DEF AppsInv, SureFits
    <3> QED BY <1>10, <2>5, <2>9, <3>1, <3>3
  <2> QED BY <1>9, <2>6, <2>7, <2>8, <2>9
<1>18. JournalIsTold' /\ EntriesAreTold' BY <1>1 DEF AppsInv, JournalIsTold, EntriesAreTold
<1> QED BY <1>11, <1>12, <1>13, <1>16, <1>17, <1>18 DEF AppsInv

\* An app that is asked for was named since the pages were read.
LEMMA GoingOn ==
  ASSUME NEW rest \in SUBSET Names, NEW d, GoesOn(rest, d)
  PROVE  /\ req' \in Names \cup {None} /\ left' \in SUBSET Names
         /\ req' = None => left' = {}
         /\ left' \cup ({req'} \ {None}) \subseteq rest
BY AppsAssumption DEF GoesOn

LEMMA AskKeeps ==
  ASSUME AppsInv, DeliverPartial
  PROVE  AppsInv'
<1> DEFINE k == Oldest(Queued("partial"))
<1>1. /\ req = None /\ Queued("partial") # {}
      /\ GoesOn(log[k].names, data)
      /\ cursor' = [cursor EXCEPT !["partial"] = k]
      /\ UNCHANGED <<log, pc, start, got, data, base, snap>>
  BY DEF DeliverPartial
<1>2. base["partial"] # -1 BY <1>1 DEF Queued
<1>3. /\ Len(log) \in Nat /\ start \in Nat /\ start <= cursor["partial"]
      /\ base["partial"] \in Int /\ base["partial"] <= cursor["partial"]
      /\ cursor \in [Chans -> Nat] /\ "partial" \in Chans
  BY <1>2 DEF AppsInv, Typed, PlaceFits, Chans
<1>4. Queued("partial") = {m \in (cursor["partial"] + 1)..Len(log) : log[m].op = "partial"}
  BY <1>2 DEF Queued
<1>5. k \in Queued("partial")
  <2>1. Queued("partial") \subseteq Nat BY <1>3, <1>4
  <2> QED BY <1>1, <2>1, OldestIsFirst
<1> HIDE DEF k
<1>6. /\ k \in 1..Len(log) /\ k \in Nat /\ log[k].op = "partial" /\ k > start
      /\ cursor["partial"] <= k
  BY <1>3, <1>4, <1>5
<1>7. log[k].names \in SUBSET Names
  <2>1. log[k] \in LogEntry BY <1>6 DEF AppsInv, Typed
  <2> QED BY <2>1 DEF LogEntry
<1>8. cursor' \in [Chans -> Nat] /\ cursor'["partial"] = k /\ cursor'["apps"] = cursor["apps"]
  BY <1>1, <1>3, <1>6 DEF Chans
<1>9. /\ req' \in Names \cup {None} /\ left' \in SUBSET Names /\ (req' = None => left' = {})
      /\ left' \cup ({req'} \ {None}) \subseteq log[k].names
  BY <1>1, <1>7, GoingOn
<1>10. Typed'
  <2>1. \A ch \in Chans : -1 <= base'[ch] /\ base'[ch] <= Len(log') /\ cursor'[ch] <= Len(log')
    BY <1>1, <1>6, <1>8 DEF AppsInv, Typed, Chans
  <2> QED BY <1>1, <1>8, <1>9, <2>1 DEF AppsInv, Typed
<1>11. PlaceFits'
  <2>1. base["partial"] <= k BY <1>3, <1>6
  <2>2. pc = "online" BY <1>2 DEF AppsInv, PlaceFits
  <2> QED BY <1>1, <1>8, <1>9, <2>1, <2>2 DEF AppsInv, PlaceFits
<1>12. RequestFits' BY <1>1, <1>6, <1>9 DEF RequestFits
<1> QED BY <1>1, <1>8, <1>10, <1>11, <1>12, StillKeeps DEF AppsInv

LEMMA AnswerKeeps ==
  ASSUME AppsInv, ServeInfo
  PROVE  AppsInv'
<1>1. snap' = Len(log) /\ UNCHANGED <<log, pc, start, got, data, base, cursor, req, left>>
  BY DEF ServeInfo
<1>2. Typed' BY <1>1 DEF AppsInv, Typed
<1>3. PlaceFits' /\ RequestFits' BY <1>1 DEF AppsInv, PlaceFits, RequestFits
<1> QED BY <1>1, <1>2, <1>3, StillKeeps DEF AppsInv

\* The answer replaces the app that was asked for, if it is still listed: one of
\* which a partial update told.
LEMMA InstallPartialKeeps ==
  ASSUME AppsInv, InstallPartial
  PROVE  AppsInv'
<1>1. /\ req # None /\ snap # 0 /\ snap' = 0 /\ data[req] # None /\ log[snap].tab[req] # None
      /\ data' = [data EXCEPT ![req] = log[snap].tab[req]] /\ GoesOn(left, data')
      /\ UNCHANGED <<log, pc, start, got, base, cursor>>
  BY DEF InstallPartial
<1>2. req \in Names /\ data \in Table /\ snap \in 1..Len(log) /\ left \in SUBSET Names
  BY <1>1 DEF AppsInv, Typed
<1>3. log[snap].tab \in Table
  <2>1. log[snap] \in LogEntry BY <1>2 DEF AppsInv, Typed
  <2> QED BY <2>1 DEF LogEntry
<1>4. data' \in Table /\ data[req] # None /\ \A n \in Names : n # req => data'[n] = data[n]
  BY <1>1, <1>2, <1>3 DEF Table
<1>14. /\ req' \in Names \cup {None} /\ left' \in SUBSET Names /\ (req' = None => left' = {})
      /\ left' \cup ({req'} \ {None}) \subseteq left
  BY <1>1, <1>2, GoingOn
<1>5. Typed' BY <1>1, <1>4, <1>14 DEF AppsInv, Typed
<1>6. pc = "online" BY <1>1 DEF AppsInv, PlaceFits
<1>7. PlaceFits' BY <1>1, <1>6, <1>14 DEF AppsInv, PlaceFits
<1>8. RequestFits' BY <1>1, <1>14 DEF AppsInv, RequestFits
<1>9. ~NoPartial(req) BY <1>1 DEF AppsInv, RequestFits, NoPartial
<1>10. \A n \in Names : Handled(n)' = Handled(n) /\ (NoPartial(n)' <=> NoPartial(n))
  BY <1>1 DEF Handled, NoPartial
<1>11. SureFits'
  <2> SUFFICES ASSUME NEW n \in Tracked, Sure(n)'
               PROVE  data'[n] = log[cursor["apps"]].tab[n]
    BY <1>1 DEF SureFits
  <2>1. n \in Names BY AppsAssumption
  <2>2. Sure(n) BY <1>1, <1>10, <2>1 DEF Sure
  <2>3. n # req BY <1>9, <2>2 DEF Sure
  <2> QED BY <1>4, <2>1, <2>2, <2>3 DEF AppsInv, SureFits
<1>12. RemovedStaysGone'
  <2> SUFFICES ASSUME NEW n \in Names, LastHandled(n)' # 0, log[LastHandled(n)'].op = "remove"
               PROVE  data'[n] = None
    BY <1>1 DEF RemovedStaysGone
  <2>1. Handled(n)' = Handled(n) BY <1>10
  <2>2. LastHandled(n)' = LastHandled(n) BY <1>1, <2>1 DEF LastHandled
  <2>3. data[n] = None BY <2>2 DEF AppsInv, RemovedStaysGone
  <2> QED BY <1>4, <2>3
<1>13. JournalIsTold' /\ EntriesAreTold' BY <1>1 DEF AppsInv, JournalIsTold, EntriesAreTold
<1> QED BY <1>5, <1>7, <1>8, <1>11, <1>12, <1>13 DEF AppsInv

\* An error ends the handler; the dictionary is as it was.
LEMMA PartialFailsKeeps ==
  ASSUME AppsInv, PartialFails
  PROVE  AppsInv'
<1>1. /\ req # None /\ req' = None /\ left' = {} /\ snap' = 0
      /\ UNCHANGED <<log, pc, start, got, data, base, cursor>>
  BY DEF PartialFails
<1>2. Typed' BY <1>1 DEF AppsInv, Typed
<1>3. PlaceFits' /\ RequestFits' BY <1>1 DEF AppsInv, PlaceFits, RequestFits
<1> QED BY <1>1, <1>2, <1>3, StillKeeps DEF AppsInv

LEMMA AppsInvStep == AppsInv /\ [Next]_cvars => AppsInv'
<1> SUFFICES ASSUME AppsInv, [Next]_cvars PROVE AppsInv' OBVIOUS
<1>1. CASE HomeStep BY <1>1, HomeKeeps
<1>2. CASE ServeInfo BY <1>2, AnswerKeeps
<1>3. CASE Enter \/ Exit BY <1>3, EnteringKeeps
<1>4. CASE ControllerStep
  <2>1. CASE \E n \in Names : Page(n) BY <2>1, EnteringKeeps
  <2>2. CASE Install BY <2>2, InstallKeeps
  <2>3. CASE \E ch \in Chans : Subscribe(ch) BY <2>3, SubscribeKeeps
  <2>4. CASE Deliver BY <2>4, DeliverKeeps
  <2>5. CASE DeliverPartial BY <2>5, AskKeeps
  <2>6. CASE InstallPartial BY <2>6, InstallPartialKeeps
  <2>7. CASE PartialFails BY <2>7, PartialFailsKeeps
  <2> QED BY <1>4, <2>1, <2>2, <2>3, <2>4, <2>5, <2>6, <2>7 DEF ControllerStep
<1>5. CASE UNCHANGED cvars
  <2>1. UNCHANGED <<log, pc, start, got, data, base, cursor, req, left, snap>> BY <1>5 DEF cvars
  <2>2. Typed' BY <2>1 DEF AppsInv, Typed
  <2>3. PlaceFits' /\ RequestFits' BY <2>1 DEF AppsInv, PlaceFits, RequestFits
  <2> QED BY <2>1, <2>2, <2>3, StillKeeps DEF AppsInv
<1> QED BY <1>1, <1>2, <1>3, <1>4, <1>5 DEF Next

\* What is known of the dictionary holds in every behaviour.
LEMMA AppsInvHolds == Spec => []AppsInv
<1> QED BY AppsInvInit, AppsInvStep, PTL DEF Spec

-----------------------------------------------------------------------------
(* The theorems.                                                            *)

\* Once the removal of an app is handled it is not listed again before the next
\* insert, neither by a late update nor by the answer to a partial one
\* (update_apps, the lookup after the await).
THEOREM RemovedHolds == Spec => []RemovedStaysGone
<1>1. AppsInv => RemovedStaysGone BY DEF AppsInv
<1> QED BY <1>1, AppsInvHolds, PTL

\* An app that update.apps alone tells of is listed exactly as HOME had it at
\* the update handled last, however far the subscription lags behind.
THEOREM ToldHolds == Spec => []ToldIsExact
<1>1. AppsInv => ToldIsExact
  <2> SUFFICES ASSUME AppsInv, pc = "online", NEW n \in Tracked, NoPartial(n),
                      \/ \E k \in Handled(n) : log[k].op \in {"insert", "remove"}
                      \/ got[n] # 0 /\ ~\E k \in (got[n] + 1)..base["apps"] : n \in log[k].names
               PROVE  data[n] = log[cursor["apps"]].tab[n]
    BY DEF ToldIsExact
  <2>1. base["apps"] # -1 BY DEF AppsInv, PlaceFits
  <2>2. Sure(n) BY <2>1 DEF Sure
  <2> QED BY <2>2 DEF AppsInv, SureFits
<1> QED BY <1>1, AppsInvHolds, PTL

-----------------------------------------------------------------------------
(* The calls.                                                               *)

CallRec == [kind: Kinds \cup {"none"}, blocking: BOOLEAN, name: Names \cup {None},
            target: Servers \cup {None}, step: Nat,
            st: {"idle", "going", "ok", "KeyError", "TimeoutError", "AssertionError"},
            handled: Nat]

Deletes(c) == call[c].kind \in {"delete", "delete_stopped"} /\ call[c].blocking

\* An app that is to be deleted is listed until its removal is handled.
GoingFits ==
  \A c \in Calls : Going(c) =>
    /\ pc = "online" /\ call[c].handled <= cursor["apps"]
    /\ Deletes(c) =>
         /\ call[c].name \in Names /\ call[c].step \in 1..Len(Stages(call[c].kind))
         /\ App(c) # None \/ RemovedSince(c)

\* Whatever session it is, the removal is behind it.
OkFits ==
  \A c \in Calls : (Deletes(c) /\ call[c].st = "ok") =>
    \E k \in (call[c].handled + 1)..Len(log) :
      /\ log[k].op = "remove" /\ call[c].name \in log[k].names
      /\ base["apps"] # -1 => k <= cursor["apps"]

CallsInv == AppsInv /\ call \in [Calls -> CallRec] /\ GoingFits /\ OkFits

\* What the journal and the subscription to update.apps do in a session; an app
\* that leaves the dictionary has its removal handled.
LEMMA CacheMoves ==
  ASSUME AppsInv, HomeStep \/ ServeInfo \/ Enter \/ ControllerStep
  PROVE  /\ Len(log) <= Len(log') /\ \A k \in 1..Len(log) : log'[k] = log[k]
         /\ pc = "online" => pc' = "online"
         /\ base["apps"] # -1 => /\ base'["apps"] = base["apps"]
                                /\ cursor["apps"] <= cursor'["apps"]
         /\ (base["apps"] = -1 /\ base'["apps"] # -1) => Len(log) <= cursor'["apps"]
         /\ pc = "online" =>
              \A n \in Names : (data[n] # None /\ data'[n] = None) =>
                \E k \in (cursor["apps"] + 1)..cursor'["apps"] :
                  log[k].op = "remove" /\ n \in log[k].names
<1>1. /\ Len(log) \in Nat /\ base \in [Chans -> Int] /\ cursor \in [Chans -> Nat]
      /\ "apps" \in Chans /\ "partial" \in Chans /\ cursor["apps"] \in Nat
  BY DEF AppsInv, Typed, Chans
<1>2. CASE HomeStep
  <2>1. UNCHANGED <<pc, data, base, cursor>>
    BY <1>2 DEF HomeStep, HomeInsert, HomeChange, HomePartial, HomeRemove, Publish, controller
  <2>2. PICK e : log' = Append(log, e)
    BY <1>2 DEF HomeStep, HomeInsert, HomeChange, HomePartial, HomeRemove, Publish
  <2>3. log \in Seq(LogEntry) BY DEF AppsInv, Typed
  <2>4. Len(log') = Len(log) + 1 /\ \A k \in 1..Len(log) : log'[k] = log[k] BY <2>2, <2>3
  <2> QED BY <1>1, <2>1, <2>4
<1>3. CASE ServeInfo BY <1>1, <1>3 DEF ServeInfo
<1>4. CASE Enter BY <1>1, <1>4 DEF Enter
<1>5. CASE \E n \in Names : Page(n) BY <1>1, <1>5 DEF Page
<1>6. CASE Install BY <1>1, <1>6 DEF Install
<1>7. CASE \E ch \in Chans : Subscribe(ch)
  <2>1. PICK ch \in Chans : Subscribe(ch) BY <1>7
  <2>2. /\ pc # "online" /\ UNCHANGED <<log, data>> /\ base[ch] = -1
        /\ base' = [base EXCEPT ![ch] = Len(log)] /\ cursor' = [cursor EXCEPT ![ch] = Len(log)]
    BY <2>1 DEF Subscribe
  <2>3. /\ ch = "apps" => cursor'["apps"] = Len(log)
        /\ ch # "apps" => cursor'["apps"] = cursor["apps"] /\ base'["apps"] = base["apps"]
    BY <1>1, <2>2
  <2> QED BY <1>1, <2>2, <2>3
<1>8. CASE Deliver
  <2> DEFINE k == Oldest(Queued("apps"))
  <2>1. /\ Queued("apps") # {} /\ data' = Update(data, log[k])
        /\ cursor' = [cursor EXCEPT !["apps"] = k]
        /\ UNCHANGED <<log, pc, base>>
    BY <1>8 DEF Deliver
  <2>2. base["apps"] # -1 BY <2>1 DEF Queued
  <2>3. Queued("apps") = {m \in (cursor["apps"] + 1)..Len(log) : log[m].op # "partial"}
    BY <2>2 DEF Queued
  <2>4. k \in Queued("apps")
    <3>1. Queued("apps") \subseteq Nat BY <1>1, <2>3
    <3> QED BY <2>1, <3>1, OldestIsFirst
  <2> HIDE DEF k
  <2>5. k \in (cursor["apps"] + 1)..Len(log) /\ k \in 2..Len(log) /\ cursor'["apps"] = k
    <3>1. 1 <= cursor["apps"] BY <1>1, <2>2 DEF AppsInv, Typed, PlaceFits, Chans
    <3> QED BY <1>1, <2>1, <2>3, <2>4, <3>1
  <2>6. ASSUME NEW n \in Names, data[n] # None, data'[n] = None
        PROVE  log[k].op = "remove" /\ n \in log[k].names
    <3>1. \A m \in log[k].names : log[k].op = "remove" <=> log[k].tab[m] = None
      BY <2>5 DEF AppsInv, EntriesAreTold
    <3>2. data \in [Names -> Infos \cup {None}] BY DEF AppsInv, Typed, Table
    <3>3. n \in log[k].names /\ log[k].tab[n] = None BY <2>1, <2>6, <3>1, <3>2 DEF Update
    <3> QED BY <3>1, <3>3
  <2> QED BY <1>1, <2>1, <2>5, <2>6
<1>9. CASE DeliverPartial
  <2>1. /\ UNCHANGED <<log, pc, data, base>>
        /\ cursor' = [cursor EXCEPT !["partial"] = Oldest(Queued("partial"))]
    BY <1>9 DEF DeliverPartial
  <2>2. cursor'["apps"] = cursor["apps"] BY <1>1, <2>1
  <2> QED BY <1>1, <2>1, <2>2
<1>10. CASE InstallPartial
  <2>1. /\ UNCHANGED <<log, pc, base, cursor>> /\ req # None
        /\ data' = [data EXCEPT ![req] = log[snap].tab[req]] /\ log[snap].tab[req] # None
    BY <1>10 DEF InstallPartial
  <2>2. data \in [Names -> Infos \cup {None}] BY DEF AppsInv, Typed, Table
  <2>3. \A n \in Names : data[n] # None => data'[n] # None BY <2>1, <2>2
  <2> QED BY <1>1, <2>1, <2>3
<1>11. CASE PartialFails BY <1>1, <1>11 DEF PartialFails
<1> QED
  BY <1>2, <1>3, <1>4, <1>5, <1>6, <1>7, <1>8, <1>9, <1>10, <1>11 DEF ControllerStep

LEMMA CacheKeepsCalls ==
  ASSUME CallsInv, HomeStep \/ ServeInfo \/ Enter \/ ControllerStep, UNCHANGED call
  PROVE  CallsInv'
<1>1. AppsInv /\ call \in [Calls -> CallRec] /\ GoingFits /\ OkFits BY DEF CallsInv
<1>2. AppsInv' BY <1>1, AppsInvStep DEF Next
<1>3. /\ Len(log) \in Nat /\ Len(log') \in Nat /\ cursor["apps"] \in Nat
      /\ cursor'["apps"] \in Nat /\ cursor["apps"] <= Len(log) /\ cursor'["apps"] <= Len(log')
  <2>1. Len(log) \in Nat /\ cursor["apps"] \in Nat /\ cursor["apps"] <= Len(log)
    BY <1>1 DEF AppsInv, Typed, Chans
  <2>2. Typed' BY <1>2 DEF AppsInv
  <2>3. Len(log') \in Nat /\ cursor'["apps"] \in Nat /\ cursor'["apps"] <= Len(log')
    BY <2>2 DEF Typed, Chans
  <2> QED BY <2>1, <2>3
<1>4. pc = "online" => base["apps"] # -1 BY <1>1 DEF AppsInv, PlaceFits
<1>5. ASSUME NEW c \in Calls PROVE call[c].handled \in Nat BY <1>1 DEF CallRec
<1>6. GoingFits'
  <2> SUFFICES ASSUME NEW c \in Calls, Going(c)
               PROVE  /\ pc' = "online" /\ call[c].handled <= cursor'["apps"]
                      /\ Deletes(c) =>
                           /\ call[c].name \in Names
                           /\ call[c].step \in 1..Len(Stages(call[c].kind))
                           /\ data'[call[c].name] # None \/ RemovedSince(c)'
    BY DEF GoingFits, Going, Deletes, App
  <2>1. /\ pc = "online" /\ call[c].handled <= cursor["apps"]
        /\ Deletes(c) => /\ call[c].name \in Names
                         /\ call[c].step \in 1..Len(Stages(call[c].kind))
                         /\ data[call[c].name] # None \/ RemovedSince(c)
    BY <1>1 DEF GoingFits, App
  <2>2. pc' = "online" /\ cursor["apps"] <= cursor'["apps"] BY <1>1, <1>4, <2>1, CacheMoves
  <2>3. \A k \in 1..Len(log) : log'[k] = log[k] BY <1>1, CacheMoves
  <2>4. RemovedSince(c) => RemovedSince(c)'
    BY <1>3, <1>5, <2>2, <2>3 DEF RemovedSince
  <2>5. ASSUME Deletes(c), data[call[c].name] # None, data'[call[c].name] = None
        PROVE  RemovedSince(c)'
    <3>1. PICK k \in (cursor["apps"] + 1)..cursor'["apps"] :
            log[k].op = "remove" /\ call[c].name \in log[k].names
      BY <1>1, <2>1, <2>5, CacheMoves
    <3>2. log'[k] = log[k]
      <4>1. CASE k \in 1..Len(log) BY <2>3, <4>1
      <4>2. CASE k > Len(log)
        <5>1. k \in Nat /\ k <= Len(log') BY <1>3
        <5>2. log[k] = log'[k] \/ UNCHANGED log
          <6>1. HomeStep => UNCHANGED cursor
            BY DEF HomeStep, HomeInsert, HomeChange, HomePartial, HomeRemove, Publish, controller
          <6>2. ~HomeStep BY <1>3, <6>1
          <6> QED BY <6>2 DEF ServeInfo, Enter, ControllerStep, Page, Install, Subscribe,
                              Deliver, DeliverPartial, InstallPartial, PartialFails
        <5> QED BY <5>2
      <4> QED BY <1>3, <4>1, <4>2
    <3>3. k \in (call[c].handled + 1)..cursor'["apps"] BY <1>3, <1>5, <2>1
    <3> QED BY <3>1, <3>2, <3>3 DEF RemovedSince
  <2> QED BY <1>3, <1>5, <2>1, <2>2, <2>4, <2>5
<1>7. OkFits'
  <2> SUFFICES ASSUME NEW c \in Calls, Deletes(c), call[c].st = "ok"
               PROVE  \E k \in (call[c].handled + 1)..Len(log') :
                        /\ log'[k].op = "remove" /\ call[c].name \in log'[k].names
                        /\ base'["apps"] # -1 => k <= cursor'["apps"]
    BY DEF OkFits, Deletes
  <2>1. PICK k \in (call[c].handled + 1)..Len(log) :
          /\ log[k].op = "remove" /\ call[c].name \in log[k].names
          /\ base["apps"] # -1 => k <= cursor["apps"]
    BY <1>1 DEF OkFits
  <2>2. k \in 1..Len(log) /\ k \in (call[c].handled + 1)..Len(log')
    BY <1>1, <1>3, <1>5, CacheMoves
  <2>3. base'["apps"] # -1 => k <= cursor'["apps"] BY <1>1, <1>3, <2>1, <2>2, CacheMoves
  <2> QED BY <1>1, <2>1, <2>2, <2>3, CacheMoves
<1> QED BY <1>1, <1>2, <1>6, <1>7 DEF CallsInv

\* Leaving: no call is under way.
LEMMA LeaveKeepsCalls ==
  ASSUME CallsInv, Leave  PROVE CallsInv'
<1>1. AppsInv /\ Exit BY DEF CallsInv, Leave
<1>2. AppsInv' BY <1>1, AppsInvStep DEF Next
<1>3. UNCHANGED <<call, log>> /\ base'["apps"] = -1 BY <1>1 DEF Leave, Exit, Chans
<1>4. GoingFits' BY <1>3 DEF Leave, GoingFits, Going
<1>5. OkFits' BY <1>3 DEF CallsInv, OkFits, Deletes
<1> QED BY <1>2, <1>3, <1>4, <1>5 DEF CallsInv

\* A step of one call c leaves the others, and needs only c looked at.
LEMMA OneCallKeeps ==
  ASSUME CallsInv, UNCHANGED cvars, NEW c \in Calls, NEW r \in CallRec,
         call' = [call EXCEPT ![c] = r],
         r.st = "going" =>
           /\ pc = "online" /\ r.handled <= cursor["apps"]
           /\ (r.kind \in {"delete", "delete_stopped"} /\ r.blocking) =>
                /\ r.name \in Names /\ r.step \in 1..Len(Stages(r.kind))
                /\ \/ data[r.name] # None
                   \/ \E k \in (r.handled + 1)..cursor["apps"] :
                        log[k].op = "remove" /\ r.name \in log[k].names,
         (r.st = "ok" /\ r.kind \in {"delete", "delete_stopped"} /\ r.blocking) =>
           \E k \in (r.handled + 1)..cursor["apps"] :
             log[k].op = "remove" /\ r.name \in log[k].names
  PROVE  CallsInv'
<1>1. AppsInv /\ call \in [Calls -> CallRec] /\ GoingFits /\ OkFits BY DEF CallsInv
<1>2. UNCHANGED <<log, pc, start, got, data, base, cursor, req, left, snap>> BY DEF cvars
<1>3. AppsInv' BY <1>1, AppsInvStep
<1>4. call' \in [Calls -> CallRec] /\ call'[c] = r /\ \A d \in Calls : d # c => call'[d] = call[d]
  BY <1>1
<1>5. GoingFits'
  <2> SUFFICES ASSUME NEW d \in Calls, Going(d)'
               PROVE  /\ pc = "online" /\ call'[d].handled <= cursor["apps"]
                      /\ Deletes(d)' =>
                           /\ call'[d].name \in Names
                           /\ call'[d].step \in 1..Len(Stages(call'[d].kind))
                           /\ data[call'[d].name] # None \/ RemovedSince(d)'
    BY <1>2 DEF GoingFits, App
  <2>1. CASE d = c BY <1>2, <1>4, <2>1 DEF Going, Deletes, RemovedSince
  <2>2. CASE d # c BY <1>1, <1>2, <1>4, <2>2 DEF GoingFits, Going, Deletes, RemovedSince, App
  <2> QED BY <2>1, <2>2
<1>6. OkFits'
  <2> SUFFICES ASSUME NEW d \in Calls, Deletes(d)', call'[d].st = "ok"
               PROVE  \E k \in (call'[d].handled + 1)..Len(log) :
                        /\ log[k].op = "remove" /\ call'[d].name \in log[k].names
                        /\ base["apps"] # -1 => k <= cursor["apps"]
    BY <1>2 DEF OkFits
  <2>1. CASE d = c
    <3>1. PICK k \in (r.handled + 1)..cursor["apps"] :
            log[k].op = "remove" /\ r.name \in log[k].names
      BY <1>4, <2>1 DEF Deletes
    <3>2. r.handled \in Nat /\ cursor["apps"] \in Nat /\ Len(log) \in Nat /\ cursor["apps"] <= Len(log)
      BY <1>1 DEF CallRec, AppsInv, Typed, Chans
    <3> QED BY <1>4, <2>1, <3>1, <3>2
  <2>2. CASE d # c BY <1>1, <1>4, <2>2 DEF OkFits, Deletes
  <2> QED BY <2>1, <2>2
<1> QED BY <1>3, <1>4, <1>5, <1>6 DEF CallsInv

LEMMA BeginKeepsCalls ==
  ASSUME CallsInv, NEW c \in Calls, AskStep(c)  PROVE CallsInv'
<1>1. PICK kind \in Kinds, n \in Subjects, blocking \in BOOLEAN :
        \E s \in (IF kind = "start" THEN Servers ELSE {}) \cup {None} :
          Begin(c, kind, n, s, blocking)
  BY DEF AskStep
<1>10. n \in Names BY CallsAssumption
<1>2. PICK s \in Servers \cup {None} : Begin(c, kind, n, s, blocking) BY <1>1
<1> DEFINE st == IF kind \notin {"create", "start"} /\ data[n] = None THEN "KeyError" ELSE "going"
           r == [kind |-> kind, blocking |-> blocking, name |-> n, target |-> s, step |-> 1,
                 st |-> st, handled |-> cursor["apps"]]
<1>3. call' = [call EXCEPT ![c] = r] /\ pc = "online" /\ UNCHANGED cvars BY <1>2 DEF Begin
<1>4. cursor["apps"] \in Nat BY DEF CallsInv, AppsInv, Typed, Chans
<1>5. r \in CallRec BY <1>4, <1>10 DEF CallRec
<1>6. /\ r.st \in {"KeyError", "going"} /\ r.handled = cursor["apps"] /\ r.name = n /\ r.step = 1
      /\ r.kind = kind
      /\ r.kind \in {"delete", "delete_stopped"} /\ r.st = "going" => data[n] # None
  OBVIOUS
<1>7. r.kind \in {"delete", "delete_stopped"} => 1 \in 1..Len(Stages(r.kind))
  BY DEF Stages
<1> HIDE DEF r, st
<1>8. r.st = "going" =>
        /\ pc = "online" /\ r.handled <= cursor["apps"]
        /\ (r.kind \in {"delete", "delete_stopped"} /\ r.blocking) =>
             /\ r.name \in Names /\ r.step \in 1..Len(Stages(r.kind)) /\ data[r.name] # None
  BY <1>10, <1>1, <1>3, <1>4, <1>6, <1>7
<1>9. r.st # "ok" BY <1>6
<1> QED BY <1>3, <1>5, <1>8, <1>9, OneCallKeeps

\* What a step of a call makes of its record.
LEMMA StepRecords ==
  ASSUME NEW r \in CallRec, NEW st \in {"ok", "KeyError", "TimeoutError", "AssertionError"}
  PROVE  /\ [r EXCEPT !.st = st] \in CallRec /\ [r EXCEPT !.st = st].st = st
         /\ [r EXCEPT !.st = st].kind = r.kind /\ [r EXCEPT !.st = st].blocking = r.blocking
         /\ [r EXCEPT !.st = st].name = r.name /\ [r EXCEPT !.st = st].handled = r.handled
         /\ [r EXCEPT !.step = @ + 1] \in CallRec /\ [r EXCEPT !.step = @ + 1].st = r.st
         /\ [r EXCEPT !.step = @ + 1].kind = r.kind /\ [r EXCEPT !.step = @ + 1].step = r.step + 1
         /\ [r EXCEPT !.step = @ + 1].blocking = r.blocking
         /\ [r EXCEPT !.step = @ + 1].name = r.name /\ [r EXCEPT !.step = @ + 1].handled = r.handled
BY DEF CallRec

\* The stages of a deletion; its last is to find the app gone.
LEMMA DeletionStages ==
  ASSUME NEW kind \in {"delete", "delete_stopped"}
  PROVE  /\ Len(Stages(kind)) \in Nat
         /\ Stages(kind)[Len(Stages(kind))] = "gone"
BY DEF Stages

LEMMA CallStepKeeps ==
  ASSUME CallsInv, NEW c \in Calls, CallStep(c)  PROVE CallsInv'
<1>1. AppsInv /\ call[c] \in CallRec /\ GoingFits BY DEF CallsInv
<1>2. Going(c) /\ UNCHANGED cvars
  BY DEF CallStep, Answered, Unlicensed, Found, LookupFails, Timeout, NotMet, GoOn, End
<1>3. /\ pc = "online" /\ call[c].handled <= cursor["apps"] /\ call[c].st = "going"
      /\ Deletes(c) =>
           /\ call[c].name \in Names /\ call[c].step \in 1..Len(Stages(call[c].kind))
           /\ App(c) # None \/ RemovedSince(c)
  BY <1>1, <1>2 DEF GoingFits, Going
<1>4. CASE \E st \in {"KeyError", "TimeoutError", "AssertionError"} : End(c, st)
  <2>1. PICK st \in {"KeyError", "TimeoutError", "AssertionError"} : End(c, st) BY <1>4
  <2> DEFINE r == [call[c] EXCEPT !.st = st]
  <2>2. call' = [call EXCEPT ![c] = r]
    <3>1. call' = [call EXCEPT ![c].st = st] BY <2>1 DEF End
    <3> QED BY <3>1 DEF CallsInv
  <2>3. r \in CallRec /\ r.st = st BY <1>1, <2>1 DEF CallRec
  <2> HIDE DEF r
  <2> QED BY <1>2, <2>2, <2>3, OneCallKeeps
<1>5. CASE GoOn(c)
  <2>1. call' = [call EXCEPT ![c] = Advanced(c)] BY <1>5 DEF GoOn
  <2>2. CASE call[c].step = Len(Stages(call[c].kind))
    <3> DEFINE r == [call[c] EXCEPT !.st = "ok"]
    <3>1. call' = [call EXCEPT ![c] = r] BY <2>1, <2>2 DEF Advanced
    <3>2. /\ r \in CallRec /\ r.st = "ok" /\ r.kind = call[c].kind /\ r.blocking = call[c].blocking
          /\ r.name = call[c].name /\ r.handled = call[c].handled
      BY <1>1, StepRecords
    <3> HIDE DEF r
    <3>3. ASSUME Deletes(c) PROVE RemovedSince(c)
      <4>1. Stage(c) = "gone" BY <2>2, <3>3, DeletionStages DEF Stage, Deletes
      <4>2. ~Quiet(c, Stage(c)) BY <3>3 DEF Quiet, Deletes
      <4>3. \/ Stage(c) \in {"request", "server", "license", "target"}
            \/ Met(c, Stage(c))
            \/ \E st \in {"TimeoutError", "KeyError", "AssertionError"} : End(c, st)
        BY <4>2 DEF CallStep, Answered, Unlicensed, Found, LookupFails, Timeout
      <4>4. ASSUME NEW st \in {"TimeoutError", "KeyError", "AssertionError"}, End(c, st) PROVE FALSE
        <5>1. call' = [call EXCEPT ![c].st = st] BY <4>4 DEF End
        <5>2. call'[c].st = st
          <6>1. call \in [Calls -> CallRec] BY DEF CallsInv
          <6>2. call'[c] = [call[c] EXCEPT !.st = st] BY <5>1, <6>1
          <6> QED BY <1>1, <6>2, StepRecords
        <5>3. call'[c].st = "ok"
          <6>1. call \in [Calls -> CallRec] BY DEF CallsInv
          <6> QED BY <3>1, <3>2, <6>1
        <5> QED BY <5>2, <5>3
      <4>5. Met(c, "gone") BY <4>1, <4>3, <4>4
      <4>6. App(c) = None BY <4>5 DEF Met
      <4> QED BY <1>3, <3>3, <4>6
    <3> QED BY <1>2, <3>1, <3>2, <3>3, OneCallKeeps DEF Deletes, RemovedSince
  <2>3. CASE call[c].step # Len(Stages(call[c].kind))
    <3> DEFINE r == [call[c] EXCEPT !.step = @ + 1]
    <3>1. call' = [call EXCEPT ![c] = r] BY <2>1, <2>3 DEF Advanced
    <3>2. /\ r \in CallRec /\ r.st = call[c].st /\ r.kind = call[c].kind
          /\ r.blocking = call[c].blocking /\ r.step = call[c].step + 1
          /\ r.name = call[c].name /\ r.handled = call[c].handled
      BY <1>1, StepRecords
    <3> HIDE DEF r
    <3>3. Deletes(c) => r.step \in 1..Len(Stages(r.kind))
      <4>1. Deletes(c) => Len(Stages(call[c].kind)) \in Nat BY DeletionStages DEF Deletes
      <4> QED BY <1>3, <2>3, <3>2, <4>1
    <3> QED BY <1>2, <1>3, <3>1, <3>2, <3>3, OneCallKeeps DEF Deletes, RemovedSince, App
  <2> QED BY <2>2, <2>3
<1>6. GoOn(c) \/ \E st \in {"KeyError", "TimeoutError", "AssertionError"} : End(c, st)
  BY DEF CallStep, Answered, Unlicensed, Found, LookupFails, Timeout
<1> QED BY <1>4, <1>5, <1>6

LEMMA CallsInvHolds == CallsSpec => []CallsInv
<1>1. CallsInit => CallsInv
  <2> SUFFICES ASSUME CallsInit PROVE CallsInv OBVIOUS
  <2>1. AppsInv BY AppsInvInit DEF CallsInit
  <2>2. Idle \in CallRec /\ Idle.st = "idle" BY DEF Idle, CallRec
  <2>3. call \in [Calls -> CallRec] /\ \A c \in Calls : call[c].st = "idle"
    BY <2>2 DEF CallsInit
  <2> QED BY <2>1, <2>3 DEF CallsInv, GoingFits, OkFits, Going
<1>2. CallsInv /\ [CallsNext]_avars => CallsInv'
  <2> SUFFICES ASSUME CallsInv, [CallsNext]_avars PROVE CallsInv' OBVIOUS
  <2>1. CASE (HomeStep \/ ServeInfo \/ Enter \/ ControllerStep) /\ UNCHANGED call
    BY <2>1, CacheKeepsCalls
  <2>2. CASE Leave BY <2>2, LeaveKeepsCalls
  <2>3. CASE \E c \in Calls : AskStep(c) \/ CallStep(c)
    BY <2>3, BeginKeepsCalls, CallStepKeeps
  <2>4. CASE UNCHANGED avars
    <3>1. UNCHANGED cvars /\ UNCHANGED <<log, data, pc, base, cursor, call>>
      BY <2>4 DEF avars, cvars
    <3>2. AppsInv' BY <3>1, AppsInvStep DEF CallsInv
    <3> QED BY <3>1, <3>2 DEF CallsInv, GoingFits, OkFits, Going, Deletes, App, RemovedSince
  <2> QED BY <2>1, <2>2, <2>3, <2>4 DEF CallsNext
<1> QED BY <1>1, <1>2, PTL DEF CallsSpec

\* A deletion that was to wait returns only after a removal of the app came in since
\* the call, for any number of calls at a time, whatever HOME does meanwhile
\* (delete_app, wait_for_condition).
THEOREM DeletionsAreRemovals == CallsSpec => []DeletedWasRemoved
<1>1. CallsInv => DeletedWasRemoved
  <2> SUFFICES ASSUME CallsInv, NEW c \in Calls, pc = "online", Deletes(c), call[c].st = "ok"
               PROVE  RemovedSince(c)
    BY DEF DeletedWasRemoved, Deletes
  <2>1. PICK k \in (call[c].handled + 1)..Len(log) :
          /\ log[k].op = "remove" /\ call[c].name \in log[k].names
          /\ base["apps"] # -1 => k <= cursor["apps"]
    BY DEF CallsInv, OkFits
  <2>2. base["apps"] # -1 /\ cursor["apps"] \in Nat /\ Len(log) \in Nat /\ call[c].handled \in Nat
    BY DEF CallsInv, AppsInv, PlaceFits, Typed, Chans, CallRec
  <2> QED BY <2>1, <2>2 DEF RemovedSince
<1> QED BY <1>1, CallsInvHolds, PTL

\* The calls only read the dictionary: what is told of it holds next to them.
THEOREM AppsCallsAreSafe ==
  CallsSpec => [](RemovedStaysGone /\ ToldIsExact /\ DeletedWasRemoved)
<1>1. CallsInit => Init BY DEF CallsInit
<1>2. [CallsNext]_avars => [Next]_cvars
  BY DEF CallsNext, avars, cvars, Next, Leave, AskStep, Begin, CallStep, Answered, Unlicensed,
         Found, LookupFails, Timeout, GoOn, End
<1>3. CallsSpec => Spec BY <1>1, <1>2, PTL DEF CallsSpec, Spec
<1> QED BY <1>3, RemovedHolds, ToldHolds, DeletionsAreRemovals, PTL
=============================================================================
