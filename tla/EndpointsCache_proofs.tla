----------------------- MODULE EndpointsCache_proofs -----------------------
(***************************************************************************)
(* The cache of HOME's devices list, for any number of devices, labels,     *)
(* calls and updates: what it holds was listed by HOME, and where HOME's    *)
(* updates were followed and a device kept its kind, it is exact.           *)
(*                                                                         *)
(* None of the three properties is inductive.  They rest on the shape of    *)
(* HOME's journal (JournalIsTold, EntriesAreTold), on every entry of the    *)
(* cache having a place in it (EntriesWereListed), and on a statement for   *)
(* devices of any number of kinds (FollowedFits).                           *)
(***************************************************************************)
EXTENDS EndpointsCache, FiniteSetTheorems, TLAPS

Devs == [Ids -> Entry \cup {None}]
LogEntry == [op: {"init", "insert", "change", "remove"}, id: Ids \cup {None}, devs: Devs]
Caches == [Kinds -> Devs]

Sorted(devs) ==
  [k \in Kinds |-> [i \in Ids |->
     IF devs[i] # None /\ devs[i].kind = k THEN devs[i] ELSE None]]

Typed ==
  /\ log \in Seq(LogEntry) /\ Len(log) >= 1
  /\ listed \in 0..Len(log) /\ base \in 0..Len(log) /\ cursor \in 0..Len(log)
  /\ cache \in Caches /\ call \in [Calls -> Call]

\* Between two entries for a device HOME lists it alike; an entry says what it is of.
JournalIsTold ==
  \A i \in Ids : \A j, k \in 1..Len(log) :
    (j <= k /\ \A m \in (j + 1)..k : log[m].id # i) => log[j].devs[i] = log[k].devs[i]

EntriesAreTold ==
  \A m \in 2..Len(log) :
    /\ log[m].id \in Ids
    /\ log[m].op = "remove" <=> log[m].devs[log[m].id] = None

PlaceFits ==
  /\ base = 0 => cursor = 0 /\ (listed # 0 => cache = Sorted(log[listed].devs))
  /\ base # 0 => 1 <= listed /\ listed <= base /\ base <= cursor
  /\ Following => base # 0
  /\ pc \in {"collecting", "building", "raised", "ready"} => base = 0
  /\ listed = 0 => \A k \in Kinds, i \in Ids : cache[k][i] = None
  /\ pc = "collecting" => listed = 0
  /\ listed = 0 => pc \in {"collecting", "raised"}
  /\ listed = 0 => \A c \in Calls : call[c].st = "idle"

\* What is asked of HOME names a label to register or an ID to delete.
WorkFits ==
  /\ \A t \in work :
       (t.op = "insert" => t.label \in Labels) /\ (t.op = "remove" => t.id \in Ids)
  /\ \A c \in Calls : call[c].st = "asked" =>
       \/ call[c].kind = "create_proxy" /\ call[c].label \in Labels
       \/ call[c].kind \in {"remove_proxies", "purge"} /\ call[c].id \in Ids

\* Positions of the journal the cache has seen.
Seen(m) == m = listed \/ (base < m /\ m <= cursor)

EntriesWereListed ==
  \A k \in Kinds, i \in Ids : cache[k][i] # None =>
    /\ cache[k][i].kind = k
    /\ \E m \in 1..Len(log) : Seen(m) /\ log[m].devs[i] = cache[k][i]

OneKind(i) == \A a, b \in KindsOf(i) : a = b

FollowedFits ==
  Following =>
    \A i \in Ids : Followed(i) =>
      LET e == log[cursor].devs[i]
      IN  /\ e # None => cache[e.kind][i] = e
          /\ (e = None /\ OneKind(i)) => \A k \in Kinds : cache[k][i] = None

CacheInv ==
  /\ Typed /\ JournalIsTold /\ EntriesAreTold /\ PlaceFits /\ WorkFits
  /\ EntriesWereListed /\ FollowedFits /\ FoundWasListed

-----------------------------------------------------------------------------
(* The operators of the cache.                                              *)

LEMMA AddStores ==
  ASSUME NEW c \in Caches, NEW i \in Ids, NEW e \in Entry
  PROVE  /\ Add(c, i, e) \in Caches /\ Add(c, i, e)[e.kind][i] = e
         /\ \A k \in Kinds, j \in Ids :
              (k # e.kind \/ j # i) => Add(c, i, e)[k][j] = c[k][j]
<1>1. e.kind \in Kinds BY DEF Entry
<1> QED BY <1>1 DEF Add, Caches, Devs

LEMMA RemoveDrops ==
  ASSUME NEW c \in Caches, NEW i \in Ids
  PROVE  \E f \in Kinds :
           /\ Remove(c, i) \in Caches /\ Remove(c, i)[f][i] = None
           /\ \A k \in Kinds, j \in Ids : (k # f \/ j # i) => Remove(c, i)[k][j] = c[k][j]
           /\ (\E k \in Kinds : c[k][i] # None) => c[f][i] # None
<1> DEFINE f == FirstKind(c, i)
<1>1. f \in Kinds BY DEF FirstKind, Kinds
<1>2. (\E k \in Kinds : c[k][i] # None) => c[f][i] # None BY DEF FirstKind, Kinds
<1> HIDE DEF f
<1>3. Remove(c, i) = [c EXCEPT ![f][i] = None] BY DEF Remove, f
<1>4. /\ Remove(c, i) \in Caches /\ Remove(c, i)[f][i] = None
      /\ \A k \in Kinds, j \in Ids : (k # f \/ j # i) => Remove(c, i)[k][j] = c[k][j]
  BY <1>1, <1>3 DEF Caches, Devs
<1> QED BY <1>1, <1>2, <1>4

LEMMA SortedFits ==
  ASSUME NEW d \in Devs
  PROVE  /\ Sorted(d) \in Caches
         /\ \A k \in Kinds, i \in Ids :
              /\ Sorted(d)[k][i] # None => d[i] # None /\ d[i].kind = k /\ Sorted(d)[k][i] = d[i]
              /\ (d[i] # None /\ d[i].kind = k) => Sorted(d)[k][i] = d[i]
BY DEF Sorted, Caches, Devs

LEMMA OneKindIsCounted ==
  ASSUME NEW i \in Ids, Typed, Cardinality(KindsOf(i)) <= 1
  PROVE  OneKind(i)
<1>1. KindsOf(i) \subseteq Kinds
  <2> SUFFICES ASSUME NEW k \in listed..cursor, k > 0, log[k].devs[i] # None
               PROVE  log[k].devs[i].kind \in Kinds
    BY DEF KindsOf
  <2>1. k \in 1..Len(log) BY DEF Typed
  <2>2. log[k] \in LogEntry BY <2>1 DEF Typed
  <2>3. log[k].devs[i] \in Entry BY <2>2 DEF LogEntry, Devs
  <2> QED BY <2>3 DEF Entry
<1>2. IsFiniteSet(KindsOf(i))
  <2>1. IsFiniteSet(Kinds)
    <3>1. IsFiniteSet({"switch"}) BY FS_Singleton
    <3>2. IsFiniteSet({"switch"} \cup {"app"}) BY <3>1, FS_AddElement
    <3>3. IsFiniteSet(({"switch"} \cup {"app"}) \cup {"device"}) BY <3>2, FS_AddElement
    <3>4. Kinds = ({"switch"} \cup {"app"}) \cup {"device"} BY DEF Kinds
    <3> QED BY <3>3, <3>4
  <2> QED BY <1>1, <2>1, FS_Subset
<1>3. Cardinality(KindsOf(i)) \in Nat BY <1>2, FS_CardinalityType
<1>4. CASE Cardinality(KindsOf(i)) = 0
  <2>1. KindsOf(i) = {} BY <1>2, <1>4, FS_EmptySet
  <2> QED BY <2>1 DEF OneKind
<1>5. CASE Cardinality(KindsOf(i)) = 1
  <2>1. \E x : KindsOf(i) = {x} BY <1>2, <1>5, FS_Singleton
  <2> QED BY <2>1 DEF OneKind
<1> QED BY <1>3, <1>4, <1>5

-----------------------------------------------------------------------------
LEMMA CacheInvInit == Init => CacheInv
<1> SUFFICES ASSUME NEW d \in [Ids -> Entry \cup {None}],
                    log = <<[op |-> "init", id |-> None, devs |-> d]>>,
                    pc = "collecting", listed = 0, base = 0, cursor = 0,
                    cache = [k \in Kinds |-> [i \in Ids |-> None]],
                    call = [c \in Calls |-> Idle], work = {}
             PROVE  CacheInv
  BY DEF Init
<1>1. log \in Seq(LogEntry) /\ Len(log) = 1
  <2>1. [op |-> "init", id |-> None, devs |-> d] \in LogEntry BY DEF LogEntry, Devs
  <2> QED BY <2>1
<1>2. cache \in Caches BY DEF Caches, Devs
<1>3. Idle \in Call BY DEF Idle, Call
<1>4. Typed BY <1>1, <1>2, <1>3 DEF Typed
<1>5. JournalIsTold /\ EntriesAreTold BY <1>1 DEF JournalIsTold, EntriesAreTold
<1>6. PlaceFits /\ WorkFits BY DEF PlaceFits, WorkFits, Idle, Following
<1>7. EntriesWereListed BY DEF EntriesWereListed
<1>8. FollowedFits BY DEF FollowedFits, Following
<1>9. FoundWasListed BY DEF FoundWasListed, Idle
<1> QED BY <1>4, <1>5, <1>6, <1>7, <1>8, <1>9 DEF CacheInv

\* The journal grows at its end, by an entry for one device.
LEMMA PublishGrows ==
  ASSUME CacheInv, NEW op \in {"insert", "change", "remove"}, NEW i \in Ids,
         NEW e \in Entry \cup {None}, op = "remove" <=> e = None, Publish(op, i, e)
  PROVE  /\ log' \in Seq(LogEntry) /\ Len(log') = Len(log) + 1
         /\ \A k \in 1..Len(log) : log'[k] = log[k]
         /\ JournalIsTold' /\ EntriesAreTold'
<1> DEFINE new == [op |-> op, id |-> i, devs |-> [now EXCEPT ![i] = e]]
<1>1. log \in Seq(LogEntry) /\ Len(log) \in Nat /\ Len(log) >= 1 BY DEF CacheInv, Typed
<1>2. log[Len(log)] \in LogEntry BY <1>1
<1>3. now \in Devs BY <1>2 DEF now, LogEntry
<1>4. new \in LogEntry BY <1>3 DEF LogEntry, Devs
<1>5. log' = Append(log, new) BY DEF Publish
<1>6. /\ log' \in Seq(LogEntry) /\ Len(log') = Len(log) + 1 /\ log'[Len(log) + 1] = new
      /\ \A k \in 1..Len(log) : log'[k] = log[k]
  BY <1>1, <1>4, <1>5
<1>7. /\ new.id = i /\ new.op = op /\ new.devs[i] = e
      /\ \A h \in Ids : h # i => new.devs[h] = log[Len(log)].devs[h]
  BY <1>3 DEF now, Devs
<1> HIDE DEF new
<1>8. JournalIsTold'
  <2> SUFFICES ASSUME NEW h \in Ids, NEW j \in 1..(Len(log) + 1), NEW k \in 1..(Len(log) + 1),
                      j <= k, \A m \in (j + 1)..k : log'[m].id # h
               PROVE  log'[j].devs[h] = log'[k].devs[h]
    BY <1>6 DEF JournalIsTold
  <2>1. CASE k <= Len(log)
    <3>1. \A m \in (j + 1)..k : log[m].id # h BY <2>1, <1>1, <1>6
    <3>2. j \in 1..Len(log) /\ k \in 1..Len(log) BY <2>1, <1>1
    <3>3. JournalIsTold BY DEF CacheInv
    <3>4. log[j].devs[h] = log[k].devs[h] BY <3>1, <3>2, <3>3 DEF JournalIsTold
    <3> QED BY <3>2, <3>4, <1>6
  <2>2. CASE j <= Len(log) /\ k = Len(log) + 1
    <3>1. h # i
      <4>1. log'[k].id # h BY <2>2, <1>1
      <4> QED BY <4>1, <2>2, <1>6, <1>7
    <3>2. \A m \in (j + 1)..Len(log) : log[m].id # h BY <2>2, <1>1, <1>6
    <3>3. log[j].devs[h] = log[Len(log)].devs[h]
      <4>1. j \in 1..Len(log) /\ Len(log) \in 1..Len(log) BY <2>2, <1>1
      <4>2. JournalIsTold BY DEF CacheInv
      <4> QED BY <3>2, <4>1, <4>2 DEF JournalIsTold
    <3>4. log'[k].devs[h] = log[Len(log)].devs[h] BY <2>2, <3>1, <1>6, <1>7
    <3> QED BY <2>2, <3>3, <3>4, <1>1, <1>6
  <2>3. CASE j = k BY <2>3
  <2> QED BY <2>1, <2>2, <2>3, <1>1
<1>9. EntriesAreTold'
  <2> SUFFICES ASSUME NEW m \in 2..(Len(log) + 1)
               PROVE  /\ log'[m].id \in Ids
                      /\ log'[m].op = "remove" <=> log'[m].devs[log'[m].id] = None
    BY <1>6 DEF EntriesAreTold
  <2>1. CASE m = Len(log) + 1 BY <2>1, <1>6, <1>7
  <2>2. CASE m # Len(log) + 1
    <3>1. m \in 2..Len(log) /\ m \in 1..Len(log) BY <2>2, <1>1
    <3> QED BY <3>1, <1>6 DEF CacheInv, EntriesAreTold
  <2> QED BY <2>1, <2>2
<1> QED BY <1>6, <1>8, <1>9

\* HOME moves behind the cursor's back.
LEMMA HomeKeeps ==
  ASSUME CacheInv, UNCHANGED <<controller, call>>, work' \subseteq work,
         \/ log' = log
         \/ \E op \in {"insert", "change", "remove"}, i \in Ids, e \in Entry \cup {None} :
              (op = "remove" <=> e = None) /\ Publish(op, i, e)
  PROVE  CacheInv'
<1>1. UNCHANGED <<pc, listed, cache, base, cursor, call>> /\ (Following' <=> Following)
  BY DEF controller, Following
<1> WorkFits' BY <1>1 DEF CacheInv, WorkFits
<1>2. CASE log' = log
  <2>1. Typed' /\ JournalIsTold' /\ EntriesAreTold' /\ EntriesWereListed' /\ FoundWasListed'
    BY <1>1, <1>2 DEF CacheInv, Typed, JournalIsTold, EntriesAreTold, EntriesWereListed, Seen,
                     FoundWasListed
  <2>2. PlaceFits' BY <1>1, <1>2 DEF CacheInv, PlaceFits
  <2>3. FollowedFits'
    <3>1. \A i \in Ids : (Followed(i)' <=> Followed(i)) /\ (OneKind(i)' <=> OneKind(i))
      BY <1>1, <1>2 DEF Followed, OneKind, KindsOf
    <3> QED BY <1>1, <1>2, <3>1 DEF CacheInv, FollowedFits
  <2> QED BY <2>1, <2>2, <2>3 DEF CacheInv
<1>3. CASE log' # log
  <2>1. /\ log' \in Seq(LogEntry) /\ Len(log') = Len(log) + 1
        /\ \A k \in 1..Len(log) : log'[k] = log[k]
        /\ JournalIsTold' /\ EntriesAreTold'
    BY <1>3, PublishGrows
  <2>2. /\ Len(log) \in Nat /\ Len(log) >= 1
        /\ listed \in 0..Len(log) /\ base \in 0..Len(log) /\ cursor \in 0..Len(log)
    BY DEF CacheInv, Typed
  <2>3. Typed' BY <1>1, <2>1, <2>2 DEF CacheInv, Typed
  <2>4. PlaceFits'
    <3>1. listed # 0 => log'[listed] = log[listed] BY <2>1, <2>2
    <3> QED BY <1>1, <3>1 DEF CacheInv, PlaceFits
  <2>5. EntriesWereListed'
    <3>1. \A m \in 1..Len(log) : m \in 1..Len(log') /\ log'[m] = log[m] BY <2>1, <2>2
    <3> QED BY <1>1, <3>1 DEF CacheInv, EntriesWereListed, Seen
  <2>6. FollowedFits'
    <3> SUFFICES ASSUME Following, NEW i \in Ids, Followed(i)'
                 PROVE  LET e == log'[cursor].devs[i]
                        IN  /\ e # None => cache[e.kind][i] = e
                            /\ (e = None /\ OneKind(i)') => \A k \in Kinds : cache[k][i] = None
      BY <1>1 DEF FollowedFits
    <3>1. 1 <= listed /\ listed <= base /\ base <= cursor /\ cursor <= Len(log)
      BY <2>2 DEF CacheInv, PlaceFits
    <3>2. \A k \in (listed + 1)..cursor : log'[k] = log[k] BY <2>1, <2>2, <3>1
    <3>3. \A k \in listed..cursor : log'[k] = log[k] BY <2>1, <2>2, <3>1
    <3>4. Followed(i)
      BY <1>1, <2>2, <3>1, <3>2 DEF Followed
    <3>5. KindsOf(i)' = KindsOf(i) BY <1>1, <3>3 DEF KindsOf
    <3>6. log'[cursor] = log[cursor] BY <2>1, <2>2, <3>1
    <3> QED BY <3>4, <3>5, <3>6 DEF CacheInv, FollowedFits, OneKind
  <2>7. FoundWasListed'
    <3>1. \A m \in 1..Len(log) : m \in 1..Len(log') /\ log'[m] = log[m] BY <2>1, <2>2
    <3> QED BY <1>1, <3>1 DEF CacheInv, FoundWasListed
  <2> QED BY <2>1, <2>3, <2>4, <2>5, <2>6, <2>7 DEF CacheInv
<1> QED BY <1>2, <1>3

LEMMA HomeStepKeeps ==
  ASSUME CacheInv, HomeStep \/ \E t \in work : CarryOut(t)
  PROVE  CacheInv'
<1> DEFINE Grows == \E op \in {"insert", "change", "remove"}, i \in Ids, e \in Entry \cup {None} :
                       (op = "remove" <=> e = None) /\ Publish(op, i, e)
<1>1. None \notin Entry BY CacheAssumption
<1>2. ASSUME NEW i, NEW e, i \in Ids, e \in Entry, HomeInsert(i, e) \/ HomeChange(i, e)
      PROVE  Grows
  BY <1>1, <1>2 DEF HomeInsert, HomeChange
<1>3. ASSUME NEW i, i \in Ids, HomeRemove(i)
      PROVE  Grows
  BY <1>3 DEF HomeRemove
<1>4. CASE HomeStep
  <2>1. UNCHANGED <<controller, call>> /\ work' = work BY <1>4 DEF HomeStep
  <2>2. Grows BY <1>2, <1>3, <1>4 DEF HomeStep
  <2> QED BY <2>1, <2>2, HomeKeeps
<1>5. ASSUME NEW t \in work, CarryOut(t)
      PROVE  CacheInv'
  <2>1. UNCHANGED <<controller, call>> /\ work' \subseteq work BY <1>5 DEF CarryOut
  <2>2. (t.op = "insert" => t.label \in Labels) /\ (t.op = "remove" => t.id \in Ids)
    BY DEF CacheInv, WorkFits
  <2>3. t.op = "insert" => [kind |-> "device", label |-> t.label] \in Entry
    BY <2>2 DEF Entry, Kinds
  <2>4. log' = log \/ Grows BY <1>2, <1>3, <1>5, <2>2, <2>3 DEF CarryOut
  <2> QED BY <2>1, <2>4, HomeKeeps
<1> QED BY <1>4, <1>5

-----------------------------------------------------------------------------
(* The controller.                                                          *)

\* Phases that change nothing but the phase; the subscription is one of its own.
LEMMA PhaseKeeps ==
  ASSUME CacheInv, Returned \/ CreateRaises \/ Subscribed \/ SubscribeFails \/ Close
  PROVE  CacheInv'
<1>1. /\ UNCHANGED <<log, work, listed, cache, base, cursor, call>>
      /\ Following' => Following
  BY DEF Returned, CreateRaises, Subscribed, SubscribeFails, Close, Following
<1>2. PlaceFits'
  BY <1>1 DEF CacheInv, PlaceFits, Returned, CreateRaises, Subscribed, SubscribeFails, Close,
              Following
<1>3. FollowedFits'
  <2>1. \A i \in Ids : (Followed(i)' <=> Followed(i)) /\ (OneKind(i)' <=> OneKind(i))
    BY <1>1 DEF Followed, OneKind, KindsOf
  <2> QED BY <1>1, <2>1 DEF CacheInv, FollowedFits
<1> QED BY <1>1, <1>2, <1>3 DEF CacheInv, Typed, JournalIsTold, EntriesAreTold, WorkFits,
           EntriesWereListed, Seen, FoundWasListed

LEMMA CollectKeeps ==
  ASSUME CacheInv, Collect
  PROVE  CacheInv'
<1>1. /\ pc = "collecting" /\ pc' = "building" /\ listed' = Len(log)
      /\ UNCHANGED <<log, work, base, cursor, call>>
  BY DEF Collect
<1>2. cache' = Sorted(log[Len(log)].devs) BY DEF Collect, Sorted, now
<1>3. Len(log) \in Nat /\ Len(log) >= 1 BY DEF CacheInv, Typed
<1>4. log[Len(log)] \in LogEntry BY <1>3 DEF CacheInv, Typed
<1>5. log[Len(log)].devs \in Devs BY <1>4 DEF LogEntry
<1>6. listed = 0 /\ base = 0 /\ cursor = 0 /\ \A c \in Calls : call[c].st = "idle"
  BY <1>1 DEF CacheInv, PlaceFits
<1>7. Typed' BY <1>1, <1>2, <1>3, <1>5, SortedFits DEF CacheInv, Typed
<1>8. PlaceFits'
  <2>1. ~Following' /\ base' = 0 /\ listed' # 0 /\ pc' # "collecting"
    BY <1>1, <1>3, <1>6 DEF Following
  <2> QED BY <1>1, <1>2, <1>6, <2>1 DEF PlaceFits
<1>9. EntriesWereListed'
  <2> SUFFICES ASSUME NEW k \in Kinds, NEW i \in Ids, cache'[k][i] # None
               PROVE  /\ cache'[k][i].kind = k
                      /\ \E m \in 1..Len(log) : Seen(m)' /\ log[m].devs[i] = cache'[k][i]
    BY <1>1 DEF EntriesWereListed
  <2>1. cache'[k][i] = log[Len(log)].devs[i] /\ cache'[k][i].kind = k
    BY <1>2, <1>5, SortedFits
  <2>2. Len(log) \in 1..Len(log) /\ Len(log) = listed' BY <1>1, <1>3
  <2> QED BY <2>1, <2>2 DEF Seen
<1>10. FollowedFits' BY <1>1 DEF FollowedFits, Following
<1>11. FoundWasListed' BY <1>1, <1>6 DEF FoundWasListed
<1>12. JournalIsTold' /\ EntriesAreTold' /\ WorkFits'
  BY <1>1 DEF CacheInv, JournalIsTold, EntriesAreTold, WorkFits
<1> QED BY <1>7, <1>8, <1>9, <1>10, <1>11, <1>12 DEF CacheInv

\* What was fetched is exact for the devices that nothing changed since.
LEMMA SubscribeKeeps ==
  ASSUME CacheInv, Subscribe
  PROVE  CacheInv'
<1>1. /\ pc = "ready" /\ pc' = "subscribing" /\ base' = Len(log) /\ cursor' = Len(log)
      /\ UNCHANGED <<log, work, listed, cache, call>>
  BY DEF Subscribe
<1>2. Len(log) \in Nat /\ Len(log) >= 1 /\ listed \in 0..Len(log) BY DEF CacheInv, Typed
<1>3. base = 0 /\ cursor = 0 /\ listed # 0 /\ cache = Sorted(log[listed].devs)
  BY <1>1 DEF CacheInv, PlaceFits
<1>4. listed \in 1..Len(log) BY <1>2, <1>3
<1>5. log[listed].devs \in Devs
  <2>1. log[listed] \in LogEntry BY <1>4 DEF CacheInv, Typed
  <2> QED BY <2>1 DEF LogEntry
<1>6. Typed' BY <1>1, <1>2 DEF CacheInv, Typed
<1>7. PlaceFits' BY <1>1, <1>2, <1>3 DEF CacheInv, PlaceFits
<1>8. \A m \in 1..Len(log) : Seen(m) => m = listed BY <1>2, <1>3 DEF Seen
<1>9. EntriesWereListed'
  BY <1>1, <1>8 DEF CacheInv, EntriesWereListed, Seen
<1>10. FoundWasListed'
  <2> SUFFICES ASSUME NEW c \in Calls, call[c].kind \in {"wait", "create_proxy"},
                      call[c].st = "ok"
               PROVE  \E k \in 1..Len(log), i \in Ids :
                        /\ log[k].devs[i] # None /\ log[k].devs[i].label = call[c].label
                        /\ k = listed \/ (base' < k /\ k <= cursor')
    BY <1>1 DEF FoundWasListed
  <2>1. PICK k \in 1..Len(log), i \in Ids :
          /\ log[k].devs[i] # None /\ log[k].devs[i].label = call[c].label
          /\ k = listed \/ (base < k /\ k <= cursor)
    BY DEF CacheInv, FoundWasListed
  <2>2. k = listed BY <2>1, <1>3
  <2> QED BY <2>1, <2>2
<1>11. FollowedFits'
  <2> SUFFICES ASSUME NEW i \in Ids, Followed(i)'
               PROVE  LET e == log[Len(log)].devs[i]
                      IN  /\ e # None => cache[e.kind][i] = e
                          /\ e = None => \A k \in Kinds : cache[k][i] = None
    BY <1>1 DEF FollowedFits
  <2>1. \A k \in (listed + 1)..Len(log) : log[k].id # i BY <1>1, <1>2 DEF Followed
  <2>2. log[listed].devs[i] = log[Len(log)].devs[i]
    <3>1. Len(log) \in 1..Len(log) /\ listed <= Len(log) BY <1>2, <1>4
    <3>2. JournalIsTold BY DEF CacheInv
    <3> QED BY <1>4, <2>1, <3>1, <3>2 DEF JournalIsTold
  <2>3. log[listed].devs[i] # None => log[listed].devs[i].kind \in Kinds
    BY <1>5 DEF Devs, Entry
  <2> QED BY <1>3, <1>5, <2>2, <2>3, SortedFits
<1>12. JournalIsTold' /\ EntriesAreTold' /\ WorkFits'
  BY <1>1 DEF CacheInv, JournalIsTold, EntriesAreTold, WorkFits
<1> QED BY <1>6, <1>7, <1>9, <1>10, <1>11, <1>12 DEF CacheInv

\* An update changes the entries of its device only: one of them, by an add to
\* what HOME tells of it and by a removal to none.
LEMMA DeliverKeeps ==
  ASSUME CacheInv, Deliver
  PROVE  CacheInv'
<1> DEFINE u == log[cursor + 1]
           d == log[cursor + 1].id
<1>1. /\ Following /\ Following' /\ cursor < Len(log) /\ cursor' = cursor + 1
      /\ cache' = IF u.op = "remove" THEN Remove(cache, d) ELSE Add(cache, d, u.devs[d])
      /\ UNCHANGED <<log, work, pc, listed, base, call>>
  BY DEF Deliver, Following
<1>2. /\ Len(log) \in Nat /\ cursor \in Nat /\ base \in Nat /\ listed \in Nat
      /\ 1 <= listed /\ listed <= base /\ base <= cursor
  BY <1>1 DEF CacheInv, Typed, PlaceFits
<1>3. cursor + 1 \in 2..Len(log) /\ cursor + 1 \in 1..Len(log) /\ cursor \in 1..Len(log)
  BY <1>1, <1>2
<1>4. u \in LogEntry BY <1>3 DEF CacheInv, Typed
<1>5. d \in Ids /\ (u.op = "remove" <=> u.devs[d] = None)
  BY <1>3 DEF CacheInv, EntriesAreTold
<1>6. u.devs[d] # None => u.devs[d] \in Entry /\ u.devs[d].kind \in Kinds
  BY <1>4, <1>5 DEF LogEntry, Devs, Entry
<1>7. cache \in Caches BY DEF CacheInv, Typed
<1> HIDE DEF d, u
<1>8. \E f \in Kinds :
        /\ cache' \in Caches
        /\ \A k \in Kinds, j \in Ids : (k # f \/ j # d) => cache'[k][j] = cache[k][j]
        /\ u.devs[d] # None => f = u.devs[d].kind /\ cache'[f][d] = u.devs[d]
        /\ u.devs[d] = None => /\ cache'[f][d] = None
                               /\ (\E k \in Kinds : cache[k][d] # None) => cache[f][d] # None
  <2>1. CASE u.op = "remove"
    <3>1. cache' = Remove(cache, d) BY <1>1, <2>1
    <3> QED BY <1>5, <1>7, <2>1, <3>1, RemoveDrops
  <2>2. CASE u.op # "remove"
    <3>1. cache' = Add(cache, d, u.devs[d]) BY <1>1, <2>2
    <3> QED BY <1>5, <1>6, <1>7, <2>2, <3>1, AddStores
  <2> QED BY <2>1, <2>2
<1>9. PICK f \in Kinds :
        /\ cache' \in Caches
        /\ \A k \in Kinds, j \in Ids : (k # f \/ j # d) => cache'[k][j] = cache[k][j]
        /\ u.devs[d] # None => f = u.devs[d].kind /\ cache'[f][d] = u.devs[d]
        /\ u.devs[d] = None => /\ cache'[f][d] = None
                               /\ (\E k \in Kinds : cache[k][d] # None) => cache[f][d] # None
  BY <1>8
<1>10. Typed' BY <1>1, <1>2, <1>3, <1>9 DEF CacheInv, Typed
<1>11. PlaceFits' BY <1>1, <1>2 DEF CacheInv, PlaceFits
<1>12. \A m \in 1..Len(log) : Seen(m) => Seen(m)' BY <1>1, <1>2 DEF Seen
<1>13. base' < cursor + 1 /\ cursor + 1 <= cursor' BY <1>1, <1>2
<1>14. EntriesWereListed'
  <2> SUFFICES ASSUME NEW k \in Kinds, NEW i \in Ids, cache'[k][i] # None
               PROVE  /\ cache'[k][i].kind = k
                      /\ \E m \in 1..Len(log) : Seen(m)' /\ log[m].devs[i] = cache'[k][i]
    BY <1>1 DEF EntriesWereListed
  <2>1. CASE k # f \/ i # d
    <3>1. cache'[k][i] = cache[k][i] BY <1>9, <2>1
    <3> QED BY <1>12, <3>1 DEF CacheInv, EntriesWereListed
  <2>2. CASE k = f /\ i = d
    <3>1. u.devs[d] # None BY <1>9, <2>2
    <3>2. cache'[k][i] = log[cursor + 1].devs[i] /\ cache'[k][i].kind = k
      BY <1>9, <2>2, <3>1 DEF u
    <3> QED BY <1>3, <1>13, <3>2 DEF Seen
  <2> QED BY <2>1, <2>2
<1>15. FollowedFits'
  <2> SUFFICES ASSUME NEW i \in Ids, Followed(i)'
               PROVE  LET e == u.devs[i]
                      IN  /\ e # None => cache'[e.kind][i] = e
                          /\ (e = None /\ OneKind(i)') => \A k \in Kinds : cache'[k][i] = None
    BY <1>1 DEF FollowedFits, u
  <2>1. KindsOf(i) \subseteq KindsOf(i)' BY <1>1, <1>2 DEF KindsOf
  <2>2. OneKind(i)' => OneKind(i) BY <2>1 DEF OneKind
  <2>3. CASE i = d
    <3>1. u.devs[d] = None /\ OneKind(i) => \A k \in Kinds : cache'[k][i] = None
      <4> SUFFICES ASSUME u.devs[d] = None, OneKind(i), NEW k \in Kinds, cache'[k][i] # None
                   PROVE  FALSE
        OBVIOUS
      <4>1. k # f /\ cache[k][i] # None /\ cache[f][i] # None BY <1>9, <2>3
      <4>2. \A g \in Kinds : cache[g][i] # None => g \in KindsOf(i)
        <5> SUFFICES ASSUME NEW g \in Kinds, cache[g][i] # None
                     PROVE  g \in KindsOf(i)
          OBVIOUS
        <5>1. PICK m \in 1..Len(log) : Seen(m) /\ log[m].devs[i] = cache[g][i]
          BY DEF CacheInv, EntriesWereListed
        <5>2. cache[g][i].kind = g BY DEF CacheInv, EntriesWereListed
        <5>3. m \in listed..cursor /\ m > 0 BY <1>2, <5>1 DEF Seen
        <5> QED BY <5>1, <5>2, <5>3 DEF KindsOf
      <4> QED BY <4>1, <4>2 DEF OneKind
    <3> QED BY <1>9, <2>2, <2>3, <3>1
  <2>4. CASE i # d
    <3>1. \A k \in Kinds : cache'[k][i] = cache[k][i] BY <1>9, <2>4
    <3>2. Followed(i) BY <1>1, <1>2, <2>4 DEF Followed, d
    <3>3. log[cursor].devs[i] = u.devs[i]
      <4>1. \A m \in (cursor + 1)..(cursor + 1) : log[m].id # i
        <5>1. \A m \in (cursor + 1)..(cursor + 1) : m = cursor + 1 BY <1>2
        <5> QED BY <2>4, <5>1 DEF d
      <4>2. JournalIsTold /\ cursor <= cursor + 1 BY <1>2 DEF CacheInv
      <4> QED BY <1>3, <4>1, <4>2 DEF JournalIsTold, u
    <3>4. /\ u.devs[i] # None => u.devs[i].kind \in Kinds
      BY <1>4 DEF LogEntry, Devs, Entry
    <3>5. LET e == u.devs[i]
          IN  /\ e # None => cache[e.kind][i] = e
              /\ (e = None /\ OneKind(i)) => \A k \in Kinds : cache[k][i] = None
      BY <1>1, <3>2, <3>3 DEF CacheInv, FollowedFits
    <3> QED BY <2>2, <3>1, <3>4, <3>5
  <2> QED BY <2>3, <2>4
<1>16. FoundWasListed'
  <2>1. \A k \in 1..Len(log) : (base < k /\ k <= cursor) => (base' < k /\ k <= cursor')
    BY <1>1, <1>2
  <2> QED BY <1>1, <2>1 DEF CacheInv, FoundWasListed
<1>17. JournalIsTold' /\ EntriesAreTold' /\ WorkFits'
  BY <1>1 DEF CacheInv, JournalIsTold, EntriesAreTold, WorkFits
<1> QED BY <1>10, <1>11, <1>14, <1>15, <1>16, <1>17 DEF CacheInv

-----------------------------------------------------------------------------
(* The calls: they look at the cache and change nothing but themselves.     *)

LEMMA CallsKeep ==
  ASSUME CacheInv, NEW c \in Calls, AskStep(c) \/ CallStep(c)
  PROVE  CacheInv'
<1>1. UNCHANGED <<log, pc, listed, cache, base, cursor>> /\ (Following' <=> Following)
  BY DEF Following, AskStep, WaitFor, CreateProxy, RemoveProxy, WaitGone, Purge, CreateModel, Ask, CallStep,
         Accepted, Refused, PollFound, PollGone, LastPoll, controller
<1>2. call \in [Calls -> Call] BY DEF CacheInv, Typed
<1>3. JournalIsTold' /\ EntriesAreTold' /\ EntriesWereListed' /\ FollowedFits'
  <2>1. JournalIsTold /\ EntriesAreTold /\ EntriesWereListed /\ FollowedFits
    BY DEF CacheInv
  <2>2. JournalIsTold'
    <3>1. JournalIsTold /\ log' = log BY <1>1, <2>1
    <3> QED BY <3>1 DEF JournalIsTold
  <2>3. EntriesAreTold' BY <1>1, <2>1 DEF EntriesAreTold
  <2>4. EntriesWereListed' BY <1>1, <2>1 DEF EntriesWereListed, Seen
  <2>5. FollowedFits'
    <3>1. \A i \in Ids : Followed(i)' <=> Followed(i) BY <1>1 DEF Followed
    <3>2. \A i \in Ids : OneKind(i)' <=> OneKind(i) BY <1>1 DEF OneKind, KindsOf
    <3> QED BY <1>1, <2>1, <3>1, <3>2 DEF FollowedFits
  <2> QED BY <2>2, <2>3, <2>4, <2>5
<1>4. CASE AskStep(c)
  <2>1. Usable /\ call[c].st = "idle" /\ work' = work
    BY <1>4 DEF AskStep, WaitFor, CreateProxy, RemoveProxy, WaitGone, Purge, CreateModel, Ask
  <2>2. \E x \in Call :
          /\ call' = [call EXCEPT ![c] = x]
          /\ x.kind \in {"wait", "create_proxy"} => x.st # "ok"
          /\ x.st = "asked" => \/ x.kind = "create_proxy" /\ x.label \in Labels
                               \/ x.kind \in {"remove_proxies", "purge"} /\ x.id \in Ids
    <3>1. ASSUME NEW l \in Labels, WaitFor(c, l) \/ CreateProxy(c, l)
          PROVE  \E x \in Call :
                   /\ call' = [call EXCEPT ![c] = x]
                   /\ x.kind \in {"wait", "create_proxy"} => x.st # "ok"
                   /\ x.st = "asked" => x.kind = "create_proxy" /\ x.label \in Labels
      <4> DEFINE W == [kind |-> "wait", st |-> "waiting", id |-> None, label |-> l]
                 P == [kind |-> "create_proxy", st |-> "asked", id |-> None, label |-> l]
      <4>1. W \in Call /\ P \in Call BY DEF Call
      <4>2. \/ call' = [call EXCEPT ![c] = W]
            \/ call' = [call EXCEPT ![c] = P]
        BY <3>1 DEF WaitFor, CreateProxy, Ask
      <4> QED BY <4>1, <4>2
    <3>2. ASSUME NEW i \in Ids,
                 RemoveProxy(c, i) \/ WaitGone(c, i) \/ Purge(c, i) \/ CreateModel(c, i)
          PROVE  \E x \in Call :
                   /\ call' = [call EXCEPT ![c] = x]
                   /\ x.kind \notin {"wait", "create_proxy"}
                   /\ x.st = "asked" => x.kind \in {"remove_proxies", "purge"} /\ x.id \in Ids
      BY <3>2 DEF RemoveProxy, WaitGone, Purge, CreateModel, Ask, Call
    <3> QED BY <1>4, <3>1, <3>2 DEF AskStep
  <2>3. PICK x \in Call :
          /\ call' = [call EXCEPT ![c] = x]
          /\ x.kind \in {"wait", "create_proxy"} => x.st # "ok"
          /\ x.st = "asked" => \/ x.kind = "create_proxy" /\ x.label \in Labels
                               \/ x.kind \in {"remove_proxies", "purge"} /\ x.id \in Ids
    BY <2>2
  <2>4. /\ call' \in [Calls -> Call] /\ call'[c] = x
        /\ \A d \in Calls : d # c => call'[d] = call[d]
    BY <1>2, <2>3
  <2>5. listed # 0 BY <2>1 DEF Usable, Following, CacheInv, PlaceFits
  <2>6. WorkFits' BY <2>1, <2>3, <2>4 DEF CacheInv, WorkFits
  <2>7. PlaceFits' BY <1>1, <2>5 DEF CacheInv, PlaceFits
  <2>8. FoundWasListed' BY <1>1, <2>3, <2>4 DEF CacheInv, FoundWasListed
  <2>9. Typed' BY <1>1, <2>4 DEF CacheInv, Typed
  <2> QED BY <1>3, <2>6, <2>7, <2>8, <2>9 DEF CacheInv
<1>5. CASE CallStep(c)
  <2>1. /\ call[c].st # "idle"
        /\ \E st \in {"ok", "waiting", "RuntimeError", "TimeoutError"} :
             call' = [call EXCEPT ![c].st = st]
    BY <1>5 DEF CallStep, Accepted, Refused, PollFound, PollGone, LastPoll
  <2>2. PICK st \in {"ok", "waiting", "RuntimeError", "TimeoutError"} :
          call' = [call EXCEPT ![c].st = st]
    BY <2>1
  <2>3. /\ call' \in [Calls -> Call] /\ call'[c].st = st
        /\ call'[c].kind = call[c].kind /\ call'[c].label = call[c].label
        /\ \A d \in Calls : d # c => call'[d] = call[d]
    BY <1>2, <2>2 DEF Call
  <2>4. listed # 0 BY <2>1 DEF CacheInv, PlaceFits
  <2>5. PlaceFits' BY <1>1, <2>4 DEF CacheInv, PlaceFits
  <2>6. WorkFits'
    <3>1. \A t \in work' :
            (t.op = "insert" => t.label \in Labels) /\ (t.op = "remove" => t.id \in Ids)
      <4>1. CASE work' = work BY <4>1 DEF CacheInv, WorkFits
      <4>2. CASE Accepted(c)
        BY <4>2 DEF CacheInv, WorkFits, Accepted
      <4> QED BY <1>5, <4>1, <4>2 DEF CallStep, Refused, PollFound, PollGone, LastPoll
    <3> QED BY <2>3, <3>1 DEF CacheInv, WorkFits
  <2>7. FoundWasListed'
    <3> SUFFICES ASSUME NEW d \in Calls, call'[d].kind \in {"wait", "create_proxy"},
                        call'[d].st = "ok"
                 PROVE  \E k \in 1..Len(log), i \in Ids :
                          /\ log[k].devs[i] # None /\ log[k].devs[i].label = call'[d].label
                          /\ k = listed \/ (base < k /\ k <= cursor)
      BY <1>1 DEF FoundWasListed
    <3>1. CASE d # c BY <2>3, <3>1 DEF CacheInv, FoundWasListed
    <3>2. CASE d = c
      <4>1. call[c].label \in CachedLabels
        <5>1. call[c].kind \in {"wait", "create_proxy"} /\ call'[c].st = "ok" /\ call[c] \in Call
          BY <1>2, <2>3, <3>2
        <5>2. ~Refused(c) /\ ~LastPoll(c)
          BY <1>2, <5>1 DEF Refused, LastPoll, Call
        <5>3. ~PollGone(c) BY <5>1 DEF PollGone, ById
        <5>4. ~Accepted(c) BY <1>2, <5>1 DEF Accepted, Call
        <5>5. PollFound(c) BY <1>5, <5>2, <5>3, <5>4 DEF CallStep
        <5> QED BY <5>1, <5>5 DEF PollFound, ById
      <4>2. PICK k \in Kinds, i \in Ids :
              cache[k][i] # None /\ cache[k][i].label = call[c].label
        BY <4>1 DEF CachedLabels
      <4>3. PICK m \in 1..Len(log) : Seen(m) /\ log[m].devs[i] = cache[k][i]
        BY <4>2 DEF CacheInv, EntriesWereListed
      <4>4. call'[d].label = call[c].label BY <2>3, <3>2
      <4>5. i \in Ids /\ log[m].devs[i] # None /\ log[m].devs[i].label = call'[d].label
        BY <4>2, <4>3, <4>4
      <4> QED BY <4>3, <4>5 DEF Seen
    <3> QED BY <3>1, <3>2
  <2>8. Typed' BY <1>1, <2>3 DEF CacheInv, Typed
  <2> QED BY <1>3, <2>5, <2>6, <2>7, <2>8 DEF CacheInv
<1> QED BY <1>4, <1>5

-----------------------------------------------------------------------------
LEMMA CacheInvStep == CacheInv /\ [Next]_vars => CacheInv'
<1> SUFFICES ASSUME CacheInv, [Next]_vars PROVE CacheInv'
  OBVIOUS
<1>1. CASE HomeStep \/ \E t \in work : CarryOut(t) BY <1>1, HomeStepKeeps
<1>2. CASE Returned \/ CreateRaises \/ Subscribed \/ SubscribeFails \/ Close
  BY <1>2, PhaseKeeps
<1>3. CASE Collect BY <1>3, CollectKeeps
<1>4. CASE Subscribe BY <1>4, SubscribeKeeps
<1>5. CASE Deliver BY <1>5, DeliverKeeps
<1>6. CASE \E c \in Calls : AskStep(c) \/ CallStep(c) BY <1>6, CallsKeep
<1>7. CASE UNCHANGED vars
  <2>1. UNCHANGED <<controller, call>> /\ work' \subseteq work /\ log' = log
    BY <1>7 DEF vars, controller
  <2> QED BY <2>1, HomeKeeps
<1> QED BY <1>1, <1>2, <1>3, <1>4, <1>5, <1>6, <1>7 DEF Next, CreateStep

LEMMA CacheInvHolds == Spec => []CacheInv
<1> QED BY CacheInvInit, CacheInvStep, PTL DEF Spec

\* A device whose updates were followed and whose kind never changed is listed once,
\* under its kind, exactly as HOME listed it at the update handled last.
THEOREM FollowedHolds == Spec => []FollowedIsExact
<1>1. CacheInv => FollowedIsExact
  <2> SUFFICES ASSUME CacheInv, Following, NEW i \in Ids, Followed(i),
                      Cardinality(KindsOf(i)) <= 1, NEW k \in Kinds
               PROVE  cache[k][i] = LET e == log[cursor].devs[i]
                                    IN  IF e # None /\ e.kind = k THEN e ELSE None
    BY DEF FollowedIsExact
  <2> DEFINE e == log[cursor].devs[i]
  <2>1. OneKind(i) BY OneKindIsCounted DEF CacheInv
  <2>2. /\ e # None => cache[e.kind][i] = e
        /\ e = None => \A j \in Kinds : cache[j][i] = None
    BY <2>1 DEF CacheInv, FollowedFits
  <2>3. listed \in Nat /\ base \in Nat /\ cursor \in Nat /\ 1 <= listed /\ listed <= base /\ base <= cursor
    BY DEF CacheInv, Typed, PlaceFits
  <2>4. CASE e # None /\ e.kind # k
    <3>1. e.kind \in KindsOf(i) BY <2>3, <2>4 DEF KindsOf
    <3>2. cache[k][i] # None => k \in KindsOf(i)
      <4> SUFFICES ASSUME cache[k][i] # None PROVE k \in KindsOf(i)
        OBVIOUS
      <4>1. PICK m \in 1..Len(log) : Seen(m) /\ log[m].devs[i] = cache[k][i]
        BY DEF CacheInv, EntriesWereListed
      <4>2. cache[k][i].kind = k BY DEF CacheInv, EntriesWereListed
      <4>3. m \in listed..cursor /\ m > 0 BY <2>3, <4>1 DEF Seen
      <4> QED BY <4>1, <4>2, <4>3 DEF KindsOf
    <3> QED BY <2>1, <2>4, <3>1, <3>2 DEF OneKind
  <2> QED BY <2>2, <2>4
<1> QED BY <1>1, CacheInvHolds, PTL

\* A device is listed at most under the kinds it has had since the fetch.
THEOREM EntriesHold == Spec => []NoMoreEntriesThanKinds
<1>1. CacheInv => NoMoreEntriesThanKinds
  <2> SUFFICES ASSUME CacheInv, Following, NEW i \in Ids, NEW k \in Kinds, cache[k][i] # None
               PROVE  k \in KindsOf(i)
    BY DEF NoMoreEntriesThanKinds
  <2>1. PICK m \in 1..Len(log) : Seen(m) /\ log[m].devs[i] = cache[k][i]
    BY DEF CacheInv, EntriesWereListed
  <2>2. cache[k][i].kind = k BY DEF CacheInv, EntriesWereListed
  <2>3. m \in listed..cursor /\ m > 0 BY <2>1 DEF CacheInv, Typed, PlaceFits, Seen
  <2> QED BY <2>1, <2>2, <2>3 DEF KindsOf
<1> QED BY <1>1, CacheInvHolds, PTL

\* A wait for a label, or a registration, that returns had a device of that label in
\* HOME's list, at a position the cache has seen.
THEOREM FoundHolds == Spec => []FoundWasListed
<1>1. CacheInv => FoundWasListed BY DEF CacheInv
<1> QED BY <1>1, CacheInvHolds, PTL
=============================================================================
