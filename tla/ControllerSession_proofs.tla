------------------------ MODULE ControllerSession_proofs ---------------------
(***************************************************************************)
(* What a HomeController shows of routes, for any number of addresses,      *)
(* switches, stitches and updates, in three parts.                          *)
(*                                                                         *)
(* Routes: each that is listed is one HOME had at the update handled last,  *)
(* and breaking those that are listed frees their receivers.  An update     *)
(* tells of every address it changes, so that an address no update names is *)
(* the same at two moments (JournalIsTold).  A call made in a settled       *)
(* system stays in step with HOME: the dictionary is HOME's state at the    *)
(* update handled last, for all addresses, and a receiver to be freed is    *)
(* free or its request still waits (QuietFits).                             *)
(*                                                                         *)
(* Paths (PathInv) and the list of stitches (ListInv) follow, each with     *)
(* its argument; the last theorem is about the session of all three.        *)
(***************************************************************************)
EXTENDS ControllerSession, FiniteSetTheorems, WellFoundedInduction, TLAPS

Tables == [Addrs -> Peers]
Entry == [ids: SUBSET Addrs, tab: Tables]
Request == [op: {"create", "disconnect"}, pair: Pairs]

JournalIsTold ==
  \A a \in Addrs : \A j, k \in 1..Len(log) :
    (j <= k /\ \A m \in (j + 1)..k : a \notin log[m].ids) => log[j].tab[a] = log[k].tab[a]

PlaceFits ==
  /\ pc \in {"building", "ready"} => fetched >= 1 /\ addrs = log[fetched].tab
  /\ pc = "online" => 1 <= fetched /\ fetched <= base /\ base <= cursor

FollowedFits ==
  pc = "online" => \A a \in Addrs : Followed(a) => addrs[a] = log[cursor].tab[a]

Asked(r) == [op |-> call.kind, pair |-> r]

QuietFits ==
  call.quiet =>
    /\ pc = "online" /\ addrs = log[cursor].tab
    /\ \A t \in work : t.op = call.kind
    /\ call.kind = "disconnect" =>
         \A r \in call.routes :
           /\ now[r[2]] # Gone
           /\ call.st = "returned" => Asked(r) \in work \/ now[r[2]] = {}

AskedFits == call.st = "asked" => call.kind # "none"

RoutesInv ==
  RoutesTypeOK /\ JournalIsTold /\ PlaceFits /\ FollowedFits /\ QuietFits /\ AskedFits

-----------------------------------------------------------------------------
LEMMA TypeMeans ==
  ASSUME RoutesTypeOK
  PROVE  /\ log \in Seq(Entry) /\ Len(log) \in Nat /\ 1 <= Len(log) /\ Len(log) <= MaxLog
         /\ MaxLog \in Nat /\ now \in Tables
         /\ \A k \in 1..Len(log) : log[k] \in Entry /\ log[k].tab \in Tables
         /\ fetched \in Nat /\ fetched <= Len(log) /\ base \in Nat /\ base <= Len(log)
         /\ cursor \in Nat /\ cursor <= Len(log)
<1>1. log \in Seq(Entry) /\ Len(log) \in 1..MaxLog BY DEF RoutesTypeOK, Entry, Tables
<1>2. MaxLog \in Nat BY RoutesAssumption
<1>3. \A k \in 1..Len(log) : log[k] \in Entry BY <1>1
<1>4. \A k \in 1..Len(log) : log[k].tab \in Tables BY <1>3 DEF Entry
<1>5. now \in Tables
  <2>1. Len(log) \in 1..Len(log) BY <1>1, <1>2
  <2> QED BY <1>4, <2>1 DEF now
<1> QED BY <1>1, <1>2, <1>3, <1>4, <1>5 DEF RoutesTypeOK

LEMMA PairsAreTwo == \A r \in Pairs : r[1] \in Sources /\ r[2] \in Destinations /\ r = <<r[1], r[2]>>
<1> QED BY DEF Pairs

LEMMA RoutesInvInit == routesInit => RoutesInv
<1> SUFFICES ASSUME NEW t \in Tables, log = <<[ids |-> {}, tab |-> t]>>, work = {}, pc = "new",
                    fetched = 0, base = 0, cursor = 0, addrs = [a \in Addrs |-> Gone],
                    call = Idle
             PROVE  RoutesInv
  BY DEF routesInit, Tables
<1>1. [ids |-> {}, tab |-> t] \in Entry BY DEF Entry
<1>2. log \in Seq(Entry) /\ Len(log) = 1 BY <1>1
<1>3. addrs \in Tables BY DEF Tables, Peers
<1>4. call \in Call BY DEF Call, Idle
<1>5. RoutesTypeOK
  <2>1. Len(log) \in 1..MaxLog BY <1>2, RoutesAssumption
  <2> QED BY <1>2, <1>3, <1>4, <2>1 DEF RoutesTypeOK, Entry, Tables
<1>6. JournalIsTold BY <1>2 DEF JournalIsTold
<1>7. QuietFits /\ AskedFits BY DEF QuietFits, AskedFits, Idle
<1> QED BY <1>5, <1>6, <1>7 DEF RoutesInv, PlaceFits, FollowedFits

-----------------------------------------------------------------------------
(* HOME.                                                                    *)

LEMMA PublishKeeps ==
  ASSUME RoutesInv, NEW tab \in Tables, Publish(tab), UNCHANGED controller
  PROVE  /\ log' \in Seq(Entry) /\ Len(log') \in 1..MaxLog /\ Len(log') = Len(log) + 1
         /\ now' = tab
         /\ \A k \in 1..Len(log) : log'[k] = log[k]
         /\ JournalIsTold' /\ PlaceFits' /\ FollowedFits'
<1> DEFINE e == [ids |-> {a \in Addrs : tab[a] # now[a]}, tab |-> tab]
<1>1. log' = Append(log, e) /\ Len(log) < MaxLog BY DEF Publish
<1>2. RoutesTypeOK BY DEF RoutesInv
<1>3. /\ log \in Seq(Entry) /\ Len(log) \in Nat /\ 1 <= Len(log) /\ MaxLog \in Nat
      /\ fetched \in Nat /\ fetched <= Len(log) /\ base \in Nat /\ base <= Len(log)
      /\ cursor \in Nat /\ cursor <= Len(log)
  BY <1>2, TypeMeans
<1>4. e \in Entry BY DEF Entry
<1> HIDE DEF e
<1>5. /\ log' \in Seq(Entry) /\ Len(log') = Len(log) + 1 /\ log'[Len(log) + 1] = e
      /\ \A k \in 1..Len(log) : log'[k] = log[k]
  BY <1>1, <1>3, <1>4
<1>6. Len(log') \in 1..MaxLog BY <1>1, <1>3, <1>5
<1>7. now' = tab BY <1>5 DEF now, e
<1>8. JournalIsTold'
  <2> SUFFICES ASSUME NEW a \in Addrs, NEW j \in 1..(Len(log) + 1), NEW k \in 1..(Len(log) + 1),
                      j <= k, \A m \in (j + 1)..k : a \notin log'[m].ids
               PROVE  log'[j].tab[a] = log'[k].tab[a]
    BY <1>5 DEF JournalIsTold
  <2>1. JournalIsTold BY DEF RoutesInv
  <2>2. CASE k <= Len(log)
    <3>1. j \in 1..Len(log) /\ k \in 1..Len(log) BY <1>3, <2>2
    <3>2. \A m \in (j + 1)..k : a \notin log[m].ids BY <1>3, <1>5, <3>1
    <3> QED BY <1>5, <2>1, <3>1, <3>2 DEF JournalIsTold
  <2>3. CASE k = Len(log) + 1 /\ j = k BY <2>3
  <2>4. CASE k = Len(log) + 1 /\ j < k
    <3>1. j \in 1..Len(log) /\ Len(log) \in 1..Len(log) /\ j <= Len(log) BY <1>3, <2>4
    <3>2. \A m \in (j + 1)..Len(log) : a \notin log[m].ids BY <1>3, <1>5, <2>4, <3>1
    <3>3. log[j].tab[a] = log[Len(log)].tab[a] BY <2>1, <3>1, <3>2 DEF JournalIsTold
    <3>4. k \in (j + 1)..k BY <1>3, <2>4, <3>1
    <3>5. a \notin e.ids BY <1>5, <2>4, <3>4
    <3>6. tab[a] = now[a] BY <3>5 DEF e
    <3>7. e.tab[a] = log[Len(log)].tab[a] BY <3>6 DEF e, now
    <3> QED BY <1>5, <2>4, <3>1, <3>3, <3>7
  <2> QED BY <1>3, <2>2, <2>3, <2>4
<1>9. UNCHANGED <<pc, fetched, addrs, base, cursor>> BY DEF controller
<1>10. PlaceFits' BY <1>3, <1>5, <1>9 DEF RoutesInv, PlaceFits
<1>11. FollowedFits'
  <2> SUFFICES ASSUME pc = "online", NEW a \in Addrs, Followed(a)'
               PROVE  addrs[a] = log'[cursor].tab[a]
    BY <1>9 DEF FollowedFits
  <2>1. 1 <= fetched /\ fetched <= base /\ base <= cursor BY DEF RoutesInv, PlaceFits
  <2>2. \A k \in (fetched + 1)..cursor : log'[k] = log[k] BY <1>3, <1>5, <2>1
  <2>3. Followed(a)
    <3>1. \A k \in (fetched + 1)..base : Touched(a, k)' <=> Touched(a, k)
      BY <1>3, <2>1, <2>2 DEF Touched
    <3>2. \A k \in (base + 1)..cursor : Touched(a, k)' <=> Touched(a, k)
      BY <1>3, <2>1, <2>2 DEF Touched
    <3> QED BY <1>9, <3>1, <3>2 DEF Followed
  <2>4. log'[cursor] = log[cursor] BY <1>3, <1>5, <2>1
  <2> QED BY <2>3, <2>4 DEF RoutesInv, FollowedFits
<1> QED BY <1>5, <1>6, <1>7, <1>8, <1>10, <1>11

LEMMA HomeOtherKeeps ==
  ASSUME RoutesInv, HomeOther
  PROVE  RoutesInv'
<1>1. RoutesTypeOK BY DEF RoutesInv
<1>2. now \in Tables BY <1>1, TypeMeans
<1>3. PICK tab \in Tables : Publish(tab)
  <2>1. CASE \E s \in Sources, p \in (SUBSET Destinations) \cup {Gone} : Publish([now EXCEPT ![s] = p])
    <3>1. PICK s \in Sources, p \in (SUBSET Destinations) \cup {Gone} : Publish([now EXCEPT ![s] = p])
      BY <2>1
    <3>2. p \in Peers BY DEF Peers, Addrs
    <3>3. [now EXCEPT ![s] = p] \in Tables BY <1>2, <3>2 DEF Tables
    <3> QED BY <3>1, <3>3
  <2>2. CASE \E d \in Destinations, p \in {{x} : x \in Sources} \cup {{}, Gone} :
               Publish([now EXCEPT ![d] = p])
    <3>1. PICK d \in Destinations, p \in {{x} : x \in Sources} \cup {{}, Gone} :
            Publish([now EXCEPT ![d] = p])
      BY <2>2
    <3>2. p \in Peers BY DEF Peers, Addrs
    <3>3. [now EXCEPT ![d] = p] \in Tables BY <1>2, <3>2 DEF Tables
    <3> QED BY <3>1, <3>3
  <2> QED BY <2>1, <2>2 DEF HomeOther
<1>4. call' = [call EXCEPT !.quiet = FALSE] /\ UNCHANGED <<work, controller>> BY DEF HomeOther
<1>5. call' \in Call /\ call'.quiet = FALSE BY <1>1, <1>4 DEF RoutesTypeOK, Call
<1>6. /\ log' \in Seq(Entry) /\ Len(log') \in 1..MaxLog /\ Len(log') = Len(log) + 1
      /\ JournalIsTold' /\ PlaceFits' /\ FollowedFits'
  BY <1>3, <1>4, PublishKeeps
<1>7. RoutesTypeOK'
  <2>1. Len(log) \in Nat BY <1>1, TypeMeans
  <2> QED BY <1>1, <1>4, <1>5, <1>6, <2>1 DEF RoutesTypeOK, controller, Entry, Tables
<1>8. QuietFits' BY <1>5 DEF QuietFits
<1>9. AskedFits'
  <2>1. call'.st = call.st /\ call'.kind = call.kind BY <1>1, <1>4 DEF RoutesTypeOK, Call
  <2> QED BY <2>1 DEF RoutesInv, AskedFits
<1> QED BY <1>6, <1>7, <1>8, <1>9 DEF RoutesInv

\* What HOME makes of its table when it carries out a request.
LEMMA CarriedOutIsTable ==
  ASSUME RoutesTypeOK, NEW s \in Sources, NEW d \in Destinations
  PROVE  /\ Cleared(now, d) \in Tables /\ Cleared(now, d)[d] = {}
         /\ now[s] # Gone => Routed(now, s, d) \in Tables
         /\ \A a \in Addrs : now[a] # Gone => Cleared(now, d)[a] # Gone
         /\ \A a \in Addrs : now[a] = {} => Cleared(now, d)[a] = {}
<1>1. now \in Tables /\ s \in Addrs /\ d \in Addrs BY TypeMeans DEF Addrs
<1>2. \A a \in Addrs : now[a] = Gone \/ now[a] \in SUBSET Addrs BY <1>1 DEF Tables, Peers
<1>3. \A a, x \in Addrs : Without(now[a], x) \in Peers BY <1>2 DEF Without, Peers
<1>4. Cleared(now, d) \in Tables /\ Cleared(now, d)[d] = {}
  BY <1>1, <1>3 DEF Cleared, Tables, Peers
<1>5. ASSUME now[s] # Gone PROVE Routed(now, s, d) \in Tables
  <2>1. now[s] \cup {d} \in Peers BY <1>1, <1>2, <1>5 DEF Peers
  <2>2. {s} \in Peers BY <1>1 DEF Peers
  <2> QED BY <1>1, <1>3, <2>1, <2>2 DEF Routed, Tables
<1>6. ASSUME NEW a \in Addrs, now[a] # Gone PROVE Cleared(now, d)[a] # Gone
  <2>1. Cleared(now, d)[a] = IF a = d THEN {} ELSE now[a] \ {d} BY <1>6 DEF Cleared, Without
  <2>2. None \notin now[a] BY <1>2, <1>6, RoutesAssumption
  <2> QED BY <2>1, <2>2 DEF Gone
<1>7. ASSUME NEW a \in Addrs, now[a] = {} PROVE Cleared(now, d)[a] = {}
  <2>1. now[a] # Gone BY <1>7 DEF Gone
  <2> QED BY <1>7, <2>1 DEF Cleared, Without
<1> QED BY <1>4, <1>5, <1>6, <1>7

LEMMA CarryOutKeeps ==
  ASSUME RoutesInv, NEW t \in work, CarryOut(t)
  PROVE  RoutesInv'
<1> DEFINE s == t.pair[1]
           d == t.pair[2]
           tab == IF t.op = "create" THEN Routed(now, s, d) ELSE Cleared(now, d)
           skip == now[d] = Gone \/ (t.op = "create" /\ now[s] = Gone) \/ tab = now
<1>1. RoutesTypeOK BY DEF RoutesInv
<1>2. t \in Request BY <1>1 DEF RoutesTypeOK, Request
<1>3. t.pair \in Pairs /\ s \in Sources /\ d \in Destinations /\ t.op \in {"create", "disconnect"}
  <2>1. t.pair \in Pairs /\ t.op \in {"create", "disconnect"} BY <1>2 DEF Request
  <2> QED BY <2>1, PairsAreTwo
<1>4. /\ work' = work \ {t} /\ UNCHANGED <<controller, call>>
      /\ skip => UNCHANGED log
      /\ ~skip => Publish(tab)
  BY DEF CarryOut
<1>5. /\ Cleared(now, d) \in Tables /\ Cleared(now, d)[d] = {}
      /\ now[s] # Gone => Routed(now, s, d) \in Tables
      /\ \A a \in Addrs : now[a] # Gone => Cleared(now, d)[a] # Gone
      /\ \A a \in Addrs : now[a] = {} => Cleared(now, d)[a] = {}
  BY <1>1, <1>3, CarriedOutIsTable
<1>6. ~skip => tab \in Tables BY <1>5
<1>7. UNCHANGED <<pc, fetched, addrs, base, cursor>> BY <1>4 DEF controller
<1>8. /\ log' \in Seq(Entry) /\ Len(log') \in 1..MaxLog /\ Len(log') >= Len(log)
      /\ JournalIsTold' /\ PlaceFits' /\ FollowedFits'
      /\ now' = IF skip THEN now ELSE tab
      /\ \A k \in 1..Len(log) : log'[k] = log[k]
  <2>1. CASE skip
    <3>1. log' = log BY <1>4, <2>1
    <3>2. log \in Seq(Entry) /\ Len(log) \in 1..MaxLog BY <1>1, TypeMeans
    <3>3. JournalIsTold' /\ PlaceFits' BY <1>7, <3>1 DEF RoutesInv, JournalIsTold, PlaceFits
    <3>4. FollowedFits' BY <1>7, <3>1 DEF RoutesInv, FollowedFits, Followed, Touched
    <3> QED BY <2>1, <3>1, <3>2, <3>3, <3>4 DEF now
  <2>2. CASE ~skip
    <3>1. tab \in Tables /\ Publish(tab) BY <1>4, <1>6, <2>2
    <3> HIDE DEF tab
    <3>2. Len(log) \in Nat BY <1>1, TypeMeans
    <3> QED BY <1>4, <2>2, <3>1, <3>2, PublishKeeps
  <2> QED BY <2>1, <2>2
<1>9. RoutesTypeOK'
  <2>1. Len(log) \in Nat /\ fetched \in Nat /\ base \in Nat /\ cursor \in Nat
        /\ fetched <= Len(log) /\ base <= Len(log) /\ cursor <= Len(log)
    BY <1>1, TypeMeans
  <2>2. Len(log') \in Nat BY <1>8, RoutesAssumption
  <2> QED BY <1>1, <1>4, <1>7, <1>8, <2>1, <2>2 DEF RoutesTypeOK, Entry, Tables
<1>10. QuietFits'
  <2> SUFFICES ASSUME call.quiet
               PROVE  /\ pc = "online" /\ addrs = log'[cursor].tab
                      /\ \A u \in work' : u.op = call.kind
                      /\ call.kind = "disconnect" =>
                           \A r \in call.routes :
                             /\ now'[r[2]] # Gone
                             /\ call.st = "returned" => Asked(r) \in work' \/ now'[r[2]] = {}
    BY <1>4, <1>7 DEF QuietFits, Asked
  <2>1. /\ pc = "online" /\ addrs = log[cursor].tab /\ \A u \in work : u.op = call.kind
        /\ call.kind = "disconnect" =>
             \A r \in call.routes :
               /\ now[r[2]] # Gone
               /\ call.st = "returned" => Asked(r) \in work \/ now[r[2]] = {}
    BY DEF RoutesInv, QuietFits
  <2>2. log'[cursor] = log[cursor]
    <3>1. cursor \in 1..Len(log) BY <1>1, <2>1, TypeMeans DEF RoutesInv, PlaceFits
    <3> QED BY <1>8, <3>1
  <2>3. ASSUME call.kind = "disconnect", NEW r \in call.routes
        PROVE  /\ now'[r[2]] # Gone
               /\ call.st = "returned" => Asked(r) \in work' \/ now'[r[2]] = {}
    <3>1. r[2] \in Addrs
      <4>1. call.routes \subseteq Pairs BY <1>1 DEF RoutesTypeOK, Call
      <4> QED BY <4>1, PairsAreTwo DEF Addrs
    <3>2. t.op = "disconnect" BY <2>1, <2>3
    <3>3. now' = now \/ now' = Cleared(now, d) BY <1>8, <3>2
    <3>4. now[r[2]] # Gone BY <2>1, <2>3
    <3>5. now'[r[2]] # Gone BY <1>5, <3>1, <3>3, <3>4
    <3>6. now[r[2]] = {} => now'[r[2]] = {} BY <1>5, <3>1, <3>3
    <3>7. ASSUME Asked(r) = t PROVE now'[r[2]] = {}
      <4>1. t.pair = r BY <3>7 DEF Asked
      <4>2. d = r[2] BY <4>1
      <4>3. CASE skip
        <5>1. Cleared(now, d) = now BY <3>2, <3>4, <4>2, <4>3
        <5> QED BY <1>5, <1>8, <4>2, <4>3, <5>1
      <4>4. CASE ~skip
        <5>1. now' = Cleared(now, d) BY <1>8, <3>2, <4>4
        <5> QED BY <1>5, <4>2, <5>1
      <4> QED BY <4>3, <4>4
    <3> QED BY <1>4, <2>1, <2>3, <3>5, <3>6, <3>7
  <2> QED BY <1>4, <2>1, <2>2, <2>3
<1>11. AskedFits' BY <1>4 DEF RoutesInv, AskedFits
<1> QED BY <1>8, <1>9, <1>10, <1>11 DEF RoutesInv

-----------------------------------------------------------------------------
(* The controller.                                                          *)

LEMMA FetchKeeps ==
  ASSUME RoutesInv, Collect \/ CreateRaises \/ Returned
  PROVE  RoutesInv'
<1>1. RoutesTypeOK BY DEF RoutesInv
<1>2. Len(log) \in Nat /\ 1 <= Len(log) /\ now \in Tables BY <1>1, TypeMeans
<1>3. /\ UNCHANGED <<log, work, base, cursor, call>>
      /\ pc' \in {"building", "raised", "ready"} /\ pc # "online"
  BY DEF Collect, CreateRaises, Returned
<1>4. RoutesTypeOK'
  <2>1. fetched' \in 0..Len(log) /\ addrs' \in Tables
    BY <1>1, <1>2 DEF Collect, CreateRaises, Returned, RoutesTypeOK, Tables
  <2> QED BY <1>1, <1>3, <2>1 DEF RoutesTypeOK, Tables
<1>5. JournalIsTold' BY <1>3 DEF RoutesInv, JournalIsTold
<1>6. PlaceFits'
  <2>1. pc' # "raised" => fetched' >= 1 /\ addrs' = log[fetched'].tab
    BY <1>2 DEF Collect, CreateRaises, Returned, RoutesInv, PlaceFits, now
  <2> QED BY <1>3, <2>1 DEF PlaceFits
<1>7. FollowedFits' BY <1>3 DEF FollowedFits
<1>8. QuietFits' /\ AskedFits' BY <1>3 DEF RoutesInv, QuietFits, AskedFits
<1> QED BY <1>4, <1>5, <1>6, <1>7, <1>8 DEF RoutesInv

\* An address that no update named since the fetch is what the fetch told.
LEMMA SubscribeKeeps ==
  ASSUME RoutesInv, Subscribe
  PROVE  RoutesInv'
<1>1. RoutesTypeOK BY DEF RoutesInv
<1>2. /\ Len(log) \in Nat /\ 1 <= Len(log) /\ fetched \in Nat /\ fetched <= Len(log)
  BY <1>1, TypeMeans
<1>3. /\ pc = "ready" /\ pc' = "online" /\ base' = Len(log) /\ cursor' = Len(log)
      /\ UNCHANGED <<log, work, fetched, addrs, call>>
  BY DEF Subscribe
<1>4. fetched >= 1 /\ addrs = log[fetched].tab BY <1>3 DEF RoutesInv, PlaceFits
<1>5. RoutesTypeOK' BY <1>1, <1>2, <1>3 DEF RoutesTypeOK
<1>6. JournalIsTold' BY <1>3 DEF RoutesInv, JournalIsTold
<1>7. PlaceFits' BY <1>2, <1>3, <1>4 DEF PlaceFits
<1>8. FollowedFits'
  <2> SUFFICES ASSUME NEW a \in Addrs, Followed(a)' PROVE addrs[a] = log[Len(log)].tab[a]
    BY <1>3 DEF FollowedFits
  <2>1. \A k \in (fetched + 1)..Len(log) : a \notin log[k].ids
    BY <1>2, <1>3 DEF Followed, Touched
  <2>2. fetched \in 1..Len(log) /\ Len(log) \in 1..Len(log) BY <1>2, <1>4
  <2>3. log[fetched].tab[a] = log[Len(log)].tab[a]
    BY <1>2, <2>1, <2>2 DEF RoutesInv, JournalIsTold
  <2> QED BY <1>4, <2>3
<1>9. QuietFits' /\ AskedFits' BY <1>3 DEF RoutesInv, QuietFits, AskedFits
<1> QED BY <1>5, <1>6, <1>7, <1>8, <1>9 DEF RoutesInv

LEMMA DeliverKeeps ==
  ASSUME RoutesInv, Deliver
  PROVE  RoutesInv'
<1> DEFINE u == log[cursor + 1]
<1>1. RoutesTypeOK BY DEF RoutesInv
<1>2. /\ pc = "online" /\ cursor < Len(log) /\ cursor' = cursor + 1
      /\ addrs' = [a \in Addrs |-> IF a \in u.ids THEN u.tab[a] ELSE addrs[a]]
      /\ UNCHANGED <<log, work, pc, fetched, base, call>>
  BY DEF Deliver
<1>3. /\ Len(log) \in Nat /\ cursor \in Nat /\ fetched \in Nat /\ base \in Nat
      /\ 1 <= fetched /\ fetched <= base /\ base <= cursor
      /\ \A k \in 1..Len(log) : log[k].tab \in Tables
  BY <1>1, <1>2, TypeMeans DEF RoutesInv, PlaceFits
<1>4. cursor \in 1..Len(log) /\ cursor + 1 \in 1..Len(log) BY <1>2, <1>3
<1>5. addrs \in Tables /\ u.tab \in Tables BY <1>1, <1>3, <1>4 DEF RoutesTypeOK, Tables
<1>6. \A a \in Addrs : a \notin u.ids => log[cursor].tab[a] = u.tab[a]
  <2> SUFFICES ASSUME NEW a \in Addrs, a \notin u.ids PROVE log[cursor].tab[a] = u.tab[a]
    OBVIOUS
  <2>1. \A m \in (cursor + 1)..(cursor + 1) : a \notin log[m].ids BY <1>3
  <2> QED BY <1>3, <1>4, <2>1 DEF RoutesInv, JournalIsTold
<1> HIDE DEF u
<1>7. addrs' \in Tables /\ \A a \in Addrs : addrs'[a] = IF a \in u.ids THEN u.tab[a] ELSE addrs[a]
  BY <1>2, <1>5 DEF Tables
<1>8. RoutesTypeOK' BY <1>1, <1>2, <1>4, <1>7 DEF RoutesTypeOK, Tables
<1>9. JournalIsTold' BY <1>2 DEF RoutesInv, JournalIsTold
<1>10. PlaceFits' BY <1>2, <1>3 DEF PlaceFits
<1>11. FollowedFits'
  <2> SUFFICES ASSUME NEW a \in Addrs, Followed(a)' PROVE addrs'[a] = u.tab[a]
    BY <1>2 DEF FollowedFits, u
  <2>1. CASE a \in u.ids BY <1>7, <2>1
  <2>2. CASE a \notin u.ids
    <3>1. Followed(a)
      <4>1. CASE \A k \in (fetched + 1)..base : ~Touched(a, k) BY <4>1 DEF Followed
      <4>2. CASE \E k \in (base + 1)..(cursor + 1) : Touched(a, k)
        <5>1. PICK k \in (base + 1)..(cursor + 1) : Touched(a, k) BY <4>2
        <5>2. k # cursor + 1 BY <2>2, <5>1 DEF Touched, u
        <5>3. k \in (base + 1)..cursor BY <1>3, <5>2
        <5> QED BY <5>1, <5>3 DEF Followed
      <4> QED BY <1>2, <4>1, <4>2 DEF Followed, Touched
    <3>2. addrs[a] = log[cursor].tab[a] BY <1>2, <3>1 DEF RoutesInv, FollowedFits
    <3> QED BY <1>6, <1>7, <2>2, <3>2
  <2> QED BY <2>1, <2>2
<1>12. QuietFits'
  <2>1. call.quiet => addrs' = u.tab
    <3> SUFFICES ASSUME call.quiet PROVE addrs' = u.tab OBVIOUS
    <3>1. addrs = log[cursor].tab BY DEF RoutesInv, QuietFits
    <3>2. \A a \in Addrs : addrs'[a] = u.tab[a] BY <1>6, <1>7, <3>1
    <3> QED BY <1>5, <1>7, <3>2 DEF Tables
  <2>2. now' = now /\ \A r \in call.routes : Asked(r)' = Asked(r) BY <1>2 DEF now, Asked
  <2> QED BY <1>2, <2>1, <2>2 DEF RoutesInv, QuietFits, u
<1>13. AskedFits' BY <1>2 DEF RoutesInv, AskedFits
<1> QED BY <1>8, <1>9, <1>10, <1>11, <1>12, <1>13 DEF RoutesInv

-----------------------------------------------------------------------------
(* The calls.                                                               *)

LEMMA ListedAreCandidates ==
  ASSUME NEW R \in Listings
  PROVE  R \subseteq Pairs /\ \A r \in R : r \in Candidates
<1> DEFINE S == {r[1] : r \in Candidates}
<1>1. PICK first \in [S -> Destinations] :
        /\ \A x \in S : <<x, first[x]>> \in Candidates
        /\ R = {<<x, first[x]>> : x \in S}
  BY DEF Listings
<1>2. \A r \in R : r \in Candidates BY <1>1
<1>3. Candidates \subseteq Pairs BY DEF Candidates, Active, Pairs
<1> QED BY <1>2, <1>3

LEMMA CallKeeps ==
  ASSUME RoutesInv, Create \/ Disconnect \/ Accepted \/ Refused
  PROVE  RoutesInv'
<1>1. RoutesTypeOK BY DEF RoutesInv
<1>2. UNCHANGED <<log, pc, fetched, addrs, base, cursor>>
  BY DEF Create, Disconnect, Accepted, Refused, controller
<1>3. JournalIsTold' /\ PlaceFits' /\ FollowedFits'
  BY <1>2 DEF RoutesInv, JournalIsTold, PlaceFits, FollowedFits, Followed, Touched
<1>4. now' = now BY <1>2 DEF now
<1>5. Quiet => pc = "online" /\ addrs = log[cursor].tab /\ work = {}
  BY DEF Quiet, now
<1>6. CASE Create
  <2>1. PICK R \in SUBSET Pairs :
          call' = [kind |-> "create", routes |-> R, st |-> "asked", quiet |-> Quiet]
    BY <1>6 DEF Create
  <2>2. work' = work BY <1>6 DEF Create
  <2>3. call' \in Call BY <2>1 DEF Call, Quiet
  <2>4. RoutesTypeOK' BY <1>1, <1>2, <2>2, <2>3 DEF RoutesTypeOK
  <2>5. QuietFits' /\ AskedFits' BY <1>2, <1>5, <2>1, <2>2 DEF QuietFits, AskedFits
  <2> QED BY <1>3, <2>4, <2>5 DEF RoutesInv
<1>7. CASE Disconnect
  <2>1. PICK R \in Listings :
          call' = [kind |-> "disconnect", routes |-> R, st |-> "asked", quiet |-> Quiet]
    BY <1>7 DEF Disconnect
  <2>2. work' = work BY <1>7 DEF Disconnect
  <2>3. R \subseteq Pairs /\ \A r \in R : r \in Candidates BY ListedAreCandidates
  <2>4. call' \in Call BY <2>1, <2>3 DEF Call, Quiet
  <2>5. RoutesTypeOK' BY <1>1, <1>2, <2>2, <2>4 DEF RoutesTypeOK
  <2>6. Quiet => \A r \in R : now[r[2]] # Gone
    BY <2>3 DEF Quiet, Candidates, Active
  <2>7. QuietFits' BY <1>2, <1>4, <1>5, <2>1, <2>2, <2>6 DEF QuietFits
  <2>8. AskedFits' BY <2>1 DEF AskedFits
  <2> QED BY <1>3, <2>5, <2>7, <2>8 DEF RoutesInv
<1>8. CASE Accepted
  <2>1. /\ call.st = "asked" /\ call' = [call EXCEPT !.st = "returned"]
        /\ work' = work \cup {[op |-> call.kind, pair |-> r] : r \in call.routes}
    BY <1>8 DEF Accepted
  <2>2. /\ call' \in Call /\ call'.kind = call.kind /\ call'.routes = call.routes
        /\ call'.quiet = call.quiet /\ call'.st = "returned"
    BY <1>1, <2>1 DEF RoutesTypeOK, Call
  <2>3. call.quiet => \A u \in work' : u.op = call.kind BY <2>1 DEF RoutesInv, QuietFits
  <2>4. \A r \in call.routes : Asked(r)' \in work' BY <2>1, <2>2 DEF Asked
  <2>5. QuietFits' BY <1>2, <1>4, <2>2, <2>3, <2>4 DEF RoutesInv, QuietFits
  <2>6. AskedFits' BY <2>2 DEF AskedFits
  <2>7. call.kind \in {"create", "disconnect"} /\ call.routes \subseteq Pairs
    BY <1>1, <2>1 DEF RoutesInv, AskedFits, RoutesTypeOK, Call
  <2>8. work' \subseteq Request BY <1>1, <2>1, <2>7 DEF RoutesTypeOK, Request
  <2>9. RoutesTypeOK' BY <1>1, <1>2, <2>2, <2>8 DEF RoutesTypeOK, Request
  <2> QED BY <1>3, <2>5, <2>6, <2>9 DEF RoutesInv
<1>9. CASE Refused
  <2>1. /\ work' = work
        /\ call' = [call EXCEPT !.st = IF call.kind = "create" THEN "refused" ELSE "raised"]
    BY <1>9 DEF Refused
  <2>2. /\ call' \in Call /\ call'.kind = call.kind /\ call'.routes = call.routes
        /\ call'.quiet = call.quiet /\ call'.st # "returned"
    BY <1>1, <2>1 DEF RoutesTypeOK, Call
  <2>3. RoutesTypeOK' BY <1>1, <1>2, <2>1, <2>2 DEF RoutesTypeOK
  <2>4. QuietFits' /\ AskedFits' BY <1>2, <1>4, <2>1, <2>2 DEF RoutesInv, QuietFits, AskedFits
  <2> QED BY <1>3, <2>3, <2>4 DEF RoutesInv
<1> QED BY <1>6, <1>7, <1>8, <1>9

-----------------------------------------------------------------------------
LEMMA RoutesInvStep == RoutesInv /\ [routesNext]_routesVars => RoutesInv'
<1> SUFFICES ASSUME RoutesInv, [routesNext]_routesVars PROVE RoutesInv' OBVIOUS
<1>1. CASE HomeOther BY <1>1, HomeOtherKeeps
<1>2. CASE \E t \in work : CarryOut(t) BY <1>2, CarryOutKeeps
<1>3. CASE ControllerStep
  <2>1. CASE Collect \/ CreateRaises \/ Returned BY <2>1, FetchKeeps
  <2>2. CASE Subscribe BY <2>2, SubscribeKeeps
  <2>3. CASE Deliver BY <2>3, DeliverKeeps
  <2> QED BY <1>3, <2>1, <2>2, <2>3 DEF ControllerStep
<1>4. CASE Create \/ Disconnect \/ Accepted \/ Refused BY <1>4, CallKeeps
<1>5. CASE UNCHANGED routesVars
  <2>1. UNCHANGED <<log, work, pc, fetched, addrs, base, cursor, call>> BY <1>5 DEF routesVars
  <2>2. RoutesTypeOK' /\ JournalIsTold' /\ PlaceFits'
    BY <2>1 DEF RoutesInv, RoutesTypeOK, JournalIsTold, PlaceFits
  <2>3. FollowedFits' BY <2>1 DEF RoutesInv, FollowedFits, Followed, Touched
  <2>4. QuietFits' /\ AskedFits' BY <2>1 DEF RoutesInv, QuietFits, AskedFits, Asked, now
  <2> QED BY <2>2, <2>3, <2>4 DEF RoutesInv
<1> QED BY <1>1, <1>2, <1>3, <1>4, <1>5 DEF routesNext

-----------------------------------------------------------------------------
(* The theorems.                                                            *)

LEMMA RoutesInvLists == RoutesInv => ListedIsRouted
<1> SUFFICES ASSUME RoutesInv, pc = "online", NEW R \in Listings, NEW r \in R,
                    Followed(r[1]), Followed(r[2])
             PROVE  /\ log[cursor].tab[r[2]] # Gone /\ r[1] \in log[cursor].tab[r[2]]
                    /\ log[cursor].tab[r[1]] \notin {Gone, {}}
  BY DEF ListedIsRouted
<1>1. r \in Pairs /\ r \in Candidates BY ListedAreCandidates
<1>2. r[1] \in Addrs /\ r[2] \in Addrs BY <1>1, PairsAreTwo DEF Addrs
<1>3. /\ addrs[r[1]] \notin {Gone, {}} /\ addrs[r[2]] \notin {Gone, {}}
      /\ r[1] \in addrs[r[2]]
  BY <1>1 DEF Candidates, Active
<1>4. addrs[r[1]] = log[cursor].tab[r[1]] /\ addrs[r[2]] = log[cursor].tab[r[2]]
  BY <1>2 DEF RoutesInv, FollowedFits
<1> QED BY <1>3, <1>4

LEMMA RoutesInvFrees == RoutesInv => DisconnectFrees
<1> SUFFICES ASSUME RoutesInv, call.kind = "disconnect", call.st = "returned", call.quiet,
                    work = {}, cursor = Len(log), NEW r \in call.routes
             PROVE  addrs[r[2]] = {}
  BY DEF DisconnectFrees
<1>1. addrs = now BY DEF RoutesInv, QuietFits, now
<1>2. now[r[2]] = {} BY DEF RoutesInv, QuietFits
<1> QED BY <1>1, <1>2

\* Every listed route is one HOME had at the update handled last, unless an
\* update of either address was lost between the fetch and the subscription
\* (collect_addresses, cb_update_addrs, _active_routes).
THEOREM ListedHolds == routesSpec => []ListedIsRouted
<1> QED BY RoutesInvInit, RoutesInvStep, RoutesInvLists, PTL DEF routesSpec

\* Breaking the routes that are listed frees each receiver, once HOME has
\* carried it out and its updates are handled, if nobody else routed meanwhile
\* (disconnect, which waits for nothing itself).
THEOREM FreesHolds == routesSpec => []DisconnectFrees
<1> QED BY RoutesInvInit, RoutesInvStep, RoutesInvFrees, PTL DEF routesSpec

-----------------------------------------------------------------------------
(* The search of a path.                                                   *)
(*                                                                         *)
(* The path of a leg grows by the stitch that the search takes at the end   *)
(* of it, until a stitch is taken again; from then on the search goes round *)
(* inside the path, as what is taken depends on the place alone, and never  *)
(* gets to the destination: no stitch of the path leads there (WalkFits,    *)
(* HopFits).                                                                *)

Into(x) == <<x.switch, x.input>>
Out(x) == <<x.switch, x.output>>

\* The stitch that is taken at an interface.
Taken(leg, h) == groups[leg][Min(Matching(leg, h))]

WalkFits(leg) ==
  /\ \A i \in 1..Len(path[leg]) :
       /\ path[leg][i] \in ToSet(groups[leg])
       /\ Out(path[leg][i]) # dest[leg]
  /\ path[leg] # <<>> =>
       path[leg][1] = Taken(leg, From[leg]) /\ Into(path[leg][1]) = Heard[From[leg]]
  /\ \A i \in 1..(Len(path[leg]) - 1) :
       /\ path[leg][i + 1] = Taken(leg, Out(path[leg][i]))
       /\ Into(path[leg][i + 1]) = Heard[Out(path[leg][i])]

HopFits(leg) ==
  \/ path[leg] = <<>> /\ hop = From[leg]
  \/ \E k \in 1..Len(path[leg]) :
       hop = Out(path[leg][k]) /\ (k < Len(path[leg]) => again)

Reached(leg) ==
  From[leg] # dest[leg] => Joins(path[leg], From[leg], dest[leg])

PathInv ==
  /\ PathTypeOK
  /\ at \in {"asked", "not_asked"} => path = NoPath
  /\ at = "pri" => path["sec"] = <<>>
  /\ at \in Legs => WalkFits(at) /\ HopFits(at)
  /\ at \in {"sec", "found"} => Reached("pri")
  /\ at = "found" => Reached("sec")
  /\ again => \E leg \in Legs : Loop(leg)

LEMMA LeastIs ==
  ASSUME NEW S, S \subseteq Nat, S # {}
  PROVE  \E x \in S : \A y \in S : x <= y
<1> DEFINE R == {ss \in Nat \X Nat : ss[1] < ss[2]}
<1>1. IsWellFoundedOn(R, Nat) BY NatLessThanWellFounded DEF OpToRel
<1>2. \A x, y \in Nat : <<y, x>> \in R <=> y < x OBVIOUS
<1> HIDE DEF R
<1>3. \E x \in S : \A y \in S : ~ (<<y, x>> \in R) BY <1>1, WFMin
<1>4. PICK x \in S : \A y \in S : ~ (<<y, x>> \in R) BY <1>3
<1>5. ASSUME NEW y \in S PROVE x <= y
  <2>1. x \in Nat /\ y \in Nat /\ ~ (y < x) BY <1>2, <1>4
  <2> QED BY <2>1
<1> QED BY <1>5

LEMMA LeastIsElement ==
  ASSUME NEW S, S \subseteq Nat, S # {}
  PROVE  Min(S) \in S
<1> QED BY LeastIs DEF Min

LEMMA TakenMatches ==
  ASSUME PathTypeOK, NEW leg \in Legs, NEW h, Matching(leg, h) # {}
  PROVE  /\ Taken(leg, h) \in ToSet(groups[leg]) /\ Taken(leg, h) \in PathStitch
         /\ Into(Taken(leg, h)) = Heard[h] /\ Out(Taken(leg, h)) \in Iface
<1>1. groups[leg] \in Seq(PathStitch) BY DEF PathTypeOK
<1>2. DOMAIN groups[leg] = 1..Len(groups[leg]) /\ Len(groups[leg]) \in Nat BY <1>1
<1>3. Matching(leg, h) \subseteq Nat BY <1>2 DEF Matching
<1>4. Min(Matching(leg, h)) \in Matching(leg, h) BY <1>3, LeastIsElement
<1>5. PICK i \in DOMAIN groups[leg] :
        /\ Taken(leg, h) = groups[leg][i]
        /\ <<groups[leg][i].switch, groups[leg][i].input>> = Heard[h]
  BY <1>4 DEF Taken, Matching
<1>6. Taken(leg, h) \in PathStitch BY <1>1, <1>2, <1>5
<1>7. Taken(leg, h) \in ToSet(groups[leg]) BY <1>5 DEF ToSet
<1>8. Out(Taken(leg, h)) \in Iface BY <1>6, PathAssumption DEF PathStitch, Iface, Out
<1> QED BY <1>5, <1>6, <1>7, <1>8 DEF Into

LEMMA StartFits ==
  ASSUME NEW g \in [Legs -> Seq(PathStitch)], NEW known \in SUBSET Iface,
         NEW d \in [Legs -> Iface], pathStarts(g, known, d)
  PROVE  PathInv
<1>1. path = NoPath /\ at = "asked" /\ hop = From["pri"] /\ again = FALSE
      /\ groups = g /\ interfaces = known /\ dest = d
  BY DEF pathStarts
<1>2. NoPath \in [Legs -> Seq(PathStitch)]
  <2>1. <<>> \in Seq(PathStitch) OBVIOUS
  <2> QED BY <2>1 DEF NoPath
<1>3. From["pri"] \in Iface BY PathAssumption DEF Legs
<1>4. PathTypeOK BY <1>1, <1>2, <1>3 DEF PathTypeOK
<1> QED BY <1>1, <1>4 DEF PathInv, Legs

LEMMA PathInvInit == pathInit => PathInv
<1> SUFFICES ASSUME pathInit PROVE PathInv OBVIOUS
<1>1. PICK n \in 0..MaxStitches :
        \E p \in StitchLists(n), s \in UNION {StitchLists(m) : m \in 0..(MaxStitches - n)},
           x \in (Hubs \X Media) \cup {NoIface}, pri \in Ends["pri"], sec \in Ends["sec"] :
          pathStarts([pri |-> p, sec |-> s], Iface \ {x}, [pri |-> pri, sec |-> sec])
  BY DEF pathInit
<1>2. PICK p \in StitchLists(n), s \in UNION {StitchLists(m) : m \in 0..(MaxStitches - n)},
           x \in (Hubs \X Media) \cup {NoIface}, pri \in Ends["pri"], sec \in Ends["sec"] :
          pathStarts([pri |-> p, sec |-> s], Iface \ {x}, [pri |-> pri, sec |-> sec])
  BY <1>1
<1>3. PICK m \in 0..(MaxStitches - n) : s \in StitchLists(m) BY <1>2
<1>4. n \in Nat /\ m \in Nat BY PathAssumption
<1>5. p \in [1..n -> PathStitch] /\ s \in [1..m -> PathStitch]
  BY <1>2, <1>3 DEF StitchLists, SomeStitches
<1>6. p \in Seq(PathStitch) /\ s \in Seq(PathStitch) BY <1>4, <1>5
<1>7. [pri |-> p, sec |-> s] \in [Legs -> Seq(PathStitch)] BY <1>6 DEF Legs
<1>8. [pri |-> pri, sec |-> sec] \in [Legs -> Iface]
  <2>1. Ends["pri"] \subseteq Iface /\ Ends["sec"] \subseteq Iface
    BY PathAssumption DEF Legs
  <2> QED BY <1>2, <2>1 DEF Legs
<1> QED BY <1>2, <1>7, <1>8, StartFits

\* Nothing is found, and what is found fits.
LEMMA FailsKeeps ==
  ASSUME PathInv, Fails, Settled
  PROVE  PathInv'
<1>1. at' = "none" /\ path' = NoPath /\ UNCHANGED <<groups, interfaces, dest, hop, again>>
  BY DEF Fails, Settled
<1>2. PathTypeOK' BY <1>1 DEF PathInv, PathTypeOK, NoPath
<1>3. \A leg \in Legs : Loop(leg)' <=> Loop(leg) BY <1>1 DEF Loop
<1> QED BY <1>1, <1>2, <1>3 DEF PathInv, Legs

\* A leg is through, whose path now reaches the destination.
LEMMA LegEndsKeeps ==
  ASSUME PathInv, NEW g \in Legs, at = g, LegEnds, Settled,
         path' \in [Legs -> Seq(PathStitch)], again' \in BOOLEAN,
         Reached(g)',
         \A leg \in Legs \ {g} : path'[leg] = path[leg],
         again' => \E leg \in Legs : Loop(leg)
  PROVE  PathInv'
<1>1. UNCHANGED <<groups, interfaces, dest>> BY DEF Settled
<1>2. (\E leg \in Legs : Loop(leg))' <=> \E leg \in Legs : Loop(leg) BY <1>1 DEF Loop
<1>3. CASE at = "pri"
  <2>1. at' = "sec" /\ hop' = From["sec"] /\ path'["sec"] = <<>>
    BY <1>3 DEF LegEnds, PathInv, Legs
  <2>2. PathTypeOK' BY <1>1, <2>1, PathAssumption DEF PathInv, PathTypeOK, Legs
  <2>3. WalkFits("sec")'
    <3>1. path'["sec"] = <<>> /\ 1..Len(path'["sec"]) = {} /\ 1..(Len(path'["sec"]) - 1) = {}
      BY <2>1
    <3> QED BY <3>1 DEF WalkFits
  <2>4. HopFits("sec")' BY <2>1 DEF HopFits
  <2> QED BY <1>2, <1>3, <2>1, <2>2, <2>3, <2>4 DEF PathInv, Legs
<1>4. CASE at = "sec"
  <2>1. at' = "found" /\ UNCHANGED hop BY <1>4 DEF LegEnds
  <2>2. PathTypeOK' BY <1>1, <2>1 DEF PathInv, PathTypeOK
  <2>3. Reached("pri")'
    <3>1. Reached("pri") /\ path'["pri"] = path["pri"] BY <1>4 DEF PathInv, Legs
    <3> QED BY <1>1, <3>1 DEF Reached, Joins
  <2> QED BY <1>2, <1>4, <2>1, <2>2, <2>3 DEF PathInv, Legs
<1> QED BY <1>3, <1>4 DEF Legs

-----------------------------------------------------------------------------
(* One stitch is taken.                                                    *)

\* The path closes a loop when it takes a stitch of its own at its end.
LEMMA EndClosesLoop ==
  ASSUME PathTypeOK, NEW leg \in Legs, WalkFits(leg),
         NEW i \in 1..Len(path[leg]),
         Into(path[leg][i]) = Heard[Out(path[leg][Len(path[leg])])]
  PROVE  Loop(leg)
<1> DEFINE p == path[leg]
           n == Len(p)
           S == {p[j] : j \in i..n}
<1>1. p \in Seq(PathStitch) /\ n \in Nat /\ i \in 1..n BY DEF PathTypeOK
<1>2. S \in SUBSET ToSet(groups[leg])
  <2>1. \A j \in i..n : j \in 1..n BY <1>1
  <2> QED BY <2>1 DEF WalkFits
<1>3. S # {}
  <2>1. i \in i..n BY <1>1
  <2> QED BY <2>1
<1>4. \A j \in i..n : p[j] \in S OBVIOUS
<1>5. \A x \in S : \E j \in i..n : x = p[j] OBVIOUS
<1> HIDE DEF S
<1>6. ASSUME NEW x \in S
      PROVE  \E y \in S : <<y.switch, y.input>> = Heard[<<x.switch, x.output>>]
  <2>1. PICK j \in i..n : x = p[j] BY <1>5
  <2>2. CASE j < n
    <3>1. j \in 1..(n - 1) /\ j + 1 \in i..n BY <1>1, <2>1, <2>2
    <3>2. Into(p[j + 1]) = Heard[Out(p[j])] BY <3>1 DEF WalkFits
    <3>3. p[j + 1] \in S BY <1>4, <3>1
    <3> QED BY <2>1, <3>2, <3>3 DEF Into, Out
  <2>3. CASE j = n
    <3>1. p[i] \in S
      <4>1. i \in i..n BY <1>1
      <4> QED BY <1>4, <4>1
    <3>2. Into(p[i]) = Heard[Out(p[n])] OBVIOUS
    <3> QED BY <2>1, <2>3, <3>1, <3>2 DEF Into, Out
  <2>4. j < n \/ j = n BY <1>1, <2>1
  <2> QED BY <2>2, <2>3, <2>4
<1> QED BY <1>2, <1>3, <1>6 DEF Loop

LEMMA FollowKeeps ==
  ASSUME PathInv, FollowStitch
  PROVE  PathInv'
<1>1. PICK g \in Legs : at = g BY DEF FollowStitch
<1> DEFINE x == Taken(g, hop)
           p == path[g]
           n == Len(p)
<1>2. /\ x \in ToSet(groups[g]) /\ x \in PathStitch
      /\ Into(x) = Heard[hop] /\ Out(x) \in Iface
  BY <1>1, TakenMatches DEF FollowStitch, PathInv
<1>3. Settled /\ UNCHANGED <<groups, interfaces, dest>> BY DEF FollowStitch, Settled
<1>4. /\ path \in [Legs -> Seq(PathStitch)] /\ p \in Seq(PathStitch) /\ n \in Nat
      /\ again \in BOOLEAN
  BY DEF PathInv, PathTypeOK
<1>5. WalkFits(g) /\ HopFits(g) BY <1>1 DEF PathInv
<1>6. \/ Fails
      \/ /\ path' = IF \E i \in 1..n : p[i] = x THEN path
                    ELSE [path EXCEPT ![g] = Append(p, x)]
         /\ again' = (again \/ \E i \in 1..n : p[i] = x)
         /\ \/ Out(x) # dest[g] /\ hop' = Out(x) /\ UNCHANGED at
            \/ Out(x) = dest[g] /\ LegEnds
            \/ hop = dest[g] /\ LegEnds
  BY <1>1 DEF FollowStitch, Contains, Taken, Out
<1> HIDE DEF x
<1>7. CASE Fails BY <1>3, <1>7, FailsKeeps
<1>8. CASE \E i \in 1..n : p[i] = x
  <2>1. PICK i \in 1..n : p[i] = x BY <1>8
  <2>2. PICK k \in 1..n : hop = Out(p[k]) /\ (k < n => again)
    BY <2>1, <1>4, <1>5 DEF HopFits
  <2>3. \E leg \in Legs : Loop(leg)
    <3>1. CASE k = n BY <3>1, <2>1, <2>2, <1>2, <1>4, <1>5, EndClosesLoop DEF PathInv
    <3>2. CASE k < n BY <3>2, <2>2 DEF PathInv
    <3> QED BY <3>1, <3>2, <1>4
  <2>4. Out(x) # dest[g] /\ hop # dest[g] BY <2>1, <2>2, <1>5 DEF WalkFits
  <2>5. CASE path' = path /\ again' = TRUE /\ hop' = Out(x) /\ UNCHANGED at
    <3>1. PathTypeOK' BY <2>5, <1>2, <1>3 DEF PathInv, PathTypeOK
    <3>2. WalkFits(g)'
      BY <2>5, <1>3, <1>5 DEF WalkFits, Taken, Matching
    <3>3. HopFits(g)' BY <2>1, <2>5 DEF HopFits
    <3>4. \A leg \in Legs : (Reached(leg)' <=> Reached(leg)) /\ (Loop(leg)' <=> Loop(leg))
      BY <2>5, <1>3 DEF Reached, Joins, Loop
    <3> QED BY <2>3, <2>5, <1>1, <3>1, <3>2, <3>3, <3>4 DEF PathInv, Legs
  <2> QED BY <2>4, <2>5, <1>6, <1>7, <1>8
<1>9. CASE ~(\E i \in 1..n : p[i] = x) /\ ~Fails
  <2> DEFINE q == Append(p, x)
  <2>1. /\ path' = [path EXCEPT ![g] = q] /\ again' = again
    BY <1>4, <1>6, <1>9
  <2>2. /\ q \in Seq(PathStitch) /\ Len(q) = n + 1 /\ q[n + 1] = x
        /\ \A i \in 1..n : q[i] = p[i]
    BY <1>2, <1>4
  <2>3. /\ path' \in [Legs -> Seq(PathStitch)] /\ path'[g] = q
        /\ \A leg \in Legs \ {g} : path'[leg] = path[leg]
    BY <2>1, <2>2, <1>4
  <2> HIDE DEF q
  \* The hop is the end of the path: inside it the next stitch is known.
  <2>4. \/ n = 0 /\ hop = From[g]
        \/ n >= 1 /\ hop = Out(p[n])
    <3>1. CASE p = <<>> /\ hop = From[g] BY <3>1
    <3>2. CASE \E k \in 1..n : hop = Out(p[k])
      <4>1. PICK k \in 1..n : hop = Out(p[k]) BY <3>2
      <4>2. ~(k < n)
        <5>1. SUFFICES ASSUME k < n PROVE FALSE OBVIOUS
        <5>2. k \in 1..(n - 1) /\ k + 1 \in 1..n BY <1>4, <5>1
        <5>3. p[k + 1] = Taken(g, Out(p[k])) BY <5>2, <1>5 DEF WalkFits
        <5> QED BY <4>1, <5>2, <5>3, <1>9 DEF x
      <4> QED BY <4>1, <4>2, <1>4
    <3> QED BY <3>1, <3>2, <1>5 DEF HopFits
  \* The longer path is a walk, but for where it ends.
  <2>5. /\ \A i \in 1..(n + 1) : q[i] \in ToSet(groups[g])
        /\ q[1] = Taken(g, From[g]) /\ Into(q[1]) = Heard[From[g]]
        /\ \A i \in 1..n : /\ q[i + 1] = Taken(g, Out(q[i]))
                            /\ Into(q[i + 1]) = Heard[Out(q[i])]
    <3>1. \A i \in 1..(n + 1) : q[i] \in ToSet(groups[g])
      BY <2>2, <1>2, <1>4, <1>5 DEF WalkFits
    <3>2. q[1] = Taken(g, From[g]) /\ Into(q[1]) = Heard[From[g]]
      <4>1. CASE n = 0 BY <4>1, <2>2, <2>4, <1>2 DEF x
      <4>2. CASE n >= 1 BY <4>2, <2>2, <1>4, <1>5 DEF WalkFits
      <4> QED BY <4>1, <4>2, <1>4
    <3>3. ASSUME NEW i \in 1..n
          PROVE  q[i + 1] = Taken(g, Out(q[i])) /\ Into(q[i + 1]) = Heard[Out(q[i])]
      <4>1. CASE i = n BY <4>1, <2>2, <2>4, <1>2, <1>4 DEF x
      <4>2. CASE i < n
        <5>1. i \in 1..(n - 1) /\ i + 1 \in 1..n BY <4>2, <1>4
        <5> QED BY <5>1, <2>2, <1>5 DEF WalkFits
      <4> QED BY <4>1, <4>2, <1>4
    <3> QED BY <3>1, <3>2, <3>3
  <2>6. again' => \E leg \in Legs : Loop(leg) BY <2>1 DEF PathInv
  <2>7. CASE Out(x) = dest[g] /\ LegEnds
    <3>1. Joins(q, From[g], dest[g])
      <4>1. q # <<>> BY <2>2, <1>4
      <4>2. (n + 1) - 1 = n BY <1>4
      <4> QED BY <4>1, <4>2, <2>2, <2>5, <2>7 DEF Joins, Into, Out
    <3>2. Reached(g)' BY <3>1, <2>3, <1>3 DEF Reached
    <3> QED BY <3>2, <2>1, <2>3, <2>6, <2>7, <1>1, <1>3, <1>4, LegEndsKeeps
  <2>8. CASE hop = dest[g] /\ LegEnds
    <3>1. From[g] = dest[g] BY <2>4, <2>8, <1>4, <1>5 DEF WalkFits
    <3>2. Reached(g)' BY <3>1, <1>3 DEF Reached
    <3> QED BY <3>2, <2>1, <2>3, <2>6, <2>8, <1>1, <1>3, <1>4, LegEndsKeeps
  <2>9. CASE Out(x) # dest[g] /\ hop' = Out(x) /\ UNCHANGED at
    <3>1. PathTypeOK' BY <2>1, <2>3, <2>9, <1>2, <1>3 DEF PathInv, PathTypeOK
    <3>2. \A i \in 1..(n + 1) : Out(q[i]) # dest[g]
      <4>1. \A i \in 1..n : Out(q[i]) # dest[g] BY <2>2, <1>5 DEF WalkFits
      <4>2. Out(q[n + 1]) # dest[g] BY <2>2, <2>9
      <4> QED BY <4>1, <4>2, <1>4
    <3>3. \A h : Taken(g, h)' = Taken(g, h) BY <1>3 DEF Taken, Matching
    <3>4. WalkFits(g)'
      <4>1. (n + 1) - 1 = n BY <1>4
      <4> QED BY <3>2, <3>3, <4>1, <2>2, <2>3, <2>5, <1>3 DEF WalkFits
    <3>5. HopFits(g)'
      <4>1. n + 1 \in 1..(n + 1) /\ hop' = Out(q[n + 1]) BY <2>2, <2>9, <1>4
      <4> QED BY <4>1, <2>2, <2>3 DEF HopFits
    <3>6. \A leg \in Legs : Loop(leg)' <=> Loop(leg) BY <1>3 DEF Loop
    <3>7. g = "sec" => Reached("pri")'
      <4> SUFFICES ASSUME g = "sec" PROVE Reached("pri")' OBVIOUS
      <4>1. Reached("pri") /\ path'["pri"] = path["pri"] BY <2>3, <1>1 DEF PathInv, Legs
      <4> QED BY <4>1, <1>3 DEF Reached
    <3>8. g = "pri" => path'["sec"] = <<>> BY <2>3, <1>1 DEF PathInv, Legs
    <3> QED BY <2>6, <2>9, <1>1, <3>1, <3>4, <3>5, <3>6, <3>7, <3>8 DEF PathInv, Legs
  <2> QED BY <2>7, <2>8, <2>9, <1>6, <1>9
<1> QED BY <1>7, <1>8, <1>9

LEMMA PathInvStep == PathInv /\ [pathNext]_pathVars => PathInv'
<1> SUFFICES ASSUME PathInv, [pathNext]_pathVars PROVE PathInv' OBVIOUS
<1>1. CASE PathFails
  <2>1. /\ at = "asked" /\ at' = "not_asked"
        /\ UNCHANGED <<groups, interfaces, dest, hop, path, again>>
    BY <1>1 DEF PathFails, Settled
  <2>2. PathTypeOK' BY <2>1 DEF PathInv, PathTypeOK
  <2>3. \A leg \in Legs : Loop(leg)' <=> Loop(leg) BY <2>1 DEF Loop
  <2> QED BY <2>1, <2>2, <2>3 DEF PathInv, Legs, NoPath
<1>2. CASE FindPath
  <2>1. /\ at = "asked" /\ at' = "pri" /\ hop' = From["pri"] /\ path = NoPath
        /\ UNCHANGED <<groups, interfaces, dest, path, again>>
    BY <1>2 DEF FindPath, Settled, PathInv
  <2>2. From["pri"] \in Iface BY PathAssumption DEF Legs
  <2>3. PathTypeOK' BY <2>1, <2>2 DEF PathInv, PathTypeOK, Legs
  <2>4. path'["pri"] = <<>> /\ path'["sec"] = <<>> BY <2>1 DEF NoPath, Legs
  <2>5. WalkFits("pri")'
    <3>1. 1..Len(path'["pri"]) = {} /\ 1..(Len(path'["pri"]) - 1) = {} BY <2>4
    <3> QED BY <3>1, <2>4 DEF WalkFits
  <2>6. HopFits("pri")' BY <2>1, <2>4 DEF HopFits
  <2>7. \A leg \in Legs : Loop(leg)' <=> Loop(leg) BY <2>1 DEF Loop
  <2> QED BY <2>1, <2>3, <2>4, <2>5, <2>6, <2>7 DEF PathInv, Legs
<1>3. CASE FollowStitch BY <1>3, FollowKeeps
<1>4. CASE NoStitch BY <1>4, FailsKeeps DEF NoStitch
<1>5. CASE UNCHANGED pathVars
  <2>1. UNCHANGED <<groups, interfaces, dest, at, hop, path, again>> BY <1>5 DEF pathVars
  <2>2. PathTypeOK' BY <2>1 DEF PathInv, PathTypeOK
  <2>3. \A leg \in Legs : /\ Loop(leg)' <=> Loop(leg)
                          /\ Reached(leg)' <=> Reached(leg)
    BY <2>1 DEF Loop, Reached, Joins
  <2>4. at \in Legs => WalkFits(at)' /\ HopFits(at)'
    BY ZenonT(30), <2>1 DEF PathInv, WalkFits, HopFits, Taken, Matching
  <2> QED BY <2>1, <2>2, <2>3, <2>4 DEF PathInv, Legs
<1> QED BY <1>1, <1>2, <1>3, <1>4, <1>5 DEF pathNext

LEMMA PathInvIsWalk == PathInv => PathIsWalk
<1> QED BY DEF PathInv, PathIsWalk, Reached, Legs

\* A path that is found leads from the source to the destination on both legs,
\* and a stitch is taken again only where the stitches of a leg close a loop
\* (_find_path), whatever the switches, the stitches and their order.
THEOREM PathsAreWalks == pathSpec => []PathIsWalk
<1> QED BY PathInvInit, PathInvStep, PathInvIsWalk, PTL DEF pathSpec

-----------------------------------------------------------------------------
(* The list of stitches.                                                   *)
(*                                                                         *)
(* A key that one switch alone uses is in the list as that switch had it at *)
(* the place of its journal the list has got to: from the answer on, and    *)
(* not only once the switch is subscribed to (Pos, LoneFits).  What the     *)
(* other switches send does not move it, as no stitch of theirs has the key *)
(* (OtherKeyIsKept); its own updates take its one stitch out and put one in *)
(* (OwnIsAdded, OwnIsDropped).                                              *)

\* What one update makes of a switch's stitches.
After(s, u) ==
  IF u.op = "remove" THEN s \ {u.st} ELSE {x \in s : x.key # u.st.key} \cup {u.st}

\* f[k] are the stitches after the first k updates.
IsRun(f, S, journal, n) ==
  f = [k \in 0..n |-> IF k = 0 THEN S ELSE After(f[k - 1], journal[k])]

LEMMA RunExists ==
  ASSUME NEW S, NEW journal, NEW n \in Nat
  PROVE  \E f : IsRun(f, S, journal, n)
<1> DEFINE T == {m \in Nat : ~\E f : IsRun(f, S, journal, m)}
<1> SUFFICES ASSUME T # {} PROVE FALSE OBVIOUS
<1>1. PICK m \in T : \A k \in T : m <= k BY LeastIs
<1>2. m # 0
  <2>1. IsRun([k \in 0..0 |-> S], S, journal, 0) BY DEF IsRun
  <2> QED BY <2>1
<1>3. m \in Nat /\ m - 1 \in Nat /\ m - 1 \notin T BY <1>1, <1>2
<1>4. PICK f : IsRun(f, S, journal, m - 1) BY <1>3
<1> DEFINE g == [k \in 0..m |-> IF k = m THEN After(f[m - 1], journal[m]) ELSE f[k]]
<1>5. \A k \in 0..(m - 1) : f[k] = IF k = 0 THEN S ELSE After(f[k - 1], journal[k])
  BY <1>4 DEF IsRun
<1>6. ASSUME NEW k \in 0..m
      PROVE  g[k] = IF k = 0 THEN S ELSE After(g[k - 1], journal[k])
  <2>1. CASE k = m
    <3>1. m - 1 \in 0..m /\ m - 1 # m BY <1>3
    <3>2. g[m - 1] = f[m - 1] BY <3>1
    <3> QED BY <2>1, <3>2, <1>2
  <2>2. CASE k # m
    <3>1. k \in 0..(m - 1) BY <2>2, <1>3
    <3>2. k # 0 => k - 1 \in 0..m /\ k - 1 # m BY <3>1, <1>3
    <3>3. k # 0 => g[k - 1] = f[k - 1] BY <3>2
    <3> QED BY <2>2, <3>1, <3>3, <1>5
  <2> QED BY <2>1, <2>2
<1>7. IsRun(g, S, journal, m)
  <2>1. g = [k \in 0..m |-> g[k]] OBVIOUS
  <2> HIDE DEF g
  <2> QED BY <1>6, <2>1 DEF IsRun
<1> QED BY <1>3, <1>7

LEMMA RunIsUnique ==
  ASSUME NEW S, NEW us, NEW vs, NEW n \in Nat, NEW m \in Nat, NEW f, NEW g,
         IsRun(f, S, us, n), IsRun(g, S, vs, m),
         NEW k \in Nat, k <= n, k <= m, \A j \in 1..k : us[j] = vs[j]
  PROVE  f[k] = g[k]
<1> DEFINE T == {j \in 0..k : f[j] # g[j]}
<1> SUFFICES ASSUME T # {} PROVE FALSE OBVIOUS
<1>1. T \subseteq Nat OBVIOUS
<1>2. PICK j \in T : \A i \in T : j <= i BY <1>1, LeastIs
<1>3. /\ \A i \in 0..n : f[i] = IF i = 0 THEN S ELSE After(f[i - 1], us[i])
      /\ \A i \in 0..m : g[i] = IF i = 0 THEN S ELSE After(g[i - 1], vs[i])
  BY DEF IsRun
<1>4. j \in 0..k /\ j \in 0..n /\ j \in 0..m /\ f[j] # g[j] BY <1>2
<1>5. CASE j = 0 BY <1>3, <1>4, <1>5
<1>6. CASE j # 0
  <2>1. j - 1 \in 0..k /\ j - 1 \notin T /\ j \in 1..k BY <1>2, <1>4, <1>6
  <2>2. f[j - 1] = g[j - 1] /\ us[j] = vs[j] BY <2>1
  <2> QED BY <1>3, <1>4, <1>6, <2>2
<1> QED BY <1>5, <1>6

LEMMA ReplayedIsRun ==
  ASSUME NEW S, NEW journal, NEW n \in Nat
  PROVE  \E f : IsRun(f, S, journal, n) /\ Replayed(S, journal, n) = f[n]
<1> DEFINE f == CHOOSE f : IsRun(f, S, journal, n)
<1>1. IsRun(f, S, journal, n) BY RunExists
<1>2. Replayed(S, journal, n) = f[n] BY DEF Replayed, IsRun, After
<1> QED BY <1>1, <1>2

\* What the updates make of the stitches, update by update.
LEMMA Replay ==
  ASSUME NEW S, NEW journal, NEW n \in Nat
  PROVE  /\ Replayed(S, journal, 0) = S
         /\ Replayed(S, journal, n + 1) = After(Replayed(S, journal, n), journal[n + 1])
<1>1. PICK f : IsRun(f, S, journal, n + 1) /\ Replayed(S, journal, n + 1) = f[n + 1]
  BY ReplayedIsRun
<1>2. PICK g : IsRun(g, S, journal, n) /\ Replayed(S, journal, n) = g[n]
  BY ReplayedIsRun
<1>3. PICK h : IsRun(h, S, journal, 0) /\ Replayed(S, journal, 0) = h[0]
  BY ReplayedIsRun
<1>4. h[0] = S BY <1>3 DEF IsRun
<1>5. f[n + 1] = After(f[n], journal[n + 1]) BY <1>1 DEF IsRun
<1>6. f[n] = g[n] BY <1>1, <1>2, RunIsUnique
<1> QED BY <1>1, <1>2, <1>3, <1>4, <1>5, <1>6

\* Updates that come later are of no account.
LEMMA ReplayLooksBack ==
  ASSUME NEW S, NEW us, NEW vs, NEW n \in Nat, \A j \in 1..n : us[j] = vs[j]
  PROVE  Replayed(S, us, n) = Replayed(S, vs, n)
<1>1. PICK f : IsRun(f, S, us, n) /\ Replayed(S, us, n) = f[n] BY ReplayedIsRun
<1>2. PICK g : IsRun(g, S, vs, n) /\ Replayed(S, vs, n) = g[n] BY ReplayedIsRun
<1> QED BY <1>1, <1>2, RunIsUnique

\* HOME's answer has each stitch once.
LEMMA AnswerIsAll ==
  ASSUME NEW S, IsFiniteSet(S), NEW s \in SetToSeqs(S)
  PROVE  /\ s \in Seq(S)
         /\ \A x \in S : \E i \in 1..Len(s) : s[i] = x
         /\ \A i, j \in 1..Len(s) : s[i] = s[j] => i = j
<1> DEFINE n == Cardinality(S)
<1>1. n \in Nat BY FS_CardinalityType
<1>2. s \in [1..n -> S] /\ \A i, j \in 1..n : i # j => s[i] # s[j] BY DEF SetToSeqs
<1> HIDE DEF n
<1>3. s \in Seq(S) /\ Len(s) = n BY <1>1, <1>2
<1>4. s \in Injection(1..n, S) BY <1>2 DEF Injection, IsInjective
<1>5. IsFiniteSet(1..n) /\ Cardinality(1..n) = n BY <1>1, FS_Interval
<1>6. s \in Surjection(1..n, S) BY <1>4, <1>5, FS_Injection DEF n
<1> QED BY <1>2, <1>3, <1>6 DEF Surjection

-----------------------------------------------------------------------------
(* What the list does to the stitches of one key.                          *)

\* The stitches of one key in the list are those of H, each once and one at most.
Lists(s, key, H) ==
  /\ \A k \in 1..Len(s) : s[k].key = key => s[k] \in H
  /\ \A x \in H : \E k \in 1..Len(s) : s[k] = x
  /\ \A j, k \in 1..Len(s) : (s[j].key = key /\ s[k].key = key) => j = k

\* q is s and then t.
Joined(q, s, t) ==
  /\ Len(q) = Len(s) + Len(t)
  /\ \A k \in 1..Len(s) : q[k] = s[k]
  /\ \A k \in 1..Len(t) : q[Len(s) + k] = t[k]

LEMMA Joining ==
  ASSUME NEW s \in Seq(Stitch)
  PROVE  /\ \A t \in Seq(Stitch) : Joined(s \o t, s, t) /\ s \o t \in Seq(Stitch)
         /\ \A x \in Stitch : Joined(Append(s, x), s, <<x>>) /\ Append(s, x) \in Seq(Stitch)
BY DEF Joined

LEMMA RemovedAt ==
  ASSUME NEW s \in Seq(Stitch), NEW i \in 1..Len(s)
  PROVE  /\ RemoveAt(s, i) \in Seq(Stitch)
         /\ Len(RemoveAt(s, i)) = Len(s) - 1
         /\ \A k \in 1..(Len(s) - 1) : RemoveAt(s, i)[k] = IF k < i THEN s[k] ELSE s[k + 1]
<1> DEFINE a == SubSeq(s, 1, i - 1)
           b == SubSeq(s, i + 1, Len(s))
<1>1. /\ a \in Seq(Stitch) /\ Len(a) = i - 1
      /\ \A k \in 1..(i - 1) : a[k] = s[k]
  OBVIOUS
<1>2. /\ b \in Seq(Stitch) /\ Len(b) = Len(s) - i
      /\ \A k \in 1..(Len(s) - i) : b[k] = s[i + k]
  OBVIOUS
<1>3. RemoveAt(s, i) = a \o b BY DEF RemoveAt
<1> HIDE DEF a, b
<1>4. /\ a \o b \in Seq(Stitch) /\ Len(a \o b) = Len(a) + Len(b)
      /\ \A k \in 1..Len(a) : (a \o b)[k] = a[k]
      /\ \A k \in 1..Len(b) : (a \o b)[Len(a) + k] = b[k]
  BY <1>1, <1>2, Joining DEF Joined
<1>5. ASSUME NEW k \in 1..(Len(s) - 1)
      PROVE  (a \o b)[k] = IF k < i THEN s[k] ELSE s[k + 1]
  <2>1. CASE k < i
    <3>1. k \in 1..Len(a) /\ k \in 1..(i - 1) BY <2>1, <1>1
    <3> QED BY <2>1, <3>1, <1>1, <1>4
  <2>2. CASE ~(k < i)
    <3> DEFINE m == k - (i - 1)
    <3>1. m \in 1..(Len(s) - i) /\ m \in 1..Len(b) /\ i + m = k + 1 /\ Len(a) + m = k
      BY <2>2, <1>1, <1>2
    <3> HIDE DEF m
    <3>2. b[m] = s[i + m] BY <3>1, <1>2
    <3>3. (a \o b)[Len(a) + m] = b[m] BY <3>1, <1>4
    <3> QED BY <2>2, <3>1, <3>2, <3>3
  <2> QED BY <2>1, <2>2
<1>6. Len(a \o b) = Len(s) - 1 BY <1>1, <1>2, <1>4
<1> QED BY <1>3, <1>4, <1>5, <1>6

\* The first match is one.
LEMMA Dropped ==
  ASSUME NEW s \in Seq(Stitch), NEW x \in Stitch
  PROVE  \/ /\ \A i \in 1..Len(s) : ~(s[i].key = x.key /\ s[i].src = x.src)
            /\ DropStitch(s, x) = s
         \/ \E i \in 1..Len(s) : /\ s[i].key = x.key /\ s[i].src = x.src
                                 /\ DropStitch(s, x) = RemoveAt(s, i)
<1> DEFINE I == {i \in 1..Len(s) : s[i].key = x.key /\ s[i].src = x.src}
<1>1. I # {} => Min(I) \in I
  <2>1. I \subseteq Nat OBVIOUS
  <2> HIDE DEF I
  <2> QED BY <2>1, LeastIsElement
<1>2. DropStitch(s, x) = IF I # {} THEN RemoveAt(s, Min(I)) ELSE s
  BY DEF DropStitch, RemoveFirstMatch, SelectInSeq
<1> QED BY <1>1, <1>2

LEMMA Added ==
  ASSUME NEW s \in Seq(Stitch), NEW x \in Stitch
  PROVE  \E r \in Seq(Stitch) :
           /\ AddStitch(s, x) = Append(r, x)
           /\ \/ r = s /\ \A i \in 1..Len(s) : s[i].key # x.key
              \/ \E i \in 1..Len(s) : s[i].key = x.key /\ r = RemoveAt(s, i)
<1> DEFINE I == {i \in 1..Len(s) : s[i].key = x.key}
           r == IF I # {} THEN RemoveAt(s, Min(I)) ELSE s
<1>1. I # {} => Min(I) \in I
  <2>1. I \subseteq Nat OBVIOUS
  <2> HIDE DEF I
  <2> QED BY <2>1, LeastIsElement
<1>2. AddStitch(s, x) = Append(r, x)
  BY DEF AddStitch, RemoveFirstMatch, SelectInSeq
<1>3. r \in Seq(Stitch) BY <1>1, RemovedAt
<1> QED BY <1>1, <1>2, <1>3

\* Stitches of other keys come and go.
LEMMA RemoveOther ==
  ASSUME NEW s \in Seq(Stitch), NEW i \in 1..Len(s), NEW key, NEW H,
         Lists(s, key, H), s[i].key # key, \A x \in H : x.key = key
  PROVE  Lists(RemoveAt(s, i), key, H)
<1> DEFINE r == RemoveAt(s, i)
           n == Len(s)
<1>0. n \in Nat OBVIOUS
<1>1. Len(r) = n - 1 /\ n \in Nat /\ \A k \in 1..(n - 1) : r[k] = IF k < i THEN s[k] ELSE s[k + 1]
  BY <1>0, RemovedAt, Zenon
<1> HIDE DEF r
<1>2. ASSUME NEW k \in 1..n, k # i
      PROVE  \E m \in 1..(n - 1) : r[m] = s[k]
  <2>1. CASE k < i
    <3>1. k \in 1..(n - 1) BY <2>1
    <3> QED BY <2>1, <3>1, <1>1
  <2>2. CASE k > i
    <3>1. k - 1 \in 1..(n - 1) /\ ~(k - 1 < i) /\ (k - 1) + 1 = k BY <2>2
    <3> QED BY <3>1, <1>1
  <2> QED BY <2>1, <2>2, <1>2
<1>3. \A k \in 1..(n - 1) : r[k].key = key => r[k] \in H
  <2> SUFFICES ASSUME NEW k \in 1..(n - 1), r[k].key = key PROVE r[k] \in H OBVIOUS
  <2>1. (IF k < i THEN k ELSE k + 1) \in 1..n OBVIOUS
  <2> QED BY <2>1, <1>1 DEF Lists
<1>4. \A x \in H : \E k \in 1..(n - 1) : r[k] = x
  <2> SUFFICES ASSUME NEW x \in H PROVE \E k \in 1..(n - 1) : r[k] = x OBVIOUS
  <2>1. PICK k \in 1..n : s[k] = x BY DEF Lists
  <2>2. k # i BY <2>1
  <2> QED BY <2>1, <2>2, <1>2
<1>5. \A j, k \in 1..(n - 1) : (r[j].key = key /\ r[k].key = key) => j = k
  <2> SUFFICES ASSUME NEW j \in 1..(n - 1), NEW k \in 1..(n - 1),
                      r[j].key = key, r[k].key = key
               PROVE  j = k
    OBVIOUS
  <2> DEFINE a == IF j < i THEN j ELSE j + 1
             b == IF k < i THEN k ELSE k + 1
  <2>1. a \in 1..n /\ b \in 1..n /\ r[j] = s[a] /\ r[k] = s[b] BY <1>1
  <2>2. a = b BY <2>1 DEF Lists
  <2> QED BY <2>2
<1> QED BY <1>1, <1>3, <1>4, <1>5 DEF Lists, r

\* The one stitch of the key is taken out.
LEMMA RemoveOwn ==
  ASSUME NEW s \in Seq(Stitch), NEW i \in 1..Len(s), NEW key, NEW H,
         Lists(s, key, H), s[i].key = key
  PROVE  Lists(RemoveAt(s, i), key, {})
<1> DEFINE r == RemoveAt(s, i)
           n == Len(s)
<1>0. n \in Nat OBVIOUS
<1>1. Len(r) = n - 1 /\ n \in Nat /\ \A k \in 1..(n - 1) : r[k] = IF k < i THEN s[k] ELSE s[k + 1]
  BY <1>0, RemovedAt, Zenon
<1> HIDE DEF r
<1>2. \A k \in 1..(n - 1) : r[k].key # key
  <2> SUFFICES ASSUME NEW k \in 1..(n - 1), r[k].key = key PROVE FALSE OBVIOUS
  <2> DEFINE a == IF k < i THEN k ELSE k + 1
  <2>1. a \in 1..n /\ a # i /\ r[k] = s[a] BY <1>1
  <2> QED BY <2>1 DEF Lists
<1> QED BY <1>1, <1>2 DEF Lists, r

\* Where the places of the joined list come from.
LEMMA JoinedPlaces ==
  ASSUME NEW s \in Seq(Stitch), NEW t \in Seq(Stitch), NEW q, Joined(q, s, t),
         NEW k \in 1..Len(q)
  PROVE  \/ k \in 1..Len(s) /\ q[k] = s[k]
         \/ k - Len(s) \in 1..Len(t) /\ q[k] = t[k - Len(s)]
<1>1. Len(s) \in Nat /\ Len(t) \in Nat /\ Len(q) = Len(s) + Len(t) BY DEF Joined
<1>2. CASE k <= Len(s)
  <2>1. k \in 1..Len(s) BY <1>1, <1>2
  <2> QED BY <2>1 DEF Joined
<1>3. CASE k > Len(s)
  <2>1. k - Len(s) \in 1..Len(t) /\ Len(s) + (k - Len(s)) = k BY <1>1, <1>3
  <2> QED BY <2>1 DEF Joined
<1> QED BY <1>1, <1>2, <1>3

LEMMA AppendOther ==
  ASSUME NEW s \in Seq(Stitch), NEW t \in Seq(Stitch), NEW q, Joined(q, s, t),
         NEW key, NEW H, Lists(s, key, H), \A k \in 1..Len(t) : t[k].key # key
  PROVE  Lists(q, key, H)
<1>1. \A k \in 1..Len(q) : q[k].key = key => k \in 1..Len(s) /\ q[k] = s[k]
  BY JoinedPlaces
<1>2. \A k \in 1..Len(s) : k \in 1..Len(q) BY DEF Joined
<1>3. \A x \in H : \E k \in 1..Len(q) : q[k] = x BY <1>2 DEF Lists, Joined
<1> QED BY SMTT(20), <1>1, <1>3 DEF Lists

\* A list without the key, and another that lists it.
LEMMA AppendOwn ==
  ASSUME NEW s \in Seq(Stitch), NEW t \in Seq(Stitch), NEW q, Joined(q, s, t),
         NEW key, NEW H, Lists(t, key, H), \A k \in 1..Len(s) : s[k].key # key
  PROVE  Lists(q, key, H)
<1>1. \A k \in 1..Len(q) : q[k].key = key =>
        k - Len(s) \in 1..Len(t) /\ q[k] = t[k - Len(s)]
  BY JoinedPlaces
<1>2. \A k \in 1..Len(t) : Len(s) + k \in 1..Len(q) BY DEF Joined
<1>3. \A x \in H : \E k \in 1..Len(q) : q[k] = x BY <1>2 DEF Lists, Joined
<1>4. \A k \in 1..Len(q) : q[k].key = key => q[k] \in H BY SMTT(20), <1>1 DEF Lists
<1>5. \A j, k \in 1..Len(q) : (q[j].key = key /\ q[k].key = key) => j = k
  <2> SUFFICES ASSUME NEW j \in 1..Len(q), NEW k \in 1..Len(q),
                      q[j].key = key, q[k].key = key
               PROVE  j = k
    OBVIOUS
  <2>1. /\ j - Len(s) \in 1..Len(t) /\ t[j - Len(s)].key = key
        /\ k - Len(s) \in 1..Len(t) /\ t[k - Len(s)].key = key
    BY <1>1
  <2>2. j - Len(s) = k - Len(s) BY <2>1 DEF Lists
  <2> QED BY <2>2
<1> QED BY <1>3, <1>4, <1>5 DEF Lists

LEMMA OtherKeyIsKept ==
  ASSUME NEW s \in Seq(Stitch), NEW x \in Stitch, NEW key, NEW H,
         Lists(s, key, H), x.key # key, \A y \in H : y.key = key
  PROVE  Lists(AddStitch(s, x), key, H) /\ Lists(DropStitch(s, x), key, H)
<1>1. Lists(DropStitch(s, x), key, H)
  <2>1. CASE DropStitch(s, x) = s BY <2>1
  <2>2. CASE \E i \in 1..Len(s) : s[i].key = x.key /\ DropStitch(s, x) = RemoveAt(s, i)
    BY <2>2, RemoveOther
  <2> QED BY <2>1, <2>2, Dropped
<1>2. PICK r \in Seq(Stitch) :
        /\ AddStitch(s, x) = Append(r, x)
        /\ \/ r = s
           \/ \E i \in 1..Len(s) : s[i].key = x.key /\ r = RemoveAt(s, i)
  BY Added
<1>3. Lists(r, key, H) BY <1>2, RemoveOther
<1>4. Joined(Append(r, x), r, <<x>>) BY <1>2, Joining
<1>5. <<x>> \in Seq(Stitch) /\ \A k \in 1..Len(<<x>>) : <<x>>[k].key # key OBVIOUS
<1>6. Lists(Append(r, x), key, H) BY <1>2, <1>3, <1>4, <1>5, AppendOther
<1> QED BY <1>1, <1>2, <1>6

LEMMA OwnIsAdded ==
  ASSUME NEW s \in Seq(Stitch), NEW x \in Stitch, NEW H, Lists(s, x.key, H)
  PROVE  Lists(AddStitch(s, x), x.key, {x})
<1>1. PICK r \in Seq(Stitch) :
        /\ AddStitch(s, x) = Append(r, x)
        /\ \/ r = s /\ \A i \in 1..Len(s) : s[i].key # x.key
           \/ \E i \in 1..Len(s) : s[i].key = x.key /\ r = RemoveAt(s, i)
  BY Added
<1>2. \A k \in 1..Len(r) : r[k].key # x.key
  <2>1. CASE \E i \in 1..Len(s) : s[i].key = x.key /\ r = RemoveAt(s, i)
    <3>1. Lists(r, x.key, {}) BY <2>1, RemoveOwn
    <3> QED BY <3>1 DEF Lists
  <2> QED BY <1>1, <2>1
<1>3. Joined(Append(r, x), r, <<x>>) BY <1>1, Joining
<1>4. <<x>> \in Seq(Stitch) OBVIOUS
<1>5. Lists(<<x>>, x.key, {x})
  <2>1. Len(<<x>>) = 1 /\ <<x>>[1] = x OBVIOUS
  <2> QED BY <2>1 DEF Lists
<1>6. Lists(Append(r, x), x.key, {x}) BY <1>1, <1>2, <1>3, <1>4, <1>5, AppendOwn
<1> QED BY <1>1, <1>6

LEMMA OwnIsDropped ==
  ASSUME NEW s \in Seq(Stitch), NEW x \in Stitch, Lists(s, x.key, {x})
  PROVE  Lists(DropStitch(s, x), x.key, {})
<1>1. \E i \in 1..Len(s) : s[i] = x BY DEF Lists
<1>2. PICK i \in 1..Len(s) : s[i].key = x.key /\ DropStitch(s, x) = RemoveAt(s, i)
  BY <1>1, Dropped
<1> QED BY <1>2, RemoveOwn

-----------------------------------------------------------------------------
(* The invariant of the list.                                              *)

Update == [op: {"insert", "change", "remove"}, st: Stitch]

Lone(w, key) == \A x \in Ever : x.key = key => x.sw = w
Of(S, key) == {x \in S : x.key = key}

\* The place in a switch's journal that the list has got to, if the switch has
\* answered and nothing was published from then to the subscription.
Pos(w) == IF since[w] = -1 THEN readAt[w] ELSE handled[w]
Counted(w) == readAt[w] # -1 /\ since[w] \in {-1, readAt[w]}

ListTypes ==
  /\ init \subseteq Stitch /\ updates \in [Switches -> Seq(Update)]
  /\ order \in Seq(Switches) /\ stitches \in Seq(Stitch)
  /\ readAt \in [Switches -> Int] /\ since \in [Switches -> Int]
  /\ handled \in [Switches -> Nat]
  /\ \A w \in Switches :
       /\ -1 <= readAt[w] /\ readAt[w] <= Len(updates[w]) /\ handled[w] <= Len(updates[w])
       /\ since[w] = -1 \/ (0 <= since[w] /\ since[w] <= handled[w])

OrderFits ==
  /\ \A i, j \in 1..Len(order) : order[i] = order[j] => i = j
  /\ \A i \in 1..Len(order) : readAt[order[i]] = -1
  /\ order # <<>> => \A w \in Switches : since[w] = -1

UpdatesFit ==
  \A w \in Switches : \A k \in 1..Len(updates[w]) :
    /\ updates[w][k].st.sw = w
    /\ updates[w][k].op = "remove" => updates[w][k].st \in At(w, k - 1)

HeldFits ==
  \A w \in Switches : \A n \in 0..Len(updates[w]) :
    /\ \A x \in At(w, n) : x \in Ever /\ x.sw = w
    /\ \A x, y \in At(w, n) : x.key = y.key => x = y

ListFits ==
  \A k \in 1..Len(stitches) :
    /\ stitches[k] \in Ever
    /\ \A w \in Switches : (readAt[w] = -1 /\ since[w] = -1) => stitches[k].sw # w

LoneFits ==
  \A w \in Switches, key \in Keys :
    (Lone(w, key) /\ Counted(w)) => Lists(stitches, key, Of(At(w, Pos(w)), key))

ListInv == ListTypes /\ OrderFits /\ UpdatesFit /\ HeldFits /\ ListFits /\ LoneFits

LEMMA EverTypes ==
  ASSUME ListTypes
  PROVE  /\ Ever \subseteq Stitch
         /\ \A w \in Switches : \A k \in 1..Len(updates[w]) :
              updates[w][k] \in Update /\ updates[w][k].st \in Ever /\ updates[w][k].st \in Stitch
<1>1. ASSUME NEW w \in Switches, NEW k \in 1..Len(updates[w])
      PROVE  updates[w][k] \in Update /\ updates[w][k].st \in Ever /\ updates[w][k].st \in Stitch
  <2>1. updates[w] \in Seq(Update) BY DEF ListTypes
  <2>2. updates[w][k] \in Update BY <2>1
  <2>3. updates[w][k].st \in Stitch BY <2>2 DEF Update
  <2> QED BY <2>2, <2>3 DEF Ever
<1>2. Ever \subseteq Stitch BY <1>1 DEF Ever, ListTypes
<1> QED BY <1>1, <1>2

LEMMA ListInvInit == stitchInit => ListInv
<1> SUFFICES ASSUME stitchInit PROVE ListInv OBVIOUS
<1>1. /\ init \subseteq Stitch
      /\ \A x, y \in init : (x.sw = y.sw /\ x.key = y.key) => x = y
      /\ updates = [w \in Switches |-> <<>>] /\ stitches = <<>>
      /\ readAt = [w \in Switches |-> -1] /\ since = [w \in Switches |-> -1]
      /\ handled = [w \in Switches |-> 0] /\ order \in SetToSeqs(Switches)
  BY DEF stitchInit
<1>2. order \in Seq(Switches) /\ \A i, j \in 1..Len(order) : order[i] = order[j] => i = j
  BY <1>1, StitchAssumption, AnswerIsAll
<1>3. \A w \in Switches : updates[w] = <<>> /\ Len(updates[w]) = 0 BY <1>1
<1>4. updates \in [Switches -> Seq(Update)] /\ stitches \in Seq(Stitch)
  <2>1. <<>> \in Seq(Update) /\ <<>> \in Seq(Stitch) OBVIOUS
  <2> QED BY <1>1, <2>1
<1>5. ListTypes BY <1>1, <1>2, <1>3, <1>4 DEF ListTypes
<1>6. OrderFits
  <2>1. \A i \in 1..Len(order) : order[i] \in Switches BY <1>2
  <2> QED BY <1>1, <1>2, <2>1 DEF OrderFits
<1>7. UpdatesFit BY <1>3 DEF UpdatesFit
<1>8. HeldFits
  <2> SUFFICES ASSUME NEW w \in Switches
               PROVE  /\ \A x \in At(w, 0) : x \in Ever /\ x.sw = w
                      /\ \A x, y \in At(w, 0) : x.key = y.key => x = y
    BY <1>3 DEF HeldFits
  <2>1. At(w, 0) = {x \in init : x.sw = w} BY Replay DEF At
  <2> QED BY <1>1, <2>1 DEF Ever
<1>9. ListFits /\ LoneFits
  <2>1. 1..Len(stitches) = {} BY <1>1
  <2> QED BY <1>1, <2>1 DEF ListFits, LoneFits, Counted
<1> QED BY <1>5, <1>6, <1>7, <1>8, <1>9 DEF ListInv

-----------------------------------------------------------------------------
(* HOME publishes.                                                         *)

LEMMA IssueKeeps ==
  ASSUME ListInv, NEW op \in {"insert", "change", "remove"}, NEW x \in Stitch,
         Issue(op, x), op = "remove" => x \in Held(x.sw),
         NEW w0, w0 = x.sw, NEW u, u = [op |-> op, st |-> x],
         NEW N, N = Len(updates[w0])
  PROVE  ListInv'
<1>1. /\ updates' = [updates EXCEPT ![w0] = Append(updates[w0], u)]
      /\ UNCHANGED <<init, order, readAt, stitches, since, handled>>
  BY DEF Issue
<1>2. w0 \in Switches /\ u \in Update /\ u.st = x /\ u.op = op BY DEF Stitch, Update
<1>3. updates \in [Switches -> Seq(Update)] /\ updates[w0] \in Seq(Update) /\ N \in Nat
  BY <1>2 DEF ListInv, ListTypes
<1>4. /\ updates' \in [Switches -> Seq(Update)]
      /\ \A w \in Switches \ {w0} : updates'[w] = updates[w]
      /\ updates'[w0] = Append(updates[w0], u)
      /\ Len(updates'[w0]) = N + 1 /\ updates'[w0][N + 1] = u
      /\ \A k \in 1..N : updates'[w0][k] = updates[w0][k]
  BY <1>1, <1>2, <1>3
<1>5. \A w \in Switches : /\ Len(updates[w]) \in Nat /\ Len(updates'[w]) \in Nat
                          /\ Len(updates[w]) <= Len(updates'[w])
                          /\ \A k \in 1..Len(updates[w]) : updates'[w][k] = updates[w][k]
  <2> SUFFICES ASSUME NEW w \in Switches
               PROVE  /\ Len(updates[w]) \in Nat /\ Len(updates'[w]) \in Nat
                      /\ Len(updates[w]) <= Len(updates'[w])
                      /\ \A k \in 1..Len(updates[w]) : updates'[w][k] = updates[w][k]
    OBVIOUS
  <2>1. updates[w] \in Seq(Update) /\ updates'[w] \in Seq(Update) BY <1>3, <1>4
  <2>2. Len(updates[w]) \in Nat /\ Len(updates'[w]) \in Nat BY <2>1
  <2>3. CASE w = w0 BY <2>2, <2>3, <1>3, <1>4
  <2>4. CASE w # w0 BY <2>2, <2>4, <1>4
  <2> QED BY <2>3, <2>4
<1>6. \A w \in Switches : \A n \in 0..Len(updates[w]) : At(w, n)' = At(w, n)
  <2> SUFFICES ASSUME NEW w \in Switches, NEW n \in 0..Len(updates[w])
               PROVE  At(w, n)' = At(w, n)
    OBVIOUS
  <2>1. n \in Nat /\ \A k \in 1..n : updates'[w][k] = updates[w][k] BY <1>5
  <2>2. Replayed({y \in init : y.sw = w}, updates'[w], n)
          = Replayed({y \in init : y.sw = w}, updates[w], n)
    BY <2>1, ReplayLooksBack
  <2> QED BY <1>1, <2>2 DEF At
<1>7. Ever \subseteq Ever' /\ x \in Ever'
  <2>1. ASSUME NEW y \in Ever PROVE y \in Ever'
    <3>1. CASE y \in init BY <3>1, <1>1 DEF Ever
    <3>2. CASE \E w \in Switches : \E k \in 1..Len(updates[w]) : y = updates[w][k].st
      <4>1. PICK w \in Switches : \E k \in 1..Len(updates[w]) : y = updates[w][k].st BY <3>2
      <4>2. PICK k \in 1..Len(updates[w]) : y = updates[w][k].st BY <4>1
      <4>3. k \in 1..Len(updates'[w]) /\ y = updates'[w][k].st BY <4>2, <1>5
      <4> QED BY <4>3 DEF Ever
    <3> QED BY <3>1, <3>2 DEF Ever
  <2>2. x \in Ever'
    <3>1. N + 1 \in 1..Len(updates'[w0]) /\ updates'[w0][N + 1].st = x BY <1>2, <1>3, <1>4
    <3> QED BY <1>2, <3>1 DEF Ever
  <2> QED BY <2>1, <2>2
<1>8. At(w0, N + 1)' = After(At(w0, N), u)
  <2>1. \A S, journal : Replayed(S, journal, N + 1)
                          = After(Replayed(S, journal, N), journal[N + 1])
    BY SMTT(20), <1>3, Replay
  <2>2. At(w0, N)' = At(w0, N) BY <1>2, <1>3, <1>6
  <2>3. PICK S : /\ At(w0, N)' = Replayed(S, updates'[w0], N)
                 /\ At(w0, N + 1)' = Replayed(S, updates'[w0], N + 1)
    BY DEF At
  <2>4. Replayed(S, updates'[w0], N + 1)
          = After(Replayed(S, updates'[w0], N), updates'[w0][N + 1])
    BY <2>1
  <2> QED BY <1>4, <2>2, <2>3, <2>4
<1>9. ListTypes'
  <2>1. ListTypes BY DEF ListInv
  <2>2. \A w \in Switches : readAt[w] \in Int /\ since[w] \in Int /\ handled[w] \in Nat
    BY <2>1 DEF ListTypes
  <2> QED BY SMTT(20), <1>1, <1>4, <1>5, <2>1, <2>2 DEF ListTypes
<1>10. OrderFits' BY <1>1 DEF ListInv, OrderFits
<1>11. UpdatesFit'
  <2> SUFFICES ASSUME NEW w \in Switches, NEW k \in 1..Len(updates'[w])
               PROVE  /\ updates'[w][k].st.sw = w
                      /\ updates'[w][k].op = "remove" => updates'[w][k].st \in At(w, k - 1)'
    BY DEF UpdatesFit
  <2>1. CASE k \in 1..Len(updates[w])
    <3>1. k - 1 \in 0..Len(updates[w]) BY <2>1, <1>5
    <3> QED BY <2>1, <3>1, <1>5, <1>6 DEF ListInv, UpdatesFit
  <2>2. CASE k \notin 1..Len(updates[w])
    <3>1. w = w0 /\ k = N + 1 /\ k - 1 = N BY <2>2, <1>3, <1>4, <1>5
    <3>2. updates'[w][k] = u BY <3>1, <1>4
    <3>3. At(w0, N)' = At(w0, N) BY <1>2, <1>3, <1>6
    <3>4. op = "remove" => x \in At(w0, N) BY DEF Held
    <3> QED BY <3>1, <3>2, <3>3, <3>4, <1>2
  <2> QED BY <2>1, <2>2
<1>12. HeldFits'
  <2> SUFFICES ASSUME NEW w \in Switches, NEW n \in 0..Len(updates'[w])
               PROVE  /\ \A y \in At(w, n)' : y \in Ever' /\ y.sw = w
                      /\ \A y, z \in At(w, n)' : y.key = z.key => y = z
    BY DEF HeldFits
  <2>1. CASE n \in 0..Len(updates[w])
    <3>1. At(w, n)' = At(w, n) BY <2>1, <1>6
    <3> QED BY <2>1, <3>1, <1>7 DEF ListInv, HeldFits
  <2>2. CASE n \notin 0..Len(updates[w])
    <3>1. w = w0 /\ n = N + 1 BY <2>2, <1>3, <1>4, <1>5
    <3>2. At(w, n)' = After(At(w0, N), u) BY <3>1, <1>8
    <3>3. N \in 0..Len(updates[w0]) BY <1>3
    <3>4. /\ \A y \in At(w0, N) : y \in Ever /\ y.sw = w0
          /\ \A y, z \in At(w0, N) : y.key = z.key => y = z
      BY <1>2, <3>3 DEF ListInv, HeldFits
    <3>5. x.sw = w0 OBVIOUS
    <3> QED BY <3>1, <3>2, <3>4, <3>5, <1>2, <1>7 DEF After
  <2> QED BY <2>1, <2>2
<1>13. ListFits' BY <1>1, <1>7 DEF ListInv, ListFits
<1>14. LoneFits'
  <2> SUFFICES ASSUME NEW w \in Switches, NEW key \in Keys, Lone(w, key)', Counted(w)'
               PROVE  Lists(stitches, key, Of(At(w, Pos(w))', key))
    BY <1>1 DEF LoneFits, Of
  <2>1. Lone(w, key) /\ Counted(w) BY <1>1, <1>7 DEF Lone, Counted
  <2>2. Pos(w)' = Pos(w) BY <1>1 DEF Pos
  <2>3. Pos(w) \in 0..Len(updates[w])
    BY <2>1 DEF ListInv, ListTypes, Pos, Counted
  <2>4. At(w, Pos(w))' = At(w, Pos(w))
    <3> DEFINE n == Pos(w)
    <3>1. n' = n BY <2>2
    <3> HIDE DEF n
    <3>2. At(w, n)' = At(w, n) BY <2>3, <3>1, <1>6 DEF n
    <3> QED BY <3>2 DEF n
  <2> QED BY <2>1, <2>4 DEF ListInv, LoneFits
<1> QED BY <1>9, <1>10, <1>11, <1>12, <1>13, <1>14 DEF ListInv

-----------------------------------------------------------------------------
(* The list is filled, subscribed and kept.                                *)

\* A step of the list leaves HOME alone.
LEMMA HomeIsLeftAlone ==
  ASSUME ListInv, UNCHANGED <<init, updates>>
  PROVE  /\ \A w \in Switches, n \in Nat : At(w, n)' = At(w, n)
         /\ Ever' = Ever /\ \A w \in Switches, key \in Keys : Lone(w, key)' = Lone(w, key)
         /\ UpdatesFit' /\ HeldFits'
<1>1. \A w \in Switches, n \in Nat : At(w, n)' = At(w, n) BY DEF At
<1>2. Ever' = Ever BY DEF Ever
<1>3. \A w \in Switches, key \in Keys : Lone(w, key)' = Lone(w, key) BY <1>2 DEF Lone
<1>4. \A w \in Switches : updates[w] \in Seq(Update) /\ Len(updates[w]) \in Nat
  BY DEF ListInv, ListTypes
<1>5. UpdatesFit'
  <2>1. \A w \in Switches : \A k \in 1..Len(updates[w]) : k - 1 \in Nat BY <1>4
  <2> QED BY <1>1, <2>1 DEF ListInv, UpdatesFit
<1>6. HeldFits'
  <2>1. \A w \in Switches : \A n \in 0..Len(updates[w]) : n \in Nat BY <1>4
  <2> QED BY <1>1, <1>2, <2>1 DEF ListInv, HeldFits
<1> QED BY <1>1, <1>2, <1>3, <1>5, <1>6

LEMMA AskSwitchKeeps ==
  ASSUME ListInv, AskSwitch, NEW w0, w0 = Head(order), NEW n0, n0 = Len(updates[w0])
  PROVE  ListInv'
<1>1. /\ order # <<>> /\ order' = Tail(order)
      /\ readAt' = [readAt EXCEPT ![w0] = n0]
      /\ UNCHANGED <<init, updates, since, handled>>
  BY DEF AskSwitch
<1>2. PICK s \in SetToSeqs(Held(w0)) : stitches' = stitches \o s BY DEF AskSwitch
<1>3. ListTypes /\ OrderFits /\ HeldFits /\ ListFits /\ LoneFits BY DEF ListInv
<1>4. order \in Seq(Switches) /\ Len(order) \in Nat \ {0} /\ w0 = order[1] /\ w0 \in Switches
  BY <1>1, <1>3 DEF ListTypes
<1>5. readAt[w0] = -1 /\ \A w \in Switches : since[w] = -1 BY <1>1, <1>3, <1>4 DEF OrderFits
<1>6. /\ updates[w0] \in Seq(Update) /\ n0 \in Nat /\ n0 \in 0..n0
      /\ readAt \in [Switches -> Int]
  BY <1>3, <1>4 DEF ListTypes
<1>7. /\ Held(w0) = At(w0, n0)
      /\ \A x \in Held(w0) : x \in Ever /\ x.sw = w0 /\ x \in Stitch
      /\ \A x, y \in Held(w0) : x.key = y.key => x = y
  <2>1. Held(w0) = At(w0, n0) BY DEF Held
  <2> QED BY <2>1, <1>3, <1>4, <1>6, EverTypes DEF HeldFits
<1>8. /\ s \in Seq(Held(w0)) /\ s \in Seq(Stitch)
      /\ \A x \in Held(w0) : \E i \in 1..Len(s) : s[i] = x
      /\ \A i, j \in 1..Len(s) : s[i] = s[j] => i = j
  <2>1. IsFiniteSet(Held(w0))
    <3>1. Held(w0) \subseteq Stitch BY <1>7
    <3> QED BY <3>1, StitchAssumption, FS_Subset
  <2>2. s \in Seq(Held(w0))
        /\ (\A x \in Held(w0) : \E i \in 1..Len(s) : s[i] = x)
        /\ \A i, j \in 1..Len(s) : s[i] = s[j] => i = j
    BY <1>2, <2>1, AnswerIsAll
  <2>3. s \in Seq(Stitch) BY <1>7, <2>2
  <2> QED BY <2>2, <2>3
<1>9. \A i \in 1..Len(s) : s[i] \in Held(w0) BY <1>8
<1>10. stitches \in Seq(Stitch) BY <1>3 DEF ListTypes
<1>11. Joined(stitches', stitches, s) /\ stitches' \in Seq(Stitch)
  BY <1>2, <1>8, <1>10, Joining
<1>12. /\ readAt' \in [Switches -> Int] /\ readAt'[w0] = n0
       /\ \A w \in Switches \ {w0} : readAt'[w] = readAt[w]
  BY <1>1, <1>4, <1>6
<1>13. Tail(order) \in Seq(Switches) /\ Len(Tail(order)) = Len(order) - 1
       /\ \A i \in 1..Len(Tail(order)) : Tail(order)[i] = order[i + 1]
  BY <1>1, <1>4
<1>14. ListTypes'
  <2> SUFFICES ASSUME NEW w \in Switches
               PROVE  -1 <= readAt'[w] /\ readAt'[w] <= Len(updates[w])
    BY <1>1, <1>3, <1>11, <1>12, <1>13 DEF ListTypes
  <2>1. CASE w = w0 BY <2>1, <1>6, <1>12
  <2>2. CASE w # w0 BY <2>2, <1>3, <1>12 DEF ListTypes
  <2> QED BY <2>1, <2>2
<1>15. OrderFits'
  <2>1. \A i \in 1..Len(order') : i + 1 \in 1..Len(order) /\ i + 1 # 1 BY <1>1, <1>4, <1>13
  <2>2. \A i \in 1..Len(order') : order'[i] = order[i + 1] BY <1>1, <1>13
  <2>3. \A i, j \in 1..Len(order') : order'[i] = order'[j] => i = j
    <3> SUFFICES ASSUME NEW i \in 1..Len(order'), NEW j \in 1..Len(order'), order'[i] = order'[j]
                 PROVE  i = j
      OBVIOUS
    <3>1. i + 1 = j + 1 BY <2>1, <2>2, <1>3 DEF OrderFits
    <3> QED BY <3>1
  <2>4. \A i \in 1..Len(order') : readAt'[order'[i]] = -1
    <3> SUFFICES ASSUME NEW i \in 1..Len(order') PROVE readAt'[order'[i]] = -1 OBVIOUS
    <3>1. order'[i] = order[i + 1] /\ i + 1 \in 1..Len(order) /\ 1 \in 1..Len(order) /\ i + 1 # 1
      BY <2>1, <2>2, <1>4
    <3>2. order[i + 1] # order[1] BY <3>1, <1>3 DEF OrderFits
    <3>3. order[i + 1] \in Switches /\ readAt[order[i + 1]] = -1
      BY <3>1, <1>3, <1>4 DEF OrderFits
    <3> QED BY <3>1, <3>2, <3>3, <1>4, <1>12
  <2> QED BY <2>3, <2>4, <1>1, <1>5 DEF OrderFits
<1>16. UpdatesFit' /\ HeldFits' /\ Ever' = Ever
       /\ \A w \in Switches, key \in Keys : Lone(w, key)' = Lone(w, key)
  BY <1>1, HomeIsLeftAlone
<1>17. ListFits'
  <2> SUFFICES ASSUME NEW k \in 1..Len(stitches')
               PROVE  /\ stitches'[k] \in Ever
                      /\ \A w \in Switches :
                           (readAt'[w] = -1 /\ since[w] = -1) => stitches'[k].sw # w
    BY <1>1, <1>16 DEF ListFits
  <2>1. CASE k \in 1..Len(stitches) /\ stitches'[k] = stitches[k]
    <3>1. \A w \in Switches : readAt'[w] = -1 => readAt[w] = -1 BY <1>5, <1>12
    <3> QED BY <2>1, <3>1, <1>3 DEF ListFits
  <2>2. CASE k - Len(stitches) \in 1..Len(s) /\ stitches'[k] = s[k - Len(stitches)]
    <3>1. stitches'[k] \in Held(w0) BY <2>2, <1>9
    <3>2. readAt'[w0] # -1 BY <1>6, <1>12
    <3> QED BY <3>1, <3>2, <1>7
  <2>3. \/ k \in 1..Len(stitches) /\ stitches'[k] = stitches[k]
        \/ k - Len(stitches) \in 1..Len(s) /\ stitches'[k] = s[k - Len(stitches)]
    BY <1>8, <1>10, <1>11, JoinedPlaces
  <2> QED BY <2>1, <2>2, <2>3
<1>18. LoneFits'
  <2> SUFFICES ASSUME NEW w \in Switches, NEW key \in Keys, Lone(w, key), Counted(w)',
                      NEW p, p = readAt'[w]
               PROVE  Lists(stitches', key, Of(At(w, p), key))
    <3>1. \A w \in Switches : Pos(w)' = readAt'[w] BY <1>1, <1>5 DEF Pos
    <3>2. \A w \in Switches : Counted(w)' => readAt'[w] \in Nat
      BY <1>14 DEF Counted, ListTypes
    <3>3. \A w \in Switches, n \in Nat : At(w, n)' = At(w, n) BY <1>1, HomeIsLeftAlone
    <3>4. \A w \in Switches : Counted(w)' => At(w, Pos(w))' = At(w, readAt'[w])
      <4> SUFFICES ASSUME NEW w \in Switches, Counted(w)' PROVE At(w, Pos(w))' = At(w, readAt'[w])
        OBVIOUS
      <4> DEFINE n == Pos(w)
      <4>1. n' = readAt'[w] /\ n' \in Nat BY <3>1, <3>2
      <4> HIDE DEF n
      <4>2. At(w, n)' = Replayed({y \in init' : y.sw = w}, updates'[w], n') BY DEF At
      <4>3. At(w, n)' = At(w, readAt'[w]) BY <4>1, <4>2, <1>1 DEF At
      <4> QED BY <4>3 DEF n
    <3> QED BY <3>4, <1>16 DEF LoneFits, Of
  <2>1. CASE w = w0
    <3>1. p = n0 /\ At(w, p) = Held(w0) BY <2>1, <1>7, <1>12
    <3>2. \A k \in 1..Len(stitches) : stitches[k].key # key
      BY <2>1, <1>3, <1>5 DEF ListFits, Lone
    <3>3. Lists(s, key, Of(Held(w0), key))
      <4>1. \A k \in 1..Len(s) : s[k].key = key => s[k] \in Of(Held(w0), key) BY <1>9 DEF Of
      <4>2. \A x \in Of(Held(w0), key) : \E k \in 1..Len(s) : s[k] = x BY <1>8 DEF Of
      <4>3. \A j, k \in 1..Len(s) : (s[j].key = key /\ s[k].key = key) => j = k
        BY <1>7, <1>8, <1>9
      <4> QED BY <4>1, <4>2, <4>3 DEF Lists
    <3> QED BY <3>1, <3>2, <3>3, <1>8, <1>10, <1>11, AppendOwn
  <2>2. CASE w # w0
    <3>1. p = readAt[w] /\ Counted(w) /\ Pos(w) = p
      BY <2>2, <1>1, <1>5, <1>12 DEF Counted, Pos
    <3>2. Lists(stitches, key, Of(At(w, p), key)) BY <3>1, <1>3 DEF LoneFits
    <3>3. \A k \in 1..Len(s) : s[k].key # key BY <2>2, <1>7, <1>9 DEF Lone
    <3> QED BY <3>2, <3>3, <1>8, <1>10, <1>11, AppendOther
  <2> QED BY <2>1, <2>2
<1> QED BY <1>14, <1>15, <1>16, <1>17, <1>18 DEF ListInv

LEMMA NoAnswerKeeps ==
  ASSUME ListInv, NoAnswer
  PROVE  ListInv'
<1>1. /\ order # <<>> /\ order' = Tail(order)
      /\ UNCHANGED <<init, updates, readAt, stitches, since, handled>>
  BY DEF NoAnswer
<1>2. ListTypes /\ OrderFits /\ ListFits /\ LoneFits BY DEF ListInv
<1>3. order \in Seq(Switches) /\ Len(order) \in Nat \ {0} BY <1>1, <1>2 DEF ListTypes
<1>4. order' \in Seq(Switches) /\ Len(order') = Len(order) - 1
      /\ \A i \in 1..Len(order') : order'[i] = order[i + 1]
  BY <1>1, <1>3
<1>5. ListTypes'
  <2>1. \A w \in Switches : readAt[w] \in Int /\ since[w] \in Int /\ handled[w] \in Nat
    BY <1>2 DEF ListTypes
  <2> QED BY <1>1, <1>2, <1>4, <2>1 DEF ListTypes
<1>6. OrderFits'
  <2>1. \A i \in 1..Len(order') : i + 1 \in 1..Len(order) BY <1>3, <1>4
  <2>2. \A i, j \in 1..Len(order') : order'[i] = order'[j] => i = j
    <3> SUFFICES ASSUME NEW i \in 1..Len(order'), NEW j \in 1..Len(order'), order'[i] = order'[j]
                 PROVE  i = j
      OBVIOUS
    <3>1. i + 1 = j + 1 BY <1>2, <1>4, <2>1 DEF OrderFits
    <3> QED BY <3>1
  <2> QED BY <1>1, <1>2, <1>4, <2>1, <2>2 DEF OrderFits
<1>7. UpdatesFit' /\ HeldFits' /\ Ever' = Ever
      /\ (\A w \in Switches, key \in Keys : Lone(w, key)' = Lone(w, key))
      /\ \A w \in Switches, n \in Nat : At(w, n)' = At(w, n)
  BY <1>1, HomeIsLeftAlone
<1>8. ListFits' BY <1>1, <1>2, <1>7 DEF ListFits
<1>9. LoneFits'
  <2> SUFFICES ASSUME NEW w \in Switches, NEW key \in Keys, Lone(w, key), Counted(w)
               PROVE  Lists(stitches, key, Of(At(w, Pos(w)), key))
    <3>1. \A w \in Switches : Counted(w)' = Counted(w) BY <1>1 DEF Counted
    <3>2. \A w \in Switches : At(w, Pos(w))' = At(w, Pos(w)) BY <1>1 DEF At, Pos
    <3> QED BY <3>1, <3>2, <1>1, <1>7 DEF LoneFits, Of
  <2> QED BY <1>2 DEF LoneFits
<1> QED BY <1>5, <1>6, <1>7, <1>8, <1>9 DEF ListInv

LEMMA SubscribeToKeeps ==
  ASSUME ListInv, NEW w0 \in Switches, SubscribeTo(w0), NEW n0, n0 = Len(updates[w0])
  PROVE  ListInv'
<1>1. /\ order = <<>> /\ since[w0] = -1
      /\ since' = [since EXCEPT ![w0] = n0] /\ handled' = [handled EXCEPT ![w0] = n0]
      /\ UNCHANGED <<init, updates, order, readAt, stitches>>
  BY DEF SubscribeTo
<1>2. ListTypes /\ OrderFits /\ ListFits /\ LoneFits BY DEF ListInv
<1>3. /\ since \in [Switches -> Int] /\ handled \in [Switches -> Nat]
      /\ readAt \in [Switches -> Int] /\ n0 \in Nat
  BY <1>2 DEF ListTypes
<1>4. /\ since' \in [Switches -> Int] /\ handled' \in [Switches -> Nat]
      /\ since'[w0] = n0 /\ handled'[w0] = n0
      /\ \A w \in Switches \ {w0} : since'[w] = since[w] /\ handled'[w] = handled[w]
  BY <1>1, <1>3
<1>5. ListTypes'
  <2> SUFFICES ASSUME NEW w \in Switches
               PROVE  /\ -1 <= readAt[w] /\ readAt[w] <= Len(updates[w])
                      /\ handled'[w] <= Len(updates[w])
                      /\ since'[w] = -1 \/ (0 <= since'[w] /\ since'[w] <= handled'[w])
    BY <1>1, <1>2, <1>4 DEF ListTypes
  <2>1. CASE w = w0 BY <2>1, <1>2, <1>3, <1>4 DEF ListTypes
  <2>2. CASE w # w0 BY <2>2, <1>2, <1>4 DEF ListTypes
  <2> QED BY <2>1, <2>2
<1>6. OrderFits' BY <1>1, <1>2 DEF OrderFits
<1>7. UpdatesFit' /\ HeldFits' /\ Ever' = Ever
      /\ \A w \in Switches, key \in Keys : Lone(w, key)' = Lone(w, key)
  BY <1>1, HomeIsLeftAlone
<1>8. ListFits'
  <2>1. \A w \in Switches : since'[w] = -1 => since[w] = -1 BY <1>1, <1>4
  <2> QED BY <1>1, <1>2, <1>7, <2>1 DEF ListFits
<1>9. LoneFits'
  <2> SUFFICES ASSUME NEW w \in Switches, NEW key \in Keys, Lone(w, key), Counted(w)'
               PROVE  Lists(stitches, key, Of(At(w, Pos(w)), key)') 
    BY <1>1, <1>7 DEF LoneFits
  <2>1. Counted(w) /\ Pos(w)' = Pos(w)
    <3>1. CASE w = w0
      <4>1. readAt[w] # -1 /\ (n0 = -1 \/ n0 = readAt[w])
        BY <3>1, <1>1, <1>4 DEF Counted
      <4>2. Pos(w)' = n0 /\ Pos(w) = readAt[w] BY <3>1, <1>1, <1>3, <1>4 DEF Pos
      <4> QED BY <3>1, <4>1, <4>2, <1>1, <1>3 DEF Counted
    <3>2. CASE w # w0 BY <3>2, <1>1, <1>4 DEF Counted, Pos
    <3> QED BY <3>1, <3>2
  <2>2. Of(At(w, Pos(w)), key)' = Of(At(w, Pos(w)), key) BY <1>1, <2>1 DEF At, Of
  <2> QED BY <2>1, <2>2, <1>2 DEF LoneFits
<1> QED BY <1>5, <1>6, <1>7, <1>8, <1>9 DEF ListInv

\* Whatever is in the list was in it, or is what has been handed over.
LEMMA Members ==
  ASSUME NEW s \in Seq(Stitch), NEW x \in Stitch
  PROVE  /\ AddStitch(s, x) \in Seq(Stitch) /\ DropStitch(s, x) \in Seq(Stitch)
         /\ \A k \in 1..Len(AddStitch(s, x)) :
              \/ AddStitch(s, x)[k] = x
              \/ \E j \in 1..Len(s) : AddStitch(s, x)[k] = s[j]
         /\ \A k \in 1..Len(DropStitch(s, x)) : \E j \in 1..Len(s) : DropStitch(s, x)[k] = s[j]
<1>1. ASSUME NEW i \in 1..Len(s)
      PROVE  /\ RemoveAt(s, i) \in Seq(Stitch)
             /\ \A k \in 1..Len(RemoveAt(s, i)) : \E j \in 1..Len(s) : RemoveAt(s, i)[k] = s[j]
  <2> DEFINE r == RemoveAt(s, i)
  <2>1. /\ r \in Seq(Stitch) /\ Len(r) = Len(s) - 1 /\ Len(s) \in Nat
        /\ \A k \in 1..(Len(s) - 1) : r[k] = IF k < i THEN s[k] ELSE s[k + 1]
    BY RemovedAt
  <2> HIDE DEF r
  <2>2. ASSUME NEW k \in 1..Len(r) PROVE \E j \in 1..Len(s) : r[k] = s[j]
    <3>1. k \in 1..(Len(s) - 1) /\ k \in 1..Len(s) /\ k + 1 \in 1..Len(s) BY <2>1
    <3> QED BY <3>1, <2>1
  <2> QED BY <2>1, <2>2 DEF r
<1>2. /\ DropStitch(s, x) \in Seq(Stitch)
      /\ \A k \in 1..Len(DropStitch(s, x)) : \E j \in 1..Len(s) : DropStitch(s, x)[k] = s[j]
  BY <1>1, Dropped
<1>3. PICK r \in Seq(Stitch) :
        /\ AddStitch(s, x) = Append(r, x)
        /\ \/ r = s
           \/ \E i \in 1..Len(s) : r = RemoveAt(s, i)
  BY Added
<1>4. \A k \in 1..Len(r) : \E j \in 1..Len(s) : r[k] = s[j]
  <2>1. CASE r = s BY <2>1
  <2>2. CASE \E i \in 1..Len(s) : r = RemoveAt(s, i)
    <3>1. PICK i \in 1..Len(s) : r = RemoveAt(s, i) BY <2>2
    <3>2. \A k \in 1..Len(RemoveAt(s, i)) : \E j \in 1..Len(s) : RemoveAt(s, i)[k] = s[j]
      BY <1>1
    <3> QED BY <3>1, <3>2, Zenon
  <2> QED BY <2>1, <2>2, <1>3
<1>5. Joined(Append(r, x), r, <<x>>) /\ Append(r, x) \in Seq(Stitch) BY <1>3, Joining
<1>6. <<x>> \in Seq(Stitch) /\ \A k \in 1..Len(<<x>>) : <<x>>[k] = x OBVIOUS
<1>7. ASSUME NEW k \in 1..Len(Append(r, x))
      PROVE  Append(r, x)[k] = x \/ \E j \in 1..Len(s) : Append(r, x)[k] = s[j]
  <2>1. \/ k \in 1..Len(r) /\ Append(r, x)[k] = r[k]
        \/ k - Len(r) \in 1..Len(<<x>>) /\ Append(r, x)[k] = <<x>>[k - Len(r)]
    BY <1>3, <1>5, <1>6, JoinedPlaces
  <2> QED BY <2>1, <1>4, <1>6
<1> QED BY <1>2, <1>3, <1>5, <1>7

LEMMA HandOverKeeps ==
  ASSUME ListInv, NEW w0 \in Switches, HandOver(w0),
         NEW h, h = handled[w0], NEW u, u = updates[w0][h + 1], NEW x, x = u.st
  PROVE  ListInv'
<1>1. /\ since[w0] # -1 /\ h < Len(updates[w0])
      /\ stitches' = IF u.op = "remove" THEN DropStitch(stitches, x) ELSE AddStitch(stitches, x)
      /\ handled' = [handled EXCEPT ![w0] = h + 1]
      /\ UNCHANGED <<init, updates, order, readAt, since>>
  BY DEF HandOver
<1>2. ListTypes /\ OrderFits /\ UpdatesFit /\ HeldFits /\ ListFits /\ LoneFits BY DEF ListInv
<1>3. /\ handled \in [Switches -> Nat] /\ h \in Nat /\ stitches \in Seq(Stitch)
      /\ updates[w0] \in Seq(Update) /\ Len(updates[w0]) \in Nat
  BY <1>2 DEF ListTypes
<1>4. h + 1 \in 1..Len(updates[w0]) /\ h \in 0..Len(updates[w0]) BY <1>1, <1>3
<1>5. x \in Ever /\ x \in Stitch /\ x.sw = w0 BY <1>2, <1>4, EverTypes DEF UpdatesFit
<1>6. /\ handled' \in [Switches -> Nat] /\ handled'[w0] = h + 1
      /\ \A w \in Switches \ {w0} : handled'[w] = handled[w]
  BY <1>1, <1>3
<1>7. /\ stitches' \in Seq(Stitch)
      /\ \A k \in 1..Len(stitches') :
           stitches'[k] = x \/ \E j \in 1..Len(stitches) : stitches'[k] = stitches[j]
  <2>1. CASE u.op = "remove"
    <3>1. stitches' = DropStitch(stitches, x) BY <2>1, <1>1
    <3>2. /\ DropStitch(stitches, x) \in Seq(Stitch)
          /\ \A k \in 1..Len(DropStitch(stitches, x)) :
               \/ DropStitch(stitches, x)[k] = x
               \/ \E j \in 1..Len(stitches) : DropStitch(stitches, x)[k] = stitches[j]
      BY ZenonT(30), <1>3, <1>5, Members
    <3> QED BY <3>1, <3>2
  <2>2. CASE u.op # "remove"
    <3>1. stitches' = AddStitch(stitches, x) BY <2>2, <1>1
    <3>2. /\ AddStitch(stitches, x) \in Seq(Stitch)
          /\ \A k \in 1..Len(AddStitch(stitches, x)) :
               \/ AddStitch(stitches, x)[k] = x
               \/ \E j \in 1..Len(stitches) : AddStitch(stitches, x)[k] = stitches[j]
      BY <1>3, <1>5, Members
    <3> QED BY <3>1, <3>2
  <2> QED BY <2>1, <2>2
<1>8. ListTypes'
  <2> SUFFICES ASSUME NEW w \in Switches
               PROVE  /\ -1 <= readAt[w] /\ readAt[w] <= Len(updates[w])
                      /\ handled'[w] <= Len(updates[w])
                      /\ since[w] = -1 \/ (0 <= since[w] /\ since[w] <= handled'[w])
    BY <1>1, <1>2, <1>6, <1>7 DEF ListTypes
  <2>1. CASE w = w0
    <3>1. since[w0] \in Int /\ since[w0] <= h BY <1>1, <1>2 DEF ListTypes
    <3> QED BY <2>1, <3>1, <1>2, <1>3, <1>4, <1>6 DEF ListTypes
  <2>2. CASE w # w0 BY <2>2, <1>2, <1>6 DEF ListTypes
  <2> QED BY <2>1, <2>2
<1>9. OrderFits' BY <1>1, <1>2 DEF OrderFits
<1>10. UpdatesFit' /\ HeldFits' /\ Ever' = Ever
       /\ (\A w \in Switches, key \in Keys : Lone(w, key)' = Lone(w, key))
       /\ \A w \in Switches, n \in Nat : At(w, n)' = At(w, n)
  BY <1>1, HomeIsLeftAlone
<1>11. ListFits'
  <2> SUFFICES ASSUME NEW k \in 1..Len(stitches')
               PROVE  /\ stitches'[k] \in Ever
                      /\ \A w \in Switches :
                           (readAt[w] = -1 /\ since[w] = -1) => stitches'[k].sw # w
    BY <1>1, <1>10 DEF ListFits
  <2>1. CASE stitches'[k] = x BY <2>1, <1>1, <1>5
  <2>2. CASE \E j \in 1..Len(stitches) : stitches'[k] = stitches[j]
    BY <2>2, <1>2 DEF ListFits
  <2> QED BY <2>1, <2>2, <1>7
<1>12. ASSUME NEW key, NEW H, Lists(stitches, key, H), key # x.key, \A y \in H : y.key = key
       PROVE  Lists(stitches', key, H)
  BY <1>1, <1>3, <1>5, <1>12, OtherKeyIsKept
<1>13. At(w0, h + 1) = After(At(w0, h), u)
  <2>1. \A S, journal : Replayed(S, journal, h + 1)
                          = After(Replayed(S, journal, h), journal[h + 1])
    BY <1>3, Replay
  <2> QED BY <2>1 DEF At
<1>14. /\ \A y, z \in At(w0, h) : y.key = z.key => y = z
       /\ u.op = "remove" => x \in At(w0, h)
  <2>1. (h + 1) - 1 = h BY <1>3
  <2> QED BY <2>1, <1>2, <1>4 DEF HeldFits, UpdatesFit
<1>15. ASSUME Lists(stitches, x.key, Of(At(w0, h), x.key))
       PROVE  Lists(stitches', x.key, Of(At(w0, h + 1), x.key))
  <2>1. CASE u.op = "remove"
    <3>1. Of(At(w0, h), x.key) = {x} BY <2>1, <1>14 DEF Of
    <3>2. Of(At(w0, h + 1), x.key) = {}
      BY <2>1, <3>1, <1>13 DEF Of, After
    <3>3. Lists(DropStitch(stitches, x), x.key, {}) BY <3>1, <1>3, <1>5, <1>15, OwnIsDropped
    <3> QED BY <2>1, <3>2, <3>3, <1>1
  <2>2. CASE u.op # "remove"
    <3>1. Of(At(w0, h + 1), x.key) = {x} BY <2>2, <1>13 DEF Of, After
    <3>2. Lists(AddStitch(stitches, x), x.key, {x}) BY <1>3, <1>5, <1>15, OwnIsAdded
    <3> QED BY <2>2, <3>1, <3>2, <1>1
  <2> QED BY <2>1, <2>2
<1>16. LoneFits'
  <2> SUFFICES ASSUME NEW w \in Switches, NEW key \in Keys, Lone(w, key), Counted(w),
                      NEW p, p = Pos(w)'
               PROVE  Lists(stitches', key, Of(At(w, p), key))
    <3>1. \A w \in Switches : Counted(w)' = Counted(w) BY <1>1 DEF Counted
    <3>2. \A w \in Switches, key \in Keys :
            Of(At(w, Pos(w)), key)' = Of(Replayed({y \in init : y.sw = w}, updates[w], Pos(w)'), key)
      BY <1>1 DEF At, Of
    <3> QED BY <3>1, <3>2, <1>10 DEF LoneFits, At
  <2>1. Lists(stitches, key, Of(At(w, Pos(w)), key)) BY <1>2 DEF LoneFits
  <2>2. CASE w = w0
    <3>1. Pos(w) = h /\ p = h + 1 BY <2>2, <1>1, <1>6 DEF Pos
    <3>2. CASE key = x.key BY <2>1, <2>2, <3>1, <3>2, <1>15
    <3>3. CASE key # x.key
      <4>1. Of(At(w0, h + 1), key) = Of(At(w0, h), key) BY <3>3, <1>13 DEF Of, After
      <4>2. \A y \in Of(At(w0, h), key) : y.key = key BY DEF Of
      <4> QED BY <2>1, <2>2, <3>1, <3>3, <4>1, <4>2, <1>12
    <3> QED BY <3>2, <3>3
  <2>3. CASE w # w0
    <3>1. p = Pos(w) BY <2>3, <1>1, <1>6 DEF Pos
    <3>2. key # x.key BY <2>3, <1>5 DEF Lone
    <3>3. \A y \in Of(At(w, p), key) : y.key = key BY DEF Of
    <3> QED BY <2>1, <3>1, <3>2, <3>3, <1>12
  <2> QED BY <2>2, <2>3
<1> QED BY <1>8, <1>9, <1>10, <1>11, <1>16 DEF ListInv

LEMMA ListStutterKeeps == ListInv /\ UNCHANGED stitchVars => ListInv'
<1> SUFFICES ASSUME ListInv, UNCHANGED stitchVars PROVE ListInv' OBVIOUS
<1>1. UNCHANGED <<init, updates, order, readAt, stitches, since, handled>> BY DEF stitchVars
<1>2. ListTypes /\ OrderFits /\ ListFits /\ LoneFits BY DEF ListInv
<1>3. UpdatesFit' /\ HeldFits' /\ Ever' = Ever
      /\ \A w \in Switches, key \in Keys : Lone(w, key)' = Lone(w, key)
  BY <1>1, HomeIsLeftAlone
<1>4. ListTypes' /\ OrderFits' BY <1>1, <1>2 DEF ListTypes, OrderFits
<1>5. ListFits' BY <1>1, <1>2, <1>3 DEF ListFits
<1>6. LoneFits'
  <2>1. \A w \in Switches : Counted(w)' = Counted(w) BY <1>1 DEF Counted
  <2>2. \A w \in Switches : At(w, Pos(w))' = At(w, Pos(w)) BY <1>1 DEF At, Pos
  <2> QED BY <2>1, <2>2, <1>1, <1>2, <1>3 DEF LoneFits, Of
<1> QED BY <1>3, <1>4, <1>5, <1>6 DEF ListInv

LEMMA ListInvNext == ListInv /\ [stitchNext]_stitchVars => ListInv'
<1> SUFFICES ASSUME ListInv, [stitchNext]_stitchVars PROVE ListInv' OBVIOUS
<1>1. ASSUME NEW x \in Stitch, HomeInsert(x) PROVE ListInv'
  BY <1>1, IssueKeeps DEF HomeInsert
<1>2. ASSUME NEW x \in Stitch, HomeChange(x) PROVE ListInv'
  BY <1>2, IssueKeeps DEF HomeChange
<1>3. ASSUME NEW x \in Stitch, HomeRemove(x) PROVE ListInv'
  BY <1>3, IssueKeeps DEF HomeRemove
<1>4. CASE AskSwitch BY <1>4, AskSwitchKeeps
<1>5. CASE NoAnswer BY <1>5, NoAnswerKeeps
<1>6. ASSUME NEW w \in Switches, SubscribeTo(w) PROVE ListInv' BY <1>6, SubscribeToKeeps
<1>7. ASSUME NEW w \in Switches, HandOver(w) PROVE ListInv' BY <1>7, HandOverKeeps
<1>8. CASE UNCHANGED stitchVars BY <1>8, ListStutterKeeps
<1> QED BY <1>1, <1>2, <1>3, <1>4, <1>5, <1>6, <1>7, <1>8 DEF stitchNext

\* What Lists says is what the property asks for.
LEMMA ListsIsExact ==
  ASSUME NEW s, Len(s) \in Nat, NEW key, NEW H, Lists(s, key, H),
         \A x \in H : x.key = key, \A x, y \in H : x = y
  PROVE  LET listed == {k \in 1..Len(s) : s[k].key = key}
         IN  {s[k] : k \in listed} = H /\ Cardinality(listed) = Cardinality(H)
<1> DEFINE listed == {k \in 1..Len(s) : s[k].key = key}
<1>1. {s[k] : k \in listed} = H BY DEF Lists
<1>2. \A j, k \in listed : j = k BY DEF Lists
<1>3. Cardinality(listed) = Cardinality(H)
  <2>1. CASE H = {}
    <3>1. listed = {} BY <2>1 DEF Lists
    <3> QED BY <2>1, <3>1
  <2>2. CASE H # {}
    <3>1. PICK x : x \in H BY <2>2
    <3>2. H = {x} BY <3>1
    <3>3. PICK k : k \in listed BY <3>1, <1>1
    <3> HIDE DEF listed
    <3>4. listed = {k} BY <3>3, <1>2
    <3> QED BY <3>2, <3>4, FS_Singleton
  <2> QED BY <2>1, <2>2
<1> QED BY <1>1, <1>3

LEMMA ListInvIsExact == ListInv => LoneKeysAreExact
<1> SUFFICES ASSUME ListInv PROVE LoneKeysAreExact OBVIOUS
<1>1. ASSUME NEW w \in Switches, NEW key \in Keys,
             since[w] # -1, since[w] = readAt[w], Lone(w, key)
      PROVE  LET held == Of(At(w, handled[w]), key)
                 listed == {k \in 1..Len(stitches) : stitches[k].key = key}
             IN  {stitches[k] : k \in listed} = held
                 /\ Cardinality(listed) = Cardinality(held)
  <2> DEFINE held == Of(At(w, handled[w]), key)
  <2>1. Lists(stitches, key, held) BY <1>1 DEF ListInv, LoneFits, Counted, Pos
  <2>2. handled[w] \in 0..Len(updates[w]) BY DEF ListInv, ListTypes
  <2>3. (\A x \in held : x.key = key) /\ \A x, y \in held : x = y
    BY <2>2 DEF ListInv, HeldFits, Of
  <2>4. Len(stitches) \in Nat BY DEF ListInv, ListTypes
  <2> HIDE DEF held
  <2>5. LET listed == {k \in 1..Len(stitches) : stitches[k].key = key}
        IN  {stitches[k] : k \in listed} = held /\ Cardinality(listed) = Cardinality(held)
    BY <2>1, <2>3, <2>4, ListsIsExact
  <2> QED BY <2>5 DEF held
<1> QED BY <1>1, Zenon DEF LoneKeysAreExact, Lone, Of

\* A key that one switch alone uses is listed exactly as that switch has it,
\* once or not at all, if nothing was published between its answer and its
\* subscription (collect_stitches, cb_update_stitches), for any number of
\* switches, stitches and updates.
THEOREM LoneKeysHold == stitchSpec => []LoneKeysAreExact
<1>1. stitchInit => ListInv BY ListInvInit
<1>2. ListInv /\ [stitchNext]_stitchVars => ListInv' BY ListInvNext
<1>3. ListInv => LoneKeysAreExact BY ListInvIsExact
<1> QED BY <1>1, <1>2, <1>3, PTL DEF stitchSpec

-----------------------------------------------------------------------------
(* All of it together.                                                     *)

\* The routes, the stitches and the paths of a session, whichever is used.
THEOREM ControllerSessionIsSafe ==
  Spec => [](ListedIsRouted /\ DisconnectFrees /\ LoneKeysAreExact /\ PathIsWalk)
<1> DEFINE Inv == RoutesInv /\ ListInv /\ PathInv
<1>1. Init => Inv
  <2> SUFFICES ASSUME Init PROVE Inv OBVIOUS
  <2>1. RoutesInv /\ ListInv BY RoutesInvInit, ListInvInit DEF Init
  <2>2. PathInv
    <3>1. CASE pathInit BY <3>1, PathInvInit
    <3>2. CASE PathRests
      <4>1. NoPath \in [Legs -> Seq(PathStitch)]
        <5>1. <<>> \in Seq(PathStitch) OBVIOUS
        <5> QED BY <5>1 DEF NoPath
      <4>2. [leg \in Legs |-> From[leg]] \in [Legs -> Iface] BY PathAssumption
      <4> QED BY <3>2, <4>1, <4>2, StartFits DEF PathRests
    <3> QED BY <3>1, <3>2 DEF Init
  <2> QED BY <2>1, <2>2
<1>2. Inv /\ [Next]_vars => Inv'
  <2> SUFFICES ASSUME Inv, [Next]_vars PROVE Inv' OBVIOUS
  <2>1. [routesNext]_routesVars /\ [stitchNext]_stitchVars /\ [pathNext]_pathVars
    <3>1. CASE Next
      <4>1. \/ routesNext /\ UNCHANGED <<stitchVars, pathVars>>
            \/ stitchNext /\ UNCHANGED <<routesVars, pathVars>>
            \/ pathNext /\ UNCHANGED <<routesVars, stitchVars>>
        BY <3>1, Zenon DEF Next
      <4>2. \/ routesNext /\ UNCHANGED stitchVars /\ UNCHANGED pathVars
            \/ stitchNext /\ UNCHANGED routesVars /\ UNCHANGED pathVars
            \/ pathNext /\ UNCHANGED routesVars /\ UNCHANGED stitchVars
        BY <4>1
      <4> QED BY <4>2, Zenon
    <3>2. CASE UNCHANGED vars
      <4>1. UNCHANGED routesVars /\ UNCHANGED stitchVars /\ UNCHANGED pathVars
        BY <3>2 DEF vars
      <4> QED BY <4>1, Zenon
    <3> QED BY <3>1, <3>2
  <2> QED BY <2>1, RoutesInvStep, ListInvNext, PathInvStep
<1>3. Inv => ListedIsRouted /\ DisconnectFrees /\ LoneKeysAreExact /\ PathIsWalk
  BY RoutesInvLists, RoutesInvFrees, ListInvIsExact, PathInvIsWalk
<1> QED BY <1>1, <1>2, <1>3, PTL DEF Spec
=============================================================================
