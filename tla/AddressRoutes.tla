--------------------------- MODULE AddressRoutes ----------------------------
(***************************************************************************)
(* The routes of a HOME system as a HomeController keeps them              *)
(* (ldf/models/home_controller/routes.py): the dictionary of all stream    *)
(* addresses, filled once and kept by the address updates, the routes that *)
(* are read off it, and the calls that make and break routes.              *)
(*                                                                         *)
(* HOME's addresses are a journal: an entry per published update with the  *)
(* peers every address had then.  One update may carry several addresses.  *)
(***************************************************************************)
EXTENDS Integers, Sequences, FiniteSets

CONSTANTS
  Sources,        \* IDs of sender addresses
  Destinations,   \* IDs of receiver addresses
  None,           \* no address: an ID that is none
  MaxLog          \* bound: length of HOME's journal

Addrs == Sources \cup Destinations

ASSUME RoutesAssumption ==
  /\ None \notin Addrs /\ Sources \cap Destinations = {} /\ MaxLog \in Nat \ {0}

VARIABLES
  log,      \* HOME: journal of records [ids, tab]
  work,     \* HOME: accepted requests not yet carried out
  pc,       \* phase of the controller
  fetched,  \* journal position the addresses were fetched at, 0 = not yet
  addrs,    \* self._addrs: ID -> peers, Gone = no such key
  base,     \* journal position of the subscription
  cursor,   \* last update handled
  call      \* the call of create or disconnect under way or made last

routesVars == <<log, work, pc, fetched, addrs, base, cursor, call>>
controller == <<pc, fetched, addrs, base, cursor>>

Gone == {None}
Peers == (SUBSET Addrs) \cup {Gone}
Pairs == Sources \X Destinations

\* `quiet' is history: when the call was made the cache showed HOME's current
\* addresses, and nobody else has routed since.
Call == [kind: {"none", "create", "disconnect"}, routes: SUBSET Pairs,
         st: {"idle", "asked", "returned", "refused", "raised"}, quiet: BOOLEAN]

Idle == [kind |-> "none", routes |-> {}, st |-> "idle", quiet |-> FALSE]

RoutesTypeOK ==
  /\ log \in Seq([ids: SUBSET Addrs, tab: [Addrs -> Peers]])
  /\ Len(log) \in 1..MaxLog
  /\ work \subseteq [op: {"create", "disconnect"}, pair: Pairs]
  /\ pc \in {"new", "building", "raised", "ready", "online"}
  /\ fetched \in 0..Len(log) /\ base \in 0..Len(log) /\ cursor \in 0..Len(log)
  /\ addrs \in [Addrs -> Peers]
  /\ call \in Call

-----------------------------------------------------------------------------
(* HOME.                                                                    *)

now == log[Len(log)].tab

Publish(tab) ==
  /\ Len(log) < MaxLog /\ tab # now
  /\ log' = Append(log, [ids |-> {a \in Addrs : tab[a] # now[a]}, tab |-> tab])

\* HOME's tables of senders and receivers agree.
Agree(tab) ==
  \A s \in Sources, d \in Destinations :
    /\ tab[s] = Gone \/ tab[s] \subseteq Destinations
    /\ tab[d] = Gone \/ (tab[d] \subseteq Sources /\ Cardinality(tab[d]) <= 1)
    /\ (tab[s] # Gone /\ tab[d] # Gone) => (s \in tab[d] <=> d \in tab[s])

\* An address appears, disappears, or another client routes.
HomeOther ==
  /\ \/ \E s \in Sources, p \in (SUBSET Destinations) \cup {Gone} :
          Publish([now EXCEPT ![s] = p])
     \/ \E d \in Destinations, p \in {{x} : x \in Sources} \cup {{}, Gone} :
          Publish([now EXCEPT ![d] = p])
  /\ call' = [call EXCEPT !.quiet = FALSE]
  /\ UNCHANGED <<work, controller>>

Without(p, x) == IF p = Gone THEN Gone ELSE p \ {x}

\* The receiver of the pair gets the sender; its former one loses it.
Routed(tab, s, d) ==
  [a \in Addrs |-> IF a = d THEN {s}
                   ELSE IF a = s THEN tab[a] \cup {d} ELSE Without(tab[a], d)]

\* The receiver loses its sender, whoever that is.
Cleared(tab, d) ==
  [a \in Addrs |-> IF a = d THEN {} ELSE Without(tab[a], d)]

CarryOut(t) ==
  /\ t \in work
  /\ work' = work \ {t}
  /\ LET s == t.pair[1]
         d == t.pair[2]
         tab == IF t.op = "create" THEN Routed(now, s, d) ELSE Cleared(now, d)
     IN  IF now[d] = Gone \/ (t.op = "create" /\ now[s] = Gone) \/ tab = now
         THEN UNCHANGED log ELSE Publish(tab)
  /\ UNCHANGED <<controller, call>>

-----------------------------------------------------------------------------
(* The dictionary of addresses.                                             *)

\* HomeController.create: collect_addresses.
Collect ==
  /\ pc = "new"
  /\ pc' = "building"
  /\ fetched' = Len(log) /\ addrs' = now
  /\ UNCHANGED <<log, work, base, cursor, call>>

\* HOME answers this request, or another of create, with an error or not at all.
CreateRaises ==
  /\ pc \in {"new", "building"}
  /\ pc' = "raised"
  /\ UNCHANGED <<log, work, fetched, addrs, base, cursor, call>>

Returned ==
  /\ pc = "building"
  /\ pc' = "ready"
  /\ UNCHANGED <<log, work, fetched, addrs, base, cursor, call>>

Subscribe ==
  /\ pc = "ready"
  /\ pc' = "online"
  /\ base' = Len(log) /\ cursor' = Len(log)
  /\ UNCHANGED <<log, work, fetched, addrs, call>>

\* Mutant of Deliver: only the first address of an update is looked at.
Deliver_First ==
  /\ pc = "online" /\ cursor < Len(log)
  /\ LET u == log[cursor + 1]
         a == CHOOSE x \in u.ids : TRUE
     IN  addrs' = [addrs EXCEPT ![a] = u.tab[a]]
  /\ cursor' = cursor + 1
  /\ UNCHANGED <<log, work, pc, fetched, base, call>>

\* cb_update_addrs: every address of the update is stored, or removed.
Deliver ==
  /\ pc = "online" /\ cursor < Len(log)
  /\ LET u == log[cursor + 1]
     IN  addrs' = [a \in Addrs |-> IF a \in u.ids THEN u.tab[a] ELSE addrs[a]]
  /\ cursor' = cursor + 1
  /\ UNCHANGED <<log, work, pc, fetched, base, call>>

-----------------------------------------------------------------------------
(* Routes and calls.                                                        *)

Active(A) == {a \in A : addrs[a] \notin {Gone, {}}}

\* _active_routes: a sender that has peers, and a receiver that lists it.
Candidates == {r \in Active(Sources) \X Active(Destinations) : r[1] \in addrs[r[2]]}

\* Mutant of Listings: the senders' own peers are taken for the routes.
Listings_BySource ==
  {{r \in Pairs : r[1] \in Active(Sources) /\ r[2] \in addrs[r[1]]}}

\* Of each sender only the first receiver of the dictionary is listed: any one,
\* as far as the order of the dictionary is left open.
Listings ==
  LET S == {r[1] : r \in Candidates}
  IN  {{<<x, first[x]>> : x \in S} :
         first \in {f \in [S -> Destinations] : \A x \in S : <<x, f[x]>> \in Candidates}}

Quiet == pc = "online" /\ cursor = Len(log) /\ addrs = now /\ Agree(now) /\ work = {}

\* create(conns): any pairs.  disconnect(routes): the routes that are listed.
Create ==
  /\ pc \in {"ready", "online"} /\ call.st # "asked"
  /\ \E R \in SUBSET Pairs :
       call' = [kind |-> "create", routes |-> R, st |-> "asked", quiet |-> Quiet]
  /\ UNCHANGED <<log, work, controller>>

Disconnect ==
  /\ pc \in {"ready", "online"} /\ call.st # "asked"
  /\ \E R \in Listings :
       call' = [kind |-> "disconnect", routes |-> R, st |-> "asked", quiet |-> Quiet]
  /\ UNCHANGED <<log, work, controller>>

Accepted ==
  /\ call.st = "asked"
  /\ work' = work \cup {[op |-> call.kind, pair |-> r] : r \in call.routes}
  /\ call' = [call EXCEPT !.st = "returned"]
  /\ UNCHANGED <<log, controller>>

\* HOME refuses: disconnect raises; create logs it and returns its routes.
Refused ==
  /\ call.st = "asked"
  /\ call' = [call EXCEPT !.st = IF call.kind = "create" THEN "refused" ELSE "raised"]
  /\ UNCHANGED <<log, work, controller>>

-----------------------------------------------------------------------------
routesInit ==
  /\ \E tab \in [Addrs -> Peers] :
       /\ Agree(tab)
       /\ log = <<[ids |-> {}, tab |-> tab]>>
  /\ work = {}
  /\ pc = "new" /\ fetched = 0 /\ base = 0 /\ cursor = 0
  /\ addrs = [a \in Addrs |-> Gone]
  /\ call = Idle

ControllerStep == Collect \/ CreateRaises \/ Returned \/ Subscribe \/ Deliver

routesNext ==
  \/ HomeOther
  \/ \E t \in work : CarryOut(t)
  \/ ControllerStep
  \/ Create \/ Disconnect \/ Accepted \/ Refused

routesSpec == routesInit /\ [][routesNext]_routesVars

-----------------------------------------------------------------------------
(* Properties.                                                              *)

Touched(a, k) == a \in log[k].ids

Followed(a) ==
  \/ \A k \in (fetched + 1)..base : ~Touched(a, k)
  \/ \E k \in (base + 1)..cursor : Touched(a, k)

\* Every listed route is one HOME had at the update handled last: the receiver
\* listed the sender and the sender was routed -- unless an update of either
\* was lost between the fetch and the subscription.
ListedIsRouted ==
  pc = "online" =>
    \A R \in Listings : \A r \in R :
      (Followed(r[1]) /\ Followed(r[2])) =>
        LET tab == log[cursor].tab
        IN  /\ tab[r[2]] # Gone /\ r[1] \in tab[r[2]]
            /\ tab[r[1]] \notin {Gone, {}}

\* Breaking the listed routes, with nobody else routing: when HOME has carried
\* it out and the updates are handled, each of these receivers is free.
DisconnectFrees ==
  (/\ call.kind = "disconnect" /\ call.st = "returned" /\ call.quiet
   /\ work = {} /\ cursor = Len(log))
  => \A r \in call.routes : addrs[r[2]] = {}

-----------------------------------------------------------------------------
(* Claims of the repository that the code does not keep.                    *)

\* tests/hoc/test_routes.py:128-130: after disconnecting every route that is
\* listed, "Some routes are still active" is not to happen.
DisconnectAllFreesSources ==
  (/\ call.kind = "disconnect" /\ call.st = "returned" /\ call.quiet
   /\ work = {} /\ cursor = Len(log) /\ \A a \in Addrs : addrs[a] # Gone)
  => Active(Sources) = {}

\* routes.py:250, of create: "Returns: ... The created routes".
RefusedIsNotReturned == call.st # "refused"
=============================================================================
