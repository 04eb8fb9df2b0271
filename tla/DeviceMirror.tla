---------------------------- MODULE DeviceMirror ----------------------------
(***************************************************************************)
(* The cached endpoint of one device model (ldf/models/base.py) against    *)
(* the endpoint HOME holds for it.                                         *)
(*                                                                         *)
(* HOME's endpoint is a journal: entry k of `log' is the k-th update HOME  *)
(* published, with the section as it is after it.  The model object fetches *)
(* a copy, then fetches the addresses, and only then subscribes; what HOME *)
(* publishes in between reaches nobody.  A "reset" update makes the handler *)
(* fetch again in the middle of the stream: what HOME published before it  *)
(* answered is still queued and is replayed onto the newer copy.  A fetch  *)
(* may also fail: sync_endpoint drops the error of an answer, and a request *)
(* that is not answered raises.                                            *)
(*                                                                         *)
(* The repeated section of the protobuf message is abstracted to the       *)
(* sequence of values cached for each ID: items of different IDs never     *)
(* touch each other, a healthy cache has at most one value for an ID.      *)
(***************************************************************************)
EXTENDS Integers, Sequences

CONSTANTS
  Ids,      \* IDs of the items of a repeated section (sords, terminals, ...)
  Vals,     \* contents an item can have
  Labels,   \* UserInfo labels, Blank among them
  Blank,    \* the empty string: protobuf does not transmit it
  None,     \* no such item; no ID
  MaxLog    \* bound: length of the journal

ASSUME ConstAssumption ==
  /\ MaxLog \in Nat \ {0}
  /\ None \notin Vals
  /\ None \notin Ids
  /\ Blank \in Labels

VARIABLES
  log,      \* HOME: journal of the endpoint, entry 1 is the initial endpoint
  pc,       \* where the context manager or the update handler is
  snap,     \* journal position HOME answered endpoints_get at, 0 = no answer
  local,    \* the cached endpoint
  asof,     \* journal position of this session's last fetch, 0 = no copy
  base,     \* last journal position passed when that fetch ended
  cursor    \* journal position of the last update handled, 0 = unsubscribed

vars == <<log, pc, snap, local, asof, base, cursor>>
client == <<pc, snap, local, asof, base, cursor>>

Section == [items: [Ids -> Vals \cup {None}], label: Labels]
Entry == [op: {"init", "insert", "change", "remove", "userinfo", "reset"},
          id: Ids \cup {None}, sec: Section]
Cache == [items: [Ids -> Seq(Vals)], label: Labels]

TypeOK ==
  /\ log \in Seq(Entry) /\ Len(log) \in 1..MaxLog
  /\ pc \in {"away", "getting", "addresses", "subscribing", "online",
             "resetting"}
  /\ snap \in 0..Len(log)
  /\ local \in Cache
  /\ asof \in 0..Len(log) /\ base \in 0..Len(log) /\ cursor \in 0..Len(log)

-----------------------------------------------------------------------------
(* HOME.                                                                    *)

now == log[Len(log)].sec

Publish(op, i, sec) ==
  /\ Len(log) < MaxLog
  /\ log' = Append(log, [op |-> op, id |-> i, sec |-> sec])
  /\ UNCHANGED client

HomeInsert(i, v) ==
  /\ now.items[i] = None
  /\ Publish("insert", i, [now EXCEPT !.items[i] = v])

HomeChange(i, v) ==
  /\ now.items[i] # None
  /\ Publish("change", i, [now EXCEPT !.items[i] = v])

HomeRemove(i) ==
  /\ now.items[i] # None
  /\ Publish("remove", i, [now EXCEPT !.items[i] = None])

HomeUserInfo(l) == Publish("userinfo", None, [now EXCEPT !.label = l])

\* A reset announces that any item may have changed.
HomeReset(items) == Publish("reset", None, [now EXCEPT !.items = items])

\* HOME answers the endpoints_get request that is outstanding.
ServeGet ==
  /\ pc \in {"getting", "resetting"}
  /\ snap = 0
  /\ snap' = Len(log)
  /\ UNCHANGED <<log, pc, local, asof, base, cursor>>

-----------------------------------------------------------------------------
(* The model object.                                                        *)

\* The repeated-section form of one optional item.
AsSeq(v) == IF v = None THEN <<>> ELSE <<v>>

Copy(sec) == [items |-> [i \in Ids |-> AsSeq(sec.items[i])],
              label |-> sec.label]

\* `async with device' begins: connect and ask for the endpoint.
Enter ==
  /\ pc = "away"
  /\ pc' = "getting"
  /\ UNCHANGED <<log, snap, local, asof, base, cursor>>

\* sync_endpoint returns: the whole cached endpoint is replaced.
InstallFirst ==
  /\ pc = "getting" /\ snap # 0
  /\ local' = Copy(log[snap].sec)
  /\ asof' = snap /\ snap' = 0
  /\ pc' = "addresses"
  /\ UNCHANGED <<log, base, cursor>>

\* What the cache holds after a fetch that an error answered: sync_endpoint
\* stores the endpoint of the answer all the same, and an error carries none.
Nothing == [items |-> [i \in Ids |-> <<>>], label |-> Blank]

\* sync_endpoint drops the error of the first fetch; __aenter__ goes on.
FirstFetchRefused ==
  /\ pc = "getting"
  /\ local' = Nothing
  /\ asof' = 0 /\ snap' = 0
  /\ pc' = "addresses"
  /\ UNCHANGED <<log, base, cursor>>

\* No responder or no answer in time, to any request of __aenter__: it raises,
\* the body of `async with' is not entered, and what is cached stays.
EnterRaises ==
  /\ pc \in {"getting", "addresses", "subscribing"}
  /\ pc' = "away"
  /\ snap' = 0 /\ asof' = 0
  /\ UNCHANGED <<log, local, base, cursor>>

\* addresses._sync_state returns, with or without an error (AddressPatch).
AddressesSynced ==
  /\ pc = "addresses"
  /\ pc' = "subscribing"
  /\ UNCHANGED <<log, snap, local, asof, base, cursor>>

\* The broker takes the subscription: later updates are queued from here on.
Subscribe ==
  /\ pc = "subscribing"
  /\ pc' = "online"
  /\ base' = Len(log) /\ cursor' = Len(log)
  /\ UNCHANGED <<log, snap, local, asof>>

\* Mutant of Apply: "change" without removing the stale item.
Apply_KeepStale(c, e) ==
  CASE e.op \in {"insert", "change"} ->
         [c EXCEPT !.items[e.id] = Append(@, e.sec.items[e.id])]
    [] e.op = "remove" -> [c EXCEPT !.items[e.id] = <<>>]
    [] e.op = "userinfo" ->
         IF e.sec.label = Blank THEN c ELSE [c EXCEPT !.label = e.sec.label]
    [] OTHER -> c

\* One update merged into the cache: "insert" appends whatever is there;
\* "change" appends and then removes every older item of the ID; "remove"
\* removes all of them.  UserInfo is not iterable, so nothing is stale, and a
\* blank field is not on the wire, so a merge leaves the cached one.
Apply(c, e) ==
  CASE e.op = "insert" -> [c EXCEPT !.items[e.id] = Append(@, e.sec.items[e.id])]
    [] e.op = "remove" -> [c EXCEPT !.items[e.id] = <<>>]
    [] e.op = "change" -> [c EXCEPT !.items[e.id] = <<e.sec.items[e.id]>>]
    [] e.op = "userinfo" ->
         IF e.sec.label = Blank THEN c ELSE [c EXCEPT !.label = e.sec.label]
    [] OTHER -> c

\* cb_update_endpoint on the next queued update, "reset" excepted.
Deliver ==
  /\ pc = "online" /\ cursor < Len(log)
  /\ log[cursor + 1].op # "reset"
  /\ local' = Apply(local, log[cursor + 1])
  /\ cursor' = cursor + 1
  /\ UNCHANGED <<log, pc, snap, asof, base>>

\* Mutant of DeliverReset: the reset stays in the queue and comes again.
DeliverReset_Again ==
  /\ pc = "online" /\ cursor < Len(log)
  /\ log[cursor + 1].op = "reset"
  /\ pc' = "resetting"
  /\ UNCHANGED <<log, snap, local, asof, base, cursor>>

\* cb_update_endpoint on a "reset": asks for the endpoint and waits; the
\* subscription hands over nothing else until the handler returns.
DeliverReset ==
  /\ pc = "online" /\ cursor < Len(log)
  /\ log[cursor + 1].op = "reset"
  /\ pc' = "resetting"
  /\ cursor' = cursor + 1
  /\ UNCHANGED <<log, snap, local, asof, base>>

\* The answer is installed; updates up to it are still in the queue.
InstallReset ==
  /\ pc = "resetting" /\ snap # 0
  /\ local' = Copy(log[snap].sec)
  /\ asof' = snap /\ base' = cursor
  /\ snap' = 0
  /\ pc' = "online"
  /\ UNCHANGED <<log, cursor>>

\* Mutant of ResetFails: the handler asks again until it gets an endpoint.
ResetFails_Retry ==
  /\ pc = "resetting"
  /\ snap' = 0
  /\ UNCHANGED <<log, pc, local, asof, base, cursor>>

\* The fetch of a reset fails.  Its error is dropped and nothing is stored for
\* the copy, or it raises, which ends the handler with the old copy in place:
\* either way the subscription goes on behind the reset.
ResetFails ==
  /\ pc = "resetting"
  /\ local' \in {Nothing, local}
  /\ asof' = 0 /\ base' = cursor
  /\ snap' = 0
  /\ pc' = "online"
  /\ UNCHANGED <<log, cursor>>

\* `async with' ends: the connection and its queue go, the cache stays.
Exit ==
  /\ pc \in {"online", "resetting"}
  /\ pc' = "away"
  /\ snap' = 0 /\ asof' = 0 /\ base' = 0 /\ cursor' = 0
  /\ UNCHANGED <<log, local>>

-----------------------------------------------------------------------------
Init ==
  /\ \E sec \in Section : log = <<[op |-> "init", id |-> None, sec |-> sec]>>
  /\ pc = "away"
  /\ snap = 0
  /\ local = Nothing
  /\ asof = 0 /\ base = 0 /\ cursor = 0

HomeStep ==
  \/ \E i \in Ids, v \in Vals : HomeInsert(i, v) \/ HomeChange(i, v)
  \/ \E i \in Ids : HomeRemove(i)
  \/ \E l \in Labels : HomeUserInfo(l)
  \/ \E items \in [Ids -> Vals \cup {None}] : HomeReset(items)

ClientStep ==
  \/ InstallFirst \/ FirstFetchRefused \/ EnterRaises
  \/ AddressesSynced \/ Subscribe
  \/ Deliver \/ DeliverReset \/ InstallReset \/ ResetFails

Next == HomeStep \/ ServeGet \/ Enter \/ ClientStep \/ Exit

Spec == Init /\ [][Next]_vars

\* The event loop runs every ready callback and HOME answers requests; the
\* caller is free never to enter or to leave, HOME is free to be silent.
Fairness == WF_vars(ServeGet) /\ WF_vars(ClientStep)

FairSpec == Spec /\ Fairness

-----------------------------------------------------------------------------
(* What the cache promises.                                                 *)

Touches(k, i) == log[k].id = i \/ log[k].op = "reset"

\* The last fetch failed, or HOME touched i between answering it and the place
\* in the stream where the copy was installed: such an update was lost
\* (asof < base) or is handled a second time (base < asof).
Disturbed(i) ==
  \/ asof = 0
  \/ \E k \in 1..Len(log) :
       /\ Touches(k, i)
       /\ (asof < k /\ k <= base) \/ (base < k /\ k <= asof)

\* A "change" or "remove" of i was handled since: it drops older items.
Healed(i) ==
  \E k \in 1..Len(log) :
    /\ base < k /\ k <= cursor
    /\ log[k].id = i /\ log[k].op \in {"change", "remove"}

Sure(i) == pc = "online" /\ (~Disturbed(i) \/ Healed(i))

\* A cached item is what HOME had at the journal position handled last, once
\* and only once, unless the last fetch failed or raced with an update of that
\* item and no later "change" or "remove" of it repaired that
\* (cb_update_endpoint, sync_endpoint, __aenter__).
SureIsExact ==
  \A i \in Ids : Sure(i) => local.items[i] = AsSeq(log[cursor].sec.items[i])

-----------------------------------------------------------------------------
(* The cache implements PartialReplica: shown items are the sure ones.      *)

Unsure == <<None>>

View == [i \in Ids |-> IF Sure(i) THEN local.items[i] ELSE Unsure]

Replica == INSTANCE PartialReplica
  WITH hist <- [k \in 1..Len(log) |->
                  [i \in Ids |-> AsSeq(log[k].sec.items[i])]],
       pos <- cursor,
       view <- View,
       States <- {AsSeq(x) : x \in Vals \cup {None}},
       MaxHist <- MaxLog

\* Certain items follow HOME's journal in order, none skipped, none repeated,
\* and a certain item stays certain until a reset or the end of the session.
ImplementsReplica == Replica!Spec

\* A model that was entered gets online or raises, a reset ends with or without
\* a new copy, and the stream is worked off: nothing waits for an answer for ever.
CatchesUp ==
  (pc \notin {"away"}) ~> (pc = "away" \/ (pc = "online" /\ cursor = Len(log)))

-----------------------------------------------------------------------------
(* Claims of the documentation that the code does not keep.                 *)

\* external_usage_agreement.md:24, "update the cached data in real-time".
SettledItemsAreCurrent ==
  (pc = "online" /\ cursor = Len(log) /\ \A k \in 1..Len(log) : log[k].op # "reset")
  => \A i \in Ids : local.items[i] = AsSeq(now.items[i])

\* CHANGELOG.md:429, updates "are handled appropriately": once online and
\* with no update lost, an item is cached once.
NoDuplicateItems ==
  (pc = "online" /\ asof >= base)
  => \A i \in Ids : Len(local.items[i]) <= 1
=============================================================================
