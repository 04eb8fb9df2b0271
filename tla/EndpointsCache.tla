--------------------------- MODULE EndpointsCache ---------------------------
(***************************************************************************)
(* The HOME devices list as a HomeController keeps it                      *)
(* (ldf/models/home_controller/__init__.py and endpoints.py): three        *)
(* dictionaries, one per kind of device, filled once by `create' and kept  *)
(* by the device updates, and the calls that look things up in it or wait  *)
(* for it.                                                                 *)
(*                                                                         *)
(* HOME's list is a journal: one entry per published update, with the list *)
(* as it was then.  The kind of a device is told from the flags HOME sends *)
(* with it, and may differ from one update to the next.                    *)
(***************************************************************************)
EXTENDS Integers, Sequences, FiniteSets

CONSTANTS
  Ids,      \* HOME IDs
  Labels,   \* labels of devices
  None,     \* no entry
  Calls,    \* calls the test makes
  MaxLog    \* bound: length of HOME's journal

Kinds == {"switch", "app", "device"}

Entry == [kind: Kinds, label: Labels]

ASSUME CacheAssumption == None \notin Entry /\ None \notin Ids /\ MaxLog \in Nat \ {0}

VARIABLES
  log,      \* HOME: journal of records [op, id, devs]
  work,     \* HOME: accepted registrations and deletions not yet carried out
  pc,       \* phase of the controller
  listed,   \* journal position of the devices list fetched by create, 0 = none
  cache,    \* self.endpoints: Kinds -> Ids -> Entry, None = no such key
  base,     \* journal position of the subscription
  cursor,   \* last update handled
  call      \* the calls, see Call

vars == <<log, work, pc, listed, cache, base, cursor, call>>
controller == <<pc, listed, cache, base, cursor>>

Call == [kind: {"none", "wait", "wait_gone", "create_proxy", "remove_proxies",
                "purge", "create_model"},
         st: {"idle", "asked", "waiting", "ok", "RuntimeError", "TimeoutError",
              "UnboundLocalError"},
         id: Ids \cup {None}, label: Labels \cup {None}]

Idle == [kind |-> "none", st |-> "idle", id |-> None, label |-> None]

TypeOK ==
  /\ log \in Seq([op: {"init", "insert", "change", "remove"}, id: Ids \cup {None},
                  devs: [Ids -> Entry \cup {None}]])
  /\ Len(log) \in 1..MaxLog
  /\ work \subseteq [op: {"insert", "remove"}, id: Ids \cup {None},
                     label: Labels \cup {None}]
  /\ pc \in {"collecting", "building", "raised", "ready", "subscribing", "online", "closed"}
  /\ listed \in 0..Len(log) /\ base \in 0..Len(log) /\ cursor \in 0..Len(log)
  /\ cache \in [Kinds -> [Ids -> Entry \cup {None}]]
  /\ call \in [Calls -> Call]

-----------------------------------------------------------------------------
(* HOME.                                                                    *)

now == log[Len(log)].devs

Publish(op, i, e) ==
  /\ Len(log) < MaxLog
  /\ log' = Append(log, [op |-> op, id |-> i, devs |-> [now EXCEPT ![i] = e]])

HomeInsert(i, e) == now[i] = None /\ Publish("insert", i, e)
HomeChange(i, e) == now[i] # None /\ Publish("change", i, e)
HomeRemove(i) == now[i] # None /\ Publish("remove", i, None)

HomeStep ==
  /\ \E i \in Ids : \/ \E e \in Entry : HomeInsert(i, e) \/ HomeChange(i, e)
                    \/ HomeRemove(i)
  /\ UNCHANGED <<work, controller, call>>

\* HOME carries out a registration under a new ID, a deletion or a purge.
CarryOut(t) ==
  /\ t \in work
  /\ work' = work \ {t}
  /\ \/ /\ t.op = "insert"
        /\ \E i \in Ids : HomeInsert(i, [kind |-> "device", label |-> t.label])
     \/ t.op = "remove" /\ HomeRemove(t.id)
     \/ t.op = "remove" /\ now[t.id] = None /\ UNCHANGED log
  /\ UNCHANGED <<controller, call>>

-----------------------------------------------------------------------------
(* HomeController.create from its first request on, and the cache.          *)

\* collect_and_sort_endpoints: the answer, sorted by kind.
Collect ==
  /\ pc = "collecting"
  /\ listed' = Len(log)
  /\ cache' = [k \in Kinds |-> [i \in Ids |->
                IF now[i] # None /\ now[i].kind = k THEN now[i] ELSE None]]
  /\ pc' = "building"
  /\ UNCHANGED <<log, work, base, cursor, call>>

\* Proxies, sections, addresses, stitches, templates and snapshots have been
\* fetched; the subscription task is created and the controller returned.
Returned ==
  /\ pc = "building"
  /\ pc' = "ready"
  /\ UNCHANGED <<log, work, listed, cache, base, cursor, call>>

\* HOME answers one of these requests with an error or not at all: create raises.
CreateRaises ==
  /\ pc \in {"collecting", "building"}
  /\ pc' = "raised"
  /\ UNCHANGED <<log, work, listed, cache, base, cursor, call>>

\* _run_subscriptions: connected and subscribed to update.devices ...
Subscribe ==
  /\ pc = "ready"
  /\ pc' = "subscribing"
  /\ base' = Len(log) /\ cursor' = Len(log)
  /\ UNCHANGED <<log, work, listed, cache, call>>

\* ... and to all the others.
Subscribed ==
  /\ pc = "subscribing"
  /\ pc' = "online"
  /\ UNCHANGED <<log, work, listed, cache, base, cursor, call>>

\* One of them failed: the error is logged and the connection closed, the cache
\* stays as it is.
SubscribeFails ==
  /\ pc \in {"ready", "subscribing"}
  /\ pc' = "closed"
  /\ UNCHANGED <<log, work, listed, cache, base, cursor, call>>

\* Mutant of Add: the entry of another device is dropped with it.
Add_Alone(c, i, e) == [c EXCEPT ![e.kind] = [j \in Ids |-> IF j = i THEN e ELSE None]]

\* _add_to_cache: under the kind of the new entry; an older entry of another
\* kind is left alone.
Add(c, i, e) == [c EXCEPT ![e.kind][i] = e]

\* Where a lookup over self.endpoints finds the ID first.
FirstKind(c, i) ==
  CASE c["switch"][i] # None -> "switch"
    [] c["app"][i] # None -> "app"
    [] OTHER -> "device"

\* _remove_from_cache: the first entry found, no other.
Remove(c, i) == [c EXCEPT ![FirstKind(c, i)][i] = None]

Following == pc \in {"subscribing", "online"}

\* Mutant of Deliver: the callback fails before it has stored anything.
Deliver_Stuck ==
  /\ Following /\ cursor < Len(log)
  /\ UNCHANGED vars

\* cb_device_update
Deliver ==
  /\ Following /\ cursor < Len(log)
  /\ LET u == log[cursor + 1]
     IN  cache' = IF u.op = "remove" THEN Remove(cache, u.id)
                  ELSE Add(cache, u.id, u.devs[u.id])
  /\ cursor' = cursor + 1
  /\ UNCHANGED <<log, work, pc, listed, base, call>>

Close ==
  /\ pc = "online"
  /\ pc' = "closed"
  /\ UNCHANGED <<log, work, listed, cache, base, cursor, call>>

-----------------------------------------------------------------------------
(* The calls.                                                               *)

InCache(i) == \E k \in Kinds : cache[k][i] # None
CachedLabels ==
  {l \in Labels : \E k \in Kinds, i \in Ids : cache[k][i] # None /\ cache[k][i].label = l}

Usable == pc \in {"ready", "closed"} \/ Following

Ask(c, kind, st, i, l) ==
  /\ Usable /\ call[c].st = "idle"
  /\ call' = [call EXCEPT ![c] = [kind |-> kind, st |-> st, id |-> i, label |-> l]]
  /\ UNCHANGED <<log, work, controller>>

\* wait_for on a label, create_proxy, remove_proxies, wait_for(invert=True).
WaitFor(c, l) == Ask(c, "wait", "waiting", None, l)
CreateProxy(c, l) == Ask(c, "create_proxy", "asked", None, l)
RemoveProxy(c, i) == Ask(c, "remove_proxies", "asked", i, None)
WaitGone(c, i) == Ask(c, "wait_gone", "waiting", i, None)

\* purge: an ID that is not cached is passed over.
Purge(c, i) == Ask(c, "purge", IF InCache(i) THEN "asked" ELSE "ok", i, None)

\* _create_model: an ID that is not cached leaves `info' unbound, and the
\* `finally' that reads it.
CreateModel(c, i) ==
  Ask(c, "create_model", IF InCache(i) THEN "ok" ELSE "UnboundLocalError", i, None)

\* HOME accepts the request; purge does not wait.
Accepted(c) ==
  /\ call[c].st = "asked"
  /\ work' = work \cup
       {[op |-> IF call[c].kind = "create_proxy" THEN "insert" ELSE "remove",
         id |-> call[c].id, label |-> call[c].label]}
  /\ call' = [call EXCEPT ![c].st =
       IF call[c].kind = "purge" THEN "ok" ELSE "waiting"]
  /\ UNCHANGED <<log, controller>>

Refused(c) ==
  /\ call[c].st = "asked"
  /\ call' = [call EXCEPT ![c].st =
       IF call[c].kind = "purge" THEN "ok" ELSE "RuntimeError"]
  /\ UNCHANGED <<log, work, controller>>

ById(c) == call[c].kind \in {"wait_gone", "remove_proxies"}

\* Mutant of PollFound: create_proxy trusts HOME's answer.
PollFound_Trusting(c) ==
  /\ call[c].st = "waiting"
  /\ ById(c) \/ call[c].kind = "create_proxy" \/ call[c].label \in CachedLabels
  /\ ById(c) => InCache(call[c].id)
  /\ call' = [call EXCEPT ![c].st = "ok"]
  /\ UNCHANGED <<log, work, controller>>

\* wait_for finds the device: it returns it, also when asked to wait for the
\* opposite.
PollFound(c) ==
  /\ call[c].st = "waiting"
  /\ IF ById(c) THEN InCache(call[c].id) ELSE call[c].label \in CachedLabels
  /\ call' = [call EXCEPT ![c].st = "ok"]
  /\ UNCHANGED <<log, work, controller>>

\* An inverted wait that does not find it returns None.
PollGone(c) ==
  /\ call[c].st = "waiting" /\ ById(c) /\ ~InCache(call[c].id)
  /\ call' = [call EXCEPT ![c].st = "ok"]
  /\ UNCHANGED <<log, work, controller>>

\* Mutant of LastPoll: a wait goes round for ever.
LastPoll_Never(c) ==
  /\ call[c].st = "waiting" /\ ~ById(c) /\ call[c].label \notin CachedLabels
  /\ UNCHANGED vars

\* The last of timeout * 4 polls.
LastPoll(c) ==
  /\ call[c].st = "waiting" /\ ~ById(c) /\ call[c].label \notin CachedLabels
  /\ call' = [call EXCEPT ![c].st = "TimeoutError"]
  /\ UNCHANGED <<log, work, controller>>

-----------------------------------------------------------------------------
Init ==
  /\ \E d \in [Ids -> Entry \cup {None}] :
       log = <<[op |-> "init", id |-> None, devs |-> d]>>
  /\ work = {}
  /\ pc = "collecting" /\ listed = 0 /\ base = 0 /\ cursor = 0
  /\ cache = [k \in Kinds |-> [i \in Ids |-> None]]
  /\ call = [c \in Calls |-> Idle]

CreateStep ==
  Collect \/ Returned \/ CreateRaises \/ Subscribe \/ Subscribed \/ SubscribeFails

AskStep(c) ==
  \/ \E l \in Labels : WaitFor(c, l) \/ CreateProxy(c, l)
  \/ \E i \in Ids : RemoveProxy(c, i) \/ WaitGone(c, i) \/ Purge(c, i)
                    \/ CreateModel(c, i)

CallStep(c) == Accepted(c) \/ Refused(c) \/ PollFound(c) \/ PollGone(c) \/ LastPoll(c)

Next ==
  \/ HomeStep
  \/ \E t \in work : CarryOut(t)
  \/ CreateStep \/ Deliver \/ Close
  \/ \E c \in Calls : AskStep(c) \/ CallStep(c)

Spec == Init /\ [][Next]_vars

\* HOME answers requests and the loop runs what is ready.
FairSpec ==
  /\ Spec
  /\ WF_vars(CreateStep) /\ WF_vars(Deliver)
  /\ \A c \in Calls : WF_vars(CallStep(c))

-----------------------------------------------------------------------------
(* Properties.                                                              *)

\* The kinds device i had in HOME's list since the list was fetched.
KindsOf(i) == {log[k].devs[i].kind : k \in {k \in listed..cursor :
                 k > 0 /\ log[k].devs[i] # None}}

\* Since the fetch, no update of i was published before the subscription --
\* or one was handled after it.
Followed(i) ==
  \/ \A k \in (listed + 1)..base : log[k].id # i
  \/ \E k \in (base + 1)..cursor : log[k].id = i

\* A device whose kind never changed is listed once, under its kind, exactly
\* as HOME listed it at the update handled last -- unless its updates were
\* lost in the gap between fetch and subscription and none came since.
FollowedIsExact ==
  Following =>
    \A i \in Ids :
      (Followed(i) /\ Cardinality(KindsOf(i)) <= 1) =>
        \A k \in Kinds : cache[k][i] =
          LET e == log[cursor].devs[i]
          IN  IF e # None /\ e.kind = k THEN e ELSE None

\* A device is listed at most once per kind it has had: a missed removal leaves
\* a stale entry, but entries do not multiply.
NoMoreEntriesThanKinds ==
  Following =>
    \A i \in Ids : {k \in Kinds : cache[k][i] # None} \subseteq KindsOf(i)

\* What create_proxy, or a wait for a label, waited for was published by HOME:
\* some device of its list had that label at a position the cache has seen.
FoundWasListed ==
  \A c \in Calls :
    (call[c].kind \in {"wait", "create_proxy"} /\ call[c].st = "ok") =>
      \E k \in 1..Len(log), i \in Ids :
        /\ log[k].devs[i] # None /\ log[k].devs[i].label = call[c].label
        /\ k = listed \/ (base < k /\ k <= cursor)

\* Every call returns or raises.
EndpointCallsEnd ==
  \A c \in Calls :
    (call[c].st \in {"asked", "waiting"}) ~> (call[c].st \notin {"asked", "waiting"})

\* A controller that is created comes to follow HOME, unless create raised, a
\* subscription failed or it is closed: the cache catches up with every update again.
FollowsHome ==
  (pc \notin {"raised", "closed"})
    ~> (pc \in {"raised", "closed"} \/ (pc = "online" /\ cursor = Len(log)))

-----------------------------------------------------------------------------
(* Claims of the documentation that the code does not keep.                 *)

\* endpoints.py:110, of _remove_from_cache: "Remove a device from the endpoints
\* cache list by its device ID": after the update nothing is listed under it.
RemovedIsGone ==
  (pc = "online" /\ cursor > base /\ log[cursor].op = "remove")
    => ~InCache(log[cursor].id)

\* __init__.py:106: "Populate the inital endpoints cache (maintained via
\* updates)": with every update handled, the devices HOME lists are cached.
CacheIsMaintained ==
  (pc = "online" /\ cursor = Len(log))
    => \A i \in Ids : InCache(i) <=> now[i] # None

\* endpoints.py:299-305: "Wait for a device to appear (or disappear) in the
\* endpoints cache"; "If True, wait for an attribute to NOT appear in cache".
GoneIsAwaited ==
  [][\A c \in Calls :
       (call[c].kind = "wait_gone" /\ call[c].st = "waiting" /\ call'[c].st = "ok")
         => ~InCache(call[c].id)]_vars

\* endpoints.py:222-223: "Purge devices from the HOME system by their device
\* IDs and block until the devices are removed from the cache (via update)".
PurgeBlocks ==
  [][\A c \in Calls :
       (call[c].kind = "purge" /\ call[c].st = "asked" /\ call'[c].st = "ok")
         => ~InCache(call[c].id)]_vars

\* endpoints.py:130-131 and 138: an unknown ID raises DeviceNotFoundError.
UnknownIsReported ==
  \A c \in Calls : call[c].st # "UnboundLocalError"
=============================================================================
