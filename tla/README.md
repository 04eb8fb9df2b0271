# LDF in TLA+

This directory holds a TLA+ development of the Lawo Development Framework (`src/ldf`), the
asynchronous Python library that integration tests use to steer HOME, its devices and its apps over
NATS, and consoles and servers next to it.  It contains models of the parts of LDF that keep state or
wait for something, the TLC configurations that check them on small instances, and TLAPS proofs of every
safety and action property those configurations check, but one (section 5), and of one refinement.

What makes this library hard is the same everywhere in it: it keeps **copies** of what HOME holds
(endpoints, addresses, the list of devices, stitches, apps), keeps them by **updates** that arrive on
subscriptions, and its calls **send a request and then poll the copy** until it shows the effect or a
deadline is over.  Three clocks run against each other -- HOME's, the subscription's and the
caller's -- and the few locks there are guard changes that hold no await.  What can interleave is
decided by the points at which a coroutine awaits.  The models are about these races.

## 1. The system: components, state, operations

| Component | Source | State it keeps | Operations | Hard behaviour |
|---|---|---|---|---|
| Device model: endpoint cache | `models/base.py` | `_local` (protobuf copy of the endpoint), NATS client, subscriptions | `__aenter__`, `__aexit__`, `sync_endpoint`, `cb_update_endpoint` | fetch before subscribe; a "reset" handler that awaits inside the stream; merge semantics of protobuf |
| Device model: heartbeats | `models/base.py` | list of heartbeats of one call | `wait_for_heartbeats` | callback and waiter share one event loop |
| Stream patching | `attributes/addresses.py`, `models/base.py` | `state`: dictionary of the device's own address gates | `_sync_state`, `cb_update_addresses`, `connect`, `disconnect` | poll by gate and peer, deadlines, other clients |
| Sords | `attributes/sords.py` | none (polls the endpoint cache) | `create`, `create_audio`, `remove`, `remove_all` | waits by label, blank IDs, several waits gathered |
| Terminals | `attributes/terminals.py` | none (polls the endpoint cache) | `connect`, `disconnect`, `disconnect_all`, `wait_for_connection` | targets read from the cache after the answer |
| HomeController: devices list | `models/home_controller/__init__.py`, `endpoints.py`, `common/system/endpoints.py` | three dictionaries (switches, apps, devices) | `create`, `close`, `cb_device_update`, `wait_for`, `create_proxy`, `remove_proxies`, `purge`, `create_native` | fetch, much later a background task that subscribes and may fail |
| HomeController: routes | `routes.py`, `common/system/addresses.py` | dictionary of all stream addresses | `cb_update_addrs`, `_active_routes`, `create`, `disconnect` | a route is read off two entries that are updated apart |
| HomeController: stitches | `routes.py`, `common/system/routing.py` | one list for all switches | `collect_stitches`, `cb_update_stitches` | one subscription per switch, one list |
| HomeController: path finding | `routes.py`, `attributes/interfaces.py` | paths of a route | `_find_path` | first stitch that fits, loops, an error in a `finally` |
| HomeController: sords, snapshots, templates | `routes.py`, `snapshots.py`, `requests` | lists and dictionaries kept by updates | `cb_update_*` | the same races as for addresses |
| HomeAppsController: dictionary | `models/apps_controller/apps_controller.py` | `data`: app name -> info | paged `__aenter__`, `update_apps` for two subscriptions | a handler that asks and waits while the other subscription goes on |
| HomeAppsController: lifecycle | same | none (polls `data`) | `create_app`, `edit_app`, `start_app`, `stop_app`, `delete_app` and their plural forms | several waits in a row, `blocking=False` |
| App Server | `models/kero.py` | node record | `reboot`, `wait_for_online_status` | polling with pauses against a deadline |
| HOME App model | `models/kero.py` | app record, tree of controls | `__aenter__`, `trigger_failover`, `update_ctls`, updates | subscribe before fetch; trigger before deciding whether to wait |
| Controls | `attributes/controls.py`, `models/kero.py` | control objects with the value read last | `get`, `set`, `set_ctls`, page objects | answers matched by place or by oid, pages laid out twice |
| Connections | `common/connections.py` | none | `connect_sords`, `disconnect_destinations` | one device of several failing |
| MCX console: buttons, settings, questions | `models/mcx/mcx.py` | none (asks the console) | `toggle_button_to`, `toggle_button_from`, `set_and_check`, configurations, two-answer questions | a plain event is never acknowledged |
| MCX console: files | same | none (flag of the console's file worker) | productions and snapshots: save, load, delete | the change seen may be that of an older request |
| MCX console: settings of signals | same | none | equalizer bands, aux gains, bus assignments | numbers computed twice, from different bases |
| VSM gadget server: service and store | `models/vsm/gadgetserver/vsm_gadgetserver_v5.py` | none (a Windows service and a file) | service calls, `remove_remote_server_nodes`, joining a cluster | commands that fail, answers that are lost or not looked at |
| VSM gadget server: resources | `vsm_gadgetserver_resources.py` | objects for protocols and server nodes | fetch, change, add, update, delete | default objects that are shared, whole records sent back |
| PowerCore | `models/powercore/*` | none | telnet and serial commands | I/O |
| Production | `production.py` | none | builds models | none of its own |
| Discovery, GNMI, NATS, ssh, authentication, small attributes, device subclasses | the rest | none of their own | requests | thin wrappers |

How they interact.  A device model owns one NATS connection, one endpoint cache and one address
dictionary; `device.sords` and `device.terminals` are objects that read the endpoint cache and send
requests through the device's connection.  A `HomeController` owns a second connection with its own
copies of everything, fed by one background task; it makes device models (`create_native`) that then
live on their own.  A `HomeAppsController` is independent of both, and so are the consoles and gadget
servers, each with a connection of its own.  `connect_sords` runs the patch call of one device model after
the other.  HOME, the devices, the console and the Windows host are outside: nothing in `src/` says when
they answer or carry out what they accepted, so the models let them do it at any time or never.

What makes each part correct -- the properties looked for:

* a copy shows exactly what HOME had at the update handled last, for everything it can be sure of, and
  the conditions under which it can be sure are stated;
* a copy follows HOME's states in order and comes to follow it again after every disturbance;
* a call that returns successfully has seen what it was to wait for, and where the copy was sure, HOME
  had it;
* every call returns or raises, whatever HOME does;
* what is computed in two places, or matched by its place, belongs together;
* an operation of several steps that fails half-way leaves what it promised to leave.

## 2. Modules

Each component module declares its constants with a named assumption, its state, one action per
handler, operation or await-to-await step, `Spec`, `FairSpec`, the properties, and at the end under
*Claims of the documentation that the code does not keep* those that are false of the code.  A
definition named `X_Something` right before `X` is `X` with a plausible bug; none of the
specifications uses them -- they show that a property notices.

| Module | Models | Checked by |
|---|---|---|
| `PartialReplica` | abstract: what a cache fed by a subscription promises | (implemented by `DeviceMirror`) |
| `DeviceMirror` | endpoint cache of a device model | run `mirror`, `DeviceCalls_proofs` |
| `DeviceCalls` | what the calls on that cache share, EXTENDS `DeviceMirror` | (with the two below) |
| `SordCalls` | sord calls, EXTENDS `DeviceCalls` | run `sords`, `DeviceCalls_proofs` |
| `TerminalCalls` | terminal calls, EXTENDS `DeviceCalls` | run `terminals`, `DeviceCalls_proofs` |
| `AddressPatch` | address dictionary of a device, connect and disconnect | run `patch`, `PatchSession_proofs` |
| `ConnectSords` | patching sords over several devices | run `patch`, `PatchSession_proofs` |
| `PatchSession` | composes the two | run `patch`, `PatchSession_proofs` |
| `Heartbeats` | `wait_for_heartbeats` on its event loop | runs `model`, `beats_seen` |
| `ServerReboot` | `reboot` and `wait_for_online_status` | run `model`, `ModelSession_proofs` |
| `AppModel` | record of an app, failover, wait for pages | run `model`, `ModelSession_proofs` |
| `Controls` | values of controls, page objects | run `model` |
| `ModelSession` | composes the four | runs `model`, `beats_seen`, `ModelSession_proofs` |
| `EndpointsCache` | devices list of a HomeController and its calls | runs `devices`, `devices_awaited`, `EndpointsCache_proofs` |
| `AddressRoutes` | addresses of a HomeController, routes, create and disconnect | run `controller`, `ControllerSession_proofs` |
| `StitchCache` | stitches of all switches in one list | run `controller`, `ControllerSession_proofs` |
| `PathFinding` | the path of a route through the stitches | run `controller`, `ControllerSession_proofs` |
| `ControllerSession` | composes the three | run `controller`, `ControllerSession_proofs` |
| `AppsCache` | dictionary of apps | run `apps`, `AppsCalls_proofs` |
| `AppsCalls` | lifecycle calls, EXTENDS `AppsCache` | run `apps`, `AppsCalls_proofs` |
| `McxConsole` | buttons, checked settings, configurations, two-answer questions | run `mcx`, `McxSession_proofs` |
| `McxFiles` | productions and snapshots | run `mcx`, `McxSession_proofs` |
| `McxSignals` | numbers of the settings of signals | run `mcx`, `McxSession_proofs` |
| `McxSession` | composes the three | run `mcx`, `McxSession_proofs` |
| `GadgetServer` | service, store and cluster of a VSM gadget server | run `gadget`, `GadgetSession_proofs` |
| `GadgetResources` | its resources and the client's objects | run `gadget`, `GadgetSession_proofs` |
| `GadgetSession` | composes the two | run `gadget`, `GadgetSession_proofs` |

A `*_proofs` module holds the theorems about its session, with those of the components in it
(`DeviceCalls_proofs` about the mirror and both kinds of calls that poll it), `MC*` gives names to the values of an
instance.  A session module EXTENDS components that one connection is used for and that change nothing
of each other; each of its behaviours makes one kind of call and leaves the other parts at rest, so that
its states are the sum and not the product of theirs.  Where components do share state -- calls and the
cache they poll -- the module of the calls EXTENDS that of the cache and their steps interleave.

### The common frame

HOME is a **journal** `log`: entry *k* is the *k*-th update HOME published together with the state after
it.  A copy holds positions in the journal instead of timestamps: `asof`/`listed`/`fetched` (where HOME
answered the fetch), `base` (where the subscription begins), `cursor` (the update handled last).  "HOME
had it" is then a statement about a journal entry, and the updates that were lost are those between
`asof` and `base`.  NATS delivers the updates of one subscription in order, once, and only while
subscribed; that is external behaviour the code in `src/` relies on.  A reconnecting client is not
modelled: LDF leaves it to the library.

Only what comes between two awaits is atomic.  The deadline of a poll is a choice: a look that does not
find what it waits for may be the last one (`Timeout`), because nothing relates the 3 or 6 seconds of
the code to the time HOME takes.  Where time itself is the point (`Heartbeats`, `ServerReboot`,
`AppModel`), there is a clock.

Values are abstract: an item of a section is a member of `Vals`, an update of one item names its `Ids`;
a label is in `Labels` with a `Blank` one, because protobuf's merge skips blank fields.

### Module by module

**DeviceMirror.**  `Enter`, `ServeGet`, `InstallFirst`, `AddressesSynced`, `Subscribe` are the awaits of
`__aenter__` in the order of base.py:93-101 (fetch, addresses, subscriptions).  A fetch may fail in two ways:
`sync_endpoint` drops the error of an answer and takes the endpoint that came with it (base.py:303-306), which
is nothing (`FirstFetchRefused`); no responder or no answer in time raises (`EnterRaises`).  `Deliver` is
`cb_update_endpoint` for insert, change, remove and user info, with `Apply` the merge into the protobuf
message: an insert appends without looking, a change appends and drops the older items of that ID, a
remove drops all of that ID.  A reset is three steps, `DeliverReset`, `ServeGet`, `InstallReset`, since
the handler awaits the fetch; updates queue up behind it and are replayed onto the newer copy.  If that fetch
fails, the copy is nothing or stays the old one, and the stream goes on behind the reset all the same
(`ResetFails`); `asof` is 0 until the next fetch that is answered, and no item is sure before an update of its own.  Items of
an ID are a *sequence*, because they really can be there twice.  `Sure(i)` says when the copy can be
trusted: the last fetch was answered and no update of *i* fell between answer and installation, or a change or
remove of *i* was handled since (base.py:212-233 drop every older one).  `SureIsExact` is the promise.

**PartialReplica.**  A source with a history and a copy that is attached, follows one state at a time,
never forgets what it was sure of except as a whole, and shows of the items it is sure of exactly the
source's.  `DeviceMirror!Replica` is the refinement mapping: history = the journal's items, position =
`cursor`, view = the sure items.

**DeviceCalls.**  What `SordCalls` and `TerminalCalls` share: the requests HOME has accepted (`work`), the calls,
the end of a gather of waits, and leaving, which no call is under way for.

**SordCalls.**  HOME answers a creation with sords it will make (`ServeCreate`, or blank IDs) and makes
them later or never (`CarryOutSord`).  `SordTargets` is what each call waits for; `SordShown` the condition looked at
-- the *label* for a creation (sords.py:177-193), the *ID* for a removal.  `remove_all` and a failed
deletion do not look at answers.

**TerminalCalls.**  A disconnected destination stays listed with the empty source.  `disconnect_all`
takes its targets from the cache after HOME's answer (terminals.py:150-164).  `listed` and `asked` are
history.

**AddressPatch.**  `state` maps own gates to peers, `Gone` (shown but removed) or no entry.  `Sync` and
`SyncError` (logged, the old dictionary stays), `Deliver` = `cb_update_addresses`, then the two calls with
a wait per connection; a gate without an entry raises `AttributeError` in the wait for a connection
(`NoAddress`), as `state.get(...)` is None there.

**Heartbeats.**  Callbacks run only while the waiting coroutine is suspended.  It suspends itself for a
second when it has no timeout and never when it has one, so `Count` needs a waiter that sleeps.

**EndpointsCache.**  `Collect` and `Returned` are `HomeController.create` from its first request on: it collects
the devices list, then builds the rest, and raises if one of these requests is answered with an error or not
at all (`CreateRaises`).  `Subscribe` and `Subscribed` are the background task, which subscribes to the devices
first and to all the others after that; it may fail before or in between (`SubscribeFails`), so that the cache
may have followed HOME for a while before it stands still.  The cache is three dictionaries by kind; an update that tells
another kind adds a second entry and a removal takes out the first (`Add`, `FirstKind`, `Remove`).  Calls
are waits for a label, inverted waits, proxy registration and removal, purge, and the creation of a
model of an unknown ID.

**AddressRoutes.**  `Collect` is the fetch, whose error makes `create` raise (`CreateRaises`).  `Deliver` merges an update that may carry several addresses; `Listings` is the set of
lists of routes that `_active_routes` may return (it stops at the first receiver of a sender, in the order
of the dictionary, which is not modelled); `Create`, `Disconnect`, `Accepted`, `Refused`, `CarryOut`.

**StitchCache.**  One cursor per switch over its own journal and one list for all.  `AddStitch` replaces by the
key input/output/multicast group, `DropStitch` drops the first by key and source, neither looks at the switch.

**AppsCache.**  `Page` and `Install` are the paged fetch -- HOME answers page by page while apps come and
go --, `Subscribe` the two subscriptions, `Deliver` an `update.apps` message, `DeliverPartial` and
`InstallPartial` the handler of `update.appspartial`, which awaits `get_app_info` in the middle.  A message
tells of several apps: `Deliver` takes them at once, the other handler asks for the cached ones one after the
other (`GoesOn`, `left`).  An error -- an unknown app, a KeyError, an error as the answer, none in time --
ends the handler with the rest of its message (`PartialFails`), not the subscription.  `Tables` and `Batches`
bound the states of the apps and the sets of apps a message tells of.

**AppsCalls.**  `Subjects` bounds the apps that calls are made for.  A call is a list of `Stages`: requests, and waits for conditions on the dictionary.
`Raises` are the lookups that fail on an app that is not listed, `Quiet` where `blocking=False` turns a
missed deadline into a warning.

**ServerReboot.**  The clock is looked at after the sleep and before the next question, as in
kero.py:113-129; an unanswered question is repeated without a pause.  `Flip` is the server going and
coming, at any time.  `MayFail = FALSE` leaves out unanswered questions.

**ConnectSords.**  `CallConnect` maps the sords of all sources one to one to those of all destinations;
then each source device has its turn, in the order of the dictionary, and is handed the next sords of
the flattened destinations (connections.py:60-110).  A turn is one call of `AddressPatch`: HOME takes its links
as a whole (`ordered`), and carries them out one by one, later or never (`due`, `CarryOut`); a blocking call waits
at each turn for every link (`left`), which a stale entry may end (`WaitEnds`) and a deadline may end with an
error (`WaitRaises`), and one that does not block goes on at once.  A turn raises before HOME has taken
anything (`TurnRaises`) if there is no connection to make (addresses.py:166-167), an address is not cached, the
device is not entered, or HOME refuses; it may raise after that because the answer is lost.  `DisconnectTurn` may have
nothing to do, and drops the error HOME answers (addresses.py:221).  A single sender is repeated in the list of the
first device of the dictionary, whoever holds it.  Flows are numbered per essence.  `asked`, `before` and `had` are
history.

**AppModel.**  `EnterApp`, `ServeApp`, `InstallApp` are `__aenter__`, which subscribes first and then fetches, so
that updates are handled while the answer is on its way; an answer that lists no app, or none in time, raises
(`EnterAppFails`).  A record is whole or partial (the handler
takes only whole ones).  `TriggerFailover`, `Triggered`, `OnTarget`/`Decide`, `Look`, `WakeUp` are
`trigger_failover` (kero.py:214-271) from await to await.  `UpdateCtls` and the steps after it are the
wait for the sub pages.

**Controls.**  A control's value is a pair of the control and a level, so that a value put into the wrong
object shows.  HOME leaves controls it does not have out of an answer, and may tell of a page control nobody asked
for.  `Received` puts the values of page controls into the objects by their oid, up to the first unasked one, which
raises (controls.py:380-386); those of the endpoint by their place, passing over pairs that do not match
(controls.py:347-372).  `had` is what each control was in HOME since the call began.  `SetCtls` is `set_ctls` of kero.py: page controls and endpoint
controls each in a request of their own, then a pause.  `PageDefs` are all definitions of a page over two
iterations; `ControlsOf`, `Globs`, `PageRaises` are what building the object makes of them.

**PathFinding.**  `_find_path` runs in an event loop of its own, so a behaviour is one search over a fixed
list: `FollowStitch` is a turn of the loop with the first stitch that fits, including the `break` in
`finally` that drops the error of an unknown interface (routes.py:198-231); `NoStitch` is the generator
that has nothing to yield.  In a running loop, or with an unknown end, the search fails at once.

**McxConsole.**  A setting is an event in the console's inbox, a question is answered from its database, and a
console that is not *prompt* answers before it has worked off what is in the inbox.  What a press does to
the lamp and what the console makes of each field of a value are arbitrary functions of the instance's console,
which may also tell of fewer fields than were set.  The calls are the loops of mcx.py in steps: look, press,
release, check, second question.  `Met` compares field by field as far as the shorter goes (`zip`): all fields
for `set_and_check` and `assert_MND`; `set_and_check_not` wants *every* field to differ (mcx.py:401-405),
`assert_MND_not` *one* of them, or their number (419-428).  `Modified` changes what a call names, and writes the
two listen settings with their defaults if it does not (mcx.py:1152-1153).  A surround master is known without a
question (`KnowsMaster`).

**McxFiles.**  The console has a worker with a queue; its being at work is a flag.  A call sends its request,
opens the stream of the flag and waits for a change, or polls (mcx.py:1230-1330).  `done` and `single` are
history.

**McxSignals.**  Numbers are integers, summed from the library's beginnings of blocks and the indexes as the code sums
them, once in the setter (`GainSet`, `AuxSet`, `BusSet`, ...) and once in the question (`GainAsked`, ...).  A setting
stores a value under the number of the one; the property looks under the number of the other, and compares with
what was asked for last for that very subject, so that two computations that disagree and two settings that share
a number are both seen.  `set_eq_band` sends an event for each field given, the bypass has a setter of its own.

**GadgetServer.**  `remove_remote_server_nodes` is a chain of remote commands: status, stop, test, backup, edit,
restore, start.  Every command may fail or lose its answer, an edit may damage the store, and the service
changes at its own pace (`Settle`), as the waits of the code test a value and not the service.  A restart is one
command (`Restarts`).  A backup is named by the second (vsm_gadgetserver_v5.py:482): it is a file of its own or takes
the place of the last one, which `rewritten` remembers (`CopiesStore`).

**GadgetResources.**  A protocol object made without settings shares the default object of the parameter list, and so
does one made from an answer without `Settings` (`FromAnswer`).  `SettingsSends` and its siblings are what `to_dict`
leaves in for a purpose; `PutNode` sends a server node back as a whole, with the text of `str()` where a boolean was
(`Sent`; resources.py:1076, 1078), which the server may read as a boolean or keep.  What a value tells and how it is
told -- value or text -- are two parts of it.  `Refused` is an answer with an error: an update returns None, the others
raise.

## 3. Runs

| Run | Instance | Shows |
|---|---|---|
| `mirror` | 2 IDs, 1 content, 1 label, journal of 4 | `SureIsExact`; the cache implements `PartialReplica`; an entered model gets online and works its stream off (`CatchesUp`) |
| `sords` | 1 sord ID, 2 labels of sords, 1 call, journal of 4 | a creation under a label fresh in HOME ends only when a sord made for it is cached; a removal ends only when the sord was gone, wherever the cache was sure |
| `terminals` | 1 destination, 1 source and the empty one, 1 call, journal of 3 | a wait ends on a routing HOME had; after `disconnect_all` the listed destinations are shown empty |
| `patch` | 1 gate, 2 peers, 1 call, journal of 3; over several devices: 2 devices that send, 2 sords that receive, 1 call, at most 1 address that is missing or stale | the dictionary is exact where it is sure; what a wait saw HOME had; calls end; a call over several devices asks HOME, for each receiver, for the sender at its place, and after an error for nothing more; a blocking one that returns has met each of its links |
| `model` | 3 heartbeats of 5 in 8 s; pause 2, deadlines 5 and 7 in 22 units; 1 server, 2 records, 5 s; 4 controls, 2 calls, every page of 2 iterations | heartbeats that come in time end a call without timeout; a reboot that returns was a whole cycle; a failover reported was seen in an update, one that happens in time is reported; a control that was read shows what it was in HOME since the call began |
| `beats_seen` | same | **violated**: `AliveIsSeen` |
| `devices` | 2 devices of 3 kinds, 1 label, 1 call, journal of 3 | a device that kept its kind is listed once and exactly; a label that was found was listed by HOME; calls end; the controller comes to follow HOME |
| `devices_awaited` | 1 device | **violated**: `GoneIsAwaited` |
| `controller` | 1 sender, 2 receivers, journal of 3; 2 switches, 2 keys, 2 sources, 2 updates; a ring of 2 switches with at most 3 stitches | listed routes are HOME's routes; breaking them frees their receivers; a key used by one switch is listed exactly as that switch has it; a path found leads from source to destination, and no stitch is taken twice without a loop |
| `apps` | 1 app in 2 states that comes and goes and 1 next to it, messages of one or both, 1 call, journal of 3 | a removed app is not brought back by an answer that was under way; apps told of by `update.apps` alone are exact; a deletion returns after a removal; partial updates are worked off whatever fails in their handler |
| `mcx` | 3 lamps with any wiring, 2 fields of 2 values, 5 signals, one of them a surround master; 2 file calls next to one of another user; 4 buses of each kind, 2 settings | buttons and checked settings tell the truth of a prompt console nobody else touches; configurations keep what others wrote before, but for what is always written; a file call that returns was carried out if it was the only one; numbers set and asked for agree and no two settings share one; file calls end |
| `gadget` | 3 server nodes, 2 calls; 2 protocol objects, 4 keys of a node, 5 requests | the original store is never lost, unless two backups are of one second; a removal answers what is true and asks for a start again; objects given settings say what they were told, and so does what is created from them; a node sent back changes what a key tells only if somebody did |

### Bounds, and why they are enough

`MaxLog` bounds HOME's journal, the initial state included, and the initial state is *any* state of the
section, not the empty one.  The shortest journal with a lost update has two entries, one with an update
replayed after a reset three (initial, reset, racing update), one that repairs it four.  `mirror` and `sords` have
four; the other runs that add calls on top have three, so their calls meet lost and replayed updates, but not the
repair of a replayed one while they wait.  For the copies themselves the theorems of section 5 remove the
bounds altogether.  Items of different IDs do not touch each other in the code (every merge is by ID),
which is why one or two are enough; two are needed where they compete (receivers of one sender, switches with the
same key, two objects with one default, two apps of one message).  `mirror` needs two for the refinement, whose view
is of all items at a time.  Its one label is the label of the device itself, which no property tells from another.  One call at a time meets every other actor of
the model; two calls would share only the copy, which neither writes.  Where a call leaves something
behind for the next -- the store and its backups, requests of the console's worker -- there are two; what a patch
call finds from calls before it is in the initial state of `patch`, where one address may be missing or stale.

The clocks leave room for a heartbeat too many, and for a deadline plus a pause after whatever the
property waits for; the liveness properties that depend on a clock say up to which moment they speak.
`model` has the failover of one server and two records: the record held, and one newer.  In `controller`
three stitches are the shortest list in which both legs of a path have a hop and one has a detour or
loop.  `mcx` has three lamps because two cannot tell a press too many from a press that is missing; two fields (`Width`),
because *all* and *any* differ from two on; the signals 0, 3, 8, 14 are the first and a later one of two blocks, and 21
is the second surround master (`MasterBase` 20 to `MasterEnd` 23).  The numbers of equalizer, aux, sum and group blocks lie
as close together as `NumbersAssumption` allows.  In `gadget` two calls are a removal
that failed and the next one, which meets its backup, or writes over it.

Symmetry is used in `sords` (labels of sords), `controller` (receivers, switches) and `gadget` (protocol objects,
handles), which check no liveness property and compare none of the permuted values.  Deadlock is not checked in `patch`, `model`, `devices`,
`controller`, `mcx` and `gadget` (and the two runs on their instances), where the system comes to rest: calls that
ended, bounds of time or calls that are reached, a controller that waits for updates once the journal is
full.  In the others a session can always be entered or left, so there is no rest and TLC checks that.

### Fairness

Weak fairness of the client's own steps: asyncio runs every ready callback and wakes every sleeper.
Weak fairness of HOME's *answers* to requests in `DeviceMirror`, `AppsCache`, `EndpointsCache` and `AppModel`:
the NATS request has a timeout of its own, so an await on it does end.  Time passes in the models with a
clock.  No fairness for HOME carrying out what it accepted, for devices sending updates, for heartbeats,
for the console's worker, or for the caller entering and leaving: `CallsEnd`, `EndpointCallsEnd` and
`FileCallsEnd` hold although nothing ever happens.  That calls end is checked for patches, the devices list
and the files of a console; the sord, terminal and app calls end by the same kind of deadline.

## 4. What the documentation says and the code does not do

Two of these are runs of the project:

* `beats_seen` -- `wait_for_heartbeats` says it halts until x heartbeats are received (base.py:266-267).
  With a timeout its loop has no `await` (290-301), the event loop stands still and no heartbeat is
  counted: a device that is alive and well is reported as silent.
* `devices_awaited` -- `wait_for(invert=True)` says it waits for a device to disappear
  (endpoints.py:299-305).  The loop returns the entry it finds whether inverted or not (321-327), so it
  returns at once while the device is still there.

The others are stated at the end of their module with the line they quote.  TLC refutes each when a
configuration of the component's run names it instead of the run's properties (for `ServerReboot` with
`MayFail = FALSE`, for `StartedIsHealthyThere` with a state of the app in which it is healthy on another server,
for `UsedIsFound` with `MaxStitches = 4`):

| Definition | Module | What happens |
|---|---|---|
| `SettledItemsAreCurrent` | DeviceMirror | an update between fetch and subscription is never seen |
| `NoDuplicateItems` | DeviceMirror | an insert queued behind a reset is replayed onto a copy that has it |
| `ConnectedWasPublished` | AddressPatch | `connect` returns on a stale entry from before the call |
| `DisconnectedIsEmpty` | AddressPatch | `disconnect` returns on a gate it does not know |
| `OnlyDocumentedErrors` | AddressPatch | the address disappears during the wait: `AttributeError` |
| `CreatedSordExists`, `AudioCreateBlocks` | SordCalls | a wait by label is satisfied by an older sord; with blank IDs there is no wait at all |
| `RemovedIsGone` | EndpointsCache | a device that changed its kind is removed once of two |
| `CacheIsMaintained` | EndpointsCache | a device that comes before the background task subscribes is missed |
| `PurgeBlocks` | EndpointsCache | `purge` returns as soon as HOME answers |
| `UnknownIsReported` | EndpointsCache | `finally` reads an unbound name and hides `DeviceNotFoundError` |
| `DisconnectAllFreesSources` | AddressRoutes | of a sender with two receivers one route is listed |
| `RefusedIsNotReturned` | AddressRoutes | refused routes are returned as created |
| `UsedIsFound` | PathFinding | the stitch of the other output is listed first: the search is led astray |
| `ListedAreCurrent` | AppsCache | a controller that is entered again keeps apps that are gone |
| `AnswersAreNews` | AppsCache | the answer to a partial update overwrites a newer state |
| `StartedIsHealthyThere` | AppsCalls | running and healthy are waited for one after the other |
| `QuietDeleteEnds`, `QuietCreateEnds` | AppsCalls | `blocking=False` raises all the same |
| `TimeoutMeansNotReached`, `CycleIsNoticed` | ServerReboot | reached during the last sleep; offline between two questions |
| `InfoIsNotOlder` | AppModel | the answer replaces the record of an update that was handled while it was on its way |
| `NotTriggeredStays` | AppModel | "Failover was not triggered" is said after it was |
| `FailedOverIsSeen` | AppModel | with an outdated record, a failover that is over already is waited for until the deadline |
| `EndpointIsSet` | Controls | the value an endpoint control was made with is sent |
| `IgnoredIsLeftOut`, `ListedPageIsFound` | Controls | an iteration gets the controls that ignore it; a page of the definition is not found |
| `AtMostFiveAttempts` | McxConsole | a button is pressed a sixth time |
| `FlagsAreKept` | McxConsole | the listen settings are written with their defaults by a call that does not give them |
| `AlwaysRestarts` | GadgetServer | the service is asked to start while it is still stopping |
| `KilledIsSeen` | GadgetServer | `kill_service` returns before Windows has noticed |
| `NamesAreOwn` | GadgetResources | protocols made without settings share one name |
| `FlagsAreBoolean` | GadgetResources | a node sent back has texts where the server's interface has booleans |
| `UpdateUpdates` | GadgetResources | updating a protocol sends none of its settings |

## 5. Theorems

TLAPS proves these for every value of the constants that the named assumptions of the component's module
allow: any sets of items, gates, devices, apps or nodes, any number of calls, any bound on a journal, any
deadlines.  They assume nothing about the environment beyond the actions themselves.

| Theorem | Module | States |
|---|---|---|
| `TypeCorrect`, `Inductive` | DeviceCalls_proofs | types and the inductive invariant |
| `SureItemsAreExact` | DeviceCalls_proofs | `Spec => []SureIsExact` |
| `CacheImplementsReplica` | DeviceCalls_proofs | `Spec => ImplementsReplica` |
| `SureWhileRouting` | DeviceCalls_proofs | `CallsSpec => []SureIsExact`, next to the terminal calls |
| `WaitsEndOnRoutes` | DeviceCalls_proofs | `CallsSpec => ShownIsRouted` |
| `DisconnectedIsShown` | DeviceCalls_proofs | `CallsSpec => []DisconnectAllEmpties` |
| `RemovalsWereDone` | DeviceCalls_proofs | `SordsSpec => RemovedWasGone` |
| `FreshCreatesAreCached` | DeviceCalls_proofs | `SordsSpec => FreshCreateIsCached` |
| `SureHolds` | PatchSession_proofs | `patchSpec => []SureIsExact` |
| `SeenHolds` | PatchSession_proofs | `patchSpec => SeenIsBacked` |
| `AskedHolds` | PatchSession_proofs | `connectSpec => []AskedAsListed` |
| `PatchedHolds` | PatchSession_proofs | `connectSpec => []PatchedAsListed` |
| `FollowedHolds` | EndpointsCache_proofs | `Spec => []FollowedIsExact` |
| `EntriesHold` | EndpointsCache_proofs | `Spec => []NoMoreEntriesThanKinds` |
| `FoundHolds` | EndpointsCache_proofs | `Spec => []FoundWasListed` |
| `ListedHolds` | ControllerSession_proofs | `routesSpec => []ListedIsRouted` |
| `FreesHolds` | ControllerSession_proofs | `routesSpec => []DisconnectFrees` |
| `PathsAreWalks` | ControllerSession_proofs | `pathSpec => []PathIsWalk` |
| `LoneKeysHold` | ControllerSession_proofs | `stitchSpec => []LoneKeysAreExact` |
| `RemovedHolds` | AppsCalls_proofs | `Spec => []RemovedStaysGone` |
| `ToldHolds` | AppsCalls_proofs | `Spec => []ToldIsExact` |
| `DeletionsAreRemovals` | AppsCalls_proofs | `CallsSpec => []DeletedWasRemoved` |
| `RebootsCycle` | ModelSession_proofs | `rebootSpec => []OkMeansCycled` |
| `WaitsEndInTime` | ModelSession_proofs | `rebootSpec => []EndsInTime` |
| `SuccessIsNew` | ModelSession_proofs | `appSpec => []SuccessWasSeen` |
| `ButtonsAreTrue` | McxSession_proofs | `mcxSpec => []ButtonsTellTheTruth` |
| `SettingsAreInForce` | McxSession_proofs | `mcxSpec => []CheckedIsInForce` |
| `OthersConfigIsKept` | McxSession_proofs | `mcxSpec => []ConfigKeepsOthers` |
| `QuestionsFit` | McxSession_proofs | `mcxSpec => []ReadsFit` |
| `ReturnedIsCarriedOut` | McxSession_proofs | `filesSpec => []OkIsCarriedOut` |
| `SettingsHold` | McxSession_proofs | `signalsSpec => []SettingsMeet` |
| `AuxLegsMeet` | McxSession_proofs | `AuxLegsAgree` |
| `OriginalStays` | GadgetSession_proofs | `serverSpec => []OriginalIsKept` |
| `WordIsKept` | GadgetSession_proofs | `serverSpec => []RemovalKeepsItsWord` |
| `ObjectsSayTheirNames` | GadgetSession_proofs | `resourcesSpec => []ToldIsSaid` |
| `NodesGoBackExactly` | GadgetSession_proofs | `resourcesSpec => PutIsExact` |

The runs check sessions, so each session module ends with a theorem that carries these over to the
session's own `Spec`: `PatchSessionIsSafe`, `ControllerSessionIsSafe`, `AppsCallsAreSafe`, `ModelSessionIsSafe`,
`McxSessionIsSafe`, `GadgetSessionIsSafe`.  A step of a session is a step of each of its parts or leaves it alone,
and that is all they need.

*Assumptions on constants.*  Almost all are about types and that a bound is a number.  Three say more:
`StitchAssumption` that there are finitely many switches and stitches and `ConnectAssumption` that there are finitely
many sords, because a list is made of all of them (what is in memory is finite); `SessionAssumption` of
`McxSession` that there is a signal, since a session that leaves the console alone begins with a question
about one.  TLC evaluates all of them in the run of the module.

### The copies

*Why an invariant of their own.*  `SureIsExact` and its siblings compare the copy with the journal at
`cursor`, while at a subscription the copy is one of *another* entry, the one the fetch was answered at.
That the two agree on an item nothing touched in between is an induction over the journal.  Instead of that
induction the invariants carry the fact -- `Chain` in DeviceCalls_proofs, `JournalIsTold` in the others: for
every *j <= k*, an item no entry in *j+1..k* names is the same at *j* and *k*.  Appending one entry
preserves it, because the entry either names the item or repeats it.  The inductive invariant is then

    Types /\ JournalIsTold /\ PlaceFits /\ <the exactness of the copy>

where `PlaceFits` says what the positions and the copy are in each phase; in particular a fetched copy that is
not yet subscribed is the journal's at the fetch.  Each component adds what its handlers need:

* *DeviceMirror*: `JournalOK` (each entry did what its operation says).  An insert appends, which is right
  only if HOME had no such item before.  A fetch that fails makes every item unsure, so that whatever it leaves in the
  copy is believed only after a change or removal.
* *AddressPatch*: nothing more, as an entry replaces what was there.
* *EndpointsCache*: `EntriesWereListed` (every entry of the cache was HOME's at a position the cache has seen),
  for the calls; and `FollowedFits`, which also speaks of devices of several kinds: the entry under the
  current kind is right, and a removal leaves none if there was only one.
* *AddressRoutes*: `FollowedFits` for the routes.  For `DisconnectFrees`, `QuietFits`: a call made in a settled system
  stays in step with HOME, the receivers it is to free are HOME's, and each is free or its request still waits.
* *AppsCache*: two tasks change the dictionary.  `RequestFits`: an app that is asked for was named by a partial
  update since the pages were read, as was each app of the message not yet come to, so that an app `update.apps` alone tells of is not touched by an
  answer; `SureFits` is `ToldIsExact` without the phase.  `EntriesAreTold`: a change is of an app that was there.

Each proof has a lemma for what every step of HOME has in common (the journal grows by one entry), one per
step of the client that changes the copy or a position, and a step lemma with one case per action.
The existence of an oldest queued update, and of the one handled last, comes from the well-foundedness of the
naturals (`OldestIsFirst`, `SomeIsLast` in AppsCalls_proofs).

*Refinement.*  In `CacheImplementsReplica` a step of HOME maps to `Publish`; `Subscribe` to `Attach`; `Deliver` to
`Follow` -- what was sure stays sure because nothing is published below `base` any more and a healed item
stays healed; `DeliverReset` to `Suspend`, `InstallReset` to `Refresh`, `Exit` to `Detach`; everything else
stutters since the view is all unsure off line.  `StepRefines` has one case per action.

### The calls on a copy

A call reads the copy and never writes it, so every invariant of the copy holds next to the calls; each
proof first shows that a step of the calls is a step of the copy or a stutter (`CallsStepIsMirrorStep`,
`SordsStepIsMirrorStep`).  What the look of a call concludes is then a matter of what was sure when, and
that is where each needs more:

* *TerminalCalls*.  `ShownIsRouted` is exactness at the step that looks.  `DisconnectAllEmpties` speaks of a
  state long after the look, possibly of another session, and needs three facts.  `OffForGood`: what HOME only
  disconnected since the call, and had off at some position, is off at every later one -- an induction over the
  journal, carried as an invariant.  `StaysSure`: what was sure when the answer came is sure until the wait
  has ended.  `SeenOff`: what is no longer waited for was off at a position the cache has passed.
* *SordCalls*.  `RemovedWasGone` is exactness again.  `FreshCreateIsCached` must not
  rest on it: the cache may be stale.  `Logged` says that whatever is cached under an ID is what HOME had
  there at *some* time; a label HOME never had before the call is then shown only by a sord made for it.
* *AddressPatch*: `SeenIsBacked` needs only the types of the calls on top of `SureIsExact`.
* *AppsCalls*: `GoingFits` -- while a deletion is going on, its app is listed or its removal has been handled since
  the call, since a change, a partial update, one that fails, or a page never takes an app out of the dictionary (`CacheMoves`)
  -- and `OkFits`, which keeps that after the call through sessions to come.

### The lists

* *StitchCache*.  What a switch holds after *n* updates is a recursive function of its journal.  That two
  journals with the same beginning give the same, and that one more update gives what it says, are
  inductions over *n*; they are made as least counterexamples by the well-foundedness of the naturals
  (`ReplayedIsRun`, `RunIsUnique`, `ReplayLooksBack`).  `UpdatesFit` says that a stitch that is removed was there
  when the update was published, `HeldFits` that a switch never has a key twice, `ListFits` that the list
  holds only what some switch ever had, and `LoneFits` is the property for every phase of a switch.  Adding
  and dropping are lemmas about a list with each key at most once (`Lists`).
* *PathFinding*: `WalkFits` and `HopFits` say that the stitches yielded so far are a walk from the source to the hop,
  except where a stitch was yielded again; that needs a loop in the stitches of the leg, found by
  following the walk from the first time to the second.
* *ConnectSords*: the pairs that the call makes at its beginning, and the end of the list of receivers that is
  handed over from turn to turn, are computed apart.  `Aligned` is where in the list the sords of each device
  still to come stand, `SinksFit` that what is left is the end of it, `OrderedFits` that the receivers before that
  point are ordered as wanted and the others as before (`ConnectInv`).  A turn moves the point by the sords of its
  device; one that raises leaves it where it is.  For `PatchedAsListed`, `MetInv`: every link of the places and devices
  that had their turn is one HOME has had since the call began, or is still waited for, or is watched through a
  stale entry; a turn only begins when nothing is waited for.

### The others

* *ServerReboot*: `HistoryFits` and `GoalFits` (it waits for the server to come back only after a look that found
  it down, and the history tells of the server since HOME accepted the reboot) give `OkMeansCycled`; `PlaceFits`
  bounds the end of each question and sleep and gives `EndsInTime`.
* *AppModel*: `WaitIsOpen` -- while it is waited for, the record held is either newer than the one looked at for
  the decision or not on the target.
* *McxConsole*: one invariant for each kind of call (`ButtonsInv`, `ChecksInv`, `ConfigsInv`, `ReadsInv`) ties what is in
  the console's inbox, what the call has read and what the console shows to where it began.  The lamp after
  *n* presses is that of *n* steps of the console's own function (`PressedUnfolds`), so that an error after six of
  them says that no press would do.
* *McxFiles*: `OnlyOurs` (the worker has nothing but the request of a call that is alone) and `SeenIsOurs` (a flag that
  was seen to change was changed by it).
* *McxSignals*: two settings share a number only where they are the same setting, by arithmetic on the indexes
  (`KindIsOwn`, `AuxNumbersDiffer`, and that an index is two times its half plus its parity), over sums that share
  nothing but the beginnings of the blocks; a value stored under a number is then the one asked for last for that
  band, leg or bus.
* *GadgetServer*: `BackedUp` (where the store may be changed, the last backup is of what it held, and the original
  is in one unless a backup was written over) and `StoreFits`
  (until the edit the store is what it was, and the answer is that of the edit).
* *GadgetResources*: `ApartIsOwn` (an object given settings has its own, so that naming another does not rename it),
  `MadeFits` for what was created from one, and `DocFits` (of a key that neither side changed since the fetch, both tell
  the same, and in the same form unless it is sent as a text).

*Only model-checked.*  Liveness: `CatchesUp`, `CallsEnd`, `EnoughBeatsEnd`, `FailoverIsSeen`, `EndpointCallsEnd`,
`FollowsHome`, `UpdatesAreHandled`, `FileCallsEnd`.  Fairness is out of this prover's reach.  `Heartbeats` has no
theorem for that reason: what it promises is that a call ends.  Of safety, `ReadIsCurrent` of `Controls`: it speaks of
what `SelectSeq` picks from a list of controls, a recursion with an operator as its parameter, and the library's facts
about such operators are ones the provers cannot instantiate.

## 6. Not modelled, and why

* `copy_endpoint`, accessors, lookups by attribute, sorting, representations: they read only.
* How requests, flows and configurations are built (`generate_app_config`, channel counts, stream
  attributes): data, not control.
* The lists of sords and snapshots of a HomeController: the dictionary scheme of `AddressRoutes` with an ID for
  a key, and no call waits on them.  Devices that appear after the creation of a HomeController are not
  subscribed to; `StitchCache` has the fixed set of switches as the code has it.
* Single MCX events without a check (strips, banks, automation, shutdown), presets, the conversions of units.
* Version 6 of the gadget server, a REST client that keeps no state; the service calls are those of version 5.
* `production.py`: which class is made for which device; no state, no retry.
* PowerCore: a question and an answer on a serial line or telnet, nothing kept.
* Wrappers around libraries (GNMI, discovery, ssh, NATS options, authentication), tables of resources,
  tests, documentation.
* Reconnection of the NATS client: done by the library, LDF does not see it.

## 7. Plan

Done, in this order: DeviceMirror with its abstract specification and proofs, AddressPatch, SordCalls
and TerminalCalls on top of it, Heartbeats, EndpointsCache, AddressRoutes, StitchCache, AppsCache with
AppsCalls, ServerReboot; then AppModel and Controls, ConnectSords, PathFinding, the MCX console in three
modules, the gadget server in two, the sessions that compose them; then the proofs of every safety and
action property that a run checks, but `ReadIsCurrent`.

Left, most important first:

1. Refinement of `AddressPatch`, `EndpointsCache` and `AddressRoutes` to `PartialReplica`, whose steps they take as
   `DeviceMirror` does.
2. Safety of the calls of a HomeController on the devices list beyond what a label found says: what a purge
   or a removal of proxies leaves listed.
3. Presets and the automation of the MCX console, where a wait is involved.
