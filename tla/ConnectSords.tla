---------------------------- MODULE ConnectSords ----------------------------
(***************************************************************************)
(* Patching sords of several devices (ldf/common/connections.py): the sords *)
(* of all sources are mapped one to one to those of all destinations, flow  *)
(* by flow, and each source device is entered and connected in its turn.    *)
(* Addresses are looked up in what the devices have cached.                 *)
(*                                                                         *)
(* HOME takes the request of a turn as a whole and carries its links out    *)
(* later, one by one, or never; a blocking call waits at each turn until    *)
(* the cached addresses show them (AddressPatch), also if they do so        *)
(* because they are stale.                                                  *)
(***************************************************************************)
EXTENDS Integers, Sequences, FiniteSets, SequencesExt

CONSTANTS
  TxSords, RxSords,  \* sords that send and that receive
  Holder,            \* sord to its device
  Essences,
  Flows,             \* sord to its flows: how many of each essence
  NoSender,          \* of a receiver that gets nothing
  MaxListed,         \* bound: sords of one device in a call
  MaxConnectCalls    \* bound: calls of one behaviour

Sords == TxSords \cup RxSords

\* A flow, and the gate of its address: the k-th of an essence.
Gates(S) == {g \in S \X Essences \X (1..2) : g[3] <= Flows[g[1]][g[2]]}

ASSUME ConnectAssumption ==
  /\ TxSords \cap RxSords = {} /\ NoSender \notin Gates(TxSords)
  /\ IsFiniteSet(TxSords) /\ IsFiniteSet(RxSords)
  /\ Flows \in [Sords -> [Essences -> 0..2]]
  /\ MaxListed \in Nat /\ MaxConnectCalls \in Nat

Devices == {Holder[s] : s \in Sords}

VARIABLES
  patched,   \* HOME: gate of a receiver to the gate it gets its stream from
  due,       \* HOME: links it was asked for and has not carried out
  ordered,   \* gate of a receiver to the sender HOME was last asked for
  absent,    \* gates that are not in the cached addresses
  stale,     \* gates whose cached addresses may show anything
  turns,     \* the call: devices still to come
  sources,   \* the call: device to its sords in src_map
  sinks,     \* the call: what is left of flattened_dst_map
  freeing,   \* the call: device to the gates it is to disconnect
  blocking,  \* the call: block_until_connect, block_until_disconnect
  left,      \* the call: links still waited for
  stage,     \* "connect", "disconnect", "returned" or "raised"
  asked,     \* history: pairs of sords that were to be connected, in order
  before,    \* history: ordered when the call began
  had,       \* history: links HOME had at some time of the call
  connects   \* calls so far

connectVars == <<patched, due, ordered, absent, stale, turns, sources, sinks, freeing,
                 blocking, left, stage, asked, before, had, connects>>

Senders == Gates(TxSords) \cup {NoSender}
AnyLink == Senders \X Gates(RxSords)

ConnectTypeOK ==
  /\ {patched, ordered, before} \subseteq [Gates(RxSords) -> Senders]
  /\ {due, left, had} \subseteq SUBSET AnyLink
  /\ {absent, stale} \subseteq SUBSET Gates(Sords)
  /\ turns \in Seq(Devices) /\ sources \in [Devices -> Seq(TxSords)]
  /\ sinks \in Seq(RxSords) /\ freeing \in [Devices -> SUBSET Gates(RxSords)]
  /\ stage \in {"connect", "disconnect", "returned", "raised"} /\ blocking \in BOOLEAN
  /\ asked \in Seq(TxSords \X RxSords) /\ connects \in 0..MaxConnectCalls

-----------------------------------------------------------------------------
(* HOME and the devices.                                                    *)

CarryOut(x) ==
  /\ x \in due
  /\ due' = due \ {x} /\ patched' = [patched EXCEPT ![x[2]] = x[1]]
  /\ had' = had \cup {x}
  /\ UNCHANGED <<ordered, absent, stale, turns, sources, sinks, freeing, blocking, left,
                 stage, asked, before, connects>>

-----------------------------------------------------------------------------
(* Calls.                                                                   *)

ConnectCall ==
  /\ stage \in {"returned", "raised"} /\ connects < MaxConnectCalls
  /\ connects' = connects + 1 /\ before' = ordered
  /\ had' = {<<patched[g], g>> : g \in Gates(RxSords)}
  /\ blocking' \in BOOLEAN /\ left' = {}
  /\ UNCHANGED <<patched, due, ordered, absent, stale>>

\* connect_sords.  A single sord is repeated for every destination, in the list
\* of the first device of src_map whoever holds it; else the numbers have to
\* agree.
CallConnect(o, src, rx) ==
  /\ ConnectCall
  /\ LET all == FlattenSeq([n \in DOMAIN o |-> src[o[n]]])
         single == Len(all) = 1
         repeated == [d \in Devices |-> IF d = o[1] /\ src[d] # <<>>
                                        THEN [j \in DOMAIN rx |-> src[d][1]] ELSE <<>>]
         fits == single \/ Len(all) = Len(rx)
     IN  /\ turns' = IF single THEN <<o[1]>> ELSE o
         /\ sources' = IF single THEN repeated ELSE src
         /\ stage' = IF fits THEN "connect" ELSE "raised"
         /\ asked' = IF fits THEN [j \in DOMAIN rx |-> <<all[IF single THEN 1 ELSE j], rx[j]>>]
                     ELSE <<>>
  /\ sinks' = rx /\ freeing' = [d \in Devices |-> {}]

\* disconnect_destinations: a sord stands for its flows.
CallDisconnect(o, targets) ==
  /\ ConnectCall
  /\ turns' = o /\ stage' = "disconnect" /\ asked' = <<>>
  /\ freeing' = [d \in Devices |-> {g \in Gates(RxSords) :
                    /\ Holder[g[1]] = d /\ \E n \in DOMAIN o : o[n] = d
                    /\ g[1] \in targets \/ g \in targets}]
  /\ UNCHANGED <<sources, sinks>>

-----------------------------------------------------------------------------
(* Turns.                                                                   *)

\* get_gates_from_data: the k-th flow of an essence is connected to the k-th
\* of that essence, as long as both sords have one.
Links(tx, rx) ==
  {<<<<tx[x[1]], x[2], x[3]>>, <<rx[x[1]], x[2], x[3]>>>> :
     x \in {y \in (DOMAIN tx) \X Essences \X (1..2) :
              y[3] <= Flows[tx[y[1]]][y[2]] /\ y[3] <= Flows[rx[y[1]]][y[2]]}}

\* HOME takes the request: a receiver gets one sender.
OrderedBy(links) ==
  [g \in DOMAIN ordered |->
     IF \E x \in links : x[2] = g THEN (CHOOSE x \in links : x[2] = g)[1] ELSE ordered[g]]

Order(links) ==
  /\ ordered' = OrderedBy(links) /\ due' = due \cup links
  /\ stage' \in {stage, "raised"}   \* raised: the answer is lost
  /\ left' = IF blocking /\ stage' = stage THEN links ELSE {}

Stays == UNCHANGED <<patched, had, sources, freeing, blocking, asked, absent, stale,
                     before, connects>>

\* Mutant of ConnectTurn: every device starts with the first destination.
ConnectTurn_FromFirst ==
  /\ stage = "connect" /\ turns # <<>> /\ left = {}
  /\ LET tx == sources[Head(turns)]
         links == Links(tx, sinks)
     IN  links # {} /\ Order(links)
  /\ turns' = Tail(turns)
  /\ UNCHANGED sinks /\ Stays

\* Mutant of ConnectTurn: the waits are left to the caller after the last turn.
ConnectTurn_NoWait ==
  /\ stage = "connect" /\ turns # <<>>
  /\ LET tx == sources[Head(turns)]
         links == Links(tx, sinks)
     IN  /\ links # {} /\ \A x \in links : {x[1], x[2]} \cap absent = {}
         /\ Order(links)
         /\ turns' = Tail(turns) /\ sinks' = SubSeq(sinks, Len(tx) + 1, Len(sinks))
  /\ Stays

\* The links of the next device; addresses.connect refuses to connect nothing.
ConnectTurn ==
  /\ stage = "connect" /\ turns # <<>> /\ left = {}
  /\ LET tx == sources[Head(turns)]
         links == Links(tx, sinks)
     IN  /\ links # {} /\ \A x \in links : {x[1], x[2]} \cap absent = {}
         /\ Order(links)
         /\ turns' = Tail(turns) /\ sinks' = SubSeq(sinks, Len(tx) + 1, Len(sinks))
  /\ Stays

\* The same for what the next device is to disconnect, which may be nothing.
\* The error HOME answers is dropped, and the waits go on.
DisconnectTurn ==
  /\ stage = "disconnect" /\ turns # <<>> /\ left = {}
  /\ freeing[Head(turns)] \cap absent = {}
  /\ LET links == {<<NoSender, g>> : g \in freeing[Head(turns)]}
     IN  \/ Order(links)
         \/ /\ left' = IF blocking THEN links ELSE {}
            /\ UNCHANGED <<ordered, due, stage>>
  /\ turns' = Tail(turns)
  /\ UNCHANGED sinks /\ Stays

\* Before HOME has taken anything: no connection to make, a KeyError for an
\* address that is not cached, a device that is not entered, HOME's refusal.
TurnRaises ==
  /\ stage \in {"connect", "disconnect"} /\ turns # <<>> /\ left = {}
  /\ stage' = "raised"
  /\ UNCHANGED <<ordered, due, left, turns, sinks>> /\ Stays

\* The entry that is waited on: the sender's, or the receiver's to be freed.
Watched(x) == IF x[1] = NoSender THEN x[2] ELSE x[1]

Shows(x) == patched[x[2]] = x[1] \/ Watched(x) \in stale

WaitEnds(x) ==
  /\ x \in left /\ Shows(x)
  /\ left' = left \ {x}
  /\ UNCHANGED <<ordered, due, stage, turns, sinks>> /\ Stays

\* One wait that is given up ends the call.
WaitRaises(x) ==
  /\ x \in left /\ (patched[x[2]] # x[1] \/ Watched(x) \in stale)
  /\ stage' = "raised" /\ left' = {}
  /\ UNCHANGED <<ordered, due, turns, sinks>> /\ Stays

ConnectReturns ==
  /\ stage \in {"connect", "disconnect"} /\ turns = <<>> /\ left = {}
  /\ stage' = "returned"
  /\ UNCHANGED <<ordered, due, left, turns, sinks>> /\ Stays

-----------------------------------------------------------------------------
\* All receivers get the same sender, or none; at most one address is not
\* cached, or not as HOME has it.
connectInit ==
  /\ \E s \in Senders : patched = [g \in Gates(RxSords) |-> s]
  /\ due = {} /\ ordered = patched /\ before = patched /\ had = {}
  /\ \E w \in {{}} \cup {{g} : g \in Gates(Sords)} :
       \/ absent = w /\ stale = {}
       \/ absent = {} /\ stale = w
  /\ turns = <<>> /\ sources = [d \in Devices |-> <<>>] /\ sinks = <<>>
  /\ freeing = [d \in Devices |-> {}] /\ blocking = FALSE /\ left = {}
  /\ stage = "returned" /\ asked = <<>> /\ connects = 0

\* A dictionary of devices with lists of their own sords; each receiver once.
Maps == {f \in [Devices -> SeqOf(TxSords, MaxListed)] :
           \A d \in Devices : \A j \in DOMAIN f[d] : Holder[f[d][j]] = d}

Orders(S) == UNION {SetToSeqs(T) : T \in (SUBSET S) \ {{}}}

connectNext ==
  \/ \E o \in Orders({Holder[s] : s \in TxSords}), src \in Maps, T \in SUBSET RxSords :
       \E rx \in SetToSeqs(T) :
          /\ \A d \in Devices : src[d] # <<>> => \E n \in DOMAIN o : o[n] = d
          /\ CallConnect(o, src, rx)
  \/ \E o \in Orders({Holder[s] : s \in RxSords}), t \in SUBSET RxSords :
       CallDisconnect(o, t) \/ \E g \in Gates(RxSords) : CallDisconnect(o, {g})
  \/ ConnectTurn \/ DisconnectTurn \/ TurnRaises \/ ConnectReturns
  \/ \E x \in due : CarryOut(x)
  \/ \E x \in left : WaitEnds(x) \/ WaitRaises(x)

connectSpec == connectInit /\ [][connectNext]_connectVars

-----------------------------------------------------------------------------
(* Properties.                                                              *)

\* Places of the list at which the receiver's gate is to get a sender.
Places(g) ==
  {j \in DOMAIN asked : asked[j][2] = g[1] /\ g[3] <= Flows[asked[j][1]][g[2]]}

\* The sender a receiver's gate is to get, if any.
Wanted(g) ==
  IF Places(g) = {} THEN before[g]
  ELSE <<asked[CHOOSE j \in Places(g) : TRUE][1], g[2], g[3]>>

\* A call that connects and returns has asked HOME, for every receiver, for the
\* sender that stands at its place in the list, flow by flow, and for nothing
\* else.  One that raised, for whatever reason and wherever, has done so for
\* the places before those that are left and has not touched the others.
AskedAsListed ==
  asked # <<>> =>
    \A g \in Gates(RxSords) :
      /\ stage = "returned" => ordered[g] = Wanted(g)
      /\ stage = "raised" =>
           ordered[g] = IF \E j \in DOMAIN sinks : sinks[j] = g[1] THEN before[g]
                        ELSE Wanted(g)

\* What a call was to bring about: the links of the list, the gates to free.
Awaited ==
  {<<Wanted(g), g>> : g \in {f \in Gates(RxSords) : Places(f) # {}}}
    \cup {<<NoSender, g>> : g \in UNION {freeing[d] : d \in Devices}}

\* When a blocking call returns, HOME has had each of its links at some time
\* since the call began, over all devices and turns, unless a stale entry ended
\* the wait: no turn, and no wait of a turn, was passed over.
PatchedAsListed ==
  (stage = "returned" /\ blocking) =>
    \A x \in Awaited : x \in had \/ Watched(x) \in stale
=============================================================================
