------------------------ MODULE DeviceCalls_proofs -------------------------
(***************************************************************************)
(* Type correctness of DeviceMirror and its main promise, SureIsExact, for *)
(* any set of items, contents and labels and any length of the journal;    *)
(* the refinement of PartialReplica; and what the calls that poll this      *)
(* cache may conclude from it, TerminalCalls and SordCalls, each with its   *)
(* own specification over the same variables.                               *)
(*                                                                         *)
(* SureIsExact alone is not inductive.  That a copy fetched at one journal *)
(* position is still right at another, if nothing touched the item between *)
(* them, is an induction over the journal; `Chain' carries it along as a   *)
(* state invariant, which one appended entry preserves.                    *)
(***************************************************************************)
EXTENDS TerminalCalls, SordCalls, TLAPS

\* The value of item i after journal entry k.
At(k, i) == log[k].sec.items[i]

\* Each entry says what it did.
JournalOK ==
  \A k \in 2..Len(log) :
    /\ log[k].op \in {"insert", "change", "remove"} => log[k].id \in Ids
    /\ log[k].op \in {"userinfo", "reset"} => log[k].id = None
    /\ log[k].op # "init"
    /\ log[k].op = "insert" => At(k - 1, log[k].id) = None
    /\ log[k].op \in {"insert", "change"} => At(k, log[k].id) # None
    /\ log[k].op = "remove" => At(k, log[k].id) = None

\* An item nothing touched in j+1..k is the same at j and at k.
Chain ==
  \A i \in Ids : \A j, k \in 1..Len(log) :
    (j <= k /\ \A m \in 1..Len(log) : (j < m /\ m <= k) => ~Touches(m, i))
    => At(j, i) = At(k, i)

\* The positions the client holds, by phase.
Positions ==
  /\ pc \notin {"getting", "resetting"} => snap = 0
  /\ pc \notin {"online", "resetting"} => cursor = 0
  /\ pc \in {"addresses", "subscribing"} =>
       /\ asof # 0 => \A i \in Ids : local.items[i] = AsSeq(At(asof, i))
  /\ pc = "online" => 1 <= base /\ base <= cursor
  /\ pc = "resetting" => 1 <= cursor /\ (snap # 0 => cursor <= snap)

IInv == TypeOK /\ JournalOK /\ Chain /\ Positions /\ SureIsExact

-----------------------------------------------------------------------------
(* Facts about the data.                                                    *)

LEMMA AsSeqType ==
  ASSUME NEW x \in Vals \cup {None}
  PROVE  AsSeq(x) \in Seq(Vals)
BY ConstAssumption DEF AsSeq

LEMMA CopyType ==
  ASSUME NEW sec \in Section
  PROVE  /\ Copy(sec) \in Cache
         /\ \A i \in Ids : Copy(sec).items[i] = AsSeq(sec.items[i])
<1>1. \A i \in Ids : sec.items[i] \in Vals \cup {None}
  BY DEF Section
<1>2. \A i \in Ids : AsSeq(sec.items[i]) \in Seq(Vals)
  BY <1>1, AsSeqType
<1> QED BY <1>2 DEF Copy, Cache, Section

\* One published update keeps every invariant: the shared half of the
\* actions of HOME.
LEMMA PublishKeeps ==
  ASSUME IInv,
         NEW op \in {"insert", "change", "remove", "userinfo", "reset"},
         NEW id \in Ids \cup {None}, NEW sec \in Section,
         Publish(op, id, sec),
         op \in {"insert", "change", "remove"} => id \in Ids,
         op \in {"userinfo", "reset"} => id = None,
         op = "insert" => now.items[id] = None,
         op \in {"insert", "change"} => sec.items[id] # None,
         op = "remove" => sec.items[id] = None,
         op # "reset" => \A i \in Ids \ {id} : sec.items[i] = now.items[i]
  PROVE  IInv'
<1> DEFINE e == [op |-> op, id |-> id, sec |-> sec]
<1>0. PICK n \in Nat : n = Len(log)
  BY DEF IInv, TypeOK
<1>1. /\ log \in Seq(Entry) /\ n = Len(log) /\ n \in Nat /\ n >= 1 /\ n < MaxLog
      /\ MaxLog \in Nat
  BY <1>0, ConstAssumption DEF IInv, TypeOK, Publish
<1>2. e \in Entry
  BY DEF Entry
<1>3. /\ log' = Append(log, e) /\ log' \in Seq(Entry)
      /\ Len(log') = n + 1
      /\ \A k \in 1..n : log'[k] = log[k]
      /\ log'[n + 1] = e
  BY <1>1, <1>2 DEF Publish
<1>4. UNCHANGED <<pc, snap, local, asof, base, cursor>>
  BY DEF Publish, client
<1>5. /\ asof \in 0..n /\ base \in 0..n /\ cursor \in 0..n /\ snap \in 0..n
  BY <1>0 DEF IInv, TypeOK
<1>6. TypeOK'
  BY <1>1, <1>3, <1>4, <1>5 DEF IInv, TypeOK
<1>7. \A k \in 1..n : /\ At(k, id)' = At(k, id)
                      /\ \A i \in Ids : At(k, i)' = At(k, i)
                      /\ \A i \in Ids : Touches(k, i)' <=> Touches(k, i)
  BY <1>3 DEF At, Touches
<1>8. now = log[n].sec
  BY <1>0 DEF now
<1>9. JournalOK'
  <2> SUFFICES ASSUME NEW k \in 2..(n + 1)
               PROVE  /\ log'[k].op \in {"insert", "change", "remove"} => log'[k].id \in Ids
                      /\ log'[k].op \in {"userinfo", "reset"} => log'[k].id = None
                      /\ log'[k].op # "init"
                      /\ log'[k].op = "insert" => log'[k-1].sec.items[log'[k].id] = None
                      /\ log'[k].op \in {"insert", "change"} => log'[k].sec.items[log'[k].id] # None
                      /\ log'[k].op = "remove" => log'[k].sec.items[log'[k].id] = None
    BY <1>3 DEF JournalOK, At
  <2>1. CASE k \in 2..n
    <3>1. k \in 1..n /\ k - 1 \in 1..n
      BY <2>1, <1>1
    <3> QED BY <2>1, <3>1, <1>3 DEF IInv, JournalOK, At
  <2>2. CASE k = n + 1
    BY <2>2, <1>1, <1>3, <1>8
  <2> QED BY <2>1, <2>2, <1>1
<1>10. Chain'
  <2> SUFFICES ASSUME NEW i \in Ids, NEW j \in 1..(n + 1), NEW k \in 1..(n + 1),
                      j <= k,
                      \A m \in 1..(n + 1) : (j < m /\ m <= k) => ~Touches(m, i)'
               PROVE  At(j, i)' = At(k, i)'
    BY <1>3 DEF Chain
  <2>1. CASE k \in 1..n
    <3>1. j \in 1..n
      BY <2>1, <1>1
    <3>2. \A m \in 1..n : (j < m /\ m <= k) => ~Touches(m, i)
      BY <1>1, <1>7
    <3>3. At(j, i) = At(k, i)
      BY <1>0, <2>1, <3>1, <3>2 DEF IInv, Chain
    <3> QED BY <2>1, <3>1, <3>3, <1>7
  <2>2. CASE k = n + 1 /\ j = n + 1
    BY <2>2
  <2>3. CASE k = n + 1 /\ j \in 1..n
    <3>1. \A m \in 1..n : (j < m /\ m <= n) => ~Touches(m, i)
      BY <2>3, <1>1, <1>7
    <3>2. At(j, i) = At(n, i)
      BY <2>3, <3>1, <1>1 DEF IInv, Chain
    <3>3. ~Touches(n + 1, i)'
      BY <2>3, <1>1
    <3>4. op # "reset" /\ i # id
      BY <3>3, <1>3 DEF Touches
    <3>5. sec.items[i] = log[n].sec.items[i]
      BY <3>4, <1>8
    <3> QED BY <2>3, <3>2, <3>5, <1>1, <1>3, <1>7 DEF At
  <2> QED BY <2>1, <2>2, <2>3, <1>1
<1>11. Positions'
  BY <1>4, <1>5, <1>7, <1>1 DEF IInv, Positions
<1>12. SureIsExact'
  <2> SUFFICES ASSUME NEW i \in Ids, Sure(i)'
               PROVE  local.items[i] = AsSeq(log'[cursor].sec.items[i])
    BY <1>4 DEF SureIsExact
  <2>1. pc = "online" /\ cursor \in 1..n
    BY <1>4, <1>5, <1>1 DEF Sure, IInv, Positions
  <2>2. Sure(i)
    <3>1. CASE ~Disturbed(i)'
      BY <2>1, <3>1, <1>1, <1>3, <1>4, <1>5, <1>7 DEF Sure, Disturbed
    <3>2. CASE Healed(i)'
      <4>1. PICK k \in 1..(n + 1) : base < k /\ k <= cursor /\ log'[k].id = i
                                    /\ log'[k].op \in {"change", "remove"}
        BY <3>2, <1>3, <1>4 DEF Healed
      <4>2. k \in 1..n
        BY <4>1, <2>1, <1>1
      <4> QED BY <4>1, <4>2, <2>1, <1>3 DEF Sure, Healed
    <3> QED BY <3>1, <3>2 DEF Sure
  <2> QED BY <2>1, <2>2, <1>3 DEF IInv, SureIsExact
<1> QED BY <1>6, <1>9, <1>10, <1>11, <1>12 DEF IInv

-----------------------------------------------------------------------------
(* The steps of the client.  The journal does not move, so only the type,  *)
(* the positions and SureIsExact can be disturbed.                         *)

LEMMA JournalStable ==
  ASSUME IInv, UNCHANGED log
  PROVE  /\ JournalOK' /\ Chain'
         /\ \A i \in Ids, k \in 1..Len(log) : At(k, i) \in Vals \cup {None}
         /\ \A k \in 1..Len(log) : log[k].sec \in Section /\ log[k].op \in
              {"init", "insert", "change", "remove", "userinfo", "reset"}
<1>1. JournalOK' /\ Chain'
  BY DEF IInv, JournalOK, Chain, At, Touches
<1>2. \A k \in 1..Len(log) : log[k] \in Entry
  BY DEF IInv, TypeOK
<1>3. \A i \in Ids, k \in 1..Len(log) : At(k, i) \in Vals \cup {None}
  BY <1>2 DEF Entry, Section, At
<1> QED BY <1>1, <1>2, <1>3 DEF Entry

\* An untouched stretch of the journal keeps the item.
LEMMA Undisturbed ==
  ASSUME IInv, NEW i \in Ids,
         NEW j \in 1..Len(log), NEW k \in 1..Len(log), j <= k,
         \A m \in 1..Len(log) : ~(Touches(m, i) /\ j < m /\ m <= k)
  PROVE  At(j, i) = At(k, i)
BY DEF IInv, Chain

LEMMA InstallFirstKeeps ==
  ASSUME IInv, InstallFirst
  PROVE  IInv'
<1>1. /\ pc = "getting" /\ snap # 0 /\ pc' = "addresses" /\ snap' = 0
      /\ asof' = snap /\ local' = Copy(log[snap].sec)
      /\ UNCHANGED <<log, base, cursor>>
  BY DEF InstallFirst
<1>2. snap \in 1..Len(log)
  BY <1>1 DEF IInv, TypeOK
<1>3. log[snap].sec \in Section
  BY <1>1, <1>2, JournalStable
<1>4. local' \in Cache /\ \A i \in Ids : local'.items[i] = AsSeq(At(snap, i))
  BY <1>1, <1>3, CopyType DEF At
<1>5. TypeOK'
  BY <1>1, <1>2, <1>4 DEF IInv, TypeOK
<1>6. Positions'
  BY <1>1, <1>2, <1>4 DEF IInv, Positions, At
<1>7. SureIsExact'
  BY <1>1 DEF SureIsExact, Sure
<1> QED BY <1>1, <1>5, <1>6, <1>7, JournalStable DEF IInv

LEMMA SubscribeKeeps ==
  ASSUME IInv, Subscribe
  PROVE  IInv'
<1>1. /\ pc = "subscribing" /\ pc' = "online"
      /\ base' = Len(log) /\ cursor' = Len(log)
      /\ UNCHANGED <<log, snap, local, asof>>
  BY DEF Subscribe
<1>2. Len(log) \in Nat /\ Len(log) >= 1 /\ asof \in 0..Len(log)
  BY <1>1 DEF IInv, TypeOK, Positions
<1>3. TypeOK'
  BY <1>1, <1>2 DEF IInv, TypeOK
<1>4. Positions'
  BY <1>1, <1>2 DEF IInv, Positions
<1>5. SureIsExact'
  <2> SUFFICES ASSUME NEW i \in Ids, Sure(i)'
               PROVE  local.items[i] = AsSeq(At(Len(log), i))
    BY <1>1 DEF SureIsExact, At
  <2>1. ~Healed(i)'
    BY <1>1, <1>2 DEF Healed
  <2>2. /\ asof \in 1..Len(log)
        /\ \A m \in 1..Len(log) :
             ~(Touches(m, i) /\ asof < m /\ m <= Len(log))
    BY <1>1, <1>2, <2>1 DEF Sure, Disturbed, Touches
  <2>3. At(asof, i) = At(Len(log), i)
    BY <1>2, <2>2, Undisturbed
  <2>4. local.items[i] = AsSeq(At(asof, i))
    BY <1>1, <2>2 DEF IInv, Positions
  <2> QED BY <2>3, <2>4
<1> QED BY <1>1, <1>3, <1>4, <1>5, JournalStable DEF IInv

LEMMA InstallResetKeeps ==
  ASSUME IInv, InstallReset
  PROVE  IInv'
<1>1. /\ pc = "resetting" /\ snap # 0 /\ pc' = "online" /\ snap' = 0
      /\ asof' = snap /\ base' = cursor /\ local' = Copy(log[snap].sec)
      /\ UNCHANGED <<log, cursor>>
  BY DEF InstallReset
<1>2. snap \in 1..Len(log) /\ cursor \in 1..Len(log) /\ cursor <= snap
  BY <1>1 DEF IInv, TypeOK, Positions
<1>3. log[snap].sec \in Section
  BY <1>1, <1>2, JournalStable
<1>4. local' \in Cache /\ \A i \in Ids : local'.items[i] = AsSeq(At(snap, i))
  BY <1>1, <1>3, CopyType DEF At
<1>5. TypeOK'
  BY <1>1, <1>2, <1>4 DEF IInv, TypeOK
<1>6. Positions'
  BY <1>1, <1>2 DEF IInv, Positions
<1>7. SureIsExact'
  <2> SUFFICES ASSUME NEW i \in Ids, Sure(i)'
               PROVE  local'.items[i] = AsSeq(At(cursor, i))
    BY <1>1 DEF SureIsExact, At
  <2>1. ~Healed(i)'
    BY <1>1, <1>2 DEF Healed
  <2>2. \A m \in 1..Len(log) : ~(Touches(m, i) /\ cursor < m /\ m <= snap)
    BY <1>1, <2>1 DEF Sure, Disturbed, Touches
  <2>3. At(cursor, i) = At(snap, i)
    BY <1>2, <2>2, Undisturbed
  <2> QED BY <1>4, <2>3
<1> QED BY <1>1, <1>5, <1>6, <1>7, JournalStable DEF IInv

\* A failed fetch leaves nothing the cache is sure of.
LEMMA FailuresKeep ==
  ASSUME IInv, FirstFetchRefused \/ EnterRaises \/ ResetFails
  PROVE  IInv'
<1>1. Nothing \in Cache
  BY ConstAssumption DEF Nothing, Cache
<1>2. /\ UNCHANGED <<log, cursor>> /\ local' \in {Nothing, local}
      /\ asof' = 0 /\ base' \in {base, cursor} /\ snap' = 0
      /\ pc' \in {"away", "addresses", "online"}
      /\ pc' = "online" => pc = "resetting" /\ base' = cursor
      /\ pc' # "online" => pc \in {"getting", "addresses", "subscribing"}
  BY DEF FirstFetchRefused, EnterRaises, ResetFails
<1>3. TypeOK'
  BY <1>1, <1>2 DEF IInv, TypeOK
<1>4. Positions'
  BY <1>2 DEF IInv, TypeOK, Positions
<1>5. SureIsExact'
  <2> SUFFICES ASSUME NEW i \in Ids PROVE ~Sure(i)'
    BY DEF SureIsExact
  <2>1. Healed(i)' => pc' # "online"
    BY <1>2 DEF Healed, IInv, TypeOK
  <2> QED BY <1>2, <2>1 DEF Sure, Disturbed
<1> QED BY <1>2, <1>3, <1>4, <1>5, JournalStable DEF IInv

-----------------------------------------------------------------------------
(* One update applied.                                                      *)

\* What Apply does to the cached items of one ID.
LEMMA ApplyItem ==
  ASSUME NEW c \in Cache, NEW e \in Entry, NEW i \in Ids,
         e.op \in {"insert", "change", "remove"} => e.id \in Ids
  PROVE  /\ (e.op = "insert" /\ e.id = i) =>
              Apply(c, e).items[i] = Append(c.items[i], e.sec.items[i])
         /\ (e.op = "change" /\ e.id = i) =>
              Apply(c, e).items[i] = <<e.sec.items[i]>>
         /\ (e.op = "remove" /\ e.id = i) => Apply(c, e).items[i] = <<>>
         /\ (e.op \in {"insert", "change", "remove"} /\ e.id # i) =>
              Apply(c, e).items[i] = c.items[i]
         /\ e.op \notin {"insert", "change", "remove"} =>
              Apply(c, e).items[i] = c.items[i]
BY DEF Apply, Cache, Entry

LEMMA ApplyType ==
  ASSUME NEW c \in Cache, NEW e \in Entry,
         e.op \in {"insert", "change", "remove"} => e.id \in Ids,
         e.op \in {"insert", "change"} => e.sec.items[e.id] \in Vals
  PROVE  Apply(c, e) \in Cache
<1>1. CASE e.op = "insert"
  <2>1. Append(c.items[e.id], e.sec.items[e.id]) \in Seq(Vals)
    BY <1>1 DEF Cache
  <2> QED BY <1>1, <2>1 DEF Apply, Cache
<1>2. CASE e.op = "change"
  <2>1. <<e.sec.items[e.id]>> \in Seq(Vals) /\ e.id \in Ids
    BY <1>2
  <2>2. Apply(c, e) = [c EXCEPT !.items[e.id] = <<e.sec.items[e.id]>>]
    BY <1>2 DEF Apply
  <2> QED BY <2>1, <2>2 DEF Cache
<1>3. CASE e.op = "remove"
  <2>1. <<>> \in Seq(Vals) /\ e.id \in Ids
    BY <1>3
  <2>2. Apply(c, e) = [c EXCEPT !.items[e.id] = <<>>]
    BY <1>3 DEF Apply
  <2> QED BY <2>1, <2>2 DEF Cache
<1>4. CASE e.op = "userinfo"
  <2>1. e.sec.label \in Labels
    BY DEF Entry, Section
  <2> QED BY <1>4, <2>1 DEF Apply, Cache
<1>5. CASE e.op \in {"init", "reset"}
  BY <1>5 DEF Apply
<1> QED BY <1>1, <1>2, <1>3, <1>4, <1>5 DEF Entry

LEMMA DeliverKeeps ==
  ASSUME IInv, Deliver
  PROVE  IInv'
<1>0. PICK e : e = log[cursor + 1]
  OBVIOUS
<1>1. /\ pc = "online" /\ cursor < Len(log) /\ e.op # "reset"
      /\ local' = Apply(local, e) /\ cursor' = cursor + 1
      /\ UNCHANGED <<log, pc, snap, asof, base>>
  BY <1>0 DEF Deliver
<1>2. /\ Len(log) \in Nat /\ cursor \in 1..Len(log)
      /\ cursor + 1 \in 2..Len(log) /\ cursor + 1 \in 1..Len(log)
      /\ base \in 1..Len(log) /\ base <= cursor /\ asof \in 0..Len(log)
  BY <1>1 DEF IInv, TypeOK, Positions
<1>3. e \in Entry /\ local \in Cache
  BY <1>0, <1>2 DEF IInv, TypeOK
<1>4. /\ e.op \in {"insert", "change", "remove"} => e.id \in Ids
      /\ e.op = "userinfo" => e.id = None
      /\ e.op # "init"
      /\ e.op = "insert" => At(cursor, e.id) = None
      /\ e.op \in {"insert", "change"} => e.sec.items[e.id] # None
      /\ e.op = "remove" => e.sec.items[e.id] = None
  BY <1>0, <1>2 DEF IInv, JournalOK, At
<1>5. \A i \in Ids : e.sec.items[i] \in Vals \cup {None}
                     /\ e.sec.items[i] = At(cursor + 1, i)
  BY <1>0, <1>3 DEF Entry, Section, At
<1>6. local' \in Cache
  BY <1>1, <1>3, <1>4, <1>5, ApplyType
<1>7. TypeOK'
  BY <1>1, <1>2, <1>6 DEF IInv, TypeOK
<1>8. Positions'
  BY <1>1, <1>2 DEF IInv, Positions
<1>9. SureIsExact'
  <2> SUFFICES ASSUME NEW i \in Ids, Sure(i)'
               PROVE  local'.items[i] = AsSeq(At(cursor + 1, i))
    BY <1>1 DEF SureIsExact, At
  <2>1. CASE e.op = "change" /\ e.id = i
    BY <2>1, <1>1, <1>3, <1>4, <1>5, ApplyItem DEF AsSeq
  <2>2. CASE e.op = "remove" /\ e.id = i
    BY <2>2, <1>1, <1>3, <1>4, <1>5, ApplyItem DEF AsSeq
  <2>3. CASE ~(e.op \in {"change", "remove"} /\ e.id = i)
    <3>1. Healed(i)' => Healed(i)
      BY <2>3, <1>0, <1>1, <1>2 DEF Healed
    <3>2. Sure(i)
      BY <3>1, <1>1 DEF Sure, Disturbed, Touches
    <3>3. local.items[i] = AsSeq(At(cursor, i))
      BY <3>2 DEF IInv, SureIsExact, At
    <3>4. CASE e.op = "insert" /\ e.id = i
      <4>1. local.items[i] = <<>>
        BY <3>3, <3>4, <1>4 DEF AsSeq
      <4>2. local'.items[i] = Append(local.items[i], e.sec.items[i])
        BY <3>4, <1>1, <1>3, <1>4, ApplyItem
      <4>3. e.sec.items[i] # None
        BY <3>4, <1>4
      <4> QED BY <4>1, <4>2, <4>3, <1>5 DEF AsSeq
    <3>5. CASE e.id # i
      <4>1. ~Touches(cursor + 1, i)
        BY <3>5, <1>0, <1>1 DEF Touches
      <4>2. At(cursor, i) = At(cursor + 1, i)
        BY <4>1, <1>2, Undisturbed
      <4>3. local'.items[i] = local.items[i]
        BY <3>5, <1>1, <1>3, <1>4, ApplyItem
      <4> QED BY <4>2, <4>3, <3>3
    <3>6. e.id = i => e.op = "insert"
      BY <2>3, <1>1, <1>3, <1>4, ConstAssumption DEF Entry
    <3> QED BY <3>4, <3>5, <3>6
  <2> QED BY <2>1, <2>2, <2>3
<1> QED BY <1>1, <1>7, <1>8, <1>9, JournalStable DEF IInv

-----------------------------------------------------------------------------
(* The invariant and the theorems.                                         *)

LEMMA InitIInv == Init => IInv
<1> SUFFICES ASSUME Init PROVE IInv
  OBVIOUS
<1>1. PICK sec \in Section : log = <<[op |-> "init", id |-> None, sec |-> sec]>>
  BY DEF Init
<1>2. /\ log \in Seq(Entry) /\ Len(log) = 1
  BY <1>1 DEF Entry
<1>3. local \in Cache
  BY ConstAssumption DEF Init, Nothing, Cache
<1>4. TypeOK
  BY <1>2, <1>3, ConstAssumption DEF Init, TypeOK
<1>5. JournalOK /\ Chain
  BY <1>2 DEF JournalOK, Chain
<1>6. Positions /\ SureIsExact
  BY DEF Init, Positions, SureIsExact, Sure
<1> QED BY <1>4, <1>5, <1>6 DEF IInv

LEMMA HomeKeeps ==
  ASSUME IInv, HomeStep
  PROVE  IInv'
<1>1. /\ now \in Section /\ now.items \in [Ids -> Vals \cup {None}]
      /\ now.label \in Labels
  <2>1. log[Len(log)] \in Entry
    BY DEF IInv, TypeOK
  <2> QED BY <2>1 DEF now, Entry, Section
<1>2. ASSUME NEW i \in Ids, NEW x \in Vals \cup {None}
      PROVE  /\ [now EXCEPT !.items[i] = x] \in Section
             /\ [now EXCEPT !.items[i] = x].items[i] = x
             /\ \A j \in Ids \ {i} :
                  [now EXCEPT !.items[i] = x].items[j] = now.items[j]
  BY <1>1 DEF Section
<1>3. ASSUME NEW i \in Ids, NEW v \in Vals, HomeInsert(i, v)
      PROVE  IInv'
  <2> DEFINE sec == [now EXCEPT !.items[i] = v]
  <2>1. /\ sec \in Section /\ sec.items[i] = v /\ v # None
        /\ \A j \in Ids \ {i} : sec.items[j] = now.items[j]
    BY <1>2, ConstAssumption
  <2>2. Publish("insert", i, sec) /\ ("insert" = "insert" => now.items[i] = None)
    BY <1>3 DEF HomeInsert
  <2> HIDE DEF sec
  <2> QED BY <2>1, <2>2, PublishKeeps
<1>4. ASSUME NEW i \in Ids, NEW v \in Vals, HomeChange(i, v)
      PROVE  IInv'
  <2> DEFINE sec == [now EXCEPT !.items[i] = v]
  <2>1. /\ sec \in Section /\ sec.items[i] = v /\ v # None
        /\ \A j \in Ids \ {i} : sec.items[j] = now.items[j]
    BY <1>2, ConstAssumption
  <2>2. Publish("change", i, sec) /\ ("change" = "insert" => now.items[i] = None)
    BY <1>4 DEF HomeChange
  <2> HIDE DEF sec
  <2> QED BY <2>1, <2>2, PublishKeeps
<1>5. ASSUME NEW i \in Ids, HomeRemove(i)
      PROVE  IInv'
  <2> DEFINE sec == [now EXCEPT !.items[i] = None]
  <2>1. /\ sec \in Section /\ sec.items[i] = None
        /\ \A j \in Ids \ {i} : sec.items[j] = now.items[j]
    BY <1>2
  <2>2. Publish("remove", i, sec) BY <1>5 DEF HomeRemove
  <2> HIDE DEF sec
  <2> QED BY <2>1, <2>2, PublishKeeps
<1>6. ASSUME NEW l \in Labels, HomeUserInfo(l)
      PROVE  IInv'
  <2>1. /\ [now EXCEPT !.label = l] \in Section
        /\ [now EXCEPT !.label = l].items = now.items
    BY <1>1 DEF Section
  <2> QED BY <1>6, <2>1, PublishKeeps DEF HomeUserInfo
<1>7. ASSUME NEW items \in [Ids -> Vals \cup {None}], HomeReset(items)
      PROVE  IInv'
  <2>1. [now EXCEPT !.items = items] \in Section
    BY <1>1 DEF Section
  <2> QED BY <1>7, <2>1, PublishKeeps DEF HomeReset
<1> QED BY <1>3, <1>4, <1>5, <1>6, <1>7 DEF HomeStep

LEMMA NextIInv == IInv /\ [Next]_vars => IInv'
<1> SUFFICES ASSUME IInv, [Next]_vars PROVE IInv'
  OBVIOUS
<1>1. CASE HomeStep
  BY <1>1, HomeKeeps
<1>2. CASE ServeGet
  <2>1. TypeOK' /\ Positions' /\ SureIsExact'
    BY <1>2 DEF ServeGet, IInv, TypeOK, Positions, SureIsExact, Sure
  <2> QED BY <1>2, <2>1, JournalStable DEF ServeGet, IInv
<1>3. CASE Enter
  <2>1. TypeOK' /\ Positions' /\ SureIsExact'
    BY <1>3 DEF Enter, IInv, TypeOK, Positions, SureIsExact, Sure
  <2> QED BY <1>3, <2>1, JournalStable DEF Enter, IInv
<1>4. CASE InstallFirst
  BY <1>4, InstallFirstKeeps
<1>5. CASE AddressesSynced
  <2>1. TypeOK' /\ Positions' /\ SureIsExact'
    BY <1>5 DEF AddressesSynced, IInv, TypeOK, Positions, SureIsExact, Sure, At
  <2> QED BY <1>5, <2>1, JournalStable DEF AddressesSynced, IInv
<1>6. CASE Subscribe
  BY <1>6, SubscribeKeeps
<1>7. CASE Deliver
  BY <1>7, DeliverKeeps
<1>8. CASE DeliverReset
  <2>1. TypeOK' /\ Positions' /\ SureIsExact'
    BY <1>8 DEF DeliverReset, IInv, TypeOK, Positions, SureIsExact, Sure
  <2> QED BY <1>8, <2>1, JournalStable DEF DeliverReset, IInv
<1>9. CASE InstallReset
  BY <1>9, InstallResetKeeps
<1>10. CASE Exit
  <2>1. TypeOK' /\ Positions' /\ SureIsExact'
    BY <1>10 DEF Exit, IInv, TypeOK, Positions, SureIsExact, Sure
  <2> QED BY <1>10, <2>1, JournalStable DEF Exit, IInv
<1>11. CASE UNCHANGED vars
  <2>1. TypeOK' /\ Positions' /\ SureIsExact'
    BY <1>11 DEF vars, IInv, TypeOK, Positions, SureIsExact, Sure, Healed,
                 Disturbed, Touches, At
  <2> QED BY <1>11, <2>1, JournalStable DEF vars, IInv
<1>12. CASE FirstFetchRefused \/ EnterRaises \/ ResetFails
  BY <1>12, FailuresKeep
<1> QED BY <1>1, <1>2, <1>3, <1>4, <1>5, <1>6, <1>7, <1>8, <1>9, <1>10, <1>11,
           <1>12
        DEF Next, ClientStep

\* The invariant holds throughout.
THEOREM Inductive == Spec => []IInv
BY InitIInv, NextIInv, PTL DEF Spec

\* Every reachable state is well typed: positions stay inside the journal.
THEOREM TypeCorrect == Spec => []TypeOK
<1>1. IInv => TypeOK
  BY DEF IInv
<1> QED BY <1>1, Inductive, PTL

\* The cached item is HOME's, exactly once, at the position handled last,
\* unless the last fetch failed or raced with an update of it, and nothing
\* repaired that since.
THEOREM SureItemsAreExact == Spec => []SureIsExact
<1>1. IInv => SureIsExact
  BY DEF IInv
<1> QED BY <1>1, Inductive, PTL

-----------------------------------------------------------------------------
(* DeviceMirror implements PartialReplica.                                 *)

Hist == [k \in 1..Len(log) |-> [i \in Ids |-> AsSeq(At(k, i))]]

\* Bars of the refinement mapping, spelled out for the provers.
LEMMA Mapping ==
  /\ Replica!Init <=> /\ \E s \in [Ids -> {AsSeq(x) : x \in Vals \cup {None}}] :
                              Hist = <<s>>
                      /\ cursor = 0
                      /\ View = [i \in Ids |-> Unsure]
  /\ \A S, p : Replica!SureOf(S, p) =
                 [i \in Ids |-> IF i \in S THEN Hist[p][i] ELSE Unsure]
  /\ Replica!Known = {i \in Ids : View[i] # Unsure}
BY DEF Replica!Init, Replica!SureOf, Replica!Known, Hist, At

LEMMA HistFacts ==
  ASSUME IInv
  PROVE  /\ Len(Hist) = Len(log) /\ Len(log) \in Nat
         /\ \A p \in 1..Len(log), i \in Ids : Hist[p][i] = AsSeq(At(p, i))
BY DEF IInv, TypeOK, Hist

\* No content looks like the mark of an uncertain item.
LEMMA UnsureIsNoItem ==
  \A x \in Vals \cup {None} : AsSeq(x) # Unsure
BY ConstAssumption DEF AsSeq, Unsure

\* While the model is not online it is sure of nothing.
LEMMA OfflineView ==
  pc # "online" => View = [i \in Ids |-> Unsure]
BY DEF View, Sure

\* After a step of the client to "online" the view is HOME's state at the new
\* cursor, restricted to what is sure then.
LEMMA OnlineView ==
  ASSUME IInv, IInv', UNCHANGED log, pc' = "online"
  PROVE  View' = Replica!SureOf({i \in Ids : Sure(i)'}, cursor')
<1>1. cursor' \in 1..Len(log)
  BY DEF IInv, TypeOK, Positions
<1>2. \A i \in Ids : Sure(i)' => local'.items[i] = Hist[cursor'][i]
  BY <1>1, HistFacts DEF IInv, SureIsExact, At
<1> QED BY <1>2, Mapping DEF View, Unsure

\* What is known is exactly what is sure.
LEMMA KnownIsSure ==
  ASSUME IInv
  PROVE  Replica!Known = {i \in Ids : Sure(i)}
<1>1. \A i \in Ids : Sure(i) => View[i] # Unsure
  <2> SUFFICES ASSUME NEW i \in Ids, Sure(i) PROVE local.items[i] # Unsure
    BY DEF View
  <2>1. pc = "online" /\ cursor \in 1..Len(log)
    BY DEF Sure, IInv, TypeOK, Positions
  <2>2. local.items[i] = AsSeq(At(cursor, i)) /\ At(cursor, i) \in Vals \cup {None}
    <3>1. log[cursor] \in Entry
      BY <2>1 DEF IInv, TypeOK
    <3> QED BY <3>1 DEF IInv, SureIsExact, At, Entry, Section
  <2> QED BY <2>2, UnsureIsNoItem
<1> QED BY <1>1, Mapping DEF View

LEMMA PublishRefines ==
  ASSUME IInv, IInv', HomeStep
  PROVE  Replica!Publish
<1>1. PICK sec \in Section : \E op, id : Publish(op, id, sec)
  <2>1. /\ now \in Section /\ now.items \in [Ids -> Vals \cup {None}]
        /\ now.label \in Labels
    <3>1. log[Len(log)] \in Entry
      BY DEF IInv, TypeOK
    <3> QED BY <3>1 DEF now, Entry, Section
  <2>2. ASSUME NEW i \in Ids, NEW x \in Vals \cup {None}
        PROVE  [now EXCEPT !.items[i] = x] \in Section
    BY <2>1 DEF Section
  <2>3. ASSUME NEW items \in [Ids -> Vals \cup {None}]
        PROVE  [now EXCEPT !.items = items] \in Section
    BY <2>1 DEF Section
  <2>4. ASSUME NEW l \in Labels
        PROVE  [now EXCEPT !.label = l] \in Section
    BY <2>1 DEF Section
  <2>5. CASE \E i \in Ids, v \in Vals : HomeInsert(i, v) \/ HomeChange(i, v)
    BY <2>2, <2>5 DEF HomeInsert, HomeChange
  <2>6. CASE \E i \in Ids : HomeRemove(i)
    BY <2>2, <2>6 DEF HomeRemove
  <2>7. CASE \E l \in Labels : HomeUserInfo(l)
    BY <2>4, <2>7 DEF HomeUserInfo
  <2>8. CASE \E items \in [Ids -> Vals \cup {None}] : HomeReset(items)
    BY <2>3, <2>8 DEF HomeReset
  <2> QED BY <2>5, <2>6, <2>7, <2>8 DEF HomeStep
<1>2. PICK op, id : Publish(op, id, sec)
  BY <1>1
<1>0. PICK n \in Nat : n = Len(log)
  BY DEF IInv, TypeOK
<1>8. /\ log \in Seq(Entry) /\ n < MaxLog
      /\ log' = Append(log, [op |-> op, id |-> id, sec |-> sec])
      /\ Len(log') = n + 1
      /\ \A k \in 1..n : log'[k] = log[k]
      /\ log'[n + 1].sec = sec
  BY <1>0, <1>2 DEF Publish, IInv, TypeOK
<1>3. UNCHANGED <<pc, snap, local, asof, base, cursor>>
  BY <1>2 DEF Publish, client
<1> DEFINE s == [i \in Ids |-> AsSeq(sec.items[i])]
<1>4. s \in [Ids -> {AsSeq(x) : x \in Vals \cup {None}}]
  BY <1>1 DEF Section
<1>5. Hist' = Append(Hist, s)
  <2>1. Hist' = [k \in 1..(n + 1) |-> [i \in Ids |-> AsSeq(log'[k].sec.items[i])]]
    BY <1>8 DEF Hist, At
  <2>2. Hist = [k \in 1..n |-> [i \in Ids |-> AsSeq(log[k].sec.items[i])]]
    BY <1>0 DEF Hist, At
  <2>3. \A k \in 1..n : Hist'[k] = Hist[k]
    BY <1>8, <2>1, <2>2
  <2>4. Hist'[n + 1] = s
    BY <1>8, <2>1
  <2>5. Hist \in Seq([Ids -> {AsSeq(x) : x \in Vals \cup {None}}]) /\ Len(Hist) = n
    <3>1. \A k \in 1..n : log[k] \in Entry
      BY <1>0, <1>8
    <3>2. \A k \in 1..n, i \in Ids : log[k].sec.items[i] \in Vals \cup {None}
      BY <3>1 DEF Entry, Section
    <3> QED BY <2>2, <3>2
  <2>6. \A k \in 1..(n + 1) : Hist'[k] = Append(Hist, s)[k]
    BY <2>3, <2>4, <2>5
  <2>7. /\ DOMAIN Append(Hist, s) = 1..(n + 1)
        /\ Append(Hist, s) = [k \in 1..(n + 1) |-> Append(Hist, s)[k]]
    BY <2>5, <1>4
  <2> HIDE DEF s
  <2> QED BY <2>1, <2>6, <2>7
<1>6. View' = View
  <2> SUFFICES ASSUME NEW i \in Ids PROVE Sure(i)' <=> Sure(i)
    BY <1>3 DEF View, Unsure
  <2>1. CASE pc # "online"
    BY <2>1, <1>3 DEF Sure
  <2>2. CASE pc = "online"
    <3>1. asof \in 0..n /\ base \in 0..n /\ cursor \in 0..n
      BY <1>0 DEF IInv, TypeOK
    <3>2. Disturbed(i)' <=> Disturbed(i)
      BY <3>1, <1>0, <1>8, <1>3 DEF Disturbed, Touches
    <3>3. Healed(i)' <=> Healed(i)
      BY <3>1, <1>0, <1>8, <1>3 DEF Healed
    <3> QED BY <2>2, <3>2, <3>3, <1>3 DEF Sure
  <2> QED BY <2>1, <2>2
<1>7. Len(Hist) = n
  BY <1>0 DEF Hist
<1> QED BY <1>8, <1>3, <1>4, <1>5, <1>6, <1>7 DEF Replica!Publish, Hist, At

LEMMA StepRefines ==
  ASSUME IInv, IInv', [Next]_vars
  PROVE  [Replica!Next]_(Replica!vars)
<1> USE DEF Replica!Next
<1> DEFINE stutter == UNCHANGED <<log, cursor>> /\ View' = View
<1>0. stutter => UNCHANGED Replica!vars
  BY DEF Replica!vars, At
<1>1. CASE HomeStep
  BY <1>1, PublishRefines
<1>2. CASE UNCHANGED log /\ cursor' = cursor /\ pc # "online" /\ pc' # "online"
  BY <1>0, <1>2 DEF View, Sure, Unsure
<1>3. CASE Subscribe
  <2>1. /\ pc = "subscribing" /\ pc' = "online" /\ UNCHANGED log
        /\ cursor = 0 /\ cursor' = Len(log)
    BY <1>3 DEF Subscribe, IInv, Positions
  <2>2. View' = Replica!SureOf({i \in Ids : Sure(i)'}, Len(Hist))
    BY <2>1, OnlineView, HistFacts
  <2> QED BY <2>1, <2>2, HistFacts DEF Replica!Attach, Hist, At
<1>4. CASE Deliver
  <2>1. /\ pc = "online" /\ pc' = "online" /\ UNCHANGED <<log, asof, base>>
        /\ cursor < Len(log) /\ cursor' = cursor + 1 /\ cursor \in 1..Len(log)
    BY <1>4 DEF Deliver, IInv, TypeOK, Positions
  <2>2. View' = Replica!SureOf({i \in Ids : Sure(i)'}, cursor + 1)
    BY <2>1, OnlineView
  <2>3. \A i \in Ids : Sure(i) => Sure(i)'
    BY <2>1 DEF Sure, Disturbed, Healed, Touches
  <2>4. Replica!Known \subseteq {i \in Ids : Sure(i)'}
    BY <2>3, KnownIsSure
  <2>5. \E S \in SUBSET Ids :
           Replica!Known \subseteq S /\ View' = Replica!SureOf(S, cursor + 1)
    BY <2>2, <2>4
  <2>6. Replica!Follow
    BY <2>1, <2>5, HistFacts DEF Replica!Follow, Hist, At
  <2> QED BY <2>6
<1>5. CASE DeliverReset
  <2>1. /\ pc' = "resetting" /\ UNCHANGED log /\ cursor < Len(log)
        /\ cursor' = cursor + 1 /\ cursor \in 1..Len(log)
    BY <1>5 DEF DeliverReset, IInv, TypeOK, Positions
  <2>2. View' = [i \in Ids |-> Unsure]
    BY <2>1 DEF View, Sure, Unsure
  <2> QED BY <2>1, <2>2, HistFacts DEF Replica!Suspend, Hist, At
<1>6. CASE InstallReset \/ ResetFails
  <2>1. /\ pc = "resetting" /\ pc' = "online" /\ UNCHANGED <<log, cursor>>
        /\ cursor \in 1..Len(log)
    BY <1>6 DEF InstallReset, ResetFails, IInv, TypeOK, Positions
  <2>2. View' = Replica!SureOf({i \in Ids : Sure(i)'}, cursor)
    BY <2>1, OnlineView
  <2>3. Replica!Known = {}
    BY <2>1, KnownIsSure DEF Sure
  <2>4. \E S \in SUBSET Ids : View' = Replica!SureOf(S, cursor)
    BY <2>2
  <2>5. Replica!Refresh
    BY <2>1, <2>3, <2>4 DEF Replica!Refresh, At
  <2> QED BY <2>5
<1>7. CASE Exit
  <2>1. /\ pc' = "away" /\ UNCHANGED log /\ cursor' = 0 /\ cursor \in 1..Len(log)
    BY <1>7 DEF Exit, IInv, TypeOK, Positions
  <2>2. View' = [i \in Ids |-> Unsure]
    BY <2>1 DEF View, Sure, Unsure
  <2> QED BY <2>1, <2>2 DEF Replica!Detach, Hist, At
<1>8. CASE UNCHANGED vars
  BY <1>0, <1>8 DEF vars, View, Sure, Healed, Disturbed, Touches, Unsure
<1>9. ServeGet \/ Enter \/ InstallFirst \/ FirstFetchRefused \/ EnterRaises
        \/ AddressesSynced =>
        UNCHANGED log /\ cursor' = cursor /\ pc # "online" /\ pc' # "online"
  BY DEF ServeGet, Enter, InstallFirst, FirstFetchRefused, EnterRaises,
         AddressesSynced
<1> QED BY <1>1, <1>2, <1>3, <1>4, <1>5, <1>6, <1>7, <1>8, <1>9
        DEF Next, ClientStep

LEMMA InitRefines == Init => Replica!Init
<1> SUFFICES ASSUME Init PROVE Replica!Init
  OBVIOUS
<1>1. PICK sec \in Section : log = <<[op |-> "init", id |-> None, sec |-> sec]>>
  BY DEF Init
<1> DEFINE s == [i \in Ids |-> AsSeq(sec.items[i])]
<1>2. s \in [Ids -> {AsSeq(x) : x \in Vals \cup {None}}]
  BY <1>1 DEF Section
<1>3. Hist = <<s>>
  BY <1>1 DEF Hist, At
<1>4. cursor = 0 /\ View = [i \in Ids |-> Unsure]
  BY OfflineView DEF Init
<1> QED BY <1>2, <1>3, <1>4, Mapping

\* The cache is a partial replica of HOME's endpoint: what it is sure of runs
\* through HOME's states in order and is only lost as a whole.
THEOREM CacheImplementsReplica == Spec => ImplementsReplica
<1>1. Init => Replica!Init
  BY InitRefines
<1>2. IInv /\ IInv' /\ [Next]_vars => [Replica!Next]_(Replica!vars)
  BY StepRefines
<1> QED BY <1>1, <1>2, Inductive, PTL DEF Spec, ImplementsReplica, Replica!Spec

-----------------------------------------------------------------------------
(* The calls.                                                              *)

\* Where a call is, what it still has to hold.
CallsFit ==
  \A c \in Calls :
    /\ call[c].asked <= Len(log)
    /\ call[c].st # "idle" => call[c].asked >= 1
    /\ call[c].st \in {"idle", "asked", "served", "ok"} => call[c].left = {}
    /\ call[c].st \in {"asked", "served", "waiting"} => pc \in {"online", "resetting"}

\* Whoever asked for everything to be disconnected relies on these.
Relied(c, i) ==
  /\ call[c].kind = "disconnect_all"
  /\ i \in call[c].listed
  /\ OnlyDisconnected(c, i)

\* Once off, off for good: the induction over the journal since the call.
OffForGood ==
  \A c \in Calls, i \in Ids :
    (call[c].st # "idle" /\ OnlyDisconnected(c, i)) =>
      \A p, q \in 1..Len(log) :
        (call[c].asked <= p /\ p <= q /\ At(p, i) = NoSrc) => At(q, i) = NoSrc

\* What was cached for sure at the answer is sure until the wait has ended.
StaysSure ==
  \A c \in Calls, i \in Ids :
    (call[c].st = "waiting" /\ Relied(c, i)) => Sure(i) /\ call[c].asked <= cursor

\* A destination that is no longer waited for was off at a position the cache
\* has passed, or has forgotten with its whole connection.
SeenOff ==
  \A c \in Calls, i \in Ids :
    (call[c].st \in {"waiting", "ok"} /\ Relied(c, i) /\ <<i, NoSrc>> \notin call[c].left)
    => \E p \in 1..Len(log) :
         /\ call[c].asked <= p
         /\ cursor # 0 => p <= cursor
         /\ At(p, i) = NoSrc

CallsInv == IInv /\ CallsTypeOK /\ CallsFit /\ OffForGood /\ StaysSure /\ SeenOff

\* The calls see a DeviceMirror: they route through the actions of HOME.
LEMMA CallsStepIsMirrorStep ==
  ASSUME CallsTypeOK, [CallsNext]_callVars
  PROVE  [Next]_vars
<1>1. CASE (HomeStep \/ ServeGet \/ Enter \/ ClientStep) /\ UNCHANGED <<work, call>>
  BY <1>1 DEF Next
<1>2. CASE Leave
  BY <1>2 DEF Leave, Next
<1>3. CASE \E t \in work : CarryOut(t)
  <2>1. PICK t \in work : HomeInsert(t[1], t[2]) \/ HomeChange(t[1], t[2])
    BY <1>3 DEF CarryOut
  <2>2. t[1] \in Ids /\ t[2] \in Vals
    BY <2>1 DEF CallsTypeOK
  <2> QED BY <2>1, <2>2 DEF HomeStep, Next
<1>4. CASE \E c \in Calls : AskStep(c) \/ Accept(c) \/ Refuse(c) \/ WaitStep(c)
  <2>1. UNCHANGED vars
    BY <1>4 DEF AskStep, Connect, Disconnect, DisconnectAll, Ask, Accept, Refuse,
                WaitStep, Answered, Return, Poll, Timeout, mirror, vars
  <2> QED BY <2>1
<1>5. CASE UNCHANGED callVars
  BY <1>5 DEF callVars, vars
<1> QED BY <1>1, <1>2, <1>3, <1>4, <1>5 DEF CallsNext

\* An item the cache is sure of shows the source HOME had.
LEMMA ShownWasRouted ==
  ASSUME IInv, NEW i \in Ids, NEW v \in Vals, Sure(i), v \in Sources(i)
  PROVE  /\ cursor \in 1..Len(log)
         /\ At(cursor, i) = v
<1>1. cursor \in 1..Len(log)
  BY DEF Sure, IInv, TypeOK, Positions
<1>2. local.items[i] = AsSeq(At(cursor, i))
  BY DEF IInv, SureIsExact, At
<1>3. At(cursor, i) # None
  <2>1. \E k \in 1..Len(local.items[i]) : v = local.items[i][k]
    BY DEF Sources
  <2> QED BY <1>2, <2>1 DEF AsSeq
<1>4. Sources(i) = {At(cursor, i)}
  BY <1>2, <1>3 DEF AsSeq, Sources
<1> QED BY <1>1, <1>4

-----------------------------------------------------------------------------
(* Steps of HOME and of the model object: no call moves.                   *)

\* The journal grows: certainty is a matter of positions already passed.
LEMMA SureOutlivesPublish ==
  ASSUME IInv, NEW e \in Entry, log' = Append(log, e),
         UNCHANGED <<pc, asof, base, cursor>>,
         NEW i \in Ids
  PROVE  Sure(i)' <=> Sure(i)
<1>0. PICK n \in Nat : n = Len(log)
  BY DEF IInv, TypeOK
<1>1. Len(log') = n + 1 /\ \A k \in 1..n : log'[k] = log[k]
  BY <1>0 DEF IInv, TypeOK
<1>2. asof \in 0..n /\ base \in 0..n /\ cursor \in 0..n
  BY <1>0 DEF IInv, TypeOK
<1>3. Disturbed(i)' <=> Disturbed(i)
  BY <1>0, <1>1, <1>2 DEF Disturbed, Touches
<1>4. Healed(i)' <=> Healed(i)
  BY <1>0, <1>1, <1>2 DEF Healed
<1> QED BY <1>3, <1>4 DEF Sure

LEMMA GrowthKeepsCalls ==
  ASSUME CallsInv, NEW e \in Entry, log' = Append(log, e),
         UNCHANGED <<pc, local, asof, base, cursor, call>>
  PROVE  CallsFit' /\ OffForGood' /\ StaysSure' /\ SeenOff'
<1>0. PICK n \in Nat : n = Len(log)
  BY DEF CallsInv, IInv, TypeOK
<1>1. /\ n >= 1 /\ Len(log') = n + 1
      /\ \A k \in 1..n : log'[k] = log[k] /\ \A i \in Ids : At(k, i)' = At(k, i)
  BY <1>0 DEF CallsInv, IInv, TypeOK, At
<1>2. \A c \in Calls : call[c].asked \in Nat /\ call[c].asked <= n
  BY <1>0, ConstAssumption DEF CallsInv, CallsTypeOK, CallsFit, Call
<1>3. ASSUME NEW c \in Calls, NEW i \in Ids, OnlyDisconnected(c, i)'
      PROVE  /\ OnlyDisconnected(c, i)
             /\ At(n + 1, i)' \in {At(n, i), NoSrc}
  <2>1. \A k \in 2..(n + 1) : k > call[c].asked =>
          /\ log'[k].op # "reset"
          /\ log'[k].sec.items[i] \in {log'[k - 1].sec.items[i], NoSrc}
    BY <1>1, <1>3 DEF OnlyDisconnected
  <2>2. OnlyDisconnected(c, i)
    <3> SUFFICES ASSUME NEW k \in 2..n, k > call[c].asked
                 PROVE  /\ log[k].op # "reset"
                        /\ log[k].sec.items[i] \in {log[k - 1].sec.items[i], NoSrc}
      BY <1>0 DEF OnlyDisconnected
    <3>1. k \in 2..(n + 1) /\ k \in 1..n /\ k - 1 \in 1..n
      OBVIOUS
    <3> QED BY <2>1, <3>1, <1>1
  <2>3. log'[n + 1].sec.items[i] \in {log'[n].sec.items[i], NoSrc}
    <3>1. n + 1 \in 2..(n + 1) /\ n + 1 > call[c].asked /\ (n + 1) - 1 = n
      BY <1>1, <1>2
    <3> QED BY <2>1, <3>1
  <2> QED BY SMTT(20), <2>2, <2>3, <1>1 DEF At
<1>4. CallsFit'
  BY <1>0, <1>1, <1>2 DEF CallsInv, CallsFit
<1>5. OffForGood'
  <2> SUFFICES ASSUME NEW c \in Calls, NEW i \in Ids,
                      call[c].st # "idle", OnlyDisconnected(c, i)',
                      NEW p \in 1..(n + 1), NEW q \in 1..(n + 1),
                      call[c].asked <= p, p <= q, At(p, i)' = NoSrc
               PROVE  At(q, i)' = NoSrc
    BY <1>1 DEF OffForGood
  <2>1. \A r \in 1..n : p <= r /\ p <= n => At(r, i) = NoSrc
    BY <1>0, <1>1, <1>3 DEF CallsInv, OffForGood
  <2>2. CASE q \in 1..n
    BY <2>1, <2>2, <1>1
  <2>3. CASE q = n + 1 /\ p = n + 1
    BY <2>3
  <2>4. CASE q = n + 1 /\ p <= n
    <3>1. At(n, i) = NoSrc
      BY <2>1, <2>4, <1>1
    <3> QED BY <3>1, <2>4, <1>3
  <2> QED BY <2>2, <2>3, <2>4
<1>6. StaysSure'
  <2> SUFFICES ASSUME NEW c \in Calls, NEW i \in Ids,
                      call[c].st = "waiting", Relied(c, i)'
               PROVE  Sure(i)' /\ call[c].asked <= cursor
    BY DEF StaysSure
  <2>1. Relied(c, i)
    BY <1>3 DEF Relied
  <2>2. Sure(i) /\ call[c].asked <= cursor
    BY <2>1 DEF CallsInv, StaysSure
  <2> QED BY <2>2, SureOutlivesPublish DEF CallsInv
<1>7. SeenOff'
  <2> SUFFICES ASSUME NEW c \in Calls, NEW i \in Ids,
                      call[c].st \in {"waiting", "ok"}, Relied(c, i)',
                      <<i, NoSrc>> \notin call[c].left
               PROVE  \E p \in 1..(n + 1) :
                        call[c].asked <= p /\ (cursor # 0 => p <= cursor) /\ At(p, i)' = NoSrc
    BY <1>1 DEF SeenOff
  <2>1. Relied(c, i)
    BY <1>3 DEF Relied
  <2>2. PICK p \in 1..n :
           call[c].asked <= p /\ (cursor # 0 => p <= cursor) /\ At(p, i) = NoSrc
    BY <2>1, <1>0 DEF CallsInv, SeenOff
  <2> QED BY <2>2, <1>1
<1> QED BY <1>4, <1>5, <1>6, <1>7

\* The model object moves and the journal stands still.
LEMMA ClientKeepsCalls ==
  ASSUME CallsInv, IInv', UNCHANGED <<log, call>>,
         ServeGet \/ Enter \/ ClientStep \/ Leave
  PROVE  CallsFit' /\ OffForGood' /\ StaysSure' /\ SeenOff'
<1>0. PICK n \in Nat : n = Len(log)
  BY DEF CallsInv, IInv, TypeOK
<1>1. \A c \in Calls, i \in Ids :
        /\ OnlyDisconnected(c, i)' <=> OnlyDisconnected(c, i)
        /\ Relied(c, i)' <=> Relied(c, i)
  BY DEF OnlyDisconnected, Relied
<1>2. \A k \in 1..n, i \in Ids : At(k, i)' = At(k, i)
  BY DEF At
<1>3. CallsFit'
  BY DEF CallsInv, CallsFit, ServeGet, Enter, ClientStep, InstallFirst,
         FirstFetchRefused, EnterRaises, ResetFails, AddressesSynced, Subscribe,
         Deliver, DeliverReset, InstallReset, Leave, Exit
<1>4. OffForGood'
  BY <1>0, <1>1, <1>2 DEF CallsInv, OffForGood
<1>5. StaysSure'
  <2> SUFFICES ASSUME NEW c \in Calls, NEW i \in Ids,
                      call[c].st = "waiting", Relied(c, i)
               PROVE  Sure(i)' /\ call[c].asked <= cursor'
    BY <1>1 DEF StaysSure
  <2>1. Sure(i) /\ call[c].asked <= cursor /\ pc = "online"
    BY DEF CallsInv, StaysSure, Sure
  <2>2. cursor \in 1..n /\ call[c].asked \in Nat
    BY <1>0, <2>1, ConstAssumption
       DEF CallsInv, IInv, TypeOK, Positions, CallsTypeOK, Call
  <2>3. CASE Deliver
    BY <2>3, <2>1, <2>2 DEF Deliver, Sure, Disturbed, Healed, Touches
  <2>4. CASE DeliverReset
    <3>1. cursor + 1 \in 2..n /\ cursor + 1 > call[c].asked
          /\ log[cursor + 1].op = "reset"
      BY <1>0, <2>1, <2>2, <2>4 DEF DeliverReset
    <3>2. OnlyDisconnected(c, i)
      BY DEF Relied
    <3>3. FALSE
      BY <1>0, <3>1, <3>2 DEF OnlyDisconnected
    <3> QED BY <3>3
  <2>5. ~Leave
    BY DEF Leave
  <2> QED BY <2>1, <2>3, <2>4, <2>5
          DEF ServeGet, Enter, ClientStep, InstallFirst,
              FirstFetchRefused, EnterRaises, ResetFails, AddressesSynced,
              Subscribe, InstallReset
<1>6. SeenOff'
  <2> SUFFICES ASSUME NEW c \in Calls, NEW i \in Ids,
                      call[c].st \in {"waiting", "ok"}, Relied(c, i),
                      <<i, NoSrc>> \notin call[c].left
               PROVE  \E p \in 1..n :
                        call[c].asked <= p /\ (cursor' # 0 => p <= cursor') /\ At(p, i) = NoSrc
    BY <1>0, <1>1, <1>2 DEF SeenOff
  <2>1. PICK p \in 1..n :
           call[c].asked <= p /\ (cursor # 0 => p <= cursor) /\ At(p, i) = NoSrc
    BY <1>0 DEF CallsInv, SeenOff
  <2>2. cursor \in 0..n
    BY <1>0 DEF CallsInv, IInv, TypeOK
  <2>3. cursor' # 0 => p <= cursor'
    <3>1. CASE Subscribe
      BY <3>1, <1>0, <2>1 DEF Subscribe
    <3>2. CASE Deliver
      <4>1. cursor # 0 /\ cursor' = cursor + 1
        BY <3>2, <1>0, <2>2 DEF Deliver, CallsInv, IInv, TypeOK, Positions
      <4> QED BY <4>1, <2>1, <2>2, <1>0
    <3>3. CASE DeliverReset
      <4>1. cursor # 0 /\ cursor' = cursor + 1
        BY <3>3, <1>0, <2>2 DEF DeliverReset, CallsInv, IInv, TypeOK, Positions
      <4> QED BY <4>1, <2>1, <2>2, <1>0
    <3>4. CASE Leave
      BY <3>4 DEF Leave, Exit
    <3>5. CASE cursor' = cursor
      BY <3>5, <2>1
    <3> QED BY <3>1, <3>2, <3>3, <3>4, <3>5
            DEF ServeGet, Enter, ClientStep, InstallFirst,
              FirstFetchRefused, EnterRaises, ResetFails, AddressesSynced, InstallReset
  <2> QED BY <2>1, <2>3
<1> QED BY <1>3, <1>4, <1>5, <1>6

-----------------------------------------------------------------------------
(* Steps of one call: the mirror stands still.                             *)

\* What is asked of the record r that a call becomes.
LEMMA CallKeepsCalls ==
  ASSUME CallsInv, UNCHANGED mirror, NEW d \in Calls, NEW r \in Call,
         call' = [call EXCEPT ![d] = r],
         r.st # "idle", r.asked >= 1, r.asked <= Len(log),
         r.st \in {"asked", "served", "ok"} => r.left = {},
         r.st \in {"asked", "served", "waiting"} => pc \in {"online", "resetting"},
         r.asked = Len(log) \/ (r.asked = call[d].asked /\ call[d].st # "idle"),
         r.st \in {"waiting", "ok"} =>
           r.asked = call[d].asked /\ r.kind = call[d].kind,
         r.st = "waiting" /\ r.kind = "disconnect_all" =>
           \A i \in r.listed : OnlyDisconnected(d, i) =>
             Sure(i) /\ r.asked <= cursor,
         r.st \in {"waiting", "ok"} /\ r.kind = "disconnect_all" =>
           \A i \in r.listed : OnlyDisconnected(d, i) =>
             \/ <<i, NoSrc>> \in r.left
             \/ \E p \in 1..Len(log) :
                  r.asked <= p /\ (cursor # 0 => p <= cursor) /\ At(p, i) = NoSrc
  PROVE  CallsFit' /\ OffForGood' /\ StaysSure' /\ SeenOff'
<1>0. PICK n \in Nat : n = Len(log)
  BY DEF CallsInv, IInv, TypeOK
<1>1. /\ UNCHANGED <<log, pc, snap, local, asof, base, cursor>>
      /\ \A i \in Ids : Sure(i)' <=> Sure(i)
      /\ \A i \in Ids, k \in 1..n : At(k, i)' = At(k, i)
  BY DEF mirror, Sure, Disturbed, Healed, Touches, At
<1>2. /\ call' \in [Calls -> Call] /\ call'[d] = r
      /\ \A c \in Calls \ {d} : call'[c] = call[c]
  BY DEF CallsInv, CallsTypeOK
<1>3. \A c \in Calls, i \in Ids : call'[c].asked = call[c].asked =>
        (OnlyDisconnected(c, i)' <=> OnlyDisconnected(c, i))
  BY <1>1 DEF OnlyDisconnected
<1>4. \A c \in Calls \ {d}, i \in Ids :
        /\ OnlyDisconnected(c, i)' <=> OnlyDisconnected(c, i)
        /\ Relied(c, i)' <=> Relied(c, i)
  BY <1>2, <1>3 DEF Relied
<1>5. CallsFit'
  <2> SUFFICES ASSUME NEW c \in Calls
               PROVE  /\ call'[c].asked <= Len(log)
                      /\ call'[c].st # "idle" => call'[c].asked >= 1
                      /\ call'[c].st \in {"idle", "asked", "served", "ok"} => call'[c].left = {}
                      /\ call'[c].st \in {"asked", "served", "waiting"} =>
                           pc \in {"online", "resetting"}
    BY <1>1 DEF CallsFit
  <2>1. CASE c = d
    BY <2>1, <1>2
  <2>2. CASE c # d
    BY <2>2, <1>2 DEF CallsInv, CallsFit
  <2> QED BY <2>1, <2>2
<1>6. OffForGood'
  <2> SUFFICES ASSUME NEW c \in Calls, NEW i \in Ids,
                      call'[c].st # "idle", OnlyDisconnected(c, i)',
                      NEW p \in 1..n, NEW q \in 1..n,
                      call'[c].asked <= p, p <= q, At(p, i) = NoSrc
               PROVE  At(q, i) = NoSrc
    BY <1>0, <1>1 DEF OffForGood
  <2>1. CASE c # d \/ (c = d /\ r.asked = call[d].asked /\ call[d].st # "idle")
    <3>1. call'[c].asked = call[c].asked /\ call[c].st # "idle"
      BY <2>1, <1>2
    <3>2. OnlyDisconnected(c, i)
      BY <3>1, <1>3
    <3> QED BY <3>1, <3>2, <1>0 DEF CallsInv, OffForGood
  <2>2. CASE c = d /\ r.asked = Len(log)
    <3>1. p = q
      BY <2>2, <1>0, <1>2
    <3> QED BY <3>1
  <2> QED BY <2>1, <2>2
<1>7. StaysSure'
  <2> SUFFICES ASSUME NEW c \in Calls, NEW i \in Ids,
                      call'[c].st = "waiting", Relied(c, i)'
               PROVE  Sure(i) /\ call'[c].asked <= cursor
    BY <1>1 DEF StaysSure
  <2>1. CASE c = d
    BY <2>1, <1>2, <1>3 DEF Relied
  <2>2. CASE c # d
    BY <2>2, <1>2, <1>4 DEF CallsInv, StaysSure
  <2> QED BY <2>1, <2>2
<1>8. SeenOff'
  <2> SUFFICES ASSUME NEW c \in Calls, NEW i \in Ids,
                      call'[c].st \in {"waiting", "ok"}, Relied(c, i)',
                      <<i, NoSrc>> \notin call'[c].left
               PROVE  \E p \in 1..n : /\ call'[c].asked <= p
                                      /\ cursor # 0 => p <= cursor
                                      /\ At(p, i) = NoSrc
    BY <1>0, <1>1 DEF SeenOff
  <2>1. CASE c = d
    <3>1. /\ r.kind = "disconnect_all" /\ i \in r.listed /\ OnlyDisconnected(d, i)
          /\ r.st \in {"waiting", "ok"} /\ <<i, NoSrc>> \notin r.left
      BY <2>1, <1>2, <1>3 DEF Relied
    <3>2. \E p \in 1..Len(log) :
            r.asked <= p /\ (cursor # 0 => p <= cursor) /\ At(p, i) = NoSrc
      BY <3>1
    <3> QED BY <3>2, <2>1, <1>0, <1>2
  <2>2. CASE c # d
    BY <2>2, <1>0, <1>2, <1>4 DEF CallsInv, SeenOff
  <2> QED BY <2>1, <2>2
<1> QED BY <1>5, <1>6, <1>7, <1>8

\* The types of a call's record, in the forms the steps need.
LEMMA CallData ==
  ASSUME CallsInv, NEW d \in Calls
  PROVE  /\ call[d] \in Call
         /\ Len(log) \in Nat /\ Len(log) >= 1 /\ Len(log) <= MaxLog
         /\ call[d].asked \in Nat /\ call[d].asked <= Len(log)
         /\ call[d].st # "idle" => call[d].asked >= 1
         /\ \A x \in call[d].left : x \in Ids \X Vals
<1>1. call[d] \in Call
  BY DEF CallsInv, CallsTypeOK
<1>2. Len(log) \in Nat /\ Len(log) >= 1 /\ Len(log) <= MaxLog
  BY ConstAssumption DEF CallsInv, IInv, TypeOK
<1>3. call[d].asked \in 0..MaxLog /\ call[d].left \subseteq Ids \X Vals
  BY <1>1 DEF Call
<1> QED BY <1>1, <1>2, <1>3, ConstAssumption DEF CallsInv, CallsFit

LEMMA AskKeeps ==
  ASSUME CallsInv, NEW d \in Calls,
         NEW kind \in {"connect", "disconnect", "disconnect_all"},
         NEW W \in SUBSET (Ids \X Vals), Ask(d, kind, W)
  PROVE  CallsTypeOK' /\ CallsFit' /\ OffForGood' /\ StaysSure' /\ SeenOff'
<1> DEFINE r == [Idle EXCEPT !.kind = kind, !.st = "asked", !.want = W,
                            !.asked = Len(log)]
<1>1. Idle \in Call /\ Idle.left = {} /\ Idle.listed = {}
  BY ConstAssumption DEF Idle, Call
<1>2. /\ r \in Call /\ r.st = "asked" /\ r.left = {} /\ r.asked = Len(log)
      /\ r.listed = {}
  <2>1. Len(log) \in 0..MaxLog
    BY CallData, ConstAssumption
  <2> QED BY <1>1, <2>1 DEF Call
<1>3. /\ call' = [call EXCEPT ![d] = r] /\ UNCHANGED mirror /\ work' = work
      /\ pc \in {"online", "resetting"}
  BY DEF Ask
<1> HIDE DEF r
<1>4. CallsTypeOK'
  BY <1>2, <1>3 DEF CallsInv, IInv, CallsTypeOK, mirror, TypeOK
<1>5. r.st # "idle" /\ r.asked >= 1 /\ r.asked <= Len(log)
  BY <1>2, CallData
<1>6. CallsFit' /\ OffForGood' /\ StaysSure' /\ SeenOff'
  BY <1>2, <1>3, <1>5, CallKeepsCalls
<1> QED BY <1>4, <1>6

\* HOME's answer: it accepts, or it refuses.
LEMMA AnswerKeeps ==
  ASSUME CallsInv, NEW d \in Calls, Accept(d) \/ Refuse(d)
  PROVE  CallsTypeOK' /\ CallsFit' /\ OffForGood' /\ StaysSure' /\ SeenOff'
<1>0. call[d].st = "asked" /\ UNCHANGED mirror
  BY DEF Accept, Refuse, mirror
<1>1. /\ call[d].st = "asked" /\ UNCHANGED mirror
      /\ call[d].left = {} /\ pc \in {"online", "resetting"}
  BY <1>0 DEF CallsInv, CallsFit
<1>2. PICK st \in {"served", "False"} : call' = [call EXCEPT ![d].st = st]
  BY DEF Accept, Refuse
<1> DEFINE r == [call[d] EXCEPT !.st = st]
<1>3. /\ r \in Call /\ r.st = st /\ r.left = {} /\ r.asked = call[d].asked
  BY <1>1, <1>2, CallData DEF Call
<1>4. call' = [call EXCEPT ![d] = r]
  BY <1>2
<1> HIDE DEF r
<1>5. CallsTypeOK'
  <2>1. Routed \X {NoSrc} \subseteq Ids \X Vals
    BY NoSrcAssumption DEF Routed
  <2>2. call[d].want \subseteq Ids \X Vals
    BY CallData DEF Call
  <2>3. work' \subseteq Ids \X Vals
    BY <2>1, <2>2 DEF Accept, Refuse, CallsInv, CallsTypeOK
  <2>4. call' \in [Calls -> Call]
    BY <1>3, <1>4 DEF CallsInv, CallsTypeOK
  <2>5. TypeOK'
    BY <1>1 DEF CallsInv, IInv, TypeOK, mirror
  <2> QED BY <2>3, <2>4, <2>5 DEF CallsTypeOK
<1>6. CallsFit' /\ OffForGood' /\ StaysSure' /\ SeenOff'
  BY <1>1, <1>2, <1>3, <1>4, CallData, CallKeepsCalls
<1> QED BY <1>5, <1>6

LEMMA AnsweredKeeps ==
  ASSUME CallsInv, NEW d \in Calls, Answered(d)
  PROVE  CallsTypeOK' /\ CallsFit' /\ OffForGood' /\ StaysSure' /\ SeenOff'
<1>1. /\ call[d].st = "served" /\ UNCHANGED mirror /\ work' = work
      /\ pc \in {"online", "resetting"}
  BY DEF Answered, CallsInv, CallsFit
<1> DEFINE L == {i \in Cached : Sure(i) /\ cursor >= call[d].asked}
           r == [call[d] EXCEPT !.st = "waiting", !.left = Targets(d), !.listed = L]
<1>2. Targets(d) \subseteq Ids \X Vals
  <2>1. Cached \X {NoSrc} \subseteq Ids \X Vals
    BY NoSrcAssumption DEF Cached
  <2> QED BY <2>1, CallData DEF Targets, Call
<1>3. L \subseteq Ids
  BY DEF Cached
<1>4. /\ r \in Call /\ r.st = "waiting" /\ r.left = Targets(d) /\ r.listed = L
      /\ r.asked = call[d].asked /\ r.kind = call[d].kind
  BY <1>2, <1>3, CallData DEF Call
<1>5. call' = [call EXCEPT ![d] = r]
  BY DEF Answered
<1>6. \A i \in r.listed : Sure(i) /\ r.asked <= cursor
  <2>1. cursor \in Nat /\ call[d].asked \in Nat
    BY CallData DEF CallsInv, IInv, TypeOK
  <2> QED BY <2>1, <1>4
<1>7. r.kind = "disconnect_all" => \A i \in r.listed : <<i, NoSrc>> \in r.left
  BY <1>4 DEF Targets
<1> HIDE DEF r, L
<1>8. CallsTypeOK'
  BY <1>1, <1>4, <1>5 DEF CallsInv, IInv, CallsTypeOK, TypeOK, mirror
<1>9. CallsFit' /\ OffForGood' /\ StaysSure' /\ SeenOff'
  BY <1>1, <1>4, <1>5, <1>6, <1>7, CallData, CallKeepsCalls
<1> QED BY <1>8, <1>9

LEMMA PollKeeps ==
  ASSUME CallsInv, NEW d \in Calls, NEW x \in Ids \X Vals, Poll(d, x)
  PROVE  CallsTypeOK' /\ CallsFit' /\ OffForGood' /\ StaysSure' /\ SeenOff'
<1>1. /\ call[d].st = "waiting" /\ UNCHANGED mirror /\ work' = work
      /\ Shown(x) /\ pc \in {"online", "resetting"}
  BY DEF Poll, CallsInv, CallsFit
<1> DEFINE r == [call[d] EXCEPT !.left = @ \ {x}]
<1>2. /\ r \in Call /\ r.st = "waiting" /\ r.left = call[d].left \ {x}
      /\ r.listed = call[d].listed
      /\ r.asked = call[d].asked /\ r.kind = call[d].kind
  BY <1>1, CallData DEF Call
<1>3. call' = [call EXCEPT ![d] = r]
  BY DEF Poll
<1> HIDE DEF r
<1>4. r.kind = "disconnect_all" =>
        \A i \in r.listed : OnlyDisconnected(d, i) => Sure(i) /\ r.asked <= cursor
  BY <1>1, <1>2, CallData DEF CallsInv, StaysSure, Relied, Call
<1>5. ASSUME r.kind = "disconnect_all", NEW i \in r.listed, OnlyDisconnected(d, i),
             <<i, NoSrc>> \notin r.left
      PROVE  \E p \in 1..Len(log) :
               r.asked <= p /\ (cursor # 0 => p <= cursor) /\ At(p, i) = NoSrc
  <2>0. i \in Ids
    BY <1>2, CallData DEF Call
  <2>1. CASE <<i, NoSrc>> \notin call[d].left
    BY <2>0, <2>1, <1>1, <1>2, <1>5 DEF CallsInv, SeenOff, Relied
  <2>2. CASE <<i, NoSrc>> \in call[d].left
    <3>1. x = <<i, NoSrc>>
      BY <2>2, <1>2, <1>5
    <3>2. NoSrc \in Sources(i) /\ Sure(i) /\ r.asked <= cursor
      BY <3>1, <1>1, <1>4, <1>5 DEF Shown
    <3>3. cursor \in 1..Len(log) /\ At(cursor, i) = NoSrc
      BY <2>0, <3>2, NoSrcAssumption, ShownWasRouted DEF CallsInv
    <3> QED BY <3>2, <3>3
  <2> QED BY <2>1, <2>2
<1>6. CallsTypeOK'
  BY <1>1, <1>2, <1>3 DEF CallsInv, IInv, CallsTypeOK, TypeOK, mirror
<1>7. CallsFit' /\ OffForGood' /\ StaysSure' /\ SeenOff'
  BY <1>1, <1>2, <1>3, <1>4, <1>5, CallData, CallKeepsCalls
<1> QED BY <1>6, <1>7

\* The wait ends, well or not.
LEMMA EndKeeps ==
  ASSUME CallsInv, NEW d \in Calls,
         Return(d) \/ \E x \in Ids \X Vals : Timeout(d, x)
  PROVE  CallsTypeOK' /\ CallsFit' /\ OffForGood' /\ StaysSure' /\ SeenOff'
<1>1. call[d].st = "waiting" /\ UNCHANGED mirror /\ work' = work
  BY DEF Return, Timeout
<1>2. PICK st \in {"ok", "TimeoutError"} :
        /\ call' = [call EXCEPT ![d].st = st]
        /\ st = "ok" => call[d].left = {}
  BY DEF Return, Timeout
<1> DEFINE r == [call[d] EXCEPT !.st = st]
<1>3. /\ r \in Call /\ r.st = st /\ r.left = call[d].left
      /\ r.asked = call[d].asked /\ r.kind = call[d].kind
      /\ r.listed = call[d].listed
  BY <1>1, <1>2, CallData DEF Call
<1>4. call' = [call EXCEPT ![d] = r]
  BY <1>2
<1> HIDE DEF r
<1>5. r.st = "ok" /\ r.kind = "disconnect_all" =>
        \A i \in r.listed : OnlyDisconnected(d, i) =>
          \E p \in 1..Len(log) :
            r.asked <= p /\ (cursor # 0 => p <= cursor) /\ At(p, i) = NoSrc
  <2> SUFFICES ASSUME st = "ok", r.kind = "disconnect_all",
                      NEW i \in call[d].listed, OnlyDisconnected(d, i)
               PROVE  \E p \in 1..Len(log) :
                        call[d].asked <= p /\ (cursor # 0 => p <= cursor) /\ At(p, i) = NoSrc
    BY <1>3
  <2>1. i \in Ids
    BY CallData DEF Call
  <2>2. Relied(d, i) /\ <<i, NoSrc>> \notin call[d].left
    BY <1>2, <1>3 DEF Relied
  <2> QED BY <1>1, <2>1, <2>2 DEF CallsInv, SeenOff
<1>6. CallsTypeOK'
  BY <1>1, <1>3, <1>4 DEF CallsInv, IInv, CallsTypeOK, TypeOK, mirror
<1>7. CallsFit' /\ OffForGood' /\ StaysSure' /\ SeenOff'
  BY <1>1, <1>2, <1>3, <1>4, <1>5, CallData, CallKeepsCalls
<1> QED BY <1>6, <1>7

-----------------------------------------------------------------------------
(* The invariant and the theorems.                                         *)

LEMMA InitCallsInv == CallsInit => CallsInv
<1> SUFFICES ASSUME CallsInit PROVE CallsInv
  OBVIOUS
<1>1. IInv /\ pc = "away" /\ Len(log) = 1
  BY InitIInv DEF CallsInit, Init
<1>2. Idle \in Call /\ Idle.st = "idle" /\ Idle.left = {} /\ Idle.asked = 0
  BY ConstAssumption DEF Idle, Call
<1>3. CallsTypeOK
  BY <1>1, <1>2 DEF CallsInit, CallsTypeOK, IInv
<1>4. \A c \in Calls : call[c] = Idle
  BY DEF CallsInit
<1>5. CallsFit /\ OffForGood /\ StaysSure /\ SeenOff
  BY <1>1, <1>2, <1>4 DEF CallsFit, OffForGood, StaysSure, SeenOff
<1> QED BY <1>1, <1>3, <1>5 DEF CallsInv

\* HOME publishes one entry, of its own accord or to carry out a routing.
LEMMA HomeGrows ==
  ASSUME CallsInv, IInv',
         HomeStep \/ \E t \in work : CarryOut(t)
  PROVE  /\ \E e \in Entry : log' = Append(log, e)
         /\ UNCHANGED <<pc, snap, local, asof, base, cursor>>
<1>1. PICK op, id, sec : Publish(op, id, sec)
  BY DEF HomeStep, CarryOut, HomeInsert, HomeChange, HomeRemove, HomeUserInfo, HomeReset
<1> DEFINE e == [op |-> op, id |-> id, sec |-> sec]
<1>2. log' = Append(log, e) /\ UNCHANGED <<pc, snap, local, asof, base, cursor>>
  BY <1>1 DEF Publish, client
<1>0. PICK n \in Nat : n = Len(log)
  BY DEF CallsInv, IInv, TypeOK
<1> HIDE DEF e
<1>3. Len(log') = n + 1 /\ log'[n + 1] = e
  BY <1>0, <1>2 DEF CallsInv, IInv, TypeOK
<1>4. e \in Entry
  BY <1>3 DEF IInv, TypeOK
<1> QED BY <1>2, <1>4

LEMMA NextCallsInv == CallsInv /\ [CallsNext]_callVars => CallsInv'
<1> SUFFICES ASSUME CallsInv, [CallsNext]_callVars PROVE CallsInv'
  OBVIOUS
<1>1. [Next]_vars
  BY CallsStepIsMirrorStep DEF CallsInv
<1>2. IInv'
  BY <1>1, NextIInv DEF CallsInv
<1>3. TypeOK'
  BY <1>2 DEF IInv
<1>4. CASE HomeStep /\ UNCHANGED <<work, call>>
  <2>1. CallsTypeOK'
    BY <1>3, <1>4 DEF CallsInv, CallsTypeOK
  <2>2. CallsFit' /\ OffForGood' /\ StaysSure' /\ SeenOff'
    BY <1>2, <1>4, HomeGrows, GrowthKeepsCalls
  <2> QED BY <1>2, <2>1, <2>2 DEF CallsInv
<1>5. CASE \E t \in work : CarryOut(t)
  <2>1. call' = call /\ work' \subseteq work
    BY <1>5 DEF CarryOut
  <2>2. CallsTypeOK'
    BY <1>3, <2>1 DEF CallsInv, CallsTypeOK
  <2>3. CallsFit' /\ OffForGood' /\ StaysSure' /\ SeenOff'
    BY <1>2, <1>5, <2>1, HomeGrows, GrowthKeepsCalls
  <2> QED BY <1>2, <2>2, <2>3 DEF CallsInv
<1>6. CASE (ServeGet \/ Enter \/ ClientStep) /\ UNCHANGED <<work, call>>
  <2>1. UNCHANGED log
    BY <1>6 DEF ServeGet, Enter, ClientStep, InstallFirst,
              FirstFetchRefused, EnterRaises, ResetFails, AddressesSynced,
                Subscribe, Deliver, DeliverReset, InstallReset
  <2>2. CallsTypeOK'
    BY <1>3, <1>6 DEF CallsInv, CallsTypeOK
  <2>3. CallsFit' /\ OffForGood' /\ StaysSure' /\ SeenOff'
    BY <1>2, <1>6, <2>1, ClientKeepsCalls
  <2> QED BY <1>2, <2>2, <2>3 DEF CallsInv
<1>7. CASE Leave
  <2>1. UNCHANGED <<log, call, work>>
    BY <1>7 DEF Leave, Exit
  <2>2. CallsTypeOK'
    BY <1>3, <2>1 DEF CallsInv, CallsTypeOK
  <2>3. CallsFit' /\ OffForGood' /\ StaysSure' /\ SeenOff'
    BY <1>2, <1>7, <2>1, ClientKeepsCalls
  <2> QED BY <1>2, <2>2, <2>3 DEF CallsInv
<1>8. CASE \E d \in Calls : AskStep(d) \/ Accept(d) \/ Refuse(d) \/ WaitStep(d)
  <2>1. PICK d \in Calls : AskStep(d) \/ Accept(d) \/ Refuse(d) \/ WaitStep(d)
    BY <1>8
  <2>2. CASE AskStep(d)
    <3>1. PICK kind \in {"connect", "disconnect", "disconnect_all"} :
            \E W \in SUBSET (Ids \X Vals) : Ask(d, kind, W)
      <4>1. \A D \in SUBSET Ids : D \X {NoSrc} \in SUBSET (Ids \X Vals)
        BY NoSrcAssumption
      <4>2. \A W \in SUBSET (Ids \X (Vals \ {NoSrc})) : W \in SUBSET (Ids \X Vals)
        OBVIOUS
      <4>3. {} \in SUBSET (Ids \X Vals)
        OBVIOUS
      <4> QED BY <2>2, <4>1, <4>2, <4>3 DEF AskStep, Connect, Disconnect, DisconnectAll
    <3> QED BY <3>1, <1>2, AskKeeps DEF CallsInv
  <2>3. CASE Accept(d) \/ Refuse(d)
    BY <2>3, <1>2, AnswerKeeps DEF CallsInv
  <2>4. CASE Answered(d)
    BY <2>4, <1>2, AnsweredKeeps DEF CallsInv
  <2>5. CASE \E x \in Ids \X Vals : Poll(d, x)
    BY <2>5, <1>2, PollKeeps DEF CallsInv
  <2>6. CASE Return(d) \/ \E x \in Ids \X Vals : Timeout(d, x)
    BY <2>6, <1>2, EndKeeps DEF CallsInv
  <2> QED BY <2>1, <2>2, <2>3, <2>4, <2>5, <2>6 DEF WaitStep
<1>9. CASE UNCHANGED callVars
  <2>1. UNCHANGED <<log, pc, snap, local, asof, base, cursor, work, call>>
    BY <1>9 DEF callVars
  <2>2. CallsTypeOK'
    BY <1>3, <2>1 DEF CallsInv, CallsTypeOK
  <2>3. /\ \A i \in Ids : Sure(i)' <=> Sure(i)
        /\ \A c \in Calls, i \in Ids : OnlyDisconnected(c, i)' <=> OnlyDisconnected(c, i)
        /\ \A c \in Calls, i \in Ids : Relied(c, i)' <=> Relied(c, i)
    BY <2>1 DEF Sure, Disturbed, Healed, Touches, OnlyDisconnected, Relied
  <2>4. CallsFit' /\ OffForGood' /\ StaysSure' /\ SeenOff'
    BY <2>1, <2>3 DEF CallsInv, CallsFit, OffForGood, StaysSure, SeenOff, At
  <2> QED BY <1>2, <2>2, <2>4 DEF CallsInv
<1> QED BY <1>4, <1>5, <1>6, <1>7, <1>8, <1>9 DEF CallsNext

LEMMA CallsInductive == CallsSpec => []CallsInv
BY InitCallsInv, NextCallsInv, PTL DEF CallsSpec

\* The cache keeps its word to callers that route through it, too.
THEOREM SureWhileRouting == CallsSpec => []SureIsExact
<1>1. CallsInv => SureIsExact
  BY DEF CallsInv, IInv
<1> QED BY <1>1, CallsInductive, PTL

LEMMA StepShowsRouted ==
  ASSUME CallsInv, [CallsNext]_callVars
  PROVE  \A c \in Calls : \A x \in call[c].left \ call'[c].left :
           Sure(x[1]) => log[cursor].sec.items[x[1]] = x[2]
<1> SUFFICES ASSUME NEW c \in Calls, NEW x \in call[c].left \ call'[c].left, Sure(x[1])
             PROVE  log[cursor].sec.items[x[1]] = x[2]
  OBVIOUS
<1>1. x[1] \in Ids /\ x[2] \in Vals
  BY CallData
<1>2. call[c].st \notin {"idle", "asked", "served", "ok"}
  BY DEF CallsInv, CallsFit
<1>3. call \in [Calls -> Call]
  BY DEF CallsInv, CallsTypeOK
<1>4. CASE \E d \in Calls, y \in Ids \X Vals : Poll(d, y)
  <2>1. PICK d \in Calls : \E y \in Ids \X Vals : Poll(d, y)
    BY <1>4
  <2>2. PICK y \in Ids \X Vals : Poll(d, y)
    BY <2>1
  <2>3. Shown(y) /\ call' = [call EXCEPT ![d].left = @ \ {y}]
    BY <2>2 DEF Poll
  <2>4. y = x
    BY <2>3, <1>3
  <2>5. x[2] \in Sources(x[1])
    BY <2>3, <2>4 DEF Shown
  <2> QED BY <2>5, <1>1, ShownWasRouted DEF CallsInv, At
<1>5. CASE \E d \in Calls : AskStep(d) \/ Accept(d) \/ Refuse(d) \/ Answered(d)
                           \/ Return(d) \/ \E y \in Ids \X Vals : Timeout(d, y)
  <2>1. PICK d \in Calls : AskStep(d) \/ Accept(d) \/ Refuse(d) \/ Answered(d)
                          \/ Return(d) \/ \E y \in Ids \X Vals : Timeout(d, y)
    BY <1>5
  <2>2. CASE AskStep(d) \/ Answered(d)
    <3>1. call[d].st \in {"idle", "served"} /\ \E r : call' = [call EXCEPT ![d] = r]
      <4>1. CASE AskStep(d)
        BY <4>1 DEF AskStep, Connect, Disconnect, DisconnectAll, Ask
      <4>2. CASE Answered(d)
        <5>1. call[d].st = "served"
          BY <4>2 DEF Answered
        <5>2. call' = [call EXCEPT ![d] = call'[d]]
          BY <4>2, <1>3 DEF Answered
        <5> QED BY <5>1, <5>2
      <4> QED BY <2>2, <4>1, <4>2
    <3>2. c # d
      BY <3>1, <1>2
    <3>3. call'[c] = call[c]
      BY <3>1, <3>2, <1>3
    <3> QED BY <3>3
  <2>3. CASE Accept(d) \/ Refuse(d) \/ Return(d) \/ \E y \in Ids \X Vals : Timeout(d, y)
    <3>1. \E st : call' = [call EXCEPT ![d].st = st]
      BY <2>3 DEF Accept, Refuse, Return, Timeout
    <3>2. call'[c].left = call[c].left
      BY <3>1, <1>3 DEF Call
    <3> QED BY <3>2
  <2> QED BY <2>1, <2>2, <2>3
<1>6. CASE call' = call
  BY <1>6
<1>7. \/ \E d \in Calls, y \in Ids \X Vals : Poll(d, y)
      \/ \E d \in Calls : AskStep(d) \/ Accept(d) \/ Refuse(d) \/ Answered(d)
                         \/ Return(d) \/ \E y \in Ids \X Vals : Timeout(d, y)
      \/ call' = call
  BY DEF CallsNext, WaitStep, Leave, CarryOut, callVars
<1> QED BY <1>4, <1>5, <1>6, <1>7

\* A wait for a routing ends on one that HOME had at the position the cache
\* has reached, whenever the cache is sure of the destination.
THEOREM WaitsEndOnRoutes == CallsSpec => ShownIsRouted
<1>1. CallsInv /\ [CallsNext]_callVars =>
        [\A c \in Calls : \A x \in call[c].left \ call'[c].left :
           Sure(x[1]) => log[cursor].sec.items[x[1]] = x[2]]_callVars
  BY StepShowsRouted
<1> QED BY <1>1, CallsInductive, PTL DEF CallsSpec, ShownIsRouted

\* After disconnect_all a destination it listed, and that HOME only
\* disconnected since, shows the empty source wherever the cache is sure of it
\* and has reached the call, sessions later included.
THEOREM DisconnectedIsShown == CallsSpec => []DisconnectAllEmpties
<1>1. CallsInv => DisconnectAllEmpties
  <2> SUFFICES ASSUME CallsInv, NEW c \in Calls,
                      call[c].kind = "disconnect_all", call[c].st = "ok",
                      NEW i \in call[c].listed, Sure(i),
                      call[c].asked <= cursor, OnlyDisconnected(c, i)
               PROVE  local.items[i] = <<NoSrc>>
    BY DEF DisconnectAllEmpties
  <2>0. PICK n \in Nat : n = Len(log)
    BY DEF CallsInv, IInv, TypeOK
  <2>1. i \in Ids
    BY CallData DEF Call
  <2>2. Relied(c, i) /\ call[c].left = {}
    BY DEF Relied, CallsInv, CallsFit
  <2>3. cursor \in 1..n
    BY <2>0 DEF Sure, CallsInv, IInv, TypeOK, Positions
  <2>4. PICK p \in 1..n :
           call[c].asked <= p /\ (cursor # 0 => p <= cursor) /\ At(p, i) = NoSrc
    BY <2>0, <2>1, <2>2 DEF CallsInv, SeenOff
  <2>5. At(cursor, i) = NoSrc
    BY <2>0, <2>1, <2>3, <2>4 DEF CallsInv, OffForGood
  <2>6. local.items[i] = AsSeq(At(cursor, i))
    BY <2>1 DEF CallsInv, IInv, SureIsExact, At
  <2> QED BY <2>5, <2>6, NoSrcAssumption, ConstAssumption DEF AsSeq
<1> QED BY <1>1, CallsInductive, PTL

-----------------------------------------------------------------------------
(* The sord calls poll the same cache.                                     *)

\* Values under an ID were HOME's at some time, however stale they are.
Logged ==
  \A i \in Ids : \A k \in 1..Len(local.items[i]) :
    \E m \in 1..Len(log) : At(m, i) = local.items[i][k]

LEMMA LoggedInit == Init => Logged
BY DEF Init, Nothing, Logged

LEMMA LoggedStep ==
  ASSUME IInv, Logged, [Next]_vars, IInv'
  PROVE  Logged'
<1>0. PICK n \in Nat : n = Len(log) BY DEF IInv, TypeOK
<1>1. CASE HomeStep
  <2>1. PICK op, id, sec : Publish(op, id, sec)
    BY <1>1 DEF HomeStep, HomeInsert, HomeChange, HomeRemove, HomeUserInfo, HomeReset
  <2> DEFINE e == [op |-> op, id |-> id, sec |-> sec]
  <2>2. log' = Append(log, e) /\ local' = local BY <2>1 DEF Publish, client
  <2> HIDE DEF e
  <2>3. Len(log') = n + 1 /\ \A m \in 1..n : log'[m] = log[m]
    BY <1>0, <2>2 DEF IInv, TypeOK
  <2>4. \A m \in 1..n : m \in 1..(n + 1) BY <1>0
  <2>5. \A i, m : m \in 1..n => At(m, i)' = At(m, i) BY <2>3 DEF At
  <2> SUFFICES ASSUME NEW i \in Ids, NEW k \in 1..Len(local.items[i])
               PROVE  \E m \in 1..(n + 1) : At(m, i)' = local.items[i][k]
    BY <2>2, <2>3 DEF Logged
  <2>6. PICK m \in 1..n : At(m, i) = local.items[i][k] BY <1>0 DEF Logged
  <2> QED BY <2>4, <2>5, <2>6
<1>2. ASSUME UNCHANGED log, snap \in 1..Len(log), local' = Copy(log[snap].sec)
      PROVE  Logged'
  <2>1. log[snap].sec \in Section BY <1>2, JournalStable
  <2>2. \A i \in Ids : local'.items[i] = AsSeq(At(snap, i)) BY <1>2, <2>1, CopyType DEF At
  <2> SUFFICES ASSUME NEW i \in Ids, NEW k \in 1..Len(local'.items[i])
               PROVE  At(snap, i) = local'.items[i][k]
    BY <1>2 DEF Logged, At
  <2>3. At(snap, i) # None
    <3>1. At(snap, i) = None => local'.items[i] = <<>> BY <2>2 DEF AsSeq
    <3>2. local'.items[i] # <<>> OBVIOUS
    <3> QED BY <3>1, <3>2
  <2>4. local'.items[i] = <<At(snap, i)>> BY <2>2, <2>3 DEF AsSeq
  <2> QED BY <2>4
<1>3. CASE InstallFirst \/ InstallReset
  <2>1. UNCHANGED log /\ snap # 0 /\ local' = Copy(log[snap].sec)
    BY <1>3 DEF InstallFirst, InstallReset
  <2>2. snap \in 1..Len(log) BY <2>1 DEF IInv, TypeOK
  <2> QED BY <1>2, <2>1, <2>2
<1>4. CASE Deliver
  <2> DEFINE e == log[cursor + 1]
  <2>1. pc = "online" /\ cursor < Len(log) /\ local' = Apply(local, e) /\ log' = log
    BY <1>4 DEF Deliver
  <2>2. cursor + 1 \in 2..Len(log) /\ cursor + 1 \in 1..Len(log)
    BY <2>1 DEF IInv, TypeOK, Positions
  <2>3. e \in Entry /\ local \in Cache BY <2>2 DEF IInv, TypeOK
  <2>4. /\ e.op \in {"insert", "change", "remove"} => e.id \in Ids
        /\ \A i \in Ids : e.sec.items[i] = At(cursor + 1, i)
    BY <2>2 DEF IInv, JournalOK, At
  <2> HIDE DEF e
  <2> SUFFICES ASSUME NEW i \in Ids, NEW k \in 1..Len(local'.items[i])
               PROVE  \E m \in 1..Len(log) : At(m, i) = local'.items[i][k]
    BY <2>1 DEF Logged, At
  <2>5. local.items[i] \in Seq(Vals) BY <2>3 DEF Cache
  <2>6. \/ local'.items[i] = Append(local.items[i], At(cursor + 1, i))
        \/ local'.items[i] = <<At(cursor + 1, i)>>
        \/ local'.items[i] = <<>>
        \/ local'.items[i] = local.items[i]
    BY <2>1, <2>3, <2>4, ApplyItem
  <2>7. \A j \in 1..Len(local.items[i]) : \E m \in 1..Len(log) : At(m, i) = local.items[i][j]
    BY DEF Logged
  <2>8. CASE local'.items[i] = Append(local.items[i], At(cursor + 1, i))
    <3>1. k \in 1..(Len(local.items[i]) + 1) BY <2>5, <2>8
    <3>2. CASE k = Len(local.items[i]) + 1 BY <3>2, <2>2, <2>5, <2>8
    <3>3. CASE k # Len(local.items[i]) + 1
      <4>1. k \in 1..Len(local.items[i]) BY <3>1, <3>3, <2>5
      <4>2. local'.items[i][k] = local.items[i][k] BY <4>1, <2>5, <2>8
      <4> QED BY <4>1, <4>2, <2>7
    <3> QED BY <3>2, <3>3
  <2>9. CASE local'.items[i] = <<At(cursor + 1, i)>> BY <2>2, <2>9
  <2>10. CASE local'.items[i] = <<>> BY <2>10
  <2>11. CASE local'.items[i] = local.items[i] BY <2>7, <2>11
  <2> QED BY <2>6, <2>8, <2>9, <2>10, <2>11
<1>5. CASE UNCHANGED <<log, local>> BY <1>5 DEF Logged, At
<1>6. CASE log' = log /\ local' = Nothing BY <1>6 DEF Logged, Nothing
<1> QED BY <1>1, <1>3, <1>4, <1>5, <1>6
        DEF Next, ClientStep, ServeGet, Enter, FirstFetchRefused, EnterRaises,
            ResetFails, AddressesSynced, Subscribe, DeliverReset, Exit, vars

\* A call waits for nothing before its answer; what it waits for are IDs.
Statuses == {"idle", "asked", "served", "waiting", "ok", "SordCreationError"}
Asked == {"none", "create", "create_audio", "remove", "remove_all"}
AnySordCall == [kind: Asked, st: Statuses, label: Vals \cup {None},
             count: {0} \cup (1..Cardinality(Ids)), ids: SUBSET Ids, left: SUBSET Ids,
             made: SUBSET Ids, asked: Nat, blank: BOOLEAN]

SordCallsFit ==
  /\ call \in [Calls -> AnySordCall]
  /\ \A c \in Calls :
       /\ call[c].kind \in {"create", "create_audio"} => call[c].label \in Vals
       /\ call[c].st \in {"idle", "asked", "served"} => call[c].left = {}
  /\ \A t \in work : t.id \in Ids /\ (t.op = "insert" => t.label \in Vals)

SordsInv == IInv /\ Logged /\ SordCallsFit

LEMMA SordsStepIsMirrorStep ==
  ASSUME SordCallsFit, [SordsNext]_callVars
  PROVE  [Next]_vars
<1>1. CASE (HomeStep \/ ServeGet \/ Enter \/ ClientStep)
           /\ UNCHANGED <<work, call>>
  BY <1>1 DEF Next
<1>2. CASE Leave BY <1>2 DEF Leave, Next
<1>3. ASSUME NEW t \in work, CarryOutSord(t) PROVE [Next]_vars
  <2>1. t.id \in Ids /\ (t.op = "insert" => t.label \in Vals) BY DEF SordCallsFit
  <2>2. (t.op = "insert" /\ HomeInsert(t.id, t.label)) \/ HomeRemove(t.id)
        \/ mirror' = mirror
    BY <1>3 DEF CarryOutSord
  <2>3. (t.op = "insert" /\ HomeInsert(t.id, t.label)) \/ HomeRemove(t.id) \/ vars' = vars
    BY <2>2 DEF mirror, vars
  <2> QED BY <2>1, <2>3 DEF HomeStep, Next
<1>4. ASSUME NEW c \in Calls, SordsAskStep(c) \/ SordsServeStep(c) \/ SordsWaitStep(c)
      PROVE  vars' = vars
  <2>1. mirror' = mirror
    BY <1>4 DEF SordsAskStep, Create, Remove, RemoveAll, AskSords,
                SordsServeStep, ServeCreate, ServeRemove, RefuseSords,
                SordsWaitStep, SordsAnswered, Return, PollSord, SordTimeout
  <2> QED BY <2>1 DEF mirror, vars
<1>5. CASE UNCHANGED callVars BY <1>5 DEF callVars, vars
<1> QED BY <1>1, <1>2, <1>3, <1>4, <1>5, Zenon DEF SordsNext

LEMMA SordCallsFitInit == SordsInit => SordCallsFit
<1> SUFFICES ASSUME work = {}, call = [c \in Calls |-> NoSordCall] PROVE SordCallsFit
  BY DEF SordsInit
<1>1. NoSordCall \in AnySordCall
  BY DEF NoSordCall, AnySordCall, Asked, Statuses
<1>2. NoSordCall.kind = "none" /\ NoSordCall.left = {} BY DEF NoSordCall
<1> QED BY <1>1, <1>2 DEF SordCallsFit

\* A call becomes r.
LEMMA SordCallChanges ==
  ASSUME SordCallsFit, NEW d \in Calls, NEW r \in AnySordCall,
         call' = [call EXCEPT ![d] = r], 
         r.kind \in {"create", "create_audio"} => r.label \in Vals,
         r.st \in {"idle", "asked", "served"} => r.left = {},
         \A t \in work' : t.id \in Ids /\ (t.op = "insert" => t.label \in Vals)
  PROVE  SordCallsFit'
BY DEF SordCallsFit

LEMMA SordCallData ==
  ASSUME SordCallsFit, NEW d \in Calls
  PROVE  /\ call[d] \in AnySordCall
         /\ call[d].kind \in {"create", "create_audio"} => call[d].label \in Vals
         /\ call[d].st \in {"idle", "asked", "served"} => call[d].left = {}
         /\ call[d].made \subseteq Ids /\ call[d].ids \subseteq Ids /\ call[d].left \subseteq Ids
BY DEF SordCallsFit, AnySordCall

LEMMA SordCallsFitStep ==
  ASSUME IInv, SordCallsFit, [SordsNext]_callVars
  PROVE  SordCallsFit'
<1> DEFINE WorkFits == \A t \in work : t.id \in Ids /\ (t.op = "insert" => t.label \in Vals)
<1>1. CASE UNCHANGED <<work, call>> BY <1>1 DEF SordCallsFit
<1>2. ASSUME NEW t \in work, CarryOutSord(t) PROVE SordCallsFit'
  BY <1>2 DEF CarryOutSord, SordCallsFit
<1>3. ASSUME NEW d \in Calls, NEW kind \in Asked, NEW l \in Vals \cup {None},
             NEW m \in {0} \cup (1..Cardinality(Ids)), NEW S \in SUBSET Ids,
             kind \in {"create", "create_audio"} => l \in Vals,
             AskSords(d, kind, l, m, S)
      PROVE  SordCallsFit'
  <2> DEFINE r == [NoSordCall EXCEPT !.kind = kind, !.st = "asked", !.label = l, !.count = m,
                                     !.ids = S, !.asked = Len(log)]
  <2>1. call' = [call EXCEPT ![d] = r] /\ work' = work BY <1>3 DEF AskSords
  <2>2. Len(log) \in Nat BY DEF IInv, TypeOK
  <2>3. NoSordCall \in AnySordCall /\ NoSordCall.left = {}
    BY DEF NoSordCall, AnySordCall, Asked, Statuses
  <2>4. r \in AnySordCall /\ r.kind = kind /\ r.label = l /\ r.left = {}
    BY <2>2, <2>3 DEF AnySordCall, Statuses
  <2> HIDE DEF r
  <2> QED BY <1>3, <2>1, <2>4, SordCallChanges DEF SordCallsFit
<1>4. ASSUME NEW d \in Calls, SordsAskStep(d) PROVE SordCallsFit'
  <2>1. ASSUME NEW l \in Vals, NEW m \in 1..Cardinality(Ids), Create(d, l, m)
        PROVE  SordCallsFit'
    BY <1>3, <2>1 DEF Create, Asked
  <2>2. ASSUME NEW S \in SUBSET Ids, Remove(d, S) PROVE SordCallsFit'
    BY <1>3, <2>2 DEF Remove, Asked
  <2>3. CASE RemoveAll(d)
    <3>1. Cached \in SUBSET Ids BY DEF Cached
    <3> QED BY <1>3, <2>3, <3>1 DEF RemoveAll, Asked
  <2> QED BY <1>4, <2>1, <2>2, <2>3 DEF SordsAskStep
<1>5. ASSUME NEW d \in Calls, NEW st \in Statuses, call' = [call EXCEPT ![d].st = st],
             call[d].left = {} \/ st \in {"ok", "SordCreationError"},
             \A t \in work' : t.id \in Ids /\ (t.op = "insert" => t.label \in Vals)
      PROVE  SordCallsFit'
  <2> DEFINE r == [call[d] EXCEPT !.st = st]
  <2>1. call' = [call EXCEPT ![d] = r] BY <1>5
  <2>2. /\ r \in AnySordCall /\ r.st = st /\ r.kind = call[d].kind /\ r.label = call[d].label
        /\ r.left = call[d].left
    BY SordCallData DEF AnySordCall
  <2> HIDE DEF r
  <2> QED BY <1>5, <2>1, <2>2, SordCallData, SordCallChanges
<1>6. ASSUME NEW d \in Calls, SordsServeStep(d) PROVE SordCallsFit'
  <2>1. ASSUME NEW S \in SUBSET Ids, NEW b \in BOOLEAN, ServeCreate(d, S, b)
        PROVE  SordCallsFit'
    <3> DEFINE r == [call[d] EXCEPT !.st = "served", !.made = S, !.blank = b]
    <3>1. /\ call' = [call EXCEPT ![d] = r] /\ call[d].st = "asked"
          /\ call[d].kind \in {"create", "create_audio"}
          /\ work' = work \cup {[op |-> "insert", id |-> i, label |-> call[d].label] : i \in S}
      BY <2>1 DEF ServeCreate
    <3>2. /\ r \in AnySordCall /\ r.st = "served" /\ r.kind = call[d].kind
          /\ r.label = call[d].label /\ r.left = call[d].left
      BY SordCallData DEF AnySordCall, Statuses
    <3> HIDE DEF r
    <3>3. \A t \in work' : t.id \in Ids /\ (t.op = "insert" => t.label \in Vals)
      BY <3>1, SordCallData DEF SordCallsFit
    <3> QED BY <3>1, <3>2, <3>3, SordCallData, SordCallChanges
  <2>2. CASE ServeRemove(d)
    <3>1. /\ call' = [call EXCEPT ![d].st = "served"] /\ call[d].st = "asked"
          /\ work' = work \cup {[op |-> "remove", id |-> i, label |-> None] : i \in call[d].ids}
      BY <2>2 DEF ServeRemove
    <3>2. \A t \in work' : t.id \in Ids /\ (t.op = "insert" => t.label \in Vals)
      BY <3>1, SordCallData DEF SordCallsFit
    <3> QED BY <3>1, <3>2, <1>5, SordCallData DEF Statuses
  <2>3. CASE RefuseSords(d)
    <3>1. call[d].st = "asked" /\ work' = work
          /\ \E st \in {"served", "SordCreationError"} : call' = [call EXCEPT ![d].st = st]
      BY <2>3 DEF RefuseSords
    <3> QED BY <3>1, <1>5, SordCallData DEF Statuses, SordCallsFit
  <2> QED BY <1>6, <2>1, <2>2, <2>3 DEF SordsServeStep
<1>7. ASSUME NEW d \in Calls, SordsWaitStep(d) PROVE SordCallsFit'
  <2>1. CASE SordsAnswered(d)
    <3>1. SordTargets(d) \subseteq Ids
      BY SordCallData DEF SordTargets, CachedLabelled
    <3> DEFINE ids == IF call[d].ids = {} THEN SordTargets(d) ELSE call[d].ids
               r == [call[d] EXCEPT !.st = "waiting", !.left = SordTargets(d), !.ids = ids]
    <3>2. ids \subseteq Ids BY <3>1, SordCallData
    <3>3. call' = [call EXCEPT ![d] = r] /\ work' = work BY <2>1 DEF SordsAnswered
    <3> HIDE DEF ids
    <3>4. /\ r \in AnySordCall /\ r.st = "waiting" /\ r.kind = call[d].kind
          /\ r.label = call[d].label
      BY <3>1, <3>2, SordCallData DEF AnySordCall, Statuses
    <3> HIDE DEF r
    <3> QED BY <3>3, <3>4, SordCallData, SordCallChanges DEF SordCallsFit
  <2>2. ASSUME NEW i \in Ids, PollSord(d, i) PROVE SordCallsFit'
    <3> DEFINE r == [call[d] EXCEPT !.left = @ \ {i}]
    <3>1. call' = [call EXCEPT ![d] = r] /\ work' = work /\ call[d].st = "waiting"
      BY <2>2 DEF PollSord
    <3>2. /\ r \in AnySordCall /\ r.st = call[d].st /\ r.kind = call[d].kind
          /\ r.label = call[d].label
      BY SordCallData DEF AnySordCall
    <3> HIDE DEF r
    <3> QED BY <3>1, <3>2, SordCallData, SordCallChanges DEF SordCallsFit
  <2>3. CASE Return(d) \/ \E i \in Ids : SordTimeout(d, i)
    <3>1. work' = work
          /\ \E st \in {"ok", "SordCreationError"} : call' = [call EXCEPT ![d].st = st]
      BY <2>3 DEF Return, SordTimeout
    <3> QED BY <3>1, <1>5 DEF Statuses, SordCallsFit
  <2> QED BY <1>7, <2>1, <2>2, <2>3 DEF SordsWaitStep
<1>8. CASE Leave BY <1>1, <1>8 DEF Leave
<1>9. CASE UNCHANGED callVars BY <1>1, <1>9 DEF callVars
<1> QED BY <1>1, <1>2, <1>4, <1>6, <1>7, <1>8, <1>9 DEF SordsNext

LEMMA SordsInductive == SordsSpec => []SordsInv
<1>1. SordsInit => SordsInv
  <2>1. SordsInit => Init BY DEF SordsInit
  <2> QED BY <2>1, InitIInv, LoggedInit, SordCallsFitInit DEF SordsInv
<1>2. SordsInv /\ [SordsNext]_callVars => SordsInv'
  <2> SUFFICES ASSUME SordsInv, [SordsNext]_callVars PROVE SordsInv' OBVIOUS
  <2>1. [Next]_vars BY SordsStepIsMirrorStep DEF SordsInv
  <2>2. IInv' BY <2>1, NextIInv DEF SordsInv
  <2>3. Logged' BY <2>1, <2>2, LoggedStep DEF SordsInv
  <2>4. SordCallsFit' BY SordCallsFitStep DEF SordsInv
  <2> QED BY <2>2, <2>3, <2>4 DEF SordsInv
<1> QED BY <1>1, <1>2, PTL DEF SordsSpec

\* Only a poll takes from what a waiting call waits for.
LEMMA LeftByPolls ==
  ASSUME SordsInv, [SordsNext]_callVars, NEW c \in Calls,
         \/ call[c].left \ call'[c].left # {}
         \/ call'[c].left # call[c].left /\ call[c].st = "waiting"
  PROVE  \E i \in Ids : PollSord(c, i) /\ call'[c].left = call[c].left \ {i}
<1>0. SordCallsFit /\ call \in [Calls -> AnySordCall] BY DEF SordsInv, SordCallsFit
<1>1. call'[c].left # call[c].left /\ call[c].st \notin {"idle", "asked", "served"}
  <2>1. call[c].st \in {"idle", "asked", "served"} => call[c].left = {} BY <1>0, SordCallData
  <2> QED BY <2>1
<1>2. ASSUME NEW d \in Calls, NEW st, call' = [call EXCEPT ![d].st = st] PROVE FALSE
  BY <1>0, <1>1, <1>2 DEF AnySordCall
<1>3. ASSUME NEW d \in Calls, NEW r, call' = [call EXCEPT ![d] = r],
             call[d].st \in {"idle", "asked", "served"}
      PROVE  FALSE
  BY <1>0, <1>1, <1>3
<1>4. ASSUME NEW d \in Calls, SordsAskStep(d) PROVE FALSE
  <2>1. call[d].st = "idle" /\ \E r : call' = [call EXCEPT ![d] = r]
    BY <1>4 DEF SordsAskStep, Create, Remove, RemoveAll, AskSords
  <2> QED BY <2>1, <1>3
<1>5. ASSUME NEW d \in Calls, SordsServeStep(d) PROVE FALSE
  <2>1. ASSUME NEW S, NEW b, ServeCreate(d, S, b) PROVE FALSE
    <3>1. call' = [call EXCEPT ![d] = [call[d] EXCEPT !.st = "served", !.made = S, !.blank = b]]
          /\ call[d].st = "asked"
      BY <2>1 DEF ServeCreate
    <3> QED BY <3>1, <1>3
  <2>2. CASE ServeRemove(d) \/ RefuseSords(d)
    BY <2>2, <1>2 DEF ServeRemove, RefuseSords
  <2> QED BY <1>5, <2>1, <2>2 DEF SordsServeStep
<1>6. ASSUME NEW d \in Calls, SordsAnswered(d) PROVE FALSE
  <2>1. call[d].st = "served" /\ \E r : call' = [call EXCEPT ![d] = r]
    <3> DEFINE r == [call[d] EXCEPT !.st = "waiting", !.left = SordTargets(d),
                       !.ids = IF call[d].ids = {} THEN SordTargets(d) ELSE call[d].ids]
    <3>1. call' = [call EXCEPT ![d] = r] BY <1>6 DEF SordsAnswered
    <3> QED BY <1>6, <3>1 DEF SordsAnswered
  <2> QED BY <2>1, <1>3
<1>7. ASSUME NEW d \in Calls, NEW i \in Ids, PollSord(d, i)
      PROVE  PollSord(c, i) /\ call'[c].left = call[c].left \ {i}
  <2>1. call' = [call EXCEPT ![d].left = @ \ {i}] BY <1>7 DEF PollSord
  <2>2. c = d BY <2>1, <1>0, <1>1
  <2>3. call'[c].left = call[c].left \ {i} BY <2>1, <2>2, <1>0 DEF AnySordCall
  <2> QED BY <1>7, <2>2, <2>3
<1>8. ASSUME NEW d \in Calls, SordsWaitStep(d) PROVE \E i \in Ids : PollSord(d, i)
  BY <1>2, <1>6, <1>8 DEF SordsWaitStep, Return, SordTimeout
<1>9. call' # call BY <1>1
<1> QED BY <1>4, <1>5, <1>7, <1>8, <1>9
        DEF SordsNext, Leave, CarryOutSord, callVars

\* A removal that returns saw its sords gone, and where the cache was sure they
\* were gone from HOME (_wait_for_sord_removal).
THEOREM RemovalsWereDone == SordsSpec => RemovedWasGone
<1> DEFINE A == \A c \in Calls : \A i \in call[c].left \ call'[c].left :
              (call[c].kind = "remove" /\ Sure(i)) => log[cursor].sec.items[i] = None
<1>1. SordsInv /\ [SordsNext]_callVars => A
  <2> SUFFICES ASSUME SordsInv, [SordsNext]_callVars, NEW c \in Calls,
                      NEW i \in call[c].left \ call'[c].left,
                      call[c].kind = "remove", Sure(i)
               PROVE  log[cursor].sec.items[i] = None
    OBVIOUS
  <2>1. PICK j \in Ids : PollSord(c, j) /\ call'[c].left = call[c].left \ {j}
    BY LeftByPolls
  <2>2. j = i /\ i \in Ids BY <2>1
  <2>3. i \notin Cached BY <2>1, <2>2 DEF PollSord, SordShown
  <2>4. local.items[i] = <<>> BY <2>2, <2>3 DEF Cached
  <2>5. local.items[i] = AsSeq(log[cursor].sec.items[i])
    BY <2>2 DEF SordsInv, IInv, SureIsExact
  <2>6. \A x : AsSeq(x) = <<>> => x = None
    <3>1. \A x : <<x>> # <<>> OBVIOUS
    <3> QED BY <3>1 DEF AsSeq
  <2> QED BY <2>4, <2>5, <2>6, Zenon
<1>2. SordsInv /\ [SordsNext]_callVars => [A]_callVars BY <1>1
<1> HIDE DEF A
<1>3. SordsSpec => [][A]_callVars
  BY <1>2, SordsInductive, PTL DEF SordsSpec
<1> QED BY <1>3 DEF RemovedWasGone, A

\* A creation under a fresh label waits until one of its own sords is cached,
\* however stale the cache is (_wait_for_sord_creation).
THEOREM FreshCreatesAreCached == SordsSpec => FreshCreateIsCached
<1> DEFINE A == \A c \in Calls :
              (/\ call[c].kind \in {"create", "create_audio"}
               /\ call'[c].left # call[c].left /\ call[c].st = "waiting"
               /\ FreshLabel(c))
              => \E i \in call[c].made : call[c].label \in
                   {local.items[i][k] : k \in 1..Len(local.items[i])}
<1>1. SordsInv /\ [SordsNext]_callVars => A
  <2> SUFFICES ASSUME SordsInv, [SordsNext]_callVars, NEW c \in Calls,
                      call[c].kind \in {"create", "create_audio"},
                      call'[c].left # call[c].left, call[c].st = "waiting",
                      FreshLabel(c)
               PROVE  \E i \in call[c].made : call[c].label \in
                        {local.items[i][k] : k \in 1..Len(local.items[i])}
    OBVIOUS
  <2>1. PICK j \in Ids : PollSord(c, j) BY LeftByPolls
  <2>2. CachedLabelled(call[c].label) # {} BY <2>1 DEF PollSord, SordShown
  <2>3. PICK i \in Ids : \E k \in 1..Len(local.items[i]) : local.items[i][k] = call[c].label
    BY <2>2 DEF CachedLabelled
  <2>4. PICK m \in 1..Len(log) : At(m, i) = call[c].label
    BY <2>3 DEF SordsInv, Logged
  <2>5. i \in call[c].made BY <2>4 DEF FreshLabel, At
  <2> QED BY <2>3, <2>5
<1>2. SordsInv /\ [SordsNext]_callVars => [A]_callVars BY <1>1
<1> HIDE DEF A
<1>3. SordsSpec => [][A]_callVars
  BY <1>2, SordsInductive, PTL DEF SordsSpec
<1> QED BY <1>3 DEF FreshCreateIsCached, A
=============================================================================
