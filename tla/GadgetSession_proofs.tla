------------------------ MODULE GadgetSession_proofs ------------------------
(***************************************************************************)
(* The client of a VSM GadgetServer, for any server nodes, protocols, names *)
(* and keys and any number of calls: what the store held at first is never  *)
(* lost, if no two removals begin in one second, and a removal of remote    *)
(* nodes keeps its word; an object of a protocol says what it was told, and *)
(* a node sent back overwrites nothing that it is not to.                   *)
(***************************************************************************)
EXTENDS GadgetSession, TLAPS

(***************************************************************************)
(* The store.  Neither property is inductive: that the original survives an *)
(* edit that fails half-way rests on the backup made before it, and that    *)
(* the answer is true of the store on where in the call the store is still  *)
(* what it was.                                                             *)
(***************************************************************************)
Kept == {backups[i] : i \in DOMAIN backups}

\* What the proofs need of the types.
Typed ==
  /\ {"op", "at", "ok"} \subseteq DOMAIN call
  /\ backups \in Seq(Contents) /\ store \in Contents \cup {"missing"}
  /\ sent \in Seq({"start", "stop"})

\* The steps of one call; only a removal comes to the store.
OfRemoval == {"status", "test", "backup", "edit", "restore"}

PlaceFits ==
  /\ call.at \in OfRemoval => call.op = "remove"
  /\ call.at \in {"list", "look", "join"} => call.op = "join"
  /\ call.at = "restart" => call.op = "restart"
  /\ call.at = "status" => sent = <<>>

\* Where the store may be changed it is there, and the last backup is of it; the
\* original is kept if no backup was written over.
BackedUp ==
  /\ call.at \in {"backup", "edit", "restore"} => store # "missing"
  /\ call.at \in {"edit", "restore"} =>
       /\ Len(backups) > 0 /\ backups[Len(backups)] = was
       /\ rewritten \/ "original" \in Kept

\* The store, up to its change and after it.
StoreFits ==
  call.op = "remove" =>
    /\ call.at \in {"status", "stop", "test", "backup", "edit"} => store = was /\ call.ok = "none"
    /\ call.at = "restore" => call.ok = "none"
    /\ call.at = "start" => call.ok \in {"True", "False"}
    /\ call.ok = "True" => store = "cleaned"
    /\ call.ok = "False" /\ ~lost => store = was

ServerInv ==
  Typed /\ PlaceFits /\ BackedUp /\ StoreFits /\ OriginalIsKept /\ RemovalKeepsItsWord

-----------------------------------------------------------------------------
LEMMA ServerInvInit == serverInit => ServerInv
<1> SUFFICES ASSUME serverInit PROVE ServerInv
  OBVIOUS
<1>1. Typed
  <2>1. {"op", "at", "ok"} \subseteq DOMAIN call BY DEF serverInit, NoServerCall
  <2>2. backups \in Seq(Contents) /\ sent \in Seq({"start", "stop"})
    BY DEF serverInit
  <2>3. store \in Contents \cup {"missing"} BY DEF serverInit, Contents
  <2> QED BY <2>1, <2>2, <2>3 DEF Typed
<1>2. PlaceFits /\ BackedUp /\ StoreFits
  BY DEF serverInit, PlaceFits, OfRemoval, BackedUp, StoreFits, NoServerCall
<1>3. OriginalIsKept BY DEF serverInit, OriginalIsKept
<1>4. RemovalKeepsItsWord
  BY DEF serverInit, RemovalKeepsItsWord, AnswerIsTrueOfStore, StopIsTakenBack, Removed,
         NoServerCall
<1> QED BY <1>1, <1>2, <1>3, <1>4 DEF ServerInv

\* The service, the other servers and a call that begins leave the store alone.
LEMMA SettleKeeps ==
  ASSUME ServerInv, Settle \/ ClusterChanges \/ UNCHANGED serverVars
  PROVE  ServerInv'
<1>1. UNCHANGED <<store, backups, call, was, lost, sent, rewritten>>
  BY DEF Settle, ClusterChanges, serverVars
<1> QED
  BY <1>1 DEF ServerInv, Typed, PlaceFits, BackedUp, StoreFits, OriginalIsKept, Kept,
              RemovalKeepsItsWord, AnswerIsTrueOfStore, StopIsTakenBack, Removed

LEMMA BeginsKeeps ==
  ASSUME ServerInv, NEW op, NEW at, Begins(op, at),
         <<op, at>> \in {<<"start", "start">>, <<"stop", "stop">>, <<"kill", "stop">>,
                         <<"restart", "restart">>, <<"remove", "status">>, <<"join", "list">>}
  PROVE  ServerInv'
<1>1. /\ call' = [NoServerCall EXCEPT !.op = op, !.at = at, !.n = call.n + 1]
      /\ was' = store /\ lost' = FALSE /\ sent' = <<>> /\ UNCHANGED <<store, backups, rewritten>>
  BY DEF Begins
<1>2. call'.op = op /\ call'.at = at /\ call'.ok = "none" /\ at # "done"
  BY <1>1 DEF NoServerCall
<1>3. Typed'
  <2>1. ({"op", "at", "ok"} \subseteq DOMAIN call)' BY <1>1 DEF NoServerCall
  <2>2. sent' \in Seq({"start", "stop"}) BY <1>1
  <2> QED BY <1>1, <2>1, <2>2 DEF ServerInv, Typed
<1>4. PlaceFits' BY <1>1, <1>2 DEF PlaceFits, OfRemoval
<1>5. BackedUp' BY <1>2 DEF BackedUp
<1>6. StoreFits' BY <1>1, <1>2 DEF StoreFits
<1>7. OriginalIsKept' BY <1>1 DEF ServerInv, OriginalIsKept
<1>8. RemovalKeepsItsWord'
  BY <1>2 DEF RemovalKeepsItsWord, AnswerIsTrueOfStore, StopIsTakenBack, Removed
<1> QED BY <1>3, <1>4, <1>5, <1>6, <1>7, <1>8 DEF ServerInv

-----------------------------------------------------------------------------
(* What a step does to the call.                                            *)

CallIs(op, at, ok) ==
  call'.op = op /\ call'.at = at /\ call'.ok = ok /\ {"op", "at", "ok"} \subseteq DOMAIN call'

LEMMA CallMoves ==
  ASSUME Typed, NEW at
  PROVE  /\ Goes(at) => CallIs(call.op, at, call.ok)
         /\ \A ok : Gives(ok) => CallIs(call.op, "start", ok)
         /\ \A ok : Ends(ok) => CallIs(call.op, "done", ok)
<1>1. Goes(at) => CallIs(call.op, at, call.ok) BY DEF Typed, Goes, CallIs
<1>2. \A ok : Gives(ok) => CallIs(call.op, "start", ok) BY DEF Typed, Gives, CallIs
<1>3. \A ok : Ends(ok) => CallIs(call.op, "done", ok) BY DEF Typed, Ends, CallIs
<1> QED BY <1>1, <1>2, <1>3

LEMMA SeesStatusKeeps ==
  ASSUME ServerInv, SeesStatus
  PROVE  ServerInv'
<1>1. call.op = "remove" /\ store = was /\ call.ok = "none" /\ sent = <<>>
  BY DEF ServerInv, PlaceFits, OfRemoval, StoreFits, SeesStatus
<1>2. UNCHANGED <<store, backups, was, sent, rewritten>> BY DEF SeesStatus
<1>3. \/ \E at \in {"stop", "test"} : CallIs("remove", at, "none")
      \/ CallIs("remove", "done", "raised")
  BY <1>1, CallMoves DEF SeesStatus, ServerInv
<1>4. Typed' BY <1>2, <1>3 DEF ServerInv, Typed, CallIs
<1>5. (PlaceFits /\ BackedUp /\ StoreFits)'
  BY <1>1, <1>2, <1>3 DEF PlaceFits, OfRemoval, BackedUp, StoreFits, CallIs
<1>6. OriginalIsKept' BY <1>2 DEF ServerInv, OriginalIsKept
<1>7. RemovalKeepsItsWord'
  BY <1>1, <1>2, <1>3
  DEF RemovalKeepsItsWord, AnswerIsTrueOfStore, StopIsTakenBack, Removed, CallIs
<1> QED BY <1>4, <1>5, <1>6, <1>7 DEF ServerInv

LEMMA StopsKeeps ==
  ASSUME ServerInv, Stops
  PROVE  ServerInv'
<1>1. call.op = "remove" => store = was /\ call.ok = "none"
  BY DEF ServerInv, StoreFits, Stops
<1>2. UNCHANGED <<store, backups, was, rewritten>> /\ sent' = Append(sent, "stop")
  BY DEF Stops
<1>3. \/ /\ call.op = "remove"
         /\ \/ CallIs("remove", "test", "none")
            \/ CallIs("remove", "start", "False") /\ lost' = TRUE
      \/ /\ call.op # "remove"
         /\ \E ok \in {"True", "raised"} : CallIs(call.op, "done", ok)
  <2>1. CASE call.op = "remove"
    <3>1. Goes("test") \/ (Gives("False") /\ lost' = TRUE) BY <2>1 DEF Stops
    <3> QED BY <1>1, <2>1, <3>1, CallMoves DEF ServerInv
  <2>2. CASE call.op # "remove"
    <3>1. \E ok \in {"True", "raised"} : Ends(ok) BY <2>2 DEF Stops
    <3> QED BY <2>2, <3>1, CallMoves DEF ServerInv
  <2> QED BY <2>1, <2>2
<1>4. Typed' BY <1>2, <1>3 DEF ServerInv, Typed, CallIs
<1>5. (PlaceFits /\ BackedUp /\ StoreFits)'
  BY <1>1, <1>2, <1>3 DEF PlaceFits, OfRemoval, BackedUp, StoreFits, CallIs
<1>6. OriginalIsKept' BY <1>2 DEF ServerInv, OriginalIsKept
<1>7. RemovalKeepsItsWord'
  BY <1>3 DEF RemovalKeepsItsWord, AnswerIsTrueOfStore, StopIsTakenBack, Removed, CallIs
<1> QED BY <1>4, <1>5, <1>6, <1>7 DEF ServerInv

LEMMA StartsKeeps ==
  ASSUME ServerInv, Starts
  PROVE  ServerInv'
<1>1. UNCHANGED <<store, backups, was, rewritten>> /\ sent' = Append(sent, "start")
  BY DEF Starts
<1>2. call.op = "remove" => /\ call.ok \in {"True", "False"}
                            /\ call.ok = "True" => store = "cleaned"
                            /\ call.ok = "False" /\ ~lost => store = was
  BY DEF ServerInv, StoreFits, Starts
<1>3. /\ call'.op = call.op /\ call'.at = "done" /\ {"op", "at", "ok"} \subseteq DOMAIN call'
      /\ call.op = "remove" => call'.ok = call.ok
      /\ ~lost' => ~lost
  <2>1. \E ok : Ends(ok) /\ (call.op = "remove" => ok = call.ok)
    <3>1. CASE Ends(IF call.ok = "none" THEN "True" ELSE call.ok) BY <1>2, <3>1
    <3>2. CASE Ends(IF call.op = "remove" THEN call.ok ELSE "raised") BY <3>2
    <3> QED BY <3>1, <3>2 DEF Starts
  <2>2. ~lost' => ~lost BY DEF Starts
  <2> QED BY <2>1, <2>2, CallMoves DEF ServerInv, CallIs
<1>4. Typed' BY <1>1, <1>3 DEF ServerInv, Typed
<1>5. (PlaceFits /\ BackedUp /\ StoreFits)'
  BY <1>1, <1>2, <1>3 DEF PlaceFits, OfRemoval, BackedUp, StoreFits
<1>6. OriginalIsKept' BY <1>1 DEF ServerInv, OriginalIsKept
<1>7. RemovalKeepsItsWord'
  <2>1. AnswerIsTrueOfStore' BY <1>1, <1>2, <1>3 DEF AnswerIsTrueOfStore, Removed
  <2>2. sent'[Len(sent')] = "start" BY <1>1 DEF ServerInv, Typed
  <2> QED BY <2>1, <2>2 DEF RemovalKeepsItsWord, StopIsTakenBack
<1> QED BY <1>4, <1>5, <1>6, <1>7 DEF ServerInv

\* A restart has nothing to do with the store.
LEMMA RestartsKeeps ==
  ASSUME ServerInv, Restarts
  PROVE  ServerInv'
<1>1. call.op = "restart" BY DEF ServerInv, PlaceFits, Restarts
<1>2. UNCHANGED <<store, backups, was, rewritten>> /\ sent' = sent \o <<"stop", "start">>
  BY DEF Restarts
<1>3. \E ok \in {"True", "raised"} : CallIs("restart", "done", ok)
  BY <1>1, CallMoves DEF Restarts, ServerInv
<1>4. Typed'
  <2>1. sent' \in Seq({"start", "stop"}) BY <1>2 DEF ServerInv, Typed
  <2> QED BY <1>2, <1>3, <2>1 DEF ServerInv, Typed, CallIs
<1>5. (PlaceFits /\ BackedUp /\ StoreFits)'
  BY <1>3 DEF PlaceFits, OfRemoval, BackedUp, StoreFits, CallIs
<1>6. OriginalIsKept' BY <1>2 DEF ServerInv, OriginalIsKept
<1>7. RemovalKeepsItsWord'
  BY <1>3 DEF RemovalKeepsItsWord, AnswerIsTrueOfStore, StopIsTakenBack, Removed, CallIs
<1> QED BY <1>4, <1>5, <1>6, <1>7 DEF ServerInv

LEMMA TestsPathKeeps ==
  ASSUME ServerInv, TestsPath
  PROVE  ServerInv'
<1>1. call.op = "remove" /\ store = was /\ call.ok = "none"
  BY DEF ServerInv, PlaceFits, OfRemoval, StoreFits, TestsPath
<1>2. UNCHANGED <<store, backups, was, sent, rewritten>> BY DEF TestsPath
<1>3. \/ store # "missing" /\ CallIs("remove", "backup", "none")
      \/ CallIs("remove", "start", "False")
  BY <1>1, CallMoves DEF TestsPath, ServerInv
<1>4. Typed' BY <1>2, <1>3 DEF ServerInv, Typed, CallIs
<1>5. (PlaceFits /\ BackedUp /\ StoreFits)'
  BY <1>1, <1>2, <1>3 DEF PlaceFits, OfRemoval, BackedUp, StoreFits, CallIs
<1>6. OriginalIsKept' BY <1>2 DEF ServerInv, OriginalIsKept
<1>7. RemovalKeepsItsWord'
  BY <1>3 DEF RemovalKeepsItsWord, AnswerIsTrueOfStore, StopIsTakenBack, Removed, CallIs
<1> QED BY <1>4, <1>5, <1>6, <1>7 DEF ServerInv

\* Once the store is copied, the last backup is of it, and with a backup more what
\* was kept is kept, and the store as well.
LEMMA CopyIsLast ==
  ASSUME ServerInv, CopiesStore, store \in Contents, store' = store
  PROVE  /\ backups' \in Seq(Contents)
         /\ Len(backups') > 0 /\ backups'[Len(backups')] = store
         /\ rewritten' \/ "original" \in Kept'
<1>1. Len(backups) \in Nat /\ DOMAIN backups = 1..Len(backups) BY DEF ServerInv, Typed
<1>2. CASE backups' = Append(backups, store) /\ UNCHANGED rewritten
  <2>1. backups' \in Seq(Contents) BY <1>2 DEF ServerInv, Typed
  <2>2. Len(backups') = Len(backups) + 1 /\ DOMAIN backups' = 1..(Len(backups) + 1)
    BY <1>2 DEF ServerInv, Typed
  <2>3. backups'[Len(backups) + 1] = store BY <1>1, <1>2 DEF ServerInv, Typed
  <2>4. \A i \in DOMAIN backups : backups'[i] = backups[i]
    BY <1>1, <1>2 DEF ServerInv, Typed
  <2>5. store \in Kept' BY <1>1, <2>2, <2>3 DEF Kept
  <2>6. Kept \subseteq Kept' BY <1>1, <2>2, <2>4 DEF Kept
  <2>7. rewritten \/ store = "original" \/ "original" \in Kept
    BY DEF ServerInv, OriginalIsKept, Kept, Contents
  <2> QED BY <1>1, <1>2, <2>1, <2>2, <2>3, <2>5, <2>6, <2>7
<1>3. CASE /\ backups # <<>> /\ backups' = [backups EXCEPT ![Len(backups)] = store]
           /\ rewritten' = TRUE
  <2>1. Len(backups) > 0 BY <1>1, <1>3 DEF ServerInv, Typed
  <2>2. backups' \in Seq(Contents) /\ Len(backups') = Len(backups)
    BY <1>3 DEF ServerInv, Typed
  <2>3. backups'[Len(backups)] = store BY <1>1, <1>3, <2>1
  <2> QED BY <1>3, <2>1, <2>2, <2>3
<1> QED BY <1>2, <1>3 DEF CopiesStore

LEMMA BacksUpKeeps ==
  ASSUME ServerInv, BacksUp
  PROVE  ServerInv'
<1>1. call.op = "remove" /\ store = was /\ call.ok = "none" /\ store \in Contents
  BY DEF ServerInv, PlaceFits, OfRemoval, StoreFits, BackedUp, BacksUp, Typed
<1>2. UNCHANGED <<store, was, sent>> BY DEF BacksUp
<1>3. \/ CallIs("remove", "edit", "none") /\ CopiesStore
      \/ CallIs("remove", "start", "False") /\ CopiesStore
      \/ CallIs("remove", "start", "False") /\ UNCHANGED <<backups, rewritten>>
  BY <1>1, CallMoves DEF BacksUp, ServerInv
<1>4. Typed' BY <1>1, <1>2, <1>3, CopyIsLast DEF ServerInv, Typed, CallIs
<1>5. CopiesStore => /\ Len(backups') > 0 /\ backups'[Len(backups')] = store
                     /\ rewritten' \/ "original" \in Kept'
  BY <1>1, <1>2, CopyIsLast
<1>6. (PlaceFits /\ BackedUp /\ StoreFits)'
  <2>1. store # "missing" BY DEF ServerInv, BackedUp, BacksUp
  <2> QED BY <1>1, <1>2, <1>3, <1>5, <2>1 DEF PlaceFits, OfRemoval, BackedUp, StoreFits, CallIs
<1>7. OriginalIsKept'
  BY <1>2, <1>3, <1>5 DEF ServerInv, OriginalIsKept, Kept
<1>8. RemovalKeepsItsWord'
  BY <1>3 DEF RemovalKeepsItsWord, AnswerIsTrueOfStore, StopIsTakenBack, Removed, CallIs
<1> QED BY <1>4, <1>6, <1>7, <1>8 DEF ServerInv

LEMMA EditsKeeps ==
  ASSUME ServerInv, Edits
  PROVE  ServerInv'
<1>1. /\ call.op = "remove" /\ store = was /\ call.ok = "none"
      /\ Len(backups) > 0 /\ backups[Len(backups)] = was
      /\ rewritten \/ "original" \in Kept
  BY DEF ServerInv, PlaceFits, OfRemoval, StoreFits, BackedUp, Edits
<1>2. UNCHANGED <<backups, was, sent, rewritten>> BY DEF Edits
<1>3. \/ CallIs("remove", "start", "True") /\ store' = "cleaned"
      \/ CallIs("remove", "restore", "none") /\ store' \in {store, "damaged"}
      \/ CallIs("remove", "start", "False") /\ lost' = TRUE /\ store' \in {store, "cleaned", "damaged"}
  BY <1>1, CallMoves DEF Edits, ServerInv
<1>4. Typed' BY <1>2, <1>3 DEF ServerInv, Typed, CallIs, Contents
<1>5. store # "missing" BY DEF ServerInv, BackedUp, Edits
<1>6. PlaceFits' /\ StoreFits'
  BY <1>1, <1>2, <1>3 DEF PlaceFits, OfRemoval, StoreFits, CallIs
<1>7. BackedUp' /\ OriginalIsKept'
  BY <1>1, <1>2, <1>3, <1>5 DEF BackedUp, OriginalIsKept, Kept, CallIs
<1>8. RemovalKeepsItsWord'
  BY <1>3 DEF RemovalKeepsItsWord, AnswerIsTrueOfStore, StopIsTakenBack, Removed, CallIs
<1> QED BY <1>4, <1>6, <1>7, <1>8 DEF ServerInv

LEMMA RestoresKeeps ==
  ASSUME ServerInv, Restores
  PROVE  ServerInv'
<1>1. /\ call.op = "remove" /\ call.ok = "none" /\ store # "missing"
      /\ Len(backups) > 0 /\ backups[Len(backups)] = was
      /\ rewritten \/ "original" \in Kept
  BY DEF ServerInv, PlaceFits, OfRemoval, StoreFits, BackedUp, Restores
<1>2. UNCHANGED <<backups, was, sent, rewritten>> BY DEF Restores
<1>3. /\ CallIs("remove", "start", "False")
      /\ store' = was \/ (lost' = TRUE /\ store' \in {store, was})
  BY <1>1, CallMoves DEF Restores, ServerInv
<1>4. was \in Contents
  <2>1. Len(backups) \in DOMAIN backups BY <1>1 DEF ServerInv, Typed
  <2> QED BY <1>1, <2>1 DEF ServerInv, Typed
<1>5. Typed' BY <1>2, <1>3, <1>4 DEF ServerInv, Typed, CallIs
<1>6. PlaceFits' /\ StoreFits'
  BY <1>2, <1>3 DEF PlaceFits, OfRemoval, StoreFits, CallIs
<1>7. BackedUp' /\ OriginalIsKept'
  BY <1>1, <1>2, <1>3 DEF BackedUp, OriginalIsKept, Kept, CallIs
<1>8. RemovalKeepsItsWord'
  BY <1>3 DEF RemovalKeepsItsWord, AnswerIsTrueOfStore, StopIsTakenBack, Removed, CallIs
<1> QED BY <1>5, <1>6, <1>7, <1>8 DEF ServerInv

\* Joining the cluster has nothing to do with the store.
LEMMA JoiningKeeps ==
  ASSUME ServerInv, Lists \/ Looks \/ Joins
  PROVE  ServerInv'
<1>1. call.op = "join" BY DEF ServerInv, PlaceFits, Lists, Looks, Joins
<1>2. UNCHANGED <<store, backups, was, sent, rewritten>> BY DEF Lists, Looks, Joins
<1>3. /\ call'.op = "join" /\ {"op", "at", "ok"} \subseteq DOMAIN call'
      /\ call'.at \in {"look", "join", "done"}
  <2>1. CASE Lists
    <3>1. Ends("raised") \/ \E s : call' = [call EXCEPT !.left = s,
                                      !.at = IF s = <<>> THEN "join" ELSE "look"]
      BY <2>1 DEF Lists
    <3> QED BY <1>1, <3>1, CallMoves DEF CallIs, ServerInv, Typed
  <2>2. CASE Looks
    <3>1. \/ Ends("raised")
          \/ call' = [call EXCEPT !.node = Head(call.left), !.at = "join"]
          \/ call' = [call EXCEPT !.left = Tail(@)] /\ call.at = "look"
      BY <2>2 DEF Looks
    <3> QED BY <1>1, <3>1, CallMoves DEF CallIs, ServerInv, Typed
  <2>3. CASE Joins BY <1>1, <2>3, CallMoves DEF Joins, CallIs, ServerInv
  <2> QED BY <2>1, <2>2, <2>3
<1>4. Typed' BY <1>2, <1>3 DEF ServerInv, Typed
<1>5. (PlaceFits /\ BackedUp /\ StoreFits)'
  BY <1>3 DEF PlaceFits, OfRemoval, BackedUp, StoreFits
<1>6. OriginalIsKept' BY <1>2 DEF ServerInv, OriginalIsKept
<1>7. RemovalKeepsItsWord'
  BY <1>3 DEF RemovalKeepsItsWord, AnswerIsTrueOfStore, StopIsTakenBack, Removed
<1> QED BY <1>4, <1>5, <1>6, <1>7 DEF ServerInv

-----------------------------------------------------------------------------
LEMMA ServerInvStep == ServerInv /\ [serverNext]_serverVars => ServerInv'
<1> SUFFICES ASSUME ServerInv, [serverNext]_serverVars PROVE ServerInv'
  OBVIOUS
<1>1. CASE Settle \/ ClusterChanges \/ UNCHANGED serverVars BY <1>1, SettleKeeps
<1>2. CASE ServerCall
  BY <1>2, BeginsKeeps DEF ServerCall, StartService, StopService, KillService, RestartService,
                           RemoveRemoteServerNodes, JoinServerCluster
<1>3. CASE ServerStep
  BY <1>3, SeesStatusKeeps, StopsKeeps, StartsKeeps, RestartsKeeps, TestsPathKeeps,
     BacksUpKeeps, EditsKeeps, RestoresKeeps, JoiningKeeps DEF ServerStep
<1> QED BY <1>1, <1>2, <1>3 DEF serverNext

LEMMA ServerInvHolds == serverSpec => []ServerInv
<1> QED BY ServerInvInit, ServerInvStep, PTL DEF serverSpec

\* However removals fail, and however often they are tried, what the store file
\* held at first is in the store or in a backup of it, unless two removals began in
\* one second.
THEOREM OriginalStays == serverSpec => []OriginalIsKept
<1>1. ServerInv => OriginalIsKept BY DEF ServerInv
<1> QED BY <1>1, ServerInvHolds, PTL

\* A removal of the remote nodes answers what is true of the store, and after a
\* stop of the service it asks for a start, whatever failed in between.
THEOREM WordIsKept == serverSpec => []RemovalKeepsItsWord
<1>1. ServerInv => RemovalKeepsItsWord BY DEF ServerInv
<1> QED BY <1>1, ServerInvHolds, PTL

(***************************************************************************)
(* Resources.  Objects given settings have them apart from all others, and  *)
(* a node and its document agree on what nobody has changed.                *)
(***************************************************************************)
ObjectType == [has : {"nothing", "own", "default"}, name : DisplayNames,
               handle : ProtocolHandles \cup {NoProtocol}]

\* What the proofs need of the types.
ResourcesTyped ==
  /\ objs \in [Protocols -> ObjectType]
  /\ served \in [ProtocolHandles -> DisplayNames \cup {NoProtocol}]
  /\ default \in DisplayNames /\ apart \subseteq Protocols
  /\ DOMAIN said = Protocols /\ DOMAIN made = ProtocolHandles
  /\ DOMAIN node = NodeFields /\ DOMAIN doc = NodeFields

\* With the default settings, the name told to another object would be its name too.
ApartIsOwn == \A o \in apart : objs[o].has = "own"

\* Of a key that neither side has changed since the node was fetched, both tell the
\* same, and in the same form if it is not one that is sent as a text.
DocFits ==
  \A f \in NodeFields \ (edited \cup others) :
    doc[f][2] = node[f][2] /\ (f \notin Flags => doc[f] = node[f])

\* The two halves of ToldIsSaid.
ApartSay == \A o \in apart : NameOf(o) = said[o]
MadeFits ==
  \A h \in ProtocolHandles : NoProtocol \notin {served[h], made[h]} => served[h] = made[h]

ResourcesInv == ResourcesTyped /\ ApartIsOwn /\ DocFits /\ ApartSay /\ MadeFits

-----------------------------------------------------------------------------
LEMMA ResourcesInvInit == resourcesInit => ResourcesInv
<1> SUFFICES ASSUME resourcesInit PROVE ResourcesInv
  OBVIOUS
<1>1. NoObject \in ObjectType BY ResourcesAssumption DEF NoObject, ObjectType
<1>2. PICK x \in Marks : node = [f \in NodeFields |-> <<"value", x>>]
  BY DEF resourcesInit
<1>3. ResourcesTyped BY <1>1, <1>2, ResourcesAssumption DEF resourcesInit, ResourcesTyped
<1>4. ApartIsOwn /\ ApartSay BY DEF resourcesInit, ApartIsOwn, ApartSay
<1>5. MadeFits BY DEF resourcesInit, MadeFits
<1>6. DocFits BY DEF resourcesInit, DocFits
<1> QED BY <1>3, <1>4, <1>5, <1>6 DEF ResourcesInv

\* Another object in the place of o: with settings of its own, under the name it is
\* told, or with the settings that are shared.
LEMMA ObjectKeeps ==
  ASSUME ResourcesTyped, ApartIsOwn, ApartSay, UNCHANGED default,
         NEW o \in Protocols, NEW name \in DisplayNames,
         NEW h \in ProtocolHandles \cup {NoProtocol},
         OwnObject(o, name, h) \/ SharingObject(o, h)
  PROVE  /\ objs' \in [Protocols -> ObjectType] /\ apart' \subseteq Protocols
         /\ DOMAIN said' = Protocols /\ ApartIsOwn' /\ ApartSay'
<1>1. CASE OwnObject(o, name, h)
  <2> DEFINE new == [has |-> "own", name |-> name, handle |-> h]
  <2>1. new \in ObjectType /\ new.has = "own" /\ new.name = name BY DEF ObjectType
  <2>2. /\ objs' = [objs EXCEPT ![o] = new] /\ said' = [said EXCEPT ![o] = name]
        /\ apart' = apart \cup {o}
    BY <1>1 DEF OwnObject
  <2> HIDE DEF new
  <2>3. \A p \in Protocols : /\ objs'[p] = IF p = o THEN new ELSE objs[p]
                             /\ said'[p] = IF p = o THEN name ELSE said[p]
    BY <2>2 DEF ResourcesTyped
  <2>4. objs' \in [Protocols -> ObjectType] /\ apart' \subseteq Protocols
        /\ DOMAIN said' = Protocols
    BY <2>1, <2>2 DEF ResourcesTyped
  <2>5. ApartIsOwn' BY <2>1, <2>2, <2>3 DEF ApartIsOwn, ResourcesTyped
  <2>6. ApartSay' BY <2>1, <2>2, <2>3 DEF ApartIsOwn, ApartSay, NameOf, ResourcesTyped
  <2> QED BY <2>4, <2>5, <2>6
<1>2. CASE SharingObject(o, h)
  <2> DEFINE new == [has |-> "default", name |-> Blank, handle |-> h]
  <2>1. new \in ObjectType BY ResourcesAssumption DEF ObjectType
  <2>2. /\ objs' = [objs EXCEPT ![o] = new] /\ said' = [said EXCEPT ![o] = default]
        /\ apart' = apart \ {o}
    BY <1>2 DEF SharingObject
  <2> HIDE DEF new
  <2>3. \A p \in apart' : p \in apart /\ objs'[p] = objs[p] /\ said'[p] = said[p]
    BY <2>2 DEF ResourcesTyped
  <2>4. objs' \in [Protocols -> ObjectType] /\ apart' \subseteq Protocols
        /\ DOMAIN said' = Protocols
    BY <2>1, <2>2 DEF ResourcesTyped
  <2>5. ApartIsOwn' BY <2>3 DEF ApartIsOwn
  <2>6. ApartSay' BY <2>3 DEF ApartSay, NameOf
  <2> QED BY <2>4, <2>5, <2>6
<1> QED BY <1>1, <1>2

\* Such an object, and nothing else.
LEMMA OnlyObjectKeeps ==
  ASSUME ResourcesInv, NEW o \in Protocols, NEW name \in DisplayNames,
         NEW h \in ProtocolHandles \cup {NoProtocol},
         OwnObject(o, name, h) \/ SharingObject(o, h),
         UNCHANGED <<served, default, made, node, doc, edited, others>>
  PROVE  ResourcesInv'
<1>1. objs' \in [Protocols -> ObjectType] /\ apart' \subseteq Protocols
      /\ DOMAIN said' = Protocols /\ ApartIsOwn' /\ ApartSay'
  BY ObjectKeeps DEF ResourcesInv
<1>2. ResourcesTyped' BY <1>1 DEF ResourcesInv, ResourcesTyped
<1>3. MadeFits' /\ DocFits' BY DEF ResourcesInv, MadeFits, DocFits
<1> QED BY <1>1, <1>2, <1>3 DEF ResourcesInv

\* A name is told to one object, or to the settings that are shared; those that
\* have their own are not concerned.
LEMMA SetDisplayNameKeeps ==
  ASSUME ResourcesInv, NEW o \in Protocols, NEW name \in DisplayNames, SetDisplayName(o, name)
  PROVE  ResourcesInv'
<1>1. ResourcesTyped /\ ApartIsOwn /\ ApartSay /\ MadeFits /\ DocFits BY DEF ResourcesInv
<1>2. /\ said' = [said EXCEPT ![o] = name]
      /\ UNCHANGED <<served, apart, made, node, doc, edited, others>>
  BY DEF SetDisplayName, ProtocolCall
<1>3. MadeFits' /\ DocFits' BY <1>1, <1>2 DEF MadeFits, DocFits
<1>4. \A p \in Protocols : said'[p] = IF p = o THEN name ELSE said[p]
  BY <1>1, <1>2 DEF ResourcesTyped
<1>5. CASE objs[o].has = "own"
  <2>1. objs' = [objs EXCEPT ![o].name = name] /\ default' = default
    BY <1>5 DEF SetDisplayName
  <2>2. objs[o] \in ObjectType BY <1>1 DEF ResourcesTyped
  <2>3. [objs[o] EXCEPT !.name = name] \in ObjectType BY <2>2 DEF ObjectType
  <2>4. ResourcesTyped' BY <1>1, <1>2, <2>1, <2>3 DEF ResourcesTyped
  <2>5. \A p \in Protocols : /\ objs'[p].has = objs[p].has
                             /\ objs'[p].name = IF p = o THEN name ELSE objs[p].name
    BY <1>1, <2>1, <2>2 DEF ResourcesTyped, ObjectType
  <2>6. ApartIsOwn' BY <1>1, <1>2, <2>5 DEF ApartIsOwn, ResourcesTyped
  <2>7. ApartSay'
    BY <1>1, <1>2, <1>4, <2>5, <2>6 DEF ApartSay, ApartIsOwn, NameOf, ResourcesTyped
  <2> QED BY <1>3, <2>4, <2>6, <2>7 DEF ResourcesInv
<1>6. CASE objs[o].has # "own"
  <2>1. objs' = objs /\ default' = name BY <1>6 DEF SetDisplayName
  <2>2. ResourcesTyped' BY <1>1, <1>2, <2>1 DEF ResourcesTyped
  <2>3. ApartIsOwn' /\ o \notin apart BY <1>1, <1>2, <1>6, <2>1 DEF ApartIsOwn
  <2>4. ApartSay'
    BY <1>1, <1>2, <1>4, <2>1, <2>3 DEF ApartSay, ApartIsOwn, NameOf, ResourcesTyped
  <2> QED BY <1>3, <2>2, <2>3, <2>4 DEF ResourcesInv
<1> QED BY <1>5, <1>6

\* A protocol is created under the name of its object, which for one that was given
\* settings is the name it was told; the answer becomes an object, or is lost.
LEMMA CreateProtocolKeeps ==
  ASSUME ResourcesInv, NEW o \in Protocols, NEW p \in Protocols, NEW h \in ProtocolHandles,
         CreateProtocol(o, p, h)
  PROVE  ResourcesInv'
<1>1. ResourcesTyped /\ ApartIsOwn /\ ApartSay /\ MadeFits /\ DocFits BY DEF ResourcesInv
<1>2. "DisplayName" \in ProtocolSends("CREATE") BY DEF ProtocolSends, SettingsSends
<1>3. objs[o] \in ObjectType BY <1>1 DEF ResourcesTyped
<1>4. PICK name \in DisplayNames : name = NameOf(o)
  BY <1>1, <1>3 DEF NameOf, ObjectType, ResourcesTyped
<1>5. /\ served' = [served EXCEPT ![h] = name]
      /\ made' = [made EXCEPT ![h] = IF o \in apart THEN said[o] ELSE NoProtocol]
      /\ FromAnswer(p, name, h) \/ UNCHANGED <<objs, said, apart>>
      /\ UNCHANGED <<default, node, doc, edited, others>>
  BY <1>2, <1>4 DEF CreateProtocol, ProtocolCall
<1>6. objs' \in [Protocols -> ObjectType] /\ apart' \subseteq Protocols
      /\ DOMAIN said' = Protocols /\ ApartIsOwn' /\ ApartSay'
  <2>1. CASE FromAnswer(p, name, h)
    <3>1. OwnObject(p, name, h) \/ SharingObject(p, h) BY <2>1 DEF FromAnswer
    <3> QED BY <1>1, <1>5, <3>1, ObjectKeeps
  <2>2. CASE UNCHANGED <<objs, said, apart>>
    BY <1>1, <1>5, <2>2 DEF ResourcesTyped, ApartIsOwn, ApartSay, NameOf
  <2> QED BY <1>5, <2>1, <2>2
<1>7. ResourcesTyped' BY <1>1, <1>5, <1>6 DEF ResourcesTyped
<1>8. MadeFits'
  <2>1. o \in apart => said[o] = name BY <1>1, <1>4 DEF ApartSay
  <2> QED BY <1>1, <1>5, <2>1 DEF MadeFits, ResourcesTyped
<1>9. DocFits' BY <1>1, <1>5 DEF DocFits
<1> QED BY <1>6, <1>7, <1>8, <1>9 DEF ResourcesInv

\* Requests that take protocols off the server, or leave them; and no object.
LEMMA ServedKeeps ==
  ASSUME ResourcesInv, UNCHANGED <<objs, said, apart, default, node, doc, edited, others>>,
         served' \in [ProtocolHandles -> DisplayNames \cup {NoProtocol}],
         DOMAIN made' = ProtocolHandles,
         \A h \in ProtocolHandles : served'[h] \in {served[h], NoProtocol}
                                    /\ made'[h] \in {made[h], NoProtocol}
  PROVE  ResourcesInv'
<1>1. ResourcesTyped' BY DEF ResourcesInv, ResourcesTyped
<1>2. ApartIsOwn' BY DEF ResourcesInv, ApartIsOwn
<1>3. ApartSay' BY DEF ResourcesInv, ApartSay, NameOf
<1>4. DocFits' BY DEF ResourcesInv, DocFits
<1>5. MadeFits' BY DEF ResourcesInv, MadeFits
<1> QED BY <1>1, <1>2, <1>3, <1>4, <1>5 DEF ResourcesInv

\* The node fetched, edited, sent back, or changed behind the client's back.
LEMMA NodeKeeps ==
  ASSUME ResourcesInv, NodeCall,
         \/ GetNode \/ PutNode
         \/ \E f \in NodeFields, x \in Marks : EditNode(f, x) \/ NodeChanges(f, x)
  PROVE  ResourcesInv'
<1>1. ResourcesTyped /\ ApartIsOwn /\ ApartSay /\ MadeFits /\ DocFits BY DEF ResourcesInv
<1>2. UNCHANGED <<served, objs, default, said, apart, made>> BY DEF NodeCall
<1>3. ApartIsOwn' /\ ApartSay' /\ MadeFits'
  BY <1>1, <1>2 DEF ApartIsOwn, ApartSay, MadeFits, NameOf
<1>4. DOMAIN node' = NodeFields /\ DOMAIN doc' = NodeFields /\ DocFits'
  <2>1. CASE GetNode BY <1>1, <2>1 DEF GetNode, ResourcesTyped, DocFits
  <2>2. CASE PutNode
    <3>1. UNCHANGED <<doc, edited, others>> /\ DOMAIN node' = NodeFields
      BY <2>2 DEF PutNode
    <3>2. \A f \in NodeFields :
            node'[f] \in {node[f], <<"value", doc[f][2]>>, Sent(f, doc[f])}
            /\ (f \notin Flags => node'[f] \in {node[f], doc[f]})
      BY <2>2 DEF PutNode, Sent
    <3>3. \A f \in NodeFields : Sent(f, doc[f])[2] = doc[f][2] BY DEF Sent, Text
    <3>4. DocFits' BY <1>1, <3>1, <3>2, <3>3 DEF DocFits
    <3> QED BY <1>1, <3>1, <3>4 DEF ResourcesTyped
  <2>3. ASSUME NEW f \in NodeFields, NEW x \in Marks, EditNode(f, x)
        PROVE  DOMAIN node' = NodeFields /\ DOMAIN doc' = NodeFields /\ DocFits'
    BY <1>1, <2>3 DEF EditNode, ResourcesTyped, DocFits
  <2>4. ASSUME NEW f \in NodeFields, NEW x \in Marks, NodeChanges(f, x)
        PROVE  DOMAIN node' = NodeFields /\ DOMAIN doc' = NodeFields /\ DocFits'
    BY <1>1, <2>4 DEF NodeChanges, ResourcesTyped, DocFits
  <2> QED BY <2>1, <2>2, <2>3, <2>4
<1>5. ResourcesTyped' BY <1>1, <1>2, <1>4 DEF ResourcesTyped
<1> QED BY <1>3, <1>4, <1>5 DEF ResourcesInv

\* Every step keeps the invariant.
LEMMA ResourcesInvStep == ResourcesInv /\ [resourcesNext]_resourcesVars => ResourcesInv'
<1> SUFFICES ASSUME ResourcesInv, [resourcesNext]_resourcesVars PROVE ResourcesInv'
  OBVIOUS
<1>1. /\ served \in [ProtocolHandles -> DisplayNames \cup {NoProtocol}]
      /\ DOMAIN made = ProtocolHandles
  BY DEF ResourcesInv, ResourcesTyped
<1>2. ASSUME NEW o \in Protocols, NewProtocol(o) PROVE ResourcesInv'
  BY <1>2, OnlyObjectKeeps, ResourcesAssumption DEF NewProtocol, ProtocolCall
<1>3. ASSUME NEW o \in Protocols, UpdateProtocol(o) PROVE ResourcesInv'
  <2>1. served' = served BY <1>1, <1>3 DEF UpdateProtocol, ProtocolSends, SettingsSends
  <2> QED BY <1>1, <1>3, <2>1, ServedKeeps DEF UpdateProtocol, ProtocolCall
<1>4. ASSUME NEW o \in Protocols, NEW name \in DisplayNames,
             NewWithSettings(o, name) \/ SetDisplayName(o, name)
      PROVE  ResourcesInv'
  BY <1>4, OnlyObjectKeeps, SetDisplayNameKeeps DEF NewWithSettings, ProtocolCall
<1>5. ASSUME NEW o \in Protocols, NEW h \in ProtocolHandles, GetProtocol(o, h)
      PROVE  ResourcesInv'
  <2>1. served[h] \in DisplayNames BY <1>1, <1>5 DEF GetProtocol
  <2> QED BY <1>5, <2>1, OnlyObjectKeeps DEF GetProtocol, ProtocolCall, FromAnswer
<1>6. ASSUME NEW o \in Protocols, NEW p \in Protocols, NEW h \in ProtocolHandles,
             CreateProtocol(o, p, h)
      PROVE  ResourcesInv'
  BY <1>6, CreateProtocolKeeps
<1>7. ASSUME NEW h \in ProtocolHandles, LookUpType(h) \/ OtherDeletes(h)
      PROVE  ResourcesInv'
  BY <1>1, <1>7, ServedKeeps DEF LookUpType, OtherDeletes, ProtocolCall
<1>8. CASE DeleteProtocol
  BY <1>1, <1>8, ServedKeeps DEF DeleteProtocol
<1>9. CASE \/ GetNode \/ PutNode
           \/ \E f \in NodeFields, x \in Marks : EditNode(f, x) \/ NodeChanges(f, x)
  BY <1>9, NodeKeeps DEF GetNode, PutNode, EditNode, NodeChanges
<1>10. CASE Refused \/ UNCHANGED resourcesVars
  BY <1>1, <1>10, ServedKeeps DEF Refused, resourcesVars
<1> QED
  BY <1>2, <1>3, <1>4, <1>5, <1>6, <1>7, <1>8, <1>9, <1>10 DEF resourcesNext

LEMMA ResourcesInvHolds == resourcesSpec => []ResourcesInv
BY ResourcesInvInit, ResourcesInvStep, PTL DEF resourcesSpec

\* However objects of protocols are made, fetched and named next to each other, the
\* ones given settings say what they were told themselves, and a protocol created
\* from one of them has its name (Protocol of vsm_gadgetserver_resources.py,
\* create_protocol and get_protocol_by_handle).
THEOREM ObjectsSayTheirNames == resourcesSpec => []ToldIsSaid
<1>1. ResourcesInv => ToldIsSaid BY DEF ResourcesInv, ToldIsSaid, ApartSay, MadeFits
<1> QED BY <1>1, ResourcesInvHolds, PTL

\* What a set purpose leaves out is all that is the server's own.
LEMMA SetLeavesOutServers == NodeSends("SET") \cap ServersOwn = {}
BY DEF NodeSends, NodeOptionsSends, LicenseSends, ServersOwn

\* A node sent back after any editing, and any changes behind its back, overwrites
\* nothing of the server's own, and nothing that neither side changed, but that a
\* boolean comes back as the text of the same boolean (update_ressource_type with
\* ServerNode.to_dict).
THEOREM NodesGoBackExactly == resourcesSpec => PutIsExact
<1>1. ResourcesInv /\ PutNode =>
        \A f \in NodeFields : node'[f] # node[f] =>
          /\ f \notin ServersOwn
          /\ node'[f][2] # node[f][2] => f \in edited \cup others
          /\ node'[f][1] # node[f][1] => f \in Flags \cup edited \cup others
  <2> SUFFICES ASSUME ResourcesInv, PutNode, NEW f \in NodeFields, node'[f] # node[f]
               PROVE  /\ f \notin ServersOwn
                      /\ node'[f][2] # node[f][2] => f \in edited \cup others
                      /\ node'[f][1] # node[f][1] => f \in Flags \cup edited \cup others
    OBVIOUS
  <2>1. f \in NodeSends("SET") BY DEF PutNode
  <2>2. /\ f \in Flags => node'[f][2] = doc[f][2]
        /\ f \notin Flags => node'[f] = doc[f]
    BY <2>1 DEF PutNode, Sent, Text
  <2> QED BY <2>1, <2>2, SetLeavesOutServers DEF ResourcesInv, DocFits
<1> QED BY <1>1, ResourcesInvHolds, PTL DEF PutIsExact, resourcesSpec

(***************************************************************************)
(* The session: each of its behaviours is one of both parts.                *)
(***************************************************************************)
LEMMA SessionRunsParts == Spec => serverSpec /\ resourcesSpec
<1>1. Init => serverInit /\ resourcesInit BY DEF Init
<1>2. [Next]_vars => [serverNext]_serverVars /\ [resourcesNext]_resourcesVars
  BY DEF Next, vars
<1> QED BY <1>1, <1>2, PTL DEF Spec, serverSpec, resourcesSpec

\* What the run of the session checks holds for every value of its constants,
\* whichever part a behaviour uses (vsm_gadgetserver_v5.py and its resources).
THEOREM GadgetSessionIsSafe ==
  Spec => [](OriginalIsKept /\ RemovalKeepsItsWord /\ ToldIsSaid) /\ PutIsExact
BY SessionRunsParts, OriginalStays, WordIsKept, ObjectsSayTheirNames, NodesGoBackExactly,
   PTL
=============================================================================
