---------------------------- MODULE GadgetServer ----------------------------
(***************************************************************************)
(* The Windows service behind a VSM GadgetServer, steered with PowerShell   *)
(* commands over the network, its store file, and its cluster               *)
(* (ldf/models/vsm/gadgetserver/vsm_gadgetserver_v5.py).  A command may     *)
(* fail, and its answer may be lost with the connection; the answers of the *)
(* commands that start and stop the service are not looked at.              *)
(***************************************************************************)
EXTENDS Integers, Sequences, FiniteSets

CONSTANTS
  ServerNodes,  \* handles of server nodes
  LocalNode,    \* the handle of the node with IsLocalServer
  NoNode,       \* the handle of ServerNode()
  MaxServerCalls  \* bound: calls of one behaviour

ASSUME ServerAssumption ==
  /\ LocalNode \in ServerNodes /\ NoNode \notin ServerNodes
  /\ MaxServerCalls \in Nat

VARIABLES
  svc,      \* the service, as Windows sees it
  store,    \* what the store file holds
  backups,  \* what the backup files hold, newest last
  cluster,  \* server nodes there are
  call,     \* the call: its operation, its next command, what it knows
  was,      \* history: the store when the call began
  lost,     \* history: a command of the call failed besides the edit, or its
            \* answer was lost
  sent,     \* history: what the commands of the call want of the service
  rewritten \* history: a backup was written over by another

serverVars == <<svc, store, backups, cluster, call, was, lost, sent, rewritten>>

Contents == {"original", "cleaned", "damaged"}

ServiceOps == {"start", "stop", "kill", "restart"}

NoServerCall == [op |-> "none", at |-> "done", left |-> <<>>, node |-> NoNode,
                 ok |-> "none", n |-> 0]

ServerTypeOK ==
  /\ svc \in {"running", "starting", "stopping", "stopped"}
  /\ store \in Contents \cup {"missing"}
  /\ backups \in Seq(Contents)
  /\ cluster \subseteq ServerNodes
  /\ call.op \in ServiceOps \cup {"none", "remove", "join"}
  /\ call.at \in {"status", "stop", "test", "backup", "edit", "restore", "start",
                  "restart", "list", "look", "join", "done"}
  /\ call.left \in Seq(ServerNodes) /\ call.node \in ServerNodes \cup {NoNode}
  /\ call.ok \in {"none", "True", "False", "raised"} /\ call.n \in 0..MaxServerCalls
  /\ was \in Contents \cup {"missing"} /\ lost \in BOOLEAN
  /\ sent \in Seq({"start", "stop"}) /\ rewritten \in BOOLEAN

-----------------------------------------------------------------------------
(* Windows and the other servers.                                           *)

\* A service that is starting or stopping gets there, one that runs may die.
Settle ==
  /\ svc' = CASE svc = "starting" -> "running" [] OTHER -> "stopped"
  /\ svc # "stopped"
  /\ UNCHANGED <<store, backups, cluster, call, was, lost, sent, rewritten>>

ClusterChanges ==
  /\ call.at \in {"look", "join"}
  /\ \E c \in SUBSET ServerNodes : cluster' = c /\ cluster # c
  /\ UNCHANGED <<svc, store, backups, call, was, lost, sent, rewritten>>

\* What Start-Service, Stop-Service, Restart-Service and Stop-Process may have come
\* to by the time they answer: a service that is stopping does not start, one that
\* is starting does not stop, and Windows takes a while to notice that a process is
\* gone.
MayStart(s) == IF s = "stopped" THEN {"starting", "running"} ELSE {s}
MayStop(s) == IF s = "running" THEN {"stopping", "stopped"} ELSE {s}
MayRestart(s) == MayStop(s) \cup UNION {MayStart(t) : t \in MayStop(s)}
MayDie(s) == {s, "stopped"}

-----------------------------------------------------------------------------
(* Calls.                                                                   *)

Begins(op, at) ==
  /\ call.at = "done" /\ call.n < MaxServerCalls
  /\ call' = [NoServerCall EXCEPT !.op = op, !.at = at, !.n = call.n + 1]
  /\ was' = store /\ lost' = FALSE /\ sent' = <<>>
  /\ UNCHANGED <<svc, store, backups, cluster, rewritten>>

StartService == Begins("start", "start")
StopService == Begins("stop", "stop")
KillService == Begins("kill", "stop")
RestartService == Begins("restart", "restart")
RemoveRemoteServerNodes == Begins("remove", "status")
JoinServerCluster == Begins("join", "list")

Goes(at) == call' = [call EXCEPT !.at = at]

\* A removal returns after its last command, start_service in `finally'.
Gives(ok) == call' = [call EXCEPT !.at = "start", !.ok = ok]

Ends(ok) == call' = [call EXCEPT !.at = "done", !.ok = ok]

\* was_running = self.status_service, before the try: an error goes to the caller.
SeesStatus ==
  /\ call.at = "status"
  /\ \/ Goes(IF svc = "running" THEN "stop" ELSE "test") /\ UNCHANGED lost
     \/ Ends("raised") /\ lost' = TRUE
  /\ UNCHANGED <<svc, store, backups, cluster, was, sent, rewritten>>

\* stop_service and kill_service.  The wait tests a lambda, which is always true,
\* and so looks at nothing.
Stops ==
  /\ call.at = "stop"
  /\ sent' = Append(sent, "stop")
  /\ LET May == IF call.op = "kill" THEN MayDie(svc) ELSE MayStop(svc) IN
     \/ /\ svc' \in May /\ UNCHANGED lost
        /\ IF call.op = "remove" THEN Goes("test") ELSE Ends("True")
     \/ /\ svc' \in {svc} \cup May /\ lost' = TRUE
        /\ IF call.op = "remove" THEN Gives("False") ELSE Ends("raised")
  /\ UNCHANGED <<store, backups, cluster, was, rewritten>>

\* start_service: the wait tests what status_service was when it was called.  The
\* errors of a removal are logged.
Starts ==
  /\ call.at = "start"
  /\ sent' = Append(sent, "start")
  /\ \/ /\ svc' \in MayStart(svc) /\ UNCHANGED lost
        /\ Ends(IF call.ok = "none" THEN "True" ELSE call.ok)
     \/ /\ svc' \in {svc} \cup MayStart(svc) /\ lost' = TRUE
        /\ Ends(IF call.op = "remove" THEN call.ok ELSE "raised")
  /\ UNCHANGED <<store, backups, cluster, was, rewritten>>

\* restart_service: one command, and the wait of start_service.
Restarts ==
  /\ call.at = "restart"
  /\ sent' = sent \o <<"stop", "start">>
  /\ \/ svc' \in MayRestart(svc) /\ Ends("True") /\ UNCHANGED lost
     \/ svc' \in {svc} \cup MayRestart(svc) /\ Ends("raised") /\ lost' = TRUE
  /\ UNCHANGED <<store, backups, cluster, was, rewritten>>

\* Test-Path; no answer is an exception.
TestsPath ==
  /\ call.at = "test"
  /\ \/ /\ IF store = "missing" THEN Gives("False") ELSE Goes("backup")
        /\ UNCHANGED lost
     \/ Gives("False") /\ lost' = TRUE
  /\ UNCHANGED <<svc, store, backups, cluster, was, sent, rewritten>>

\* Copy-Item of the store to a file named by the second the removal began in: a
\* file of its own, or the last one if that is of the same second.
CopiesStore ==
  \/ backups' = Append(backups, store) /\ UNCHANGED rewritten
  \/ /\ backups # <<>> /\ backups' = [backups EXCEPT ![Len(backups)] = store]
     /\ rewritten' = TRUE

\* Mutant of BacksUp: a copy that failed is not noticed.
BacksUp_Blind ==
  /\ call.at = "backup"
  /\ Goes("edit")
  /\ \/ CopiesStore /\ UNCHANGED lost
     \/ UNCHANGED <<backups, rewritten>> /\ lost' = TRUE
  /\ UNCHANGED <<svc, store, cluster, was, sent>>

BacksUp ==
  /\ call.at = "backup"
  /\ \/ Goes("edit") /\ CopiesStore /\ UNCHANGED lost
     \/ /\ Gives("False") /\ lost' = TRUE
        /\ CopiesStore \/ UNCHANGED <<backups, rewritten>>
  /\ UNCHANGED <<svc, store, cluster, was, sent>>

\* Mutant of Edits: any answer is taken for SUCCESS.
Edits_Anyway ==
  /\ call.at = "edit"
  /\ store' \in {"cleaned", store, "damaged"}
  /\ Gives("True")
  /\ UNCHANGED <<svc, backups, cluster, was, lost, sent, rewritten>>

\* The entries are deleted from the ZIP file in place: success, an error that
\* may leave the file half written, or no answer at all.
Edits ==
  /\ call.at = "edit"
  /\ \/ store # "damaged" /\ store' = "cleaned" /\ Gives("True") /\ UNCHANGED lost
     \/ store' \in {store, "damaged"} /\ Goes("restore") /\ UNCHANGED lost
     \/ store' \in {store, "cleaned", "damaged"} /\ Gives("False") /\ lost' = TRUE
  /\ UNCHANGED <<svc, backups, cluster, was, sent, rewritten>>

\* Copy-Item back; its answer is not looked at.
Restores ==
  /\ call.at = "restore"
  /\ Gives("False")
  /\ \/ store' = backups[Len(backups)] /\ UNCHANGED lost
     \/ lost' = TRUE /\ store' \in {store, backups[Len(backups)]}
  /\ UNCHANGED <<svc, backups, cluster, was, sent, rewritten>>

\* get_handles_by_type(SERVERNODE): the nodes, in some order.
Lists ==
  /\ call.at = "list"
  /\ \/ \E s \in [1..Cardinality(cluster) -> cluster] :
          /\ \A i, j \in DOMAIN s : i # j => s[i] # s[j]
          /\ call' = [call EXCEPT !.left = s,
                                  !.at = IF s = <<>> THEN "join" ELSE "look"]
          /\ UNCHANGED lost
     \/ Ends("raised") /\ lost' = TRUE
  /\ UNCHANGED <<svc, store, backups, cluster, was, sent, rewritten>>

\* get_server_node_by_handle of one node after the other, until the local one.
Looks ==
  /\ call.at = "look"
  /\ LET h == Head(call.left) IN
     IF h \notin cluster THEN Ends("raised")
     ELSE IF h = LocalNode THEN call' = [call EXCEPT !.node = h, !.at = "join"]
     ELSE IF Len(call.left) = 1 THEN Ends("raised")
     ELSE call' = [call EXCEPT !.left = Tail(@)]
  /\ UNCHANGED <<svc, store, backups, cluster, was, lost, sent, rewritten>>

\* The request to join, in the name of the node found.
Joins ==
  /\ call.at = "join"
  /\ Ends("True") \/ Ends("raised")
  /\ UNCHANGED <<svc, store, backups, cluster, was, lost, sent, rewritten>>

-----------------------------------------------------------------------------
serverInit ==
  /\ svc \in {"running", "stopped"} /\ store \in {"original", "missing"}
  /\ backups = <<>> /\ cluster \in SUBSET ServerNodes
  /\ call = NoServerCall /\ was = store /\ lost = FALSE /\ sent = <<>>
  /\ rewritten = FALSE

ServerCall ==
  \/ StartService \/ StopService \/ KillService \/ RestartService
  \/ RemoveRemoteServerNodes \/ JoinServerCluster

ServerStep ==
  \/ SeesStatus \/ Stops \/ Starts \/ Restarts \/ TestsPath \/ BacksUp \/ Edits \/ Restores
  \/ Lists \/ Looks \/ Joins

serverNext == Settle \/ ClusterChanges \/ ServerCall \/ ServerStep

serverSpec == serverInit /\ [][serverNext]_serverVars

-----------------------------------------------------------------------------
(* Properties.                                                              *)

Removed == call.op = "remove" /\ call.at = "done"

\* Whatever fails in a removal, and however often it is tried: what the store
\* held at first is in the store or in a backup, unless two removals began in one
\* second.
OriginalIsKept ==
  \/ store = "missing" \/ rewritten
  \/ "original" \in {store} \cup {backups[i] : i \in DOMAIN backups}

\* A removal that returns True has cleaned the store; one that returns False
\* with every other command answered has left it as it was.
AnswerIsTrueOfStore ==
  Removed => /\ call.ok = "True" => store = "cleaned"
             /\ call.ok = "False" /\ ~lost => store = was

\* A removal that was to stop the service has asked it to start after that,
\* whatever went wrong in between.
StopIsTakenBack ==
  Removed /\ sent # <<>> => sent[Len(sent)] = "start"

\* remove_remote_server_nodes keeps its word whatever fails on the way: its answer
\* is true of the store, and the service is asked to start again.
RemovalKeepsItsWord == AnswerIsTrueOfStore /\ StopIsTakenBack

-----------------------------------------------------------------------------
(* Claims of the documentation that the code does not keep.                 *)

\* vsm_gadgetserver_v5.py:476, "Always restarts the service at the end": not if
\* it was still stopping when it was asked to.
AlwaysRestarts ==
  (Removed /\ call.ok = "True" /\ ~lost) => svc \in {"starting", "running"}

\* test_vsm_gadgetserver_v5.py:176, status_service is False after kill_service:
\* not before Windows has noticed, which the wait would be for.
KilledIsSeen ==
  (call.op = "kill" /\ call.at = "done" /\ call.ok = "True") => svc # "running"
=============================================================================
