------------------------------ MODULE McxFiles ------------------------------
(***************************************************************************)
(* Productions and snapshots of an MCX console (ldf/models/mcx/mcx.py).     *)
(* The console's file worker carries out one request after the other; that  *)
(* it is at work is a flag that can be asked for, and its changes go to     *)
(* those who have opened the stream of it.  A request is an event: nothing  *)
(* tells its sender when the worker takes it.                               *)
(***************************************************************************)
EXTENDS Integers, Sequences

CONSTANTS
  Names,       \* names of productions and snapshots
  Unnamed,     \* what is loaded has none of these names
  MaxCalls,    \* bound: calls made one after the other
  MaxOthers,   \* bound: requests of others
  MaxLooks     \* looks at the flag within the deadline of one wait

ASSUME FilesAssumption ==
  {MaxCalls, MaxOthers, MaxLooks} \subseteq Nat /\ Unnamed \notin Names

VARIABLES
  worker,   \* the console: requests waiting, the one being carried out
  current,  \* the console: production and snapshot loaded last
  disk,     \* the console: what is stored
  others,   \* requests others have made
  job       \* the call under way or made last

filesVars == <<worker, current, disk, others, job>>

Sorts == {"production", "snapshot"}
Asks == [op: {"save", "load", "delete"}, sort: Sorts, name: Names]
Nothing == [op |-> "nothing"]

JobEnded == {"ok", "TimeoutError", "ValueError"}

\* `n' numbers the calls; `done' is history: the worker has carried out this
\* call's request; `single' as well: it had nothing else to do since it was sent.
FilesTypeOK ==
  /\ current \in [Sorts -> Names \cup {Unnamed}] /\ disk \subseteq Sorts \X Names
  /\ worker.doing = Nothing \/ worker.doing.ask \in Asks
  /\ \A k \in 1..Len(worker.queue) : worker.queue[k].ask \in Asks
  /\ others \in 0..MaxOthers
  /\ job.ask \in Asks /\ job.n \in 0..MaxCalls /\ job.looks \in 0..MaxLooks
  /\ job.pc \in {"idle", "look", "blink", "send", "open", "stream", "sleep", "poll"}
                \cup JobEnded
  /\ {job.sent, job.done, job.single} \subseteq BOOLEAN

-----------------------------------------------------------------------------
(* The console.  The flag is up while the worker carries something out.     *)

Notify == job' = [job EXCEPT !.seen = @ \/ job.pc = "stream"]

Take ==
  /\ worker.doing = Nothing /\ worker.queue # <<>>
  /\ worker' = [queue |-> Tail(worker.queue), doing |-> Head(worker.queue)]
  /\ Notify
  /\ UNCHANGED <<current, disk, others>>

Finish ==
  /\ worker.doing # Nothing
  /\ LET a == worker.doing.ask
         file == <<a.sort, a.name>>
     IN  /\ disk' = CASE a.op = "save" -> disk \cup {file}
                      [] a.op = "delete" -> disk \ {file}
                      [] OTHER -> disk
         /\ current' = IF a.op = "load" /\ file \in disk
                       THEN [current EXCEPT ![a.sort] = a.name] ELSE current
  /\ job' = [job EXCEPT !.seen = @ \/ job.pc = "stream",
                        !.done = @ \/ (worker.doing.by = job.n /\ job.sent)]
  /\ worker' = [worker EXCEPT !.doing = Nothing]
  /\ UNCHANGED others

\* Someone at the console.
OtherAsks ==
  /\ others < MaxOthers
  /\ others' = others + 1
  /\ \E a \in Asks : worker' = [worker EXCEPT !.queue = Append(@, [ask |-> a, by |-> 0])]
  /\ job' = [job EXCEPT !.single = FALSE]
  /\ UNCHANGED <<current, disk>>

-----------------------------------------------------------------------------
(* The calls.                                                               *)

At(pc) == job.pc = pc
Go(pc) == job' = [job EXCEPT !.pc = pc, !.looks = 0]
Waits == job.ask.sort = "production"

\* save_production, load_production, delete_production wait for the worker
\* first; save_snapshot, load_snapshot, delete_snapshot do not.
CallFiles(a) ==
  /\ job.pc \in JobEnded \cup {"idle"} /\ job.n < MaxCalls
  /\ job' = [ask |-> a, n |-> job.n + 1, looks |-> 0, seen |-> FALSE, sent |-> FALSE,
             done |-> FALSE, single |-> FALSE,
             pc |-> IF a.sort = "production" THEN "look" ELSE "send"]
  /\ UNCHANGED <<worker, current, disk, others>>

\* is_fileworker_busy: the flag is down; then a blink of the console is awaited.
SeesIdle ==
  /\ At("look") /\ job.looks < MaxLooks /\ worker.doing = Nothing
  /\ job' = [job EXCEPT !.pc = "blink"]
  /\ UNCHANGED <<worker, current, disk, others>>

\* The flag is up, or there is no answer, which is taken for it.
SeesBusy ==
  /\ At("look") /\ job.looks < MaxLooks
  /\ job' = [job EXCEPT !.looks = @ + 1]
  /\ UNCHANGED <<worker, current, disk, others>>

NoBlink ==
  /\ At("blink")
  /\ job' = [job EXCEPT !.pc = "look", !.looks = @ + 1]
  /\ UNCHANGED <<worker, current, disk, others>>

\* After the request was sent, only load_production goes on.
Blink ==
  /\ At("blink")
  /\ CASE ~job.sent -> Go("send")
       [] job.sent /\ job.ask.op = "load" -> Go("poll")
       [] OTHER -> Go("ok")
  /\ UNCHANGED <<worker, current, disk, others>>

SendAsk ==
  /\ At("send")
  /\ worker' = [worker EXCEPT !.queue = Append(@, [ask |-> job.ask, by |-> job.n])]
  /\ job' = [job EXCEPT !.sent = TRUE,
                        !.single = worker = [queue |-> <<>>, doing |-> Nothing],
                        !.pc = CASE ~Waits -> "sleep"
                                 [] Waits /\ job.ask.op = "delete" -> "look"
                                 [] OTHER -> "open"]
  /\ UNCHANGED <<current, disk, others>>

\* wait_for(..., open_stream=True): the stream is opened after the request.
OpenStream ==
  /\ At("open")
  /\ Go("stream")
  /\ UNCHANGED <<worker, current, disk, others>>

\* Mutant of Streamed: the first change of the flag ends the call.
Streamed_Ends ==
  /\ At("stream") /\ job.seen
  /\ Go("ok")
  /\ UNCHANGED <<worker, current, disk, others>>

Streamed ==
  /\ At("stream") /\ job.seen
  /\ Go("look")
  /\ UNCHANGED <<worker, current, disk, others>>

\* save_snapshot and delete_snapshot are done after two seconds.
Slept ==
  /\ At("sleep")
  /\ IF job.ask.op = "load" THEN Go("poll") ELSE Go("ok")
  /\ UNCHANGED <<worker, current, disk, others>>

PollCurrent ==
  /\ At("poll") /\ current[job.ask.sort] = job.ask.name
  /\ Go("ok")
  /\ UNCHANGED <<worker, current, disk, others>>

\* get_current_snapshot cannot make sense of the answer.
PollFails ==
  /\ At("poll") /\ job.ask.sort = "snapshot"
  /\ Go("ValueError")
  /\ UNCHANGED <<worker, current, disk, others>>

\* Mutant of FilesTimeout: the stream is waited for without a timeout.
FilesTimeout_NotStream ==
  /\ job.pc \in {"look", "blink", "poll"}
  /\ Go("TimeoutError")
  /\ UNCHANGED <<worker, current, disk, others>>

\* asyncio.timeout of a wait, the timeout of the stream, an unanswered question.
FilesTimeout ==
  /\ job.pc \in {"look", "blink", "stream", "poll"}
  /\ Go("TimeoutError")
  /\ UNCHANGED <<worker, current, disk, others>>

-----------------------------------------------------------------------------
filesInit ==
  /\ worker = [queue |-> <<>>, doing |-> Nothing]
  /\ disk \in SUBSET (Sorts \X Names)
  /\ current = [s \in Sorts |-> Unnamed]
  /\ others = 0
  /\ job = [ask |-> CHOOSE a \in Asks : TRUE, n |-> 0, looks |-> 0, seen |-> FALSE,
            sent |-> FALSE, done |-> FALSE, single |-> FALSE, pc |-> "idle"]

JobStep ==
  \/ SeesIdle \/ SeesBusy \/ NoBlink \/ Blink \/ SendAsk \/ OpenStream \/ Streamed
  \/ Slept \/ PollCurrent \/ PollFails \/ FilesTimeout

filesNext ==
  \/ Take \/ Finish \/ OtherAsks
  \/ \E a \in Asks : CallFiles(a)
  \/ JobStep

filesSpec == filesInit /\ [][filesNext]_filesVars

\* The event loop goes on; the console may never do anything.
filesFair == WF_filesVars(JobStep)

-----------------------------------------------------------------------------
(* Properties.                                                              *)

\* A production whose saving or loading returned has been saved or loaded by
\* the worker, when the worker had nothing else to do; with an older request
\* before it, the caller's own deletion for one, the change it sees may be
\* that one's.
OkIsCarriedOut ==
  (/\ job.pc = "ok" /\ job.single
   /\ job.ask.sort = "production" /\ job.ask.op \in {"save", "load"})
    => /\ job.done
       /\ job.ask.op = "load" => current["production"] = job.ask.name
       /\ job.ask.op = "save" => <<"production", job.ask.name>> \in disk

\* Every call returns or raises, though the console may never do anything.
FileCallsEnd == [](job.sent => <>(job.pc \in JobEnded))
=============================================================================
