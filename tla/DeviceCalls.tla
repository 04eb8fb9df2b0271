---------------------------- MODULE DeviceCalls -----------------------------
(***************************************************************************)
(* What the calls of a device model that poll its endpoint cache have in   *)
(* common (ldf/attributes/sords.py and terminals.py): they share the cache *)
(* with its subscription and never write it; what HOME has accepted it may *)
(* carry out later or never.                                               *)
(***************************************************************************)
EXTENDS DeviceMirror, FiniteSets

CONSTANTS Calls   \* calls the test makes

VARIABLES
  work,   \* HOME: what it has accepted and not yet carried out
  call    \* the calls

mirror == <<log, pc, snap, local, asof, base, cursor>>
callVars == <<log, pc, snap, local, asof, base, cursor, work, call>>

\* What the cache lists, up to date or not.
Cached == {i \in Ids : local.items[i] # <<>>}

\* All the waits of a gather have ended.
Return(c) ==
  /\ call[c].st = "waiting" /\ call[c].left = {}
  /\ call' = [call EXCEPT ![c].st = "ok"]
  /\ UNCHANGED <<mirror, work>>

\* The caller leaves `async with' when no call is under way.
Leave ==
  /\ \A c \in Calls : call[c].st \notin {"asked", "served", "waiting"}
  /\ Exit
  /\ UNCHANGED <<work, call>>
=============================================================================
