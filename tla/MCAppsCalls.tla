---------------------------- MODULE MCAppsCalls -----------------------------
(***************************************************************************)
(* One app that comes and goes, runs or is stopped, one that runs all the  *)
(* time, so that a message may tell of two, and a journal of the initial   *)
(* apps and two updates.  One call.                                         *)
(***************************************************************************)
EXTENDS AppsCalls

CONSTANTS a, b, s1

AppInfo(dev, server, ok, wanted) ==
  [dev |-> dev, server |-> server, ok |-> ok, wanted |-> wanted]

Stopped == AppInfo(TRUE, None, FALSE, TRUE)
Running == AppInfo(TRUE, s1, TRUE, FALSE)

MCInfos == {Stopped, Running}
MCTables == {tab \in [{a, b} -> MCInfos \cup {None}] : tab[b] = Running}
=============================================================================
