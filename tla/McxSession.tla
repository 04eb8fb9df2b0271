----------------------------- MODULE McxSession -----------------------------
(***************************************************************************)
(* One connection to an MCX console, used for one of three things: buttons, *)
(* checked settings and questions (McxConsole), productions and snapshots   *)
(* (McxFiles), plain settings of signals (McxSignals).  These parts of      *)
(* ldf/models/mcx/mcx.py share no state but the connection, so that each    *)
(* behaviour uses one of them and leaves the others at rest.                *)
(***************************************************************************)
EXTENDS McxConsole, McxFiles, McxSignals

\* A console has a signal, so that one not used is in some state, too.
ASSUME SessionAssumption == Signals # {}

VARIABLE using   \* the part that is used

vars == <<mcxVars, filesVars, signalsVars, using>>

TypeOK == mcxTypeOK /\ FilesTypeOK /\ using \in {"console", "files", "signals"}

Init ==
  /\ using \in {"console", "files", "signals"}
  /\ IF using = "console" THEN mcxInit ELSE StartsAs(CHOOSE s \in Starts : TRUE)
  /\ filesInit /\ (using # "files" => disk = {})
  /\ signalsInit

Next ==
  /\ UNCHANGED using
  /\ \/ using = "console" /\ mcxNext /\ UNCHANGED <<filesVars, signalsVars>>
     \/ using = "files" /\ filesNext /\ UNCHANGED <<mcxVars, signalsVars>>
     \/ using = "signals" /\ signalsNext /\ UNCHANGED <<mcxVars, filesVars>>

Spec == Init /\ [][Next]_vars

FairSpec == Spec /\ filesFair
=============================================================================
