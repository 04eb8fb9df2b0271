---------------------------- MODULE PatchSession ----------------------------
(***************************************************************************)
(* Patching streams through device models: the calls of one model and the   *)
(* dictionary they wait on (AddressPatch), or the calls that patch sords of *)
(* several devices one after the other (ConnectSords), for which a call of  *)
(* the first kind is one step.                                              *)
(***************************************************************************)
EXTENDS AddressPatch, ConnectSords

VARIABLE using   \* the kind of call

vars == <<patchVars, connectVars, using>>

\* The other kind of session has one initial state.
NothingPatched ==
  absent \cup stale = {} /\ \A g \in DOMAIN patched : patched[g] = NoSender

Init ==
  /\ using \in {"device", "devices"}
  /\ patchInit /\ (using # "device" => \A g \in Own : now[g] = Gone)
  /\ connectInit /\ (using # "devices" => NothingPatched)

Next ==
  /\ UNCHANGED using
  /\ \/ using = "device" /\ patchNext /\ UNCHANGED connectVars
     \/ using = "devices" /\ connectNext /\ UNCHANGED patchVars

Spec == Init /\ [][Next]_vars

FairSpec == Spec /\ patchFair
=============================================================================
