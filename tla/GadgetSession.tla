---------------------------- MODULE GadgetSession ----------------------------
(***************************************************************************)
(* One connection to a VSM GadgetServer, used for its service, store and    *)
(* cluster (GadgetServer) or for its resources (GadgetResources), which      *)
(* share no state in the client: each behaviour uses one of them.           *)
(***************************************************************************)
EXTENDS GadgetServer, GadgetResources

VARIABLE using   \* the part that is used

vars == <<serverVars, resourcesVars, using>>

ServerRests == svc = "stopped" /\ store = "missing" /\ cluster = {}

Init ==
  /\ using \in {"server", "resources"}
  /\ serverInit /\ (using # "server" => ServerRests)
  /\ resourcesInit

Next ==
  /\ UNCHANGED using
  /\ \/ using = "server" /\ serverNext /\ UNCHANGED resourcesVars
     \/ using = "resources" /\ resourcesNext /\ UNCHANGED serverVars

Spec == Init /\ [][Next]_vars
=============================================================================
