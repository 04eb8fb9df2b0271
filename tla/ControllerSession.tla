-------------------------- MODULE ControllerSession --------------------------
(***************************************************************************)
(* The routes of a HOME system, looked at in three ways: the addresses and  *)
(* the routes read off them (AddressRoutes), the list of stitches           *)
(* (StitchCache), and the search of a path through them (PathFinding),      *)
(* which nothing can interrupt.  These change nothing of each other, so     *)
(* that each behaviour is one of them and leaves the others at rest.        *)
(***************************************************************************)
EXTENDS AddressRoutes, StitchCache, PathFinding

VARIABLE using   \* the part that is used

vars == <<routesVars, stitchVars, pathVars, using>>

\* At rest: initial states of a part that does nothing.
RoutesRest == \A a \in Addrs : log[1].tab[a] = Gone
PathRests ==
  pathStarts(NoPath, Iface, [leg \in Legs |-> From[leg]])

Init ==
  /\ using \in {"routes", "stitches", "path"}
  /\ routesInit /\ (using # "routes" => RoutesRest)
  /\ stitchInit /\ (using # "stitches" => init = {})
  /\ IF using = "path" THEN pathInit ELSE PathRests

Next ==
  /\ UNCHANGED using
  /\ \/ using = "routes" /\ routesNext /\ UNCHANGED <<stitchVars, pathVars>>
     \/ using = "stitches" /\ stitchNext /\ UNCHANGED <<routesVars, pathVars>>
     \/ using = "path" /\ pathNext /\ UNCHANGED <<routesVars, stitchVars>>

Spec == Init /\ [][Next]_vars
=============================================================================
