---------------------------- MODULE ModelSession ----------------------------
(***************************************************************************)
(* The model of one device or app, used for one of its long calls: waiting  *)
(* for heartbeats (Heartbeats), rebooting an App Server (ServerReboot), a    *)
(* failover or the pages of an app (AppModel), reading and writing controls  *)
(* (Controls).  The calls share no state but the connection, so that each    *)
(* behaviour makes one kind of them and leaves the rest at rest.            *)
(***************************************************************************)
EXTENDS Heartbeats, ServerReboot, AppModel, Controls

VARIABLE using   \* the kind of call

vars == <<beatsVars, rebootVars, appVars, controlsVars, using>>

TypeOK ==
  /\ BeatsTypeOK /\ RebootTypeOK /\ AppTypeOK /\ ControlsTypeOK
  /\ using \in {"beats", "reboot", "app", "controls"}

\* At rest: one state, in which the part has no step of its own to take.
AppRests ==
  /\ records = <<[on |-> NoServer, targets |-> {}, whole |-> TRUE]>>
  /\ ~settings.enabled /\ settings.group = NoServer

ControlsRest ==
  /\ page = PlainPage /\ known = {} /\ calls = 0
  /\ \A c, d \in Ctls : param[c] = param[d]
  /\ \A c \in Ctls : param[c] = CHOOSE x \in Levels : TRUE

Init ==
  /\ using \in {"beats", "reboot", "app", "controls"}
  /\ beatsInit /\ rebootInit
  /\ appInit /\ (using # "app" => AppRests)
  /\ controlsInit /\ (using # "controls" => ControlsRest)

Next ==
  /\ UNCHANGED using
  /\ \/ using = "beats" /\ beatsNext /\ UNCHANGED <<rebootVars, appVars, controlsVars>>
     \/ using = "reboot" /\ rebootNext /\ UNCHANGED <<beatsVars, appVars, controlsVars>>
     \/ using = "app" /\ appNext /\ UNCHANGED <<beatsVars, rebootVars, controlsVars>>
     \/ using = "controls" /\ controlsNext /\ UNCHANGED <<beatsVars, rebootVars, appVars>>

Spec == Init /\ [][Next]_vars

FairSpec == Spec /\ beatsFair /\ rebootFair /\ appFair
=============================================================================
