--------------------------- MODULE MCPatchSession ---------------------------
(***************************************************************************)
(* One gate of a device, two peers to mistake for each other, one call, and *)
(* a journal of the initial addresses and two updates.  Over several: two   *)
(* devices that send, two sords that receive, one call, before which all    *)
(* gates have the same sender, or none, and at most one address is missing  *)
(* or stale.                                                                *)
(***************************************************************************)
EXTENDS PatchSession

Transmitters == {"t1", "t2"}
Receivers == {"r1", "r2"}
Belongs == [t1 |-> "m1", t2 |-> "m2", r1 |-> "m3", r2 |-> "m3"]
Kinds == {"audio", "video"}
HasFlows ==
  [t1 |-> [audio |-> 2, video |-> 0], t2 |-> [audio |-> 1, video |-> 1],
   r1 |-> [audio |-> 0, video |-> 1], r2 |-> [audio |-> 2, video |-> 0]]
=============================================================================
