--------------------------- MODULE MCGadgetSession ---------------------------
(***************************************************************************)
(* Three server nodes and two calls of the service, so that a removal that  *)
(* failed is followed by another; two protocol objects, so that one can     *)
(* change the other, and a server node with a key the client may set and    *)
(* send, one it may set but does not send, one it sends as a text and may   *)
(* not set, and one of the server's.                                        *)
(***************************************************************************)
EXTENDS GadgetSession, TLC

Fields == {"Comment", "CanForcePrimaryServer", "ForceSingleServer", "Version"}
Mark == {0, 1}
Symmetric == Permutations(Protocols) \cup Permutations(ProtocolHandles)
=============================================================================
