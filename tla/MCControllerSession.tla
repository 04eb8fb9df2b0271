------------------------ MODULE MCControllerSession ------------------------
(***************************************************************************)
(* Addresses: one sender, two receivers, two updates.  Stitches: two        *)
(* switches, two stitches that both may have, two updates.  Path: a ring of *)
(* two switches a and b with a device d at both ends, at most three         *)
(* stitches.                                                                *)
(***************************************************************************)
EXTENDS ControllerSession, TLC

CONSTANTS s1, d1, d2

Symmetry == Permutations({d1, d2}) \cup Permutations(Switches)

Ring == {"a", "b"}
Chain == Ring \cup {"d"}
Ports == 1..3

Plugged ==
  (<<"d", 1>> :> <<"a", 1>>) @@ (<<"d", 2>> :> <<"b", 3>>)
  @@ (<<"a", 2>> :> <<"b", 1>>) @@ (<<"b", 1>> :> <<"a", 2>>)
  @@ (<<"b", 2>> :> <<"a", 3>>) @@ (<<"a", 3>> :> <<"b", 2>>)

Lldp ==
  [x \in Chain \X Ports |-> IF x \in DOMAIN Plugged THEN Plugged[x] ELSE NoIface]

Plugs == [pri |-> <<"d", 1>>, sec |-> <<"d", 2>>]
Targets == [pri |-> {<<"b", 3>>}, sec |-> {<<"b", 1>>, <<"d", 2>>}]
=============================================================================
