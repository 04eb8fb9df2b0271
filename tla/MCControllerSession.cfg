SPECIFICATION Spec
CONSTANTS
  s1 = s1
  d1 = d1
  d2 = d2
  Sources = {s1}
  Destinations = {d1, d2}
  None = None
  MaxLog = 3
  Switches = {w1, w2}
  Keys = {k1, k2}
  Srcs = {src1, src2}
  MaxUpdates = 2
  Chassis <- Chain
  Media <- Ports
  Hubs <- Ring
  Heard <- Lldp
  NoIface = NoIface
  From <- Plugs
  Ends <- Targets
  MaxStitches = 3
SYMMETRY Symmetry
INVARIANTS
  ListedIsRouted
  DisconnectFrees
  LoneKeysAreExact
  PathIsWalk
CHECK_DEADLOCK FALSE
