SPECIFICATION Spec
CONSTANTS
  ServerNodes = {n1, n2, n3}
  LocalNode = n1
  NoNode = NoNode
  MaxServerCalls = 2
  Protocols = {p1, p2}
  ProtocolHandles = {h1, h2}
  DisplayNames = {Blank, d1}
  Blank = Blank
  NoProtocol = NoProtocol
  NodeFields <- Fields
  Marks <- Mark
  MaxResourceCalls = 5
SYMMETRY Symmetric
INVARIANTS
  OriginalIsKept
  RemovalKeepsItsWord
  ToldIsSaid
PROPERTIES
  PutIsExact
CHECK_DEADLOCK FALSE
