SPECIFICATION FairSpec
CONSTANTS
  Lamps = {black, red, green}
  Values = {v, w}
  Width = 2
  Counts = {0, 12}
  Listens = {on, off}
  Default = on
  Signals = {0, 3, 8, 14, 21}
  MasterBase = 20
  MasterEnd = 23
  None = None
  Names = {a}
  Unnamed = Unnamed
  MaxCalls = 2
  MaxOthers = 1
  MaxLooks = 1
  Channels = {c}
  BusWidth = 4
  FuBase <- FirstIndex
  EqBegin <- EqFirst
  AuxBegin <- AuxFirst
  SumBegin = 64
  GroupBegin = 68
  AuxDelta = 16
  MaxSets = 2
INVARIANTS
  ButtonsTellTheTruth
  CheckedIsInForce
  ConfigKeepsOthers
  ReadsFit
  OkIsCarriedOut
  SettingsMeet
PROPERTIES
  FileCallsEnd
CHECK_DEADLOCK FALSE
