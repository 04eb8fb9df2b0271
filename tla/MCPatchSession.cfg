SPECIFICATION FairSpec
CONSTANTS
  Own = {g1}
  Remote = {rg1, rg2}
  Calls = {c1}
  None = None
  MaxLog = 3
  TxSords <- Transmitters
  RxSords <- Receivers
  Holder <- Belongs
  Essences <- Kinds
  Flows <- HasFlows
  NoSender = NoSender
  MaxListed = 2
  MaxConnectCalls = 1
INVARIANTS
  SureIsExact
  AskedAsListed
  PatchedAsListed
PROPERTIES
  SeenIsBacked
  CallsEnd
CHECK_DEADLOCK FALSE
