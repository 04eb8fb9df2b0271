SPECIFICATION FairSpec
CONSTANTS
  a = a
  b = b
  l = l
  c1 = c1
  Ids = {a, b}
  Labels = {l}
  None = None
  MaxLog = 3
  Calls = {c1}
CHECK_DEADLOCK FALSE
INVARIANTS FollowedIsExact FoundWasListed
PROPERTIES EndpointCallsEnd FollowsHome
