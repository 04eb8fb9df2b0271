SPECIFICATION FairSpec
CONSTANTS
  a = a
  b = b
  v = v
  Ids = {a, b}
  Vals = {v}
  Labels = {""}
  Blank = ""
  None = None
  MaxLog = 4
INVARIANT SureIsExact
PROPERTIES CatchesUp ImplementsReplica
