SPECIFICATION Spec
CONSTANTS
  a = a
  b = b
  l = l
  c1 = c1
  Ids = {a}
  Labels = {l}
  None = None
  MaxLog = 3
  Calls = {c1}
CHECK_DEADLOCK FALSE
PROPERTY GoneIsAwaited
