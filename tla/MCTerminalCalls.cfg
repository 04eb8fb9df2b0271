SPECIFICATION CallsSpec
CONSTANTS
  a = a
  v = v
  w = w
  c1 = c1
  Ids = {a}
  Vals = {v, w}
  NoSrc = w
  Labels = {""}
  Blank = ""
  None = None
  MaxLog = 3
  Calls = {c1}
INVARIANT DisconnectAllEmpties
PROPERTY ShownIsRouted
