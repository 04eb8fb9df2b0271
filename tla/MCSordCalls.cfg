SPECIFICATION SordsSpec
CONSTANTS
  a = a
  v = v
  w = w
  c1 = c1
  Ids = {a}
  Vals = {v, w}
  Labels = {""}
  Blank = ""
  None = None
  MaxLog = 4
  Calls = {c1}
SYMMETRY Symmetry
PROPERTIES FreshCreateIsCached RemovedWasGone
