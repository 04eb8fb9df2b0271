SPECIFICATION CallsFairSpec
CONSTANTS
  a = a
  b = b
  s1 = s1
  Names = {a, b}
  Tracked = {a, b}
  Infos <- MCInfos
  Tables <- MCTables
  Batches = {{a}, {a, b}}
  None = None
  Servers = {s1}
  Calls = {c1}
  Subjects = {a}
  MaxLog = 3
INVARIANTS RemovedStaysGone ToldIsExact DeletedWasRemoved
PROPERTY UpdatesAreHandled
