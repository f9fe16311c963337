SPECIFICATION Spec
CONSTANTS
  Files = {f1,f2,f3}
  Locked = {f2}
  InMemory = {f3}
  TwoSided = {}
  Tracks = 2
  Sectors = 1
  Cells = 2
  Data = {a, b}
  None = None
  Drives = {0}
  Written = {b}
  Outcomes = {"written","refused","cut"}
INVARIANTS StoppedIsSaved
PROPERTIES LeavesItsFile OnlyUnderTheHead
