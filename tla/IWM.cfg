SPECIFICATION FairSpec
CONSTANTS
  Files = {f1}
  Locked = {}
  InMemory = {}
  TwoSided = {}
  Tracks = 2
  Sectors = 1
  Cells = 1
  Data = {a}
  None = None
  Drives = {0}
  Written = {a}
  Outcomes = {"written"}
PROPERTIES LinesAreTakenOnce WritesGoOn
