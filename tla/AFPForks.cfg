SPECIFICATION Spec
CONSTANTS
  Dir = Dir Name = Name NAME = NAME Info = Info Note = Note
  Names = {Dir, Name, NAME}
  Hidden = {}
  Inexact = {}
  Fold <- MCFold
  Rank <- MCRank
  DotRank = 0
  VolumeName = Dir
  Depth = 2
  Finders = {Info}
  Bytes = {0}
  Longest = 1
  Outcomes = {"written"}
  Up = Up
  None = None
  Sessions = {1, 2}
  Calls = {"set","fork","rename","leave"}
  Asked <- ForkPath
  AskedTo <- NoPath
  NewNames = {Name}
  AccessModes <- Modes
  Comments = {Note}
  Appl = {}
  Initial <- InFolder
  LastID = 18
  QuantumSize = 1
  LastRef = 2
  HostPuts <- APlainFile
  MostObjects = 2 MostTaken = 1
  HostMakesAlike = FALSE
  HostTakesOpen = FALSE
  RefusesBeside = {}
INVARIANT ForksAreShared NothingLeftOpen MetadataFollows
CHECK_DEADLOCK FALSE
