SPECIFICATION Spec
CONSTANTS
  Dir = Dir Name = Name NAME = NAME Info = Info Note = Note
  Names = {Dir, Name, NAME}
  Hidden = {}
  Inexact = {Dir}
  Fold <- MCFold
  Rank <- MCRank
  DotRank = 0
  VolumeName = Name
  Depth = 2
  Finders = {Info}
  Bytes = {0, 1}
  Longest = 0
  Outcomes = {"written"}
  Up = Up
  None = None
  Sessions = {1}
  Calls = {"look","list","create","delete","rename","move","comment","appl","host"}
  Asked <- AnyPath
  AskedTo <- FolderPath
  NewNames = {Name, NAME}
  AccessModes = {}
  Comments = {Note}
  Appl = {Info}
  Initial <- InFolders
  LastID = 18
  QuantumSize = 1
  LastRef = 1
  HostPuts <- APlainFile
  MostObjects = 2 MostTaken = 1
  HostMakesAlike = FALSE
  HostTakesOpen = FALSE
  RefusesBeside <- AtTheTop
INVARIANT IdsFollow DesktopFollows
CHECK_DEADLOCK FALSE
