SPECIFICATION FairSpec
CONSTANTS
  Targets = {0}
  ReadOnly = {}
  Blocks = 2
  BlockSize = 1
  ManyBlocks = 2
  BufferSize = 1
  HeaderLength = 1
  Data = {0, 1}
  Ids = {0, 1}
  Descriptors <- MCAll
INVARIANTS TargetKeepsItsWord MediumIsAsCommanded TransfersAreWhole BusFollowsItsTarget
PROPERTY EveryTransferEnds
