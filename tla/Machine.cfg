SPECIFICATION FairSpec
CONSTANTS
    Texts <- MCTexts
    Mac <- MCMac
    ChannelSize = 1
    SettleFrames = 2
    PasteFrames = 2
    HoldTime = 1
    MaxActs = 2
    MaxCopies = 1
    MaxNow = 2
INVARIANTS NothingComesBack ProcessorIsGivenBack ClickHolds
PROPERTIES TextCrosses ClosesWhenTold
CHECK_DEADLOCK FALSE
