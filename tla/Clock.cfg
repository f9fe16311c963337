SPECIFICATION PortBSpec
CONSTANTS
    Extended <- MCExtended
    CounterBytes = 2
    WallClock = FALSE
    MaxQueued = 1
    FifoSize = 1
    AppleTalk = TRUE
    Calls <- MCCalls
    PendingLimit = 2
    FirstSecond = 255
    MaxBusy = 2
    MaxTicks = 2
    MaxMachineResets = 1
    MaxStarts = 1
INVARIANTS TakenWhole TimeIsRead PointerFollows
