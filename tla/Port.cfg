SPECIFICATION FairSpec
CONSTANTS
    MaxQueued = 2
    FifoSize = 3
    Node = 1
    Server = 2
    MaxIncoming = 2
    OfferLines = 1
    MaxOffers = 2
    MaxOn = 2
    MaxResets = 1
    Arriving <- MCArriving
    Outgoing <- MCOutgoing
INVARIANTS TakenInOrderOnce AnswersComeNext SentAsWritten
PROPERTY OffersEnd
