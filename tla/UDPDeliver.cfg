SPECIFICATION UDPSpec
CONSTANTS
  MaxFrames = 4
  SendQueue = 2
INVARIANT DeliverTells
