SPECIFICATION FairSpec
CONSTANTS
  Size = 2
  Clients = {c1, c2}
  MaxFrames = 3
  MaxExits = 1
INVARIANTS TypeOK QueueKeepsNewest
PROPERTIES NetworkNeverWaits PreviewWakes PatternReturns
CHECK_DEADLOCK FALSE
