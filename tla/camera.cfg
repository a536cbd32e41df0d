SPECIFICATION FairSpec
CONSTANT MaxReconnects = 5
INVARIANTS TypeOK WebcamHeard NeverDeaf BudgetExact ReleasedForGood
PROPERTIES DialsFromRest BridgeStreams EndsQuietly
CHECK_DEADLOCK FALSE
