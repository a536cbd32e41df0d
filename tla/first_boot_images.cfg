SPECIFICATION Spec
CONSTANTS
  MaxRelease = 2
  MaxFaults = 2
INVARIANTS FallsBackToChannels
