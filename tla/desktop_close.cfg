SPECIFICATION Spec
CONSTANTS
  MaxRestarts = 2
  MaxAttempts = 2
INVARIANT ClosedMeansNoGuest
