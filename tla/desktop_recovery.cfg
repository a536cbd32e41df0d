SPECIFICATION FairSpec
CONSTANTS
  MaxRestarts = 2
  MaxAttempts = 2
PROPERTY CrashAlwaysRecovered
