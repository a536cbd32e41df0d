SPECIFICATION FairSpec
CONSTANTS
  MaxRestarts = 1
  MaxAttempts = 2
PROPERTIES CrashRecovered OperationsEnd CloseCompletes
