SPECIFICATION FairSpec
CONSTANTS
  Sessions = {s1, s2}
  Commands = {app, shell}
  Shell = shell
  None = None
  MaxTrouble = 2
INVARIANTS TypeOK AndroidIsTheSessions LeftFrozen RunningSessionHasAndroid
PROPERTIES ContainerGivenUp
