SPECIFICATION FairSpec
CONSTANTS
  MaxRelease = 2
  MaxFaults = 2
INVARIANTS TypeOK MarkedMeansProvisioned NoRebootLoop
PROPERTIES Provisioned
