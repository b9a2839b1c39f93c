CONSTANTS
  w1 = w1
  w2 = w2
  ours = ours
  NoAddress = NoAddress
  Workers <- MCWorkers
  Addresses <- MCAddresses
  Fees <- MCFees
  PageFee = 2
  EnvFile <- MCEnvFile
  Length <- MCLength
  MaxSaves = 3
  MaxFaults = 1
SPECIFICATION FairSpec
INVARIANTS
  TypeOK
  SavesKept
  TornByOverlap
PROPERTIES
  StartApplies
  TextKeepsSettings
  RestartCompletes
  ImplementsStore
CHECK_DEADLOCK FALSE
