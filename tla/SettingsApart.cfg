CONSTANTS
  w1 = w1
  w2 = w2
  ours = ours
  NoAddress = NoAddress
  Workers <- MCWorkers
  Addresses <- MCAddresses
  Fees <- MCFees
  PageFee = 2
  EnvFile <- MCEnvFile
  Length <- MCLength
  MaxSaves = 2
  MaxFaults = 0
SPECIFICATION Spec
INVARIANTS
  KeptApart
CHECK_DEADLOCK FALSE
