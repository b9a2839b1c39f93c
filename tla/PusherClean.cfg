CONSTANTS
  noLock = noLock
  byHeight = byHeight
  byTime = byTime
  atThreshold = atThreshold
  NoTx = NoTx
  Txs <- MCTxsThree
  Locktime <- MCLocktime
  Threshold = 10
  MinHeight = 1
  MaxHeight = 3
  MinTime = 11
  MaxTime = 12
  MaxPending = 1
  TxIndex = TRUE
  Faults <- PolicyAndKey
  MaxFaults = 1
SPECIFICATION Spec
INVARIANTS
  DoneElsewhereMeansRival
  FailedNeverMined
  TipIsCurrent
  NeverSentTwice
PROPERTIES
  ImplementsWill
