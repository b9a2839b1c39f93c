CONSTANTS
  noLock = noLock
  byHeight = byHeight
  byTime = byTime
  atThreshold = atThreshold
  NoTx = NoTx
  Txs <- MCTxs
  Locktime <- MCLocktime
  Threshold = 10
  MinHeight = 1
  MaxHeight = 3
  MinTime = 11
  MaxTime = 12
  MaxPending = 1
  TxIndex = TRUE
  Faults <- CrashOnly
  MaxFaults = 1
SPECIFICATION Spec
INVARIANTS
  FailedNeverMined
