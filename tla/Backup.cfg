CONSTANTS
  mine = mine
  theirs = theirs
  Txs <- MCTxs
  Uploads <- MCUploads
  Week = 2
  Keep = 1
  MaxDay = 2
  MaxMerges = 2
  MaxFaults = 1
SPECIFICATION FairSpec
INVARIANTS
  TypeOK
  RowsComplete
  StatsNeverAhead
  NewestWhole
PROPERTIES
  RowsOnlyAdvance
  NewestStay
  BackedUp
