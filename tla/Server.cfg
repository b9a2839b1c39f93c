CONSTANTS
  c1 = c1
  c2 = c2
  i1 = i1
  i2 = i2
  will = will
  heir = heir
  cheap = cheap
  alice = alice
  NoCall = NoCall
  NoClient = NoClient
  Junk = Junk
  Calls = {c1, c2}
  Infos = {i1, i2}
  Clients = {alice}
  MaxSecond = 0
  Txs <- MCTxs
  Bodies <- MCBodies
  Pays <- MCPays
  Fee <- MCFee
  XPub = TRUE
  OurAddress = 0
  FixedFee = 2
  MaxTerms = 2
  MaxFaults = 1
SPECIFICATION FairServer
CHECK_DEADLOCK FALSE
INVARIANTS
  TypeOK
  TablesAgree
  PresentIsStored
  ThxStoredSome
  StoredIsPaid
  AnsweredIsAccepted
PROPERTIES
  ImplementsTxStore
  Answered
