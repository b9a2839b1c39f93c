CONSTANTS
  c1 = c1
  c2 = c2
  c3 = c3
  will = will
  heir = heir
  cheap = cheap
  home = home
  away = away
  NoCall = NoCall
  Junk = Junk
  Calls = {c1, c2}
  Txs <- MCTxs
  Bodies <- MCBodies
  Pays <- MCPays
  Fee <- MCFee
  XPub = TRUE
  OurAddress = home
  FixedFee = 2
  MaxTerms = 2
  MaxFaults = 0
SPECIFICATION Spec
CHECK_DEADLOCK FALSE
INVARIANTS
  ThxMeansStored
