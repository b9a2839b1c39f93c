CONSTANTS
  c1 = c1
  c2 = c2
  c3 = c3
  alice = alice
  bob = bob
  NoClient = NoClient
  Calls <- MCCalls
  Clients <- MCClients
  MaxSecond = 1
  MaxFaults = 2
  Uploads <- MCUploads
SPECIFICATION Spec
INVARIANTS
  TypeOK
  OneOwner
  AnswerIsKnown
  NoGap
  StableAddress
CHECK_DEADLOCK FALSE
