SPECIFICATION FairSpec
CONSTANTS
  MAXQLEN = 2
  SendMaxTries = 1
  PKT_DATA_SZ = 2
  Sizes = {2, 3}
  MaxPkts = 5
INVARIANTS
  ArmedWhileQueued
  EveryPacketAccounted
  NothingLeftAfterClose
  
PROPERTIES
  EveryPacketLeaves
  IdleDisarms
  ImplementsLossyFifo
CHECK_DEADLOCK FALSE
