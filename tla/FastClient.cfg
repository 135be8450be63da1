SPECIFICATION FairSpec
CONSTANTS
  num_queues = 2
  BURST_SIZE = 2
  TX_RING_SIZE = 1
  RX_RING_SIZE = 2
  TxMbufs = 3
  MaxRounds = 1
  FAST_TX_BURSTS_PER_RX = 2
CHECK_DEADLOCK FALSE
INVARIANTS
  TxMbufsConserved
  BurstsAccounted
PROPERTY
  Ends
