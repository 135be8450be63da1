SPECIFICATION FairSystem
CONSTANTS
  Queues = {0, 1}
  server = server
  Traffic <- MCTraffic
  Rss <- MCRss
  MaxRequests = 6
  num_flows = 2
  BURST_SIZE = 2
  TxMbufs = 2
  RxMbufs = 3
  MaxPings = 4
  MaxBulk = 2
  MaxForeign = 2
CHECK_DEADLOCK FALSE
INVARIANTS
  InOrder
  Conserved
  SamplesMatch
  OneOutstanding
  MbufsKept
  EchoesInFlowOrder
  LateEchoesOnly
PROPERTY
  Terminates
