SPECIFICATION FairSpec
CONSTANTS
  Queues = {0, 1}
  Mbufs = {m1, m2}
  c1 = c1
  c2 = c2
  c3 = c3
  srv = srv
  Endpoints <- MCEndpoints
  Traffic <- MCTraffic
  Rss <- MCRss
  RX_RING_SIZE = 2
  TX_RING_SIZE = 2
  MaxRequests = 3
  NoPacket = NoPacket
  BURST_SIZE = 2
  Modes = {"software", "offload", "preserve", "none"}
CHECK_DEADLOCK FALSE
INVARIANTS
  TypeOK
  MbufOwnership
  CountersBalance
  ReportsBalance
  WireChecksums
PROPERTIES
  ImplementsFairService
  MbufsReturn
