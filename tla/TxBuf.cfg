SPECIFICATION FairSpec
CONSTANTS
  Queues = {0, 1}
  Mbufs = {m1, m2, m3}
  c1 = c1
  c2 = c2
  srv = srv
  Endpoints <- MCEndpoints
  Traffic <- MCTraffic
  Rss <- MCRss
  RX_RING_SIZE = 2
  TX_RING_SIZE = 2
  MaxRequests = 3
  NoPacket = NoPacket
  BURST_SIZE = 2
  TX_BUFFER_SIZE = 2
  Modes = {"offload"}
INVARIANTS
  MbufOwnership
  CountersBalance
  ReportGap
  WireChecksums
PROPERTIES
  ImplementsFairService
  MbufsReturn
