SPECIFICATION FairSpec
CONSTANTS
  MAX_CORES = 3
  Counts = {0, 1, 3, 4}
  Lcores = {0, 2, 3}
  NoWorker = NoWorker
  Clients = {"packet_gen_client", "packet_gen_client_fast"}
  Sizes = {0, 41, 42}
  Flows = {0, 1, 4, 6, 15, 16}
  HEADER_LEN = 42
  DEFAULT_NUM_FLOWS = 3
  UINT16_MAX = 31
  client_port = 16
CHECK_DEADLOCK FALSE
INVARIANTS
  EveryQueueServed
  WorkersFindPortReady
  EveryFlowSent
PROPERTY
  RunsOrExits
