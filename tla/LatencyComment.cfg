SPECIFICATION Spec
CONSTANTS
  num_flows = 2
  BURST_SIZE = 2
  TxMbufs = 3
  RxMbufs = 3
  MaxRequests = 3
  MaxForeign = 1
CHECK_DEADLOCK FALSE
PROPERTY
  RxAgainAfterNoMatch
