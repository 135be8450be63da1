SPECIFICATION LoopSpec
CONSTANTS
  BURST_SIZE = 2
  TX_BUFFER_SIZE = 2
  report_cycles = 3
  MaxStep = 1
  MaxTime = 5
CHECK_DEADLOCK FALSE
INVARIANT
  AmortizedOverReceived
