SPECIFICATION FairSpec
CONSTANTS
  FifoDepth = 1
  Threshold = 0
  Loads <- BothWays
  BUF_LEN = 3
  INT_MAX = 4
  DefaultTimeout = 1
  TickRates = {1}
  Timeouts = {0}
  Counts = {1, 3}
INVARIANTS TxStream RxStream Kicked Listening
PROPERTIES KeepsQueues CallsReturn AllShown
