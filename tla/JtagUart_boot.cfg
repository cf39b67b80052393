SPECIFICATION FairSpec
CONSTANTS
  FifoDepth = 1
  Threshold = 0
  Loads <- Writing
  BUF_LEN = 3
  INT_MAX = 4
  DefaultTimeout = 1
  TickRates = {0}
  Timeouts = {0}
  Counts = {1, 3}
PROPERTY NobodyWaitsForNoHost
