SPECIFICATION IrqSpec
CONSTANTS
  Registers = 3
  MaxNacks = 0
  Depth = 3
  MaxContentions = 1
  Tries = 2
  Requests <- ApplicationCalls
  IrqRequests = {}
  SharedBus = FALSE
INVARIANT LossIsRetried
