SPECIFICATION IrqSpec
CONSTANTS
  Registers = 3
  MaxNacks = 1
  Depth = 3
  MaxContentions = 0
  Tries = 2
  Requests <- ApplicationCalls
  IrqRequests <- InterruptCalls
  SharedBus = FALSE
INVARIANT SuccessMeansDone
