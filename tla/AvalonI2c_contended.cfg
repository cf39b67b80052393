SPECIFICATION FairIrqSpec
CONSTANTS
  Registers = 3
  MaxNacks = 1
  Depth = 3
  MaxContentions = 1
  Tries = 2
  Requests <- ApplicationCalls
  IrqRequests <- InterruptCalls
  SharedBus = FALSE
INVARIANTS Released InterruptSound StillAwaited OwnBusInv
PROPERTY CallsEnd
