SPECIFICATION FairSpec
CONSTANTS
  ByteBits = 2
  DeviceAddress <- MCDeviceAddress
  Unwritten = Unwritten
  LUT_SIZE = 3
  LUT_DATA <- MCRepeated
  MaxRefusals = 2
  TxIntLevels = {0, 1}
  MaxResets = 2
INVARIANTS ConfigInv ReadyMeansConfigured
PROPERTIES LoadsRegisters EntryDelivered NeverCut AlwaysReadyAgain
