SPECIFICATION Spec
CONSTANTS
  ByteBits = 2
  DeviceAddress <- MCDeviceAddress
  Unwritten = Unwritten
  LUT_SIZE = 3
  LUT_DATA <- MCDistinct
  MaxRefusals = 0
  TxIntLevels = {1}
  MaxResets = 0
PROPERTY EveryEntryDelivered
