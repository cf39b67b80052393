SPECIFICATION LevelSpec
CONSTANTS
  Registers = 5
  MaxNacks = 2
  Depth = 4
  MaxContentions = 0
  Tries = 3
  Axes = 3
  Requests = {}
  Samples <- NearSamples
INVARIANTS LevelInv ReadSound WriteSound WithinBuffer LeftClean OnlyRefusalsFail
  OneMeasurement ReadyMeansMeasuring Mirrored
PROPERTY Follows
