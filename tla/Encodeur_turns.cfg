SPECIFICATION FairDriftSpec
CONSTANTS
  Modulus = 8
  Width = 3
  MaxTurn = 18
  MaxResets = 2
  MaxDrift = 2
INVARIANT HalfTurns
PROPERTY RestsWithTheShaft
