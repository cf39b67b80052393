SPECIFICATION Spec
CONSTANTS
  N = 10
  C_MAX = 12
PROPERTY Walks
