SPECIFICATION Spec
CONSTANTS
  Size = 3
  Modulus = 6
  Chunk = 2
  MaxBacklog = 1
  Racing = TRUE
INVARIANT ResetEmpties
