SPECIFICATION Spec
CONSTANTS
  Paths = {f1, f2}
  None = None
  MaxVersion = 3
  Size <- Lengths
  Capacity = 2
  MaxBytes = 3
  StalePuts = TRUE
INVARIANT Coherent
