SPECIFICATION Spec
CONSTANTS
  Paths = {f1, f2, f3}
  None = None
  MaxVersion = 3
  Size <- Lengths
  Capacity = 2
  MaxBytes = 3
  StalePuts = FALSE
SYMMETRY Symmetric
INVARIANT TypeOK
INVARIANT ListMatchesMap
INVARIANT BytesExact
INVARIANT Coherent
PROPERTY EvictsOldest
