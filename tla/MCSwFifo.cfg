\* Four slots for three items: the indices wrap at every position.
CONSTANTS
  Items = {a, b}
  Depth = 3
  MaxBatch = 4
SPECIFICATION Spec
INVARIANT TypeOK
PROPERTY ImplementsQueue
