SPECIFICATION Spec

CONSTANTS
  MaxCode = 3
  FifoDepth = 6
  MaxConns = 2
  MaxRequests = 2
  Tails <- MCTails

INVARIANT TypeOK
INVARIANT ExecutedInOrder
INVARIANT PatientAnswered
PROPERTY Accepted
CHECK_DEADLOCK FALSE
