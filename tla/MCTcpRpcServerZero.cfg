SPECIFICATION Spec

CONSTANTS
  MaxCode = 3
  FifoDepth = 6
  MaxConns = 1
  MaxRequests = 1
  Tails <- MCTailsZero

INVARIANT PatientAnswered
CHECK_DEADLOCK FALSE
