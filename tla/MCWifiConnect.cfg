SPECIFICATION Spec

CONSTANTS
  MaxCalls = 3
  MaxJoins = 3
  MaxEvents = 2

INVARIANT TypeOK
INVARIANT SuccessesCalledFor
INVARIANT OneSuccessPerJoin
PROPERTY RequestFollows
CHECK_DEADLOCK FALSE
