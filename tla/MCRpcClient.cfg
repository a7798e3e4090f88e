SPECIFICATION Spec

CONSTANTS
  SentFates = {"ok", "bad", "handler_error"}
  MaxCalls = 3

INVARIANT TypeOK
INVARIANT ReplyMatches
PROPERTY ReturnedStable
PROPERTY PendingCleared
CHECK_DEADLOCK FALSE
