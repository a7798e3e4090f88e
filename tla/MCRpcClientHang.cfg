SPECIFICATION Spec

CONSTANTS
  SentFates = {"ok", "bad", "handler_error"}
  MaxCalls = 1

PROPERTY SendSyncReturns
CHECK_DEADLOCK FALSE
