SPECIFICATION Spec

CONSTANTS
  Topics = {t1, t2}
  Qos <- MCQos
  IdSpace = 2
  MaxFds = 2
  MaxCalls = 4
  Received <- MCReceived
  MaxReceived = 1
  MaxFaults = 1

INVARIANT TypeOK
INVARIANT FlagFollows
INVARIANT DropsAreClashes
CHECK_DEADLOCK FALSE
PROPERTY Recovers
PROPERTY HandshakeEnds
PROPERTY ReceivedAcknowledged
