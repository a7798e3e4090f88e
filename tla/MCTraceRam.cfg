\* Eight bytes through four slots: every index wraps twice.
CONSTANTS
  Writer = w
  Readers = {server, app}
  Server = server
  NoThread = none
  Depth = 3
  Sizes = {1, 2, 3}
  ReadSizes = {0, 2, 4}
  MaxWritten = 8
  MaxQueued = 3
SPECIFICATION TraceSpec
INVARIANTS TypeOK HoldsNewest NoOverrun EmptyIsFinal
PROPERTY ReadsInOrder
PROPERTY ErrorMeansTaken
