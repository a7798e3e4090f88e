SPECIFICATION Spec

CONSTANTS
  FifoDepth = 6
  BufOutMax = 3
  Packets <- MCPackets
  Blocks = {b1, b2}
  NoBlock = NoBlock
  ChunkMax = 4
  MaxSent = 3

INVARIANT FirstEncodedByte
CHECK_DEADLOCK FALSE
