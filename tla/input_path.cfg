\* Four units of input in parts of two, a pipe of two buffers.
\* A session whose child has ended does nothing more.
CHECK_DEADLOCK FALSE
SPECIFICATION FairSpec
CONSTANTS
  MaxIn = 4
  Part = 2
  PipeRoom = 2
  StdinLimit = 4
  MaxChunk = 2
  HighWater = 2
  LowWater = 1
  HardLimit = 6
INVARIANT
  TypeOK
PROPERTIES
  
  InputFlows
  
