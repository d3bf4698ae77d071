\* One client, four units of output, batches of two, a pipe of one frame.
\* A session whose child has ended and whose clients have gone does nothing more.
CHECK_DEADLOCK FALSE
SPECIFICATION FairSpec
CONSTANTS
  Socks = {s1}
  MaxOut = 4
  MaxBatch = 2
  PipeRoom = 1
  PatientClients = TRUE
INVARIANTS
  TypeOK
  NoGap
  PausedMeansOwed
PROPERTIES
  ImplementsFeed
  
