\* One client, two units of output.
CHECK_DEADLOCK FALSE
SPECIFICATION Spec
CONSTANTS
  Socks = {s1}
  MaxOut = 2
  MaxBatch = 2
  PipeRoom = 1
  PatientClients = TRUE
INVARIANT AllOutputBeforeExit
