CONSTANTS
  Ids = {i1}
  Handles = {h1}
  Calls = {c1}
  Clients = {k1}
  Socks = {s1, s2}
  MaxSpawns = 1
  None = None
  SingleFlight = TRUE
  PatientClients = FALSE
  PromptDeath = TRUE
SPECIFICATION Spec
SYMMETRY Symmetry
INVARIANT NoGhostClient
