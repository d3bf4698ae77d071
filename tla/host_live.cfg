\* Two panes whose spawns compete for one permit.
SPECIFICATION FairSpec
CONSTANTS
  Ids = {i1, i2}
  Handles = {h1, h2}
  Calls = {c1, c2}
  Clients = {k1}
  Socks = {s1}
  MaxSpawns = 1
  None = None
  SingleFlight = TRUE
  PatientClients = FALSE
  PromptDeath = TRUE
INVARIANTS
  TypeOK
  DeadHasCleanup
  PermitsAccounted
  QueueConsistent
PROPERTIES
  EveryCallAnswered
  DeadReaped
  
