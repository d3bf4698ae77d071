\* Two panes, three sessions, two sockets in turn; calls for a pane come one at
\* a time, sockets outlive their calls and killed children are reaped in time.
SPECIFICATION Spec
CONSTANTS
  Ids = {i1, i2}
  Handles = {h1, h2, h3}
  Calls = {c1, c2}
  Clients = {k1}
  Socks = {s1, s2}
  MaxSpawns = 2
  None = None
  SingleFlight = TRUE
  PatientClients = TRUE
  PromptDeath = TRUE
SYMMETRY Symmetry
INVARIANTS
  NoOrphan
  NoGhostClient
  
PROPERTIES
  
  ImplementsDirectory
