\* Three calls and four sockets; an attempt begins when the last one is over.
SPECIFICATION Spec
CONSTANTS
  Calls = {c1, c2, c3}
  Socks = {s1, s2, s3, s4}
  None = None
  OneAttempt = TRUE
  CleanStart = TRUE
SYMMETRY Symmetry
INVARIANTS
  TypeOK
  ConnectingIsFounded
  
  
