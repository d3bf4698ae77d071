\* Two workspaces of any kind, two initialisations and one delete; requests
\* about a workspace come one at a time.
SPECIFICATION FairSpec
CONSTANTS
  Workspaces = {w1, w2}
  Inits = {i1, i2}
  Deletes = {d1}
  Kinds = {"new", "existing", "adopted", "agent"}
  None = None
  OneAtATime = TRUE
INVARIANTS
  TypeOK
  WaitIsFounded
  NothingLeftBehind
  StuckOnlyIfCancelled
PROPERTIES
  ImplementsLock
  CleansOnlyItsOwn
  EveryDeleteEnds
