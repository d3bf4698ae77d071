\* One workspace; restarts of the app.
SPECIFICATION FairSpec
CONSTANTS
  Workspaces = {w1}
  Inits = {i1}
  Deletes = {d1}
  Kinds = {"new"}
  None = None
  OneAtATime = TRUE
PROPERTIES
  HiddenWhileDeleted
