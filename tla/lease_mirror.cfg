\* Two pages, one subscription each.
SPECIFICATION FairSpec
CONSTANTS
  Clients = {c1, c2}
  Slots = {s1}
  Grace = 1
  None = None
PROPERTIES
  MirrorFreed
