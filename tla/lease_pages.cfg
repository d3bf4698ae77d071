\* Two pages, two overlapping subscriptions each, a grace of two ticks.
SPECIFICATION FairSpec
CONSTANTS
  Clients = {c1, c2}
  Slots = {s1, s2}
  Grace = 2
  None = None
INVARIANTS
  TypeOK
  ViewOnlyHasWriter
PROPERTIES
  NeverStolen
  ImplementsToken
  GoneWriterExpires
