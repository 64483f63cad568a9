SPECIFICATION FairSpec
INVARIANTS
  GuardedOnCloud
PROPERTIES
  ImplementsView
  EventuallyCurrent
CONSTANTS
  Consumers = {good, lost}
  good = good
  lost = lost
  TokenOf <- MCTokenOf
  MaxVersion = 2
  SelfOnly = SelfOnly
  None = None
