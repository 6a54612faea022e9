SPECIFICATION FairSpec
CONSTANTS
  a1 = a1
  a2 = a2
  Attempts <- MCAttempts
  Originals <- MCOriginals
  RacyForeign = TRUE
  MaxForeign = 1
  MaxFaults = 2
INVARIANTS
  AnnouncedOrPending
PROPERTIES
  RetryConverges
