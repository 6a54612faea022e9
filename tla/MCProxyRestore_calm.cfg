SPECIFICATION Spec
CONSTANTS
  a1 = a1
  a2 = a2
  Attempts <- MCAttempts
  Originals <- MCOriginals
  RacyForeign = FALSE
  MaxForeign = 2
  MaxFaults = 2
INVARIANTS
  TypeOK
  OriginalRecoverable
PROPERTIES
  ReleaseOnlyOriginal
  ForeignPreserved
