CONSTANTS
  s1 = s1
  s2 = s2
  i1 = i1
  i2 = i2
  Sessions <- MCSessions
  Instances <- MCInstances
  NoInstance = NoInstance
  CleanupMayFail = TRUE
SPECIFICATION Spec
SYMMETRY Symmetry
INVARIANTS TypeOK RecordTruthful
PROPERTIES ImplementsLease ClearStatusTruthful
