CONSTANTS
  s1 = s1
  s2 = s2
  i1 = i1
  i2 = i2
  Sessions = {s1}
  Instances = {i1}
  NoInstance = NoInstance
  CleanupMayFail = TRUE
SPECIFICATION FairSpec
PROPERTIES DeadEngineForgotten 
