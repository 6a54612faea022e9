SPECIFICATION FairSpec
CONSTANTS
  a1 = a1
  a2 = a2
  None = None
  Attempts <- TwoAttempts
  Commands <- AllCommands
  RecoverOnlyStopped = TRUE
  MaxFaults = 3
INVARIANTS TypeOK LeavesNothing
PROPERTIES ListenerOutlivesProxy Retryable
