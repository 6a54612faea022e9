\* Clicks, network changes, deletions and a new list, under fairness.
SPECIFICATION FairSpec
CONSTANTS
    s1 = s1
    s2 = s2
    Servers <- MCServers
    None = None
    MaxEvents = 4
    MaxLists = 1
INVARIANTS
    TypeOK
    LastCallWins
    DeletionMeetsNoConnection
PROPERTY
    CallsReturn
\* The bounds end every behaviour.
CHECK_DEADLOCK FALSE
