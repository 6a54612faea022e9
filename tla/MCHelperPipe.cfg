\* The whole service life under its fairness.
SPECIFICATION FairSpec
CONSTANTS
    c1 = c1
    c2 = c2
    c3 = c3
    Clients <- MCClients
    Kind <- MCKind
    MaxInstances = 3
    None = None
INVARIANTS
    TypeOK
    ReplacementNeverWaits
    WorkIsAccounted
PROPERTY
    StopsAndServes
\* The service may stop.
CHECK_DEADLOCK FALSE
