\* The choice of a server while a chain runs.
SPECIFICATION Spec
CONSTANTS
    s1 = s1
    s2 = s2
    Servers <- MCServers
    None = None
    MaxEvents = 3
    MaxLists = 0
INVARIANT ConnectedIsChosen
CHECK_DEADLOCK FALSE
