SPECIFICATION LiveSpec
CONSTANTS
    alice = alice
    bob = bob
    NoOwner = NoOwner
    Payload <- MCPayload
    Owners <- MCBoth
    AdminOps <- MCAllOps
    MaxGen = 3
    MaxFaults = 4
CHECK_DEADLOCK FALSE
INVARIANTS TypeOK ServiceSound
PROPERTIES RuntimeOutlivesService ProtectedInstallIsRemovable
