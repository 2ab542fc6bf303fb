CONSTANTS
    Device = {d1, d2, d3}
    Refreshing = {d1}
    NoDevice = NoDevice
    Root = {r1, r2}
    NoRoot = NoRoot
    Hosted = FALSE
    DeviceLimit = 2
    MaxCodes = 1
    MaxChallenges = 1
    MaxRevision = 4
    MaxGeneration = 3
SPECIFICATION Spec
SYMMETRY Symmetric
VIEW Read
INVARIANTS StoredTokenAccepted
PROPERTIES BurnedRootNeverUnlocks TrustIsHandedOn
CHECK_DEADLOCK FALSE
