CONSTANTS
    Entity = {k1}
    Payload = {p}
    NoPayload = NoPayload
    NoEntry = NoEntry
    MaxLength = 2
    Publication = {p1, p2, p3}
    Chunk = {c1}
    Retried = FALSE
    MaxOpenUploads = 1
    MaxPublishers = 1
    MaxKeyVersion = 1
    MaxFaults = 0
    MaxRestores = 1
SPECIFICATION Spec
INVARIANTS TailKept RestoreIsExact
SYMMETRY Symmetric
CHECK_DEADLOCK FALSE
