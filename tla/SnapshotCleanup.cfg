CONSTANTS
    Entity = {k1}
    Payload = {p}
    NoPayload = NoPayload
    NoEntry = NoEntry
    MaxLength = 0
    Publication = {p1, p2}
    Chunk = {c1}
    Retried = FALSE
    MaxOpenUploads = 2
    MaxPublishers = 2
    MaxKeyVersion = 2
    MaxFaults = 2
    MaxRestores = 0
SPECIFICATION LiveSpec
INVARIANTS PublishedStaysReadable OneChain ObjectsAreOwned
PROPERTIES QueueEmpties AbandonedEnds
CHECK_DEADLOCK FALSE
