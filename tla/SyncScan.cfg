CONSTANTS
    Enrollment = {d1}
    Entity = {1, 2}
    Payload = {p}
    NoPayload = NoPayload
    NoEntity = NoEntity
    Hosted = TRUE
    HistoryQuota = 0
    MaxEnrollmentSequence = 0
    MaxSequence = 4
SPECIFICATION ScanSpec
INVARIANTS StagingIsExact CatchUpReachesEnd
CHECK_DEADLOCK FALSE
