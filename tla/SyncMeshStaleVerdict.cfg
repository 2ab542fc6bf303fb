CONSTANTS
    Enrollment = {d1}
    Entity = {k1}
    Payload = {p}
    NoPayload = NoPayload
    NoEntity = NoEntity
    JsonNull = JsonNull
    Hosted = TRUE
    HistoryQuota = 0
    MaxEnrollmentSequence = 2
    MaxSequence = 3
    MaxEdits = 2
    Keyed = TRUE
    Retention = FALSE
SPECIFICATION MeshSpec
INVARIANT NothingMissed
SYMMETRY MeshSymmetric
CHECK_DEADLOCK FALSE
