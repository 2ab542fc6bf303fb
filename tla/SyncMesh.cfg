CONSTANTS
    Enrollment = {d1}
    Entity = {k1}
    Payload = {p, q}
    NoPayload = NoPayload
    NoEntity = NoEntity
    JsonNull = JsonNull
    Hosted = FALSE
    HistoryQuota = 1
    MaxEnrollmentSequence = 2
    MaxSequence = 2
    MaxEdits = 2
    Keyed = FALSE
    Retention = TRUE
SPECIFICATION MeshSpec
INVARIANTS BaseFromHistory CleanMirrorsBase WireWellFormed
PROPERTIES DirtyRowsKept SeenStaysSeen
SYMMETRY MeshSymmetric
CHECK_DEADLOCK FALSE
