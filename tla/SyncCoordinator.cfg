CONSTANTS
    Enrollment = {d1, d2}
    Entity = {k1, k2}
    Payload = {p, q}
    NoPayload = NoPayload
    NoEntity = NoEntity
    Hosted = TRUE
    HistoryQuota = 0
    MaxEnrollmentSequence = 1
    MaxSequence = 3
SPECIFICATION Spec
INVARIANTS TypeOK NoBlindOverwrite
PROPERTIES RetryKeepsVerdict ImplementsChangeLog
SYMMETRY Symmetric
CHECK_DEADLOCK FALSE
