CONSTANTS
    Share = {s}
    Call = {c1}
    d1 = d1
    d2 = d2
    Digest = {d1, d2}
    Corrupt = Corrupt
    NoDigest = NoDigest
    ByteLength <- Lengths
    AccountBytes = 3
    MaxUpdates = 2
    MaxCorrupt = 1
SPECIFICATION LiveSpec
INVARIANTS QuotaHeld
PROPERTIES ReservationEnds StagedUpdateEnds
CHECK_DEADLOCK FALSE
