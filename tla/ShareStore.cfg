CONSTANTS
    Share = {s}
    Call = {c1, c2}
    d1 = d1
    d2 = d2
    Digest = {d1}
    Corrupt = Corrupt
    NoDigest = NoDigest
    ByteLength <- Lengths
    AccountBytes = 3
    MaxUpdates = 2
    MaxCorrupt = 1
SPECIFICATION Spec
SYMMETRY CallSymmetry
PROPERTIES CleanupSparesInUse EndedStaysEnded PublishesWhatItVerified
CHECK_DEADLOCK FALSE
