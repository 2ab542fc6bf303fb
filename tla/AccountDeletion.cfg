CONSTANTS
    Device = {d}
    Call = {c1}
    Standing = {r1, r2}
    Written = {w}
    Artifact = {a}
    Chunk = {k1}
    Batch = 1
    MaxFaults = 1
SPECIFICATION LiveSpec
INVARIANTS RevokedBeforePurge DeletedMeansPurged OnlyLateWrites ChunksAreOwned
PROPERTIES DeletionCompletes
CHECK_DEADLOCK FALSE
