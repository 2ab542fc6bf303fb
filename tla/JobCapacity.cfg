CONSTANTS
    Worker = {1}
    Job = {j1, j2}
    Policies = {"allows"}
    Needs = {"capability"}
    MaxCapacity = 1
    MaxIncarnation = 1
    MaxFence = 1
SPECIFICATION Spec
INVARIANTS WithinCapacity
SYMMETRY JobSymmetric
CHECK_DEADLOCK FALSE
