CONSTANTS
    Worker = {1}
    Job = {j1}
    Policies = {"refuses", "allows"}
    Needs = {"workspace"}
    MaxCapacity = 1
    MaxIncarnation = 2
    MaxFence = 3
SPECIFICATION FairSpec
INVARIANTS SingleOwner BoundedExecutions CompletionAgrees PendingApprovalIsOpen
PROPERTIES RevokedNeverCompletes QueueDrains OrphanSettles
CHECK_DEADLOCK FALSE
