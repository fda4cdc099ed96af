CONSTANTS
    A = A
    B = B
    Instances <- Both
    Scenarios <- Owner
    RemoveLabel = TRUE
    MaxEdits = 2
    MaxFaults = 0
    MaxNotices = 2
    None = None
SPECIFICATION Spec
INVARIANT GoneLeavesNothing
CHECK_DEADLOCK FALSE
