CONSTANTS
    A = A
    B = B
    Instances <- Both
    Scenarios <- Return
    RemoveLabel = TRUE
    MaxEdits = 2
    MaxFaults = 0
    MaxNotices = 2
    None = None
SPECIFICATION Spec
INVARIANT RightsAreMadeAgain
CHECK_DEADLOCK FALSE
