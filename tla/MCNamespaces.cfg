CONSTANTS
    A = A
    B = B
    Instances <- Both
    Scenarios <- AnyRivals
    RemoveLabel = TRUE
    MaxEdits = 2
    MaxFaults = 1
    MaxNotices = 2
    None = None
SPECIFICATION FairSpec
INVARIANTS TypeOK ManagerHasRights SourceHasRights NoRightsLeft
PROPERTY Quiesces
CHECK_DEADLOCK FALSE
