CONSTANTS
    Hosts = {h1, h2}
    NoHost = NoHost
    MaxEdits = 4
    MaxFaults = 1
    MaxRestarts = 2
SPECIFICATION FairSpec
INVARIANTS
    TypeOK
    DisabledHasNoLink
PROPERTY Quiesces
CHECK_DEADLOCK FALSE
