CONSTANTS
    SamePluginNamespace = FALSE
    PluginSupported = TRUE
    Dex = TRUE
    Settings = {TRUE}
    Leftovers = {"kam", "oldPlugin"}
    Tamperable = {"pns", "pcm"}
    MaxSpec = 0
    MaxTampers = 1
    MaxFaults = 1
    MaxRestarts = 0
SPECIFICATION FairSpec
INVARIANT SettledIsConverged
PROPERTY Quiesces
CHECK_DEADLOCK FALSE
