CONSTANTS
    SamePluginNamespace = TRUE
    PluginSupported = TRUE
    Dex = FALSE
    Settings = {FALSE, TRUE}
    Leftovers = {}
    Tamperable = {}
    MaxSpec = 0
    MaxTampers = 0
    MaxFaults = 0
    MaxRestarts = 2
SPECIFICATION Spec
INVARIANTS
    SettledIsConverged
    BackendHasRBAC
    RolloutMountsItsConfig
CHECK_DEADLOCK FALSE
