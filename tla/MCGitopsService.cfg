CONSTANTS
    SamePluginNamespace = TRUE
    PluginSupported = FALSE
    Dex = TRUE
    Settings = {FALSE, TRUE}
    Leftovers = {}
    Tamperable = {"ns", "argocd", "sa", "deploy"}
    MaxSpec = 1
    MaxTampers = 1
    MaxFaults = 1
    MaxRestarts = 1
SPECIFICATION Spec
INVARIANTS
    TypeOK
    SettledIsConverged
CHECK_DEADLOCK FALSE
