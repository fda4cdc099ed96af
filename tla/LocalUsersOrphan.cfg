CONSTANTS
    Users = {alice}
    Lifetimes <- MCLifetimes
    Duration <- MCDuration
    StopTexts <- MCStopTexts
    ZeroHours = "0h"
    Specs <- RenewedSpecs
    InitialSpecs <- Renewing
    Extras = {"none"}
    ArgoCDSecret = ArgoCDSecret
    MaxTime = 0
    MaxEdits = 1
    MaxTroubles = 0
    LostAnswers = FALSE
SPECIFICATION Spec
INVARIANT NoOrphanToken
CHECK_DEADLOCK FALSE
