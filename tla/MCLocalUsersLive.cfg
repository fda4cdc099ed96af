CONSTANTS
    Users = {alice}
    Lifetimes <- MCLifetimes
    Duration <- MCDuration
    StopTexts <- MCStopTexts
    ZeroHours = "0h"
    Specs <- RenewedSpecs
    InitialSpecs <- Renewing
    Extras = {"none"}
    ArgoCDSecret = ArgoCDSecret
    MaxTime = 1
    MaxEdits = 0
    MaxTroubles = 1
    LostAnswers = TRUE
SPECIFICATION FairSpec
PROPERTIES
    ActiveGetsToken
    NobodyWaitsForever
CHECK_DEADLOCK FALSE
