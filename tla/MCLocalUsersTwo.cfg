CONSTANTS
    Users = {alice, bob}
    Lifetimes <- MCLifetimes
    Duration <- MCDuration
    StopTexts <- MCStopTexts
    ZeroHours = "0h"
    Specs <- Renewing
    InitialSpecs <- Renewing
    Extras = {"none"}
    ArgoCDSecret = ArgoCDSecret
    MaxTime = 1
    MaxEdits = 0
    MaxTroubles = 0
    LostAnswers = FALSE
SPECIFICATION Spec
PROPERTY OneUserAtATime
CHECK_DEADLOCK FALSE
