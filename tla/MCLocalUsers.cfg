CONSTANTS
    Users = {alice}
    Lifetimes <- MCLifetimes
    Duration <- MCDuration
    StopTexts <- MCStopTexts
    ZeroHours = "0h"
    Specs <- AllSpecs
    InitialSpecs <- RenewingLong
    Extras = {"none", "apiKey"}
    ArgoCDSecret = ArgoCDSecret
    MaxTime = 2
    MaxEdits = 1
    MaxTroubles = 1
    LostAnswers = TRUE
SPECIFICATION Spec
INVARIANTS
    TypeOK
    TokenNeverAhead
    CurrentTokenHasTimer
    InactiveIsRevoked
    NoTimerWithoutRenewal
CHECK_DEADLOCK FALSE
