CONSTANTS
    Objects <- AllObjects
    Rec <- OtherReconciler
    Environment <- Platform
    Departs <- Departures
    Frozen <- CreatedOnly
    MaxDisturbances <- Budget
    Absent = Absent
    Drift = Drift
    None = None
SPECIFICATION FairSpec
INVARIANTS TypeOK SettledPresence SettledContent
PROPERTIES KeepsPromise Quiesces
CHECK_DEADLOCK FALSE
