SPECIFICATION FairSpec
CONSTANTS
    Starters = {r1, r2}
    Nobody = nobody
    LastEvent = 2
    MaxRemovals = 2
    MaxDeaths = 1
INVARIANTS LateStarterIsToldOfTheRun LockedAlarmIsTrue
PROPERTIES EveryStarterEnds
CHECK_DEADLOCK FALSE
