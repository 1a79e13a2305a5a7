SPECIFICATION Spec
CONSTANTS
    Budget = 3
    Slice = 2
    Timeout = 3
    Operations = 2
    MaxTime = 13
    MaxDelay = 1
INVARIANTS ConfirmedWasIdle IdleIsConfirmed OvershootBounded
CHECK_DEADLOCK FALSE
