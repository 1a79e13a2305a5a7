SPECIFICATION Spec
CONSTANTS
    c1 = c1
    c2 = c2
    run1 = run1
    fresh = fresh
    other = other
    null = null
    None = null
    Runs <- MCRuns
    Sessions <- MCSessions
    Existing <- MCExisting
    Controllers <- MCControllers
    MaxFaults = 3
    MaxCrashes = 2
    MaxSignals = 2
INVARIANTS StatusAlwaysWorks
CHECK_DEADLOCK FALSE
SYMMETRY ControllerSymmetry
