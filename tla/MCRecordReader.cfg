SPECIFICATION ReaderSpec
CONSTANTS
    run1 = run1
    s1 = s1
    None = None
    Runs <- MCRuns
    Sessions <- MCSessions
    Run = run1
    Session = s1
    Content <- MCContent
    MaxWrites = 6
    MaxFaults = 0
    MaxPowerLosses = 0
INVARIANTS AcceptanceWasTrue SteadyAnswerIsGiven
CHECK_DEADLOCK FALSE
