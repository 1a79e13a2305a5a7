SPECIFICATION Spec
CONSTANTS
    run1 = run1
    s1 = s1
    None = None
    Runs <- MCRuns
    Sessions <- MCSessions
    Content <- MCContent
    MaxWrites = 3
    MaxFaults = 2
    MaxPowerLosses = 1
    MaxLength = 4
    Limits = {9, 10, 13, 14, 15, 16, 17, 18, 19, 20, 21, 22}
    MarkerBytes = 3
INVARIANTS AcknowledgedSurvives ErrorsTellTheTruth TranscriptsAreCutRight
PROPERTIES ImplementsOutcome
CHECK_DEADLOCK FALSE
