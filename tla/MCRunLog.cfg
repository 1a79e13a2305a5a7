SPECIFICATION Spec
CONSTANTS
    w1 = w1
    w2 = w2
    r1 = r1
    run1 = run1
    s1 = s1
    s2 = s2
    null = null
    None = null
    Runs <- MCRuns
    Sessions <- MCSessions
    Writers <- MCWriters
    Readers <- MCReaders
    MaxFaults = 1
    MaxCrashes = 1
    MaxPowerLosses = 1
INVARIANTS TypeOK StateNeverAhead AcknowledgedSurvives UndisturbedIsReadable
PROPERTIES AcceptedOnlyGrows InconsistentEvidenceUntouched ImplementsRecord
SYMMETRY RunLogSymmetry
