SPECIFICATION LiveSpec
CONSTANTS
    a = a
    b = b
    c = c
    Procs <- Everyone
    Exclusive <- Mutators
    Creators <- MCCreators
    Ownership = FALSE
    MaxChanges = 2
INVARIANTS TypeOK ExclusionUnlessBothMoved UndisturbedNeverFails
PROPERTIES NoLockout
