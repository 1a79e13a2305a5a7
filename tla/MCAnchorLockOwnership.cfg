SPECIFICATION RunSpec
CONSTANTS
    a = a
    b = b
    Procs <- Numbers
    Exclusive <- Numbers
    Creators <- Numbers
    Ownership = TRUE
    MaxChanges = 2
    None = None
    MaxStarts = 2
SYMMETRY NumberSymmetry
INVARIANTS OwnershipExclusion AnswerWasTrue
CHECK_DEADLOCK FALSE
