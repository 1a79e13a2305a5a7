SPECIFICATION Spec
CONSTANTS
    Deadline = 6
    Slice = 2
    MaxTime = 9
INVARIANTS EarlierResponseRetained
CHECK_DEADLOCK FALSE
