SPECIFICATION LiveSpec
CONSTANTS
    Deadline = 6
    Slice = 2
    MaxTime = 9
INVARIANTS AcceptedInTime QueuedInTimeNeverTimesOut NoticedWithinSlice
PROPERTIES WaitEnds
CHECK_DEADLOCK FALSE
