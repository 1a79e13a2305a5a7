CONSTANTS
    s1 = s1
    s2 = s2
    m1 = m1
    m2 = m2
    SprintCommits = {s1, s2}
    ManagedCommits = {m1, m2}
    LinkOf <- MCLinkOf
    Branches = {main, other}
    Expected = main
    None = none
    MaxEdits = 3
SPECIFICATION Spec
INVARIANTS VerdictIsTrue
CHECK_DEADLOCK FALSE
