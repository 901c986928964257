SPECIFICATION MCSpec
CONSTANTS
    Attempts = {a1, a2, a3}
    Grades = {first, relaunched}
    NoGrade = NoGrade
    Lease = 1
    MaxClock = 2
    h1 = h1
    h2 = h2
    Sources <- MCSources
    CommandIds = {m1, m2}
    m1 = m1
    m2 = m2
    Handlers = {h1, h2}
    BranchIds = {b1, b2}
    MaxRequests = 2
INVARIANTS
    BranchesAreLimited
SYMMETRY Symmetric
CHECK_DEADLOCK FALSE
