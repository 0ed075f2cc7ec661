SPECIFICATION Spec
CONSTANTS
    p1 = p1  p2 = p2  p3 = p3
    r1 = r1  r2 = r2
    s1 = s1  s2 = s2  s3 = s3
    Passes = {p1, p2}
    Repos = {r1, r2}
    LaneOf <- MCLaneOf
    RepoOf <- MCRepoOf
    IgnorePause = {}
    Sessions = {s1, s2, s3}
    FleetMax = 2
    MaxRequested = 2
    NoPass = NoPass
    NoRepo = NoRepo
INVARIANTS TypeOK WindowExclusive HolderTruthful LaunchUnderPermit
PROPERTIES BudgetKept
SYMMETRY MCSymmetry
CONSTRAINT MCQuiet
