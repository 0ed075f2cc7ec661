SPECIFICATION FairSpec
CONSTANTS
    p1 = p1  p2 = p2  p3 = p3
    r1 = r1  r2 = r2
    s1 = s1  s2 = s2  s3 = s3
    Passes = {p1, p3}
    Repos = {r1}
    LaneOf <- MCLaneOf
    RepoOf <- MCRepoOf
    IgnorePause = {p3}
    Sessions = {s1}
    FleetMax = 1
    MaxRequested = 1
    NoPass = NoPass
    NoRepo = NoRepo
PROPERTIES LockFreed PauseQuiesces
