SPECIFICATION FairSpec
CONSTANTS
    p1 = p1  p2 = p2
    i1 = i1  i2 = i2
    s1 = s1  s2 = s2  s3 = s3
    Issues = {i1}
    Passes = {p1, p2}
    Sessions = {s1}
    Locked = TRUE
    MayCrash = {p1}
    Cap = 1
    MaxReaps = 0
    Slots = 1
    Claimable = {}
    NoPass = NoPass
    NoIssue = NoIssue
    NoSession = NoSession
    Operator = Operator
INVARIANTS RetriesCapped
PROPERTIES OrphanRecovers
