SPECIFICATION FairSpec
CONSTANTS
    task = task  operator = operator  NoOne = NoOne
    Wrappers = {task}
    Scheduled = {task}
    MaxRelaunches = 1
    Grace = 1
    Threshold = 1
    Starve = 1
    MaxMoves = 2
    MaxRequests = 1
    MaxFaults = 2
INVARIANTS TypeOK LockIsInside HealthySpared AskedOnce
PROPERTIES Resupervised RequestHonoured Deployed
