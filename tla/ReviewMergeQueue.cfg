SPECIFICATION FairSpec
CONSTANTS
    loop = loop
    op = op
    d1 = d1
    d2 = d2
    none = none
    Loop = loop
    Op = op
    Diffs = {d1, d2}
    NoDiff = none
    MaxHead = 2
    MaxCommands = 1
    Commands = {"verdict"}
    Queue = TRUE
    AutoFlag = FALSE
PROPERTIES QueueRevoked MergedSettles
