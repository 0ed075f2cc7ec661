SPECIFICATION Spec
CONSTANTS
    loop = loop
    op = op
    d1 = d1
    d2 = d2
    none = none
    Loop = loop
    Op = op
    Diffs = {d1, d2}
    NoDiff = none
    MaxHead = 3
    MaxCommands = 2
    Commands = {"verdict", "ship"}
    Queue = FALSE
    AutoFlag = FALSE
SYMMETRY MCSymmetry
INVARIANTS TypeOK StatusMergedIsTrue
PROPERTIES RejectionStands MergeWindow AutomatedVerdictHonest
