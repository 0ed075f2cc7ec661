SPECIFICATION FairSpec
CONSTANTS
  p1 = p1
  p2 = p2
  PRs = {p1}
  Passes = {"loop", "byhand"}
  Writers = {"w1"}
  MaxHeads = 2
  MaxCommands = 3
INVARIANTS TypeOK CleanMergesQuiet
PROPERTIES BypassAlarms
