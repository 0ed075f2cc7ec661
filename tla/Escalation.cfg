SPECIFICATION FairSpec
CONSTANTS
  Mechanical = {"conflict"}
  MaxAuto = 1
  MaxCycles = 0
  MaxLane = 1
  MaxRearms = 1
  MaxVerdicts = 2
  MaxFaults = 1
INVARIANTS TypeOK ClearsBounded
PROPERTIES SweepSparesJudgment RecurrenceSticks ParkedIsShown
