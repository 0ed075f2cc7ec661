SPECIFICATION FairSpec
CONSTANTS
  Limit = 1
  MaxAuto = 1
  MaxRetries = 1
  MaxCommits = 2
  MaxFaults = 2
  MaxCrashes = 1
  MaxCommands = 1
INVARIANTS TypeOK WorkKept TriesBounded
PROPERTIES NoBlindRetry Settles
