SPECIFICATION FairSpec
CONSTANTS
  Sessions <- MCSessions
  Results <- MCResults
  IntentTtl = 3
  ConsentTtl = 2
  ResultTtl = 1
  MaxTime = 4
  MaxFaults = 2
INVARIANTS
  RecordedIsNotResent
  EvidenceIsTrue
PROPERTY
  CompletesOrDeadEnds
CHECK_DEADLOCK FALSE
