SPECIFICATION MCSpec
CONSTANTS
  Cases <- MCCases
  Wandering <- MCWandering
  Lifetime = 3
  IntentMargin = 2
  FinalMargin = 1
  BundleLifetime = 4
  MaxTime = 3
  MaxExtra = 2
  MaxEdits = 2
  EvidenceCases <- MCEvidenceCases
  RetainedCases <- MCRetainedCases
  CaseLifetime = 1
  CureLength = 3
  LastTime = 3
  Nothing = Nothing
  ZeroDigest = ZeroDigest
  Other = Other
INVARIANTS
  PublishedIsAuthorized
  EvidenceIsOfTheCase
  AcceptedIsOfOneCase
  HonestIsAccepted
CHECK_DEADLOCK FALSE
