SPECIFICATION MCSpec
CONSTANTS
  Campaigns <- MCCampaigns
  Outs <- MCOuts
  OutsOf <- MCOutsOf
  FreshFor <- MCFreshFor
  Ceremony = 2
  MaxRuns = 7
  Half = 1
  MaxFlaws = 2
  MaxRehearsals = 3
  Cases = {c1, c2}
  Chain <- MCChain
  CustomLabels <- MCLabels
  MaxPosts = 3
  MaxFaults = 2
  MaxReloads = 2
SYMMETRY MCSymmetry
INVARIANTS
  ArtifactIsTrue
  RehearsalIsTrue
  DoubtIsRetained
  NoBlindMutation
  RecoveryCanComplete
CHECK_DEADLOCK FALSE
