SPECIFICATION MCSpec
SYMMETRY MCSymmetry
CONSTANTS
    MaxInterrupts = 2
    MaxSends = 3
    Fragile <- Everywhere
    Rivals <- Contested
    Drops = TRUE
    DemoSteps <- SampleSteps
    Slots = {q1, q2}
    MaxActions = 4
    MaxRpcFaults = 1
    MaxDeaths = 1
    MaxLives = 1
INVARIANTS
    SealedIsOnChain
    ConfirmedIsOnChain
    RepeatedOnlyAfterLoss
CHECK_DEADLOCK FALSE
