SPECIFICATION MCSpec
SYMMETRY MCSymmetry
CONSTANTS
    None = None
    Torn = Torn
    Requests = {r1, r2}
    Tokens = {t1, t2}
    Settings <- MCSettings
    MaxActiveCases = 1
    DailyCaseLimit = 2
    Day = 9
    Cooldown = 1
    CaseLifetime = 1
    TokenLifetime = 2
    IssuanceLimit = 2
    IssuanceWindow = 2
    MaxTime = 1
    MaxStops = 2
    MaxRuns = 2
    ViewKinds = {"governed", "coalition"}
    MaxPolls = 2
    FailureLimit = 2
    MaxErrs = 2
    Wallets = {w1, w2}
    NoWallet = NoWallet
    MaxCases = 1
    MaxLaunches = 2
    SilenceLimit = 2
    MaxMisses = 2
CHECK_DEADLOCK FALSE
INVARIANTS
    SingleActiveCase
    ShownIsReleased
    SignedOnce
PROPERTIES
    ShownIsKept
    NeverGoesBack
