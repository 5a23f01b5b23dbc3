SPECIFICATION Spec
CONSTANTS
    None = None
    Torn = Torn
    p1 = p1
    p2 = p2
    q1 = q1
    q2 = q2
    Requests = {q1, q2}
    Processes = {p1, p2}
    process <- TwoProcesses
    Bodies <- SomeBodies
    Codes = {c1}
    CaseLifetime = 2
    ChallengeLifetime = 1
    MaxTime = 2
    MaxCrashes = 1
    Denials = TRUE
CHECK_DEADLOCK FALSE
INVARIANTS
    LedgerIsSound
    RetryCanComplete
