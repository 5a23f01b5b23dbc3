SPECIFICATION Spec
CONSTANTS
    t1 = t1
    t2 = t2
    r1 = r1
    r2 = r2
    n1 = n1
    Dead = Dead
    None = None
    p1 = p1
    p2 = p2
    Procs = {p1, p2}
    Tickets = {t1, t2}
    Claims <- AllClaims
    needs <- MixedNeeds
    Faults = TRUE
    TornAppends = TRUE
    Expiring = {t1}
    Uploaders = {t1, t2}
    MaxCrashes = 3
SYMMETRY MCSymmetry
INVARIANTS
    OwnershipIsWhole
    PublishedIsExact
CHECK_DEADLOCK FALSE
