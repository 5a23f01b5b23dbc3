SPECIFICATION Spec
CONSTANTS
    None = None
    Callers = {c1}
    Operations <- MCOperations
    Variants <- MCVariants
    MaxCrashes = 1
    ChildrenFail = TRUE
INVARIANTS
    StageIsProven
    RecoveryIsFaithful
    OfferIsAccepted
PROPERTY
    IrreversibleOnce
