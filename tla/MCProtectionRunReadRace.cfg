SPECIFICATION Spec
CONSTANTS
    None = None
    Callers = {c1, c2}
    Operations <- MCPublicRun
    Variants <- MCFixed
    MaxCrashes = 1
    ChildrenFail = FALSE
PROPERTY
    RunningIsNotReconciled
