SPECIFICATION BridgeSpec
CONSTANTS
    r1 = r1
    d1 = d1
    alice = alice
    bob = bob
    owner = owner
    facility = facility
    attestor = attestor
    zero = zero
    c1 = c1
    e1 = e1
    e2 = e2
    None = None
    Partial = Partial
    Zero = zero
    Owner = owner
    Facility = facility
    Attestor = attestor
    Run = r1
    Result = d1
    Committers = {c1}
    Executors = {e1, e2}
    Runs <- MCRuns
    Results <- MCResults
    Accounts <- MCAccounts
    Screened <- MCScreened
    Releases <- MCReleases
    Profiles <- MCProfiles
    Configurations <- MCConfigurations
    Admitted <- MCAdmitted
    MaxAge = 0
    Supply = 3
    CureWindow = 1
    MaxTimestamp = 9
    Horizon = 1
SYMMETRY MCSymmetry
INVARIANTS
    ChosenBlind
    PaidOnlyAsCommitted
    OneAuthorization
