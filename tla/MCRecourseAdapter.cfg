SPECIFICATION FairSpec
CONSTANTS
    r1 = r1
    r2 = r2
    d1 = d1
    d2 = d2
    alice = alice
    bob = bob
    owner = owner
    facility = facility
    attestor = attestor
    zero = zero
    Zero = zero
    Owner = owner
    Facility = facility
    Attestor = attestor
    Runs <- MCRuns
    Results <- MCResults
    Accounts <- MCAccounts
    Screened <- MCScreened
    Releases <- MCReleases
    Supply = 4
    CureWindow = 1
    MaxTimestamp = 9
    Horizon = 3
INVARIANTS
    Solvent
    PaidExactlyOnce
    NeverStuck
PROPERTIES
    KeepsPromise
    EligibleHolderIsPaid
