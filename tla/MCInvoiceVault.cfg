SPECIFICATION FairSpec
CONSTANTS
    b = b  o = o  s = s  f1 = f1  f2 = f2  h1 = h1  h2 = h2
    Vault = Vault  Adapter = Adapter  None = None
    Accounts <- MCAccounts
    buyer = b  originatorTreasury = o  initialOriginatorSigner = s
    initialUnits = 3  advanceAmount = 4  faceValue = 4  bondBps = 5000
    protectionEnd = 1  revealPeriod = 1  curePeriod = 1
    Granted <- MCGranted
    Pledges <- MCPledges
    Cancellations <- MCCancellations
    Commitments <- MCCommitments
    Allocations <- MCAllocations
    initialFacilities = {f1, f2}
    Relisted = {f2}
    Deniable <- MCDeniable
    MaxSequence = 3
    MaxTimestamp = 9
    Horizon = 4
CHECK_DEADLOCK FALSE
INVARIANTS AccountingHolds BondMatchesExposure DefaultAlwaysHasAnExit
PROPERTIES EntitledHolderIsPaid
