---------------------------- MODULE InvoiceVault ----------------------------
(***************************************************************************)
(* MordantInvoiceVault: one invoice tokenised into mINV units, its         *)
(* exclusivity bond, the commit/reveal/cure/finalize machine of a          *)
(* conflicting pledge, and cash or CVA redemption of the units.  Composed  *)
(* with the parts of MordantFactory (the facility allowlist) and of        *)
(* CleanverseCvaAdapter (custody of the CVA) that the vault calls.         *)
(*                                                                         *)
(* One action is one transaction.  The contract ends most transactions     *)
(* with _assertAccounting; the model leaves those assertions out of the    *)
(* guards and states them as the invariant AccountingHolds, so that a      *)
(* transaction the assertion would revert is a violation and not silently  *)
(* disabled.  Settlement tokens reach the vault only through the vault.    *)
(***************************************************************************)
EXTENDS Integers, Sequences, FiniteSets, FiniteSetsExt

CONSTANTS
    Accounts,        \* every externally owned address
    buyer, originatorTreasury, initialOriginatorSigner,
    Vault, Adapter,  \* the addresses of the vault and of its CVA adapter
    None,            \* a deleted or never written slot
    initialUnits, advanceAmount, faceValue, bondBps,
    protectionEnd, revealPeriod, curePeriod,
    Granted,         \* the <<account, role>> grants of the CVI verifier
    Pledges,         \* the signed pledges that may ever be presented
    Cancellations,   \* the signed cancellations that may ever be presented
    Commitments,     \* the commitments that may ever be made
    Allocations,     \* the <<holder, units>> lists activate may be called with
    initialFacilities,  \* the factory's allowlist when the vault is created
    Relisted,        \* bound: the accounts setFacility is called with
    Deniable,        \* the <<kind, account>> answers the policies may deny
    MaxSequence,     \* the largest uint48, scaled down
    MaxTimestamp,    \* the largest uint64, scaled down
    Horizon          \* bound: the last block timestamp explored

BasisPoints == 10000

initialBond == (advanceAmount * bondBps) \div BasisPoints

netProceeds == advanceAmount - initialBond

(* "fits" is the comparison of the root, amount, currency and exclusivity  *)
(* with the vault's own; "signer" is what ECDSA.recover returns and        *)
(* "originatorSigner" what the pledge claims.  The digest of a pledge is   *)
(* the pledge itself, and so is its signature's hash.                      *)
Pledge ==
    [originatorSigner : Accounts, signer : Accounts, facility : Accounts,
     activeFrom : Nat, activeUntil : Nat, nonce : Nat, deadline : Nat,
     fits : BOOLEAN]

Cancellation ==
    [pledge : Pledges, signer : Accounts, nonce : Nat, deadline : Nat]

(* conflictCommitment: a hash that binds a pledge and a facility.  One     *)
(* whose pledge is None is a commitment nobody can open.                   *)
Commitment == [pledge : Pledges \cup {None}, facility : Accounts]

(* What may be denied: "identity" an A-Pass, "cva" the CVA policy towards  *)
(* an account, "cash" the settlement policy towards an account, "burn" the *)
(* minter role or the burn policy of the adapter, "integrity" the CVA      *)
(* supply being what the adapter reports.                                  *)
Kinds == {"identity", "cva", "cash", "burn", "integrity"}

ProtectionStates ==
    {"Unfunded", "Active", "CommitPending", "ConflictConfirmed", "Entitled", "Released"}

ReceivableStates == {"Unissued", "Outstanding", "Redeemed", "DefaultOutstanding"}

ASSUME VaultAssumption ==
    /\ IsFiniteSet(Accounts)
    /\ {buyer, originatorTreasury, initialOriginatorSigner} \subseteq Accounts
    /\ buyer \notin {originatorTreasury, initialOriginatorSigner}
    /\ initialFacilities \subseteq Accounts \ {buyer, originatorTreasury, initialOriginatorSigner}
    /\ Relisted \subseteq Accounts
    /\ {Vault, Adapter, None} \cap Accounts = {}
    /\ initialUnits \in Nat \ {0} /\ advanceAmount \in Nat \ {0}
    /\ faceValue \in Nat /\ faceValue >= advanceAmount /\ faceValue >= initialUnits
    /\ bondBps \in 1..(BasisPoints - 1)
    /\ initialBond # 0
    /\ {protectionEnd, revealPeriod, curePeriod} \subseteq Nat \ {0}
    /\ Granted \subseteq Accounts \X {"Buyer", "Originator", "Facility", "Holder"}
    /\ Pledges \subseteq Pledge
    /\ Cancellations \subseteq Cancellation
    /\ Commitments \subseteq Commitment
    /\ Deniable \subseteq Kinds \X (Accounts \cup {Vault, Adapter})
    /\ Allocations \subseteq Seq((Accounts \cup {Vault, Adapter}) \X Nat)
    /\ MaxSequence \in Nat /\ MaxTimestamp \in Nat /\ Horizon \in 0..MaxTimestamp

VARIABLES
    now, denied,
    isFacility,                          \* MordantFactory's allowlist
    custodyCredit, cvaSupply,            \* CleanverseCvaAdapter and its A-Token
    protectionState, receivableState, pendingConflict,
    authorizedOriginator, usedPledgeDigest, usedPledgeNonce,
    usedCancellationNonce, protectedPledge,
    sequence, balanceOf, totalSupply, balanceCheckpoints, supplyCheckpoints,
    cvaAccounted, cvaBurned,
    bondLocked, bondReturned,
    entitlementAllocated, entitlementClaimed, entitlementClaimedUnits,
    entitlementSnapshotSequence, entitlementSnapshotSupply, bondClaimedBy,
    redemptionEscrow, redeemedFace, cvaReleasedFace, defaultCvaReleaseStarted,
    settlementCredit, settlementCreditTotal,
    cash                                 \* settlementToken.balanceOf(vault)

envVars         == <<now, denied, isFacility>>
stateVars       == <<protectionState, receivableState, pendingConflict>>
pledgeVars      == <<usedPledgeDigest, usedPledgeNonce, usedCancellationNonce,
                     protectedPledge>>
unitVars        == <<sequence, balanceOf, totalSupply, balanceCheckpoints,
                     supplyCheckpoints>>
cvaVars         == <<custodyCredit, cvaSupply, cvaAccounted, cvaBurned>>
bondVars        == <<bondLocked, bondReturned>>
entitlementVars == <<entitlementAllocated, entitlementClaimed,
                     entitlementClaimedUnits, entitlementSnapshotSequence,
                     entitlementSnapshotSupply, bondClaimedBy>>
redemptionVars  == <<redemptionEscrow, redeemedFace, cvaReleasedFace,
                     defaultCvaReleaseStarted>>
creditVars      == <<settlementCredit, settlementCreditTotal>>
moneyVars       == <<bondVars, entitlementVars, redemptionVars, creditVars, cash>>
vars == <<envVars, stateVars, authorizedOriginator, pledgeVars, unitVars,
          cvaVars, moneyVars>>

NoConflict ==
    [commitment |-> None, facility |-> None, snapshotSequence |-> 0,
     snapshotSupply |-> 0, snapshotBond |-> 0, committedAt |-> 0,
     revealDeadline |-> 0, cureDeadline |-> 0, conflictingPledge |-> None]

Init ==
    /\ now = 0 /\ denied = {}
    /\ isFacility = initialFacilities
    /\ custodyCredit = 0 /\ cvaSupply = initialUnits
    /\ protectionState = "Unfunded" /\ receivableState = "Unissued"
    /\ pendingConflict = NoConflict
    /\ authorizedOriginator = {initialOriginatorSigner}
    /\ usedPledgeDigest = {} /\ usedPledgeNonce = {} /\ usedCancellationNonce = {}
    /\ protectedPledge = None
    /\ sequence = 0 /\ totalSupply = 0
    /\ balanceOf = [a \in Accounts |-> 0]
    /\ balanceCheckpoints = [a \in Accounts |-> << >>]
    /\ supplyCheckpoints = << >>
    /\ cvaAccounted = 0 /\ cvaBurned = 0
    /\ bondLocked = 0 /\ bondReturned = 0
    /\ entitlementAllocated = 0 /\ entitlementClaimed = 0
    /\ entitlementClaimedUnits = 0 /\ entitlementSnapshotSequence = 0
    /\ entitlementSnapshotSupply = 0 /\ bondClaimedBy = {}
    /\ redemptionEscrow = 0 /\ redeemedFace = 0 /\ cvaReleasedFace = 0
    /\ defaultCvaReleaseStarted = FALSE
    /\ settlementCredit = [a \in Accounts |-> 0] /\ settlementCreditTotal = 0
    /\ cash = 0

-----------------------------------------------------------------------------
(* What the vault asks the verifier and the adapter.  The policies' answers *)
(* do not depend on the amount; a denial between two holders is a denial   *)
(* of the transfer, which nobody is obliged to make anyway.                *)

Allows(kind, account) == <<kind, account>> \notin denied

isEligible(account, role) ==
    <<account, role>> \in Granted /\ Allows("identity", account)

requireHolderRole(account) ==
    /\ isEligible(account, "Holder")
    /\ account \notin {buyer, originatorTreasury} \cup authorizedOriginator \cup isFacility

requireHolder(account) ==
    requireHolderRole(account) /\ Allows("cva", account)

requireSettlementIdentity == Allows("identity", Vault)

transferAllowed(recipient) ==
    requireSettlementIdentity /\ Allows("cash", recipient)

(* isRedemptionReady, and what consumeOnRedemption checks again. *)
isRedemptionReady(units) ==
    /\ units # 0 /\ units <= custodyCredit
    /\ Allows("identity", Adapter) /\ Allows("burn", Adapter)

isCashRedemptionReady ==
    custodyCredit # 0 /\ Allows("identity", Adapter) /\ Allows("burn", Adapter)

isActivationReady == isCashRedemptionReady /\ cvaSupply = custodyCredit

(* _assertCvaIntegrity, as far as it depends on somebody else minting or   *)
(* burning CVA.  Its other half is part of AccountingHolds.                *)
cvaIntegrity == Allows("integrity", Adapter)

-----------------------------------------------------------------------------
(* Arithmetic.                                                             *)

mulDiv(a, b, c) == (a * b) \div c

requiredBond(supply) ==
    mulDiv(initialBond, supply, initialUnits)
        + (IF (initialBond * supply) % initialUnits # 0 THEN 1 ELSE 0)

remainingFace == faceValue - redeemedFace - cvaReleasedFace

(* Mistake: the last units are paid by the rounded rate like any others.   *)
faceAmountRounded(units) == mulDiv(faceValue, units, initialUnits)

(* _faceAmount: the last units take whatever the roundings left. *)
faceAmount(units) ==
    IF units = totalSupply THEN remainingFace
    ELSE mulDiv(faceValue, units, initialUnits)

-----------------------------------------------------------------------------
(* Checkpoints.                                                            *)

(* Mistakes, here and below, are variants no transaction uses: the runs    *)
(* substitute them to show that a property would notice.                   *)

(* Mistake: the latest checkpoint is always overwritten.                   *)
overwriteCheckpoint(checkpoints, at, value) ==
    IF checkpoints = << >> THEN <<[sequence |-> at, balance |-> value]>>
    ELSE [checkpoints EXCEPT ![Len(checkpoints)] = [sequence |-> at, balance |-> value]]

writeCheckpoint(checkpoints, at, value) ==
    LET entry == [sequence |-> at, balance |-> value]
        n     == Len(checkpoints)
    IN  IF n # 0 /\ checkpoints[n].sequence = at
        THEN [checkpoints EXCEPT ![n] = entry]
        ELSE Append(checkpoints, entry)

(* Mistake: the search stops before a checkpoint made at "at" itself.      *)
lookupBefore(checkpoints, at) ==
    LET earlier == {i \in 1..Len(checkpoints) : checkpoints[i].sequence < at}
    IN  IF earlier = {} THEN 0 ELSE checkpoints[Max(earlier)].balance

(* _lookup: the binary search for the last checkpoint not after "at". *)
lookup(checkpoints, at) ==
    LET Bounds == 0..Len(checkpoints)
        search[window \in Bounds \X Bounds] ==
            LET low  == window[1]
                high == window[2]
                mid  == (low + high) \div 2
            IN
            IF low >= high THEN high
            ELSE IF checkpoints[mid + 1].sequence > at THEN search[<<low, mid>>]
            ELSE search[<<mid + 1, high>>]
        found == search[<<0, Len(checkpoints)>>]
    IN  IF found = 0 THEN 0 ELSE checkpoints[found].balance

balanceAt(holder, at) == lookup(balanceCheckpoints[holder], at)

totalSupplyAt(at) == lookup(supplyCheckpoints, at)

(* _update after its checks: new balances and supply under a new sequence  *)
(* number, checkpointed for every account touched.                         *)
recordBalances(touched, balances, supply) ==
    /\ sequence < MaxSequence
    /\ sequence' = sequence + 1
    /\ balanceOf' = balances
    /\ totalSupply' = supply
    /\ balanceCheckpoints' = [a \in Accounts |->
            IF a \in touched
            THEN writeCheckpoint(balanceCheckpoints[a], sequence + 1, balances[a])
            ELSE balanceCheckpoints[a]]
    /\ supplyCheckpoints' = writeCheckpoint(supplyCheckpoints, sequence + 1, supply)

burnUnits(holder, units) ==
    recordBalances({holder}, [balanceOf EXCEPT ![holder] = @ - units],
                   totalSupply - units)

-----------------------------------------------------------------------------
(* The money helpers.                                                      *)

(* Mistake: the refund is not entered in the total.                        *)
creditOutsideTotal(refund, bond) ==
    /\ settlementCredit' = [settlementCredit EXCEPT
            ![buyer] = @ + refund, ![originatorTreasury] = @ + bond]
    /\ settlementCreditTotal' = settlementCreditTotal + bond

(* _creditSettlement for the two beneficiaries that are only ever credited. *)
creditSettlement(refund, bond) ==
    /\ settlementCredit' = [settlementCredit EXCEPT
            ![buyer] = @ + refund, ![originatorTreasury] = @ + bond]
    /\ settlementCreditTotal' = settlementCreditTotal + refund + bond

(* Mistake: a redemption also frees the bond of a pending conflict.        *)
excessBondAlways(state, supply) ==
    IF bondLocked > requiredBond(supply) THEN bondLocked - requiredBond(supply) ELSE 0

(* _releaseExcessBond: what is locked above the requirement, if Active. *)
excessBond(state, supply) ==
    IF state = "Active" /\ bondLocked > requiredBond(supply)
    THEN bondLocked - requiredBond(supply) ELSE 0

(* Mistake: the bond credited to the originator stays locked.              *)
returnBondTwice(amount) ==
    /\ bondLocked' = bondLocked
    /\ bondReturned' = bondReturned + amount

returnBond(amount) ==
    /\ bondLocked' = bondLocked - amount
    /\ bondReturned' = bondReturned + amount

(* _refundExcessRedemptionEscrow, after "paid" left the escrow and the     *)
(* liability fell by "discharged".                                         *)
excessEscrow(paid, discharged) ==
    LET excess == (redemptionEscrow - paid) - (remainingFace - discharged)
    IN  IF excess > 0 THEN excess ELSE 0

-----------------------------------------------------------------------------
(* Set-up: custody, roles, activation.                                     *)

(* CleanverseCvaAdapter.bindVault: once; a bound adapter has credit until  *)
(* the vault, by then activated, consumes it.                              *)
bindVault ==
    /\ custodyCredit = 0 /\ protectionState = "Unfunded"
    /\ Allows("identity", Adapter) /\ Allows("burn", Adapter) /\ cvaIntegrity
    /\ custodyCredit' = initialUnits
    /\ UNCHANGED <<envVars, stateVars, authorizedOriginator, pledgeVars, unitVars,
                   cvaSupply, cvaAccounted, cvaBurned, moneyVars>>

(* MordantFactory.setFacility, by the factory's owner, at any time. *)
setFacility(facility, enabled) ==
    /\ enabled => isEligible(facility, "Facility")
    /\ isFacility' = IF enabled THEN isFacility \cup {facility}
                     ELSE isFacility \ {facility}
    /\ UNCHANGED <<now, denied, stateVars, authorizedOriginator, pledgeVars,
                   unitVars, cvaVars, moneyVars>>

authorizeOriginatorWallet(caller, signer) ==
    /\ caller = buyer
    /\ isEligible(buyer, "Buyer")
    /\ isEligible(signer, "Originator")
    /\ signer # buyer /\ signer \notin isFacility
    /\ balanceOf[signer] = 0
    /\ protectionState # "Unfunded" => cvaIntegrity
    /\ authorizedOriginator' = authorizedOriginator \cup {signer}
    /\ UNCHANGED <<envVars, stateVars, pledgeVars, unitVars, cvaVars, moneyVars>>

(* _validatePledge *)
validatePledge(pledge, facilityCaller, validAt) ==
    /\ pledge.fits
    /\ pledge.facility = facilityCaller
    /\ pledge.activeFrom <= validAt /\ validAt < pledge.activeUntil
    /\ validAt <= pledge.deadline
    /\ pledge.originatorSigner \in authorizedOriginator
    /\ facilityCaller \in isFacility
    /\ facilityCaller \notin {buyer, originatorTreasury} \cup authorizedOriginator
    /\ isEligible(pledge.originatorSigner, "Originator")
    /\ isEligible(facilityCaller, "Facility")
    /\ pledge.signer = pledge.originatorSigner

pledgeUnused(pledge) ==
    /\ pledge \notin usedPledgeDigest
    /\ <<pledge.originatorSigner, pledge.nonce>> \notin usedPledgeNonce

usePledge(pledge) ==
    /\ usedPledgeDigest' = usedPledgeDigest \cup {pledge}
    /\ usedPledgeNonce' =
            usedPledgeNonce \cup {<<pledge.originatorSigner, pledge.nonce>>}

(* The running total of an allocation list: what the supply is after each  *)
(* of activate's mints, none of which is larger than the custody credit.   *)
runningTotal(allocation) ==
    [i \in 0..Len(allocation) |->
        Cardinality({u \in (1..i) \X (1..initialUnits) : u[2] <= allocation[u[1]][2]})]

activate(caller, pledge, funder, allocation) ==
    LET n       == Len(allocation)
        total   == runningTotal(allocation)
        lot(a)  == {i \in 1..n : allocation[i][1] = a}
        mint(a) == CHOOSE i \in lot(a) : TRUE
    IN
    /\ protectionState = "Unfunded" /\ receivableState = "Unissued"
    /\ n # 0
    /\ validatePledge(pledge, caller, now)
    /\ pledge.activeUntil >= protectionEnd
    /\ pledgeUnused(pledge)
    /\ custodyCredit = initialUnits /\ cvaSupply = initialUnits /\ cvaIntegrity
    /\ isActivationReady
    /\ requireSettlementIdentity
    /\ requireHolderRole(funder)
    /\ \A i \in 1..n : /\ allocation[i][2] # 0
                       /\ lot(allocation[i][1]) = {i}
                       /\ requireHolder(allocation[i][1])
                       /\ isRedemptionReady(allocation[i][2])
    /\ total[n] = initialUnits
    /\ netProceeds # 0 => transferAllowed(originatorTreasury)
    /\ sequence + n <= MaxSequence
    /\ usePledge(pledge)
    /\ protectedPledge' = pledge
    /\ cvaAccounted' = initialUnits
    /\ bondLocked' = initialBond
    /\ protectionState' = "Active"
    /\ receivableState' = "Outstanding"
    /\ sequence' = sequence + n
    /\ totalSupply' = initialUnits
    /\ balanceOf' = [a \in Accounts |->
            IF lot(a) = {} THEN 0 ELSE allocation[mint(a)][2]]
    /\ balanceCheckpoints' = [a \in Accounts |->
            IF lot(a) = {} THEN << >>
            ELSE writeCheckpoint(<< >>, sequence + mint(a), allocation[mint(a)][2])]
    /\ supplyCheckpoints' = [i \in 1..n |->
            [sequence |-> sequence + i, balance |-> total[i]]]
    /\ cash' = cash + advanceAmount - netProceeds
    /\ UNCHANGED <<envVars, pendingConflict, authorizedOriginator,
                   usedCancellationNonce, custodyCredit, cvaSupply, cvaBurned,
                   bondReturned, entitlementVars, redemptionVars, creditVars>>

(* ERC20 transfer (and transferFrom) between holders: _update's first branch. *)
transfer(from, to, value) ==
    /\ value <= balanceOf[from]
    /\ cvaIntegrity
    /\ receivableState \in {"Outstanding", "DefaultOutstanding"}
    /\ requireHolderRole(from)
    /\ requireHolder(to)
    /\ recordBalances({from, to},
            [a \in Accounts |->
                balanceOf[a] - (IF a = from THEN value ELSE 0)
                             + (IF a = to THEN value ELSE 0)],
            totalSupply)
    /\ UNCHANGED <<envVars, stateVars, authorizedOriginator, pledgeVars, cvaVars,
                   moneyVars>>

-----------------------------------------------------------------------------
(* The protection: commit, reveal, then expire, cure or finalize, claim.   *)

commitConflict(caller, commitment) ==
    /\ cvaIntegrity
    /\ protectionState = "Active"
    /\ now <= protectionEnd
    /\ caller # protectedPledge.facility
    /\ caller \notin {buyer, originatorTreasury} \cup authorizedOriginator
    /\ caller \in isFacility
    /\ isEligible(caller, "Facility")
    /\ totalSupply # 0
    /\ bondLocked >= requiredBond(totalSupply)
    /\ now + revealPeriod <= MaxTimestamp            \* checked uint64 addition
    /\ pendingConflict' =
            [commitment |-> commitment, facility |-> caller,
             snapshotSequence |-> sequence, snapshotSupply |-> totalSupply,
             snapshotBond |-> requiredBond(totalSupply), committedAt |-> now,
             revealDeadline |-> now + revealPeriod, cureDeadline |-> 0,
             conflictingPledge |-> None]
    /\ protectionState' = "CommitPending"
    /\ UNCHANGED <<envVars, receivableState, authorizedOriginator, pledgeVars,
                   unitVars, cvaVars, moneyVars>>

revealConflict(caller, pledge) ==
    /\ cvaIntegrity
    /\ protectionState = "CommitPending"
    /\ caller = pendingConflict.facility
    /\ now <= pendingConflict.revealDeadline
    /\ validatePledge(pledge, caller, pendingConflict.committedAt)
    /\ pendingConflict.commitment = [pledge |-> pledge, facility |-> caller]
    /\ caller # protectedPledge.facility
    /\ pledge.activeFrom < protectedPledge.activeUntil
    /\ protectedPledge.activeFrom < pledge.activeUntil
    /\ pledgeUnused(pledge)
    /\ now + curePeriod <= MaxTimestamp              \* checked uint64 addition
    /\ usePledge(pledge)
    /\ pendingConflict' = [pendingConflict EXCEPT
            !.conflictingPledge = pledge, !.cureDeadline = now + curePeriod]
    /\ protectionState' = "ConflictConfirmed"
    /\ UNCHANGED <<envVars, receivableState, authorizedOriginator,
                   usedCancellationNonce, protectedPledge, unitVars, cvaVars,
                   moneyVars>>

(* What expireCommit and cureConflict share: back to Active, and the bond  *)
(* catches up with the units redeemed in the meantime.                     *)
reactivate ==
    /\ cvaIntegrity
    /\ pendingConflict' = NoConflict
    /\ protectionState' = "Active"
    /\ returnBond(excessBond("Active", totalSupply))
    /\ creditSettlement(0, excessBond("Active", totalSupply))
    /\ UNCHANGED <<envVars, receivableState, authorizedOriginator,
                   usedPledgeDigest, usedPledgeNonce, protectedPledge, unitVars,
                   cvaVars, entitlementVars, redemptionVars, cash>>

(* Mistake: only a commit of a listed facility can expire.                 *)
expireListedCommit ==
    /\ protectionState = "CommitPending"
    /\ now > pendingConflict.revealDeadline
    /\ pendingConflict.facility \in isFacility
    /\ reactivate
    /\ UNCHANGED usedCancellationNonce

expireCommit ==
    /\ protectionState = "CommitPending"
    /\ now > pendingConflict.revealDeadline
    /\ reactivate
    /\ UNCHANGED usedCancellationNonce

cureConflict(caller, cancellation) ==
    LET conflictSigner == pendingConflict.conflictingPledge.originatorSigner IN
    /\ protectionState = "ConflictConfirmed"
    /\ caller = pendingConflict.facility
    /\ isEligible(caller, "Facility")
    /\ now <= pendingConflict.cureDeadline /\ now <= cancellation.deadline
    /\ cancellation.pledge = pendingConflict.conflictingPledge
    /\ <<conflictSigner, cancellation.nonce>> \notin usedCancellationNonce
    /\ cancellation.signer = conflictSigner
    /\ usedCancellationNonce' =
            usedCancellationNonce \cup {<<conflictSigner, cancellation.nonce>>}
    /\ reactivate

(* Mistake: what is still locked above the new requirement goes back to    *)
(* the originator and only the rest is allocated.                          *)
finalizeCurrentExposure ==
    LET exposed == requiredBond(totalSupply) IN
    /\ protectionState = "ConflictConfirmed"
    /\ now > pendingConflict.cureDeadline
    /\ cvaIntegrity
    /\ entitlementSnapshotSequence' = pendingConflict.snapshotSequence
    /\ entitlementSnapshotSupply' = pendingConflict.snapshotSupply
    /\ entitlementAllocated' = exposed
    /\ bondLocked' = 0
    /\ bondReturned' = bondReturned + bondLocked - exposed
    /\ pendingConflict' = NoConflict
    /\ protectionState' = "Entitled"
    /\ creditSettlement(0, bondLocked - exposed)
    /\ UNCHANGED <<envVars, receivableState, authorizedOriginator, pledgeVars,
                   unitVars, cvaVars, entitlementClaimed,
                   entitlementClaimedUnits, bondClaimedBy, redemptionVars, cash>>

finalizeConflict ==
    /\ protectionState = "ConflictConfirmed"
    /\ now > pendingConflict.cureDeadline
    /\ pendingConflict.snapshotBond <= bondLocked /\ entitlementAllocated = 0
    /\ cvaIntegrity
    /\ entitlementSnapshotSequence' = pendingConflict.snapshotSequence
    /\ entitlementSnapshotSupply' = pendingConflict.snapshotSupply
    /\ entitlementAllocated' = pendingConflict.snapshotBond
    /\ bondLocked' = bondLocked - pendingConflict.snapshotBond
    /\ pendingConflict' = NoConflict
    /\ protectionState' = "Entitled"
    /\ UNCHANGED <<envVars, receivableState, authorizedOriginator, pledgeVars,
                   unitVars, cvaVars, bondReturned, entitlementClaimed,
                   entitlementClaimedUnits, bondClaimedBy, redemptionVars,
                   creditVars, cash>>

(* Mistake: the last claim is rounded down like the others.                *)
claimAmountRounded(units) ==
    mulDiv(entitlementAllocated, units, entitlementSnapshotSupply)

(* The last claimant takes what the roundings of the others left. *)
claimAmount(units) ==
    IF entitlementClaimedUnits + units = entitlementSnapshotSupply
    THEN entitlementAllocated - entitlementClaimed
    ELSE mulDiv(entitlementAllocated, units, entitlementSnapshotSupply)

(* Mistake: only an account that still holds units may claim.              *)
mayClaimAsHolder(caller, units) ==
    /\ protectionState = "Entitled"
    /\ caller \notin bondClaimedBy
    /\ units # 0 /\ balanceOf[caller] # 0
    /\ requireHolderRole(caller)
    /\ entitlementClaimedUnits + units <= entitlementSnapshotSupply
    /\ claimAmount(units) # 0 => transferAllowed(caller)
    /\ cvaIntegrity

mayClaimBond(caller, units) ==
    /\ protectionState = "Entitled"
    /\ caller \notin bondClaimedBy
    /\ units # 0
    /\ requireHolderRole(caller)
    /\ entitlementClaimedUnits + units <= entitlementSnapshotSupply
    /\ claimAmount(units) # 0 => transferAllowed(caller)
    /\ cvaIntegrity

claimBond(caller) ==
    LET units  == balanceAt(caller, entitlementSnapshotSequence)
        amount == claimAmount(units)
    IN
    /\ mayClaimBond(caller, units)
    /\ bondClaimedBy' = bondClaimedBy \cup {caller}
    /\ entitlementClaimedUnits' = entitlementClaimedUnits + units
    /\ entitlementClaimed' = entitlementClaimed + amount
    /\ cash' = cash - amount
    /\ UNCHANGED <<envVars, stateVars, authorizedOriginator, pledgeVars, unitVars,
                   cvaVars, bondVars, entitlementAllocated,
                   entitlementSnapshotSequence, entitlementSnapshotSupply,
                   redemptionVars, creditVars>>

-----------------------------------------------------------------------------
(* The receivable: funding, cash redemption, default, CVA release.         *)

fundRedemption(caller, amount) ==
    LET unfunded == remainingFace - redemptionEscrow IN
    /\ caller = buyer
    /\ cvaIntegrity
    /\ receivableState \in {"Outstanding", "DefaultOutstanding"}
    /\ amount # 0
    /\ receivableState = "DefaultOutstanding" => amount = unfunded
    /\ amount <= unfunded
    /\ isCashRedemptionReady
    /\ requireSettlementIdentity
    /\ redemptionEscrow' = redemptionEscrow + amount
    /\ cash' = cash + amount
    /\ UNCHANGED <<envVars, stateVars, authorizedOriginator, pledgeVars, unitVars,
                   cvaVars, bondVars, entitlementVars, redeemedFace,
                   cvaReleasedFace, defaultCvaReleaseStarted, creditVars>>

claimSettlementCredit(caller) ==
    LET amount == settlementCredit[caller] IN
    /\ amount # 0
    /\ transferAllowed(caller)
    /\ cvaIntegrity
    /\ settlementCredit' = [settlementCredit EXCEPT ![caller] = 0]
    /\ settlementCreditTotal' = settlementCreditTotal - amount
    /\ cash' = cash - amount
    /\ UNCHANGED <<envVars, stateVars, authorizedOriginator, pledgeVars, unitVars,
                   cvaVars, bondVars, entitlementVars, redemptionVars>>

(* Mistake: the units are checked against the supply, not the balance.     *)
mayRedeemOthers(caller, units) ==
    /\ receivableState \in {"Outstanding", "DefaultOutstanding"}
    /\ units # 0 /\ units <= totalSupply
    /\ requireHolderRole(caller)
    /\ faceAmount(units) <= redemptionEscrow
    /\ isRedemptionReady(units)
    /\ faceAmount(units) # 0 => transferAllowed(caller)
    /\ cvaIntegrity

mayRedeem(caller, units) ==
    /\ receivableState \in {"Outstanding", "DefaultOutstanding"}
    /\ units # 0 /\ units <= balanceOf[caller]
    /\ requireHolderRole(caller)
    /\ faceAmount(units) <= redemptionEscrow
    /\ units <= cvaAccounted
    /\ isRedemptionReady(units)
    /\ faceAmount(units) # 0 => transferAllowed(caller)
    /\ cvaIntegrity

redeem(caller, units) ==
    LET amount == faceAmount(units)
        refund == excessEscrow(amount, amount)
        excess == excessBond(protectionState, totalSupply - units)
        last   == units = totalSupply
    IN
    /\ mayRedeem(caller, units)
    /\ burnUnits(caller, units)
    /\ custodyCredit' = custodyCredit - units
    /\ cvaSupply' = cvaSupply - units
    /\ cvaAccounted' = cvaAccounted - units
    /\ cvaBurned' = cvaBurned + units
    /\ redeemedFace' = redeemedFace + amount
    /\ redemptionEscrow' = redemptionEscrow - amount - refund
    /\ cash' = cash - amount
    /\ returnBond(excess)
    /\ creditSettlement(refund, excess)
    /\ protectionState' = IF last /\ protectionState = "Active" THEN "Released"
                          ELSE protectionState
    /\ receivableState' = IF last THEN "Redeemed" ELSE receivableState
    /\ UNCHANGED <<envVars, pendingConflict, authorizedOriginator, pledgeVars,
                   entitlementVars, cvaReleasedFace, defaultCvaReleaseStarted>>

closeProtection ==
    /\ cvaIntegrity
    /\ protectionState = "Active"
    /\ totalSupply # 0 => now > protectionEnd
    /\ receivableState' = IF totalSupply # 0 THEN "DefaultOutstanding" ELSE "Redeemed"
    /\ returnBond(bondLocked)
    /\ creditSettlement(0, bondLocked)
    /\ protectionState' = "Released"
    /\ UNCHANGED <<envVars, pendingConflict, authorizedOriginator, pledgeVars,
                   unitVars, cvaVars, entitlementVars, redemptionVars, cash>>

markDefault ==
    /\ cvaIntegrity
    /\ protectionState = "Entitled"
    /\ receivableState = "Outstanding"
    /\ now > protectionEnd
    /\ receivableState' = "DefaultOutstanding"
    /\ UNCHANGED <<envVars, protectionState, pendingConflict, authorizedOriginator,
                   pledgeVars, unitVars, cvaVars, moneyVars>>

(* Mistake: a funded escrow counts as cash whatever the policies say.      *)
escrowCovers(holder) == redemptionEscrow >= faceAmount(balanceOf[holder])

(* The holder's whole position could be redeemed for cash right now. *)
cashIsAvailable(holder) ==
    /\ redemptionEscrow >= faceAmount(balanceOf[holder])
    /\ isRedemptionReady(balanceOf[holder])
    /\ Allows("cash", holder)

mayReleaseCva(caller, units) ==
    /\ receivableState = "DefaultOutstanding"
    /\ units # 0 /\ units <= balanceOf[caller] /\ units <= cvaAccounted
    /\ requireHolder(caller)
    /\ ~cashIsAvailable(caller)
    /\ units <= custodyCredit /\ Allows("identity", Adapter)   \* releaseOnDefault
    /\ cvaIntegrity

releaseDefaultCva(caller, units) ==
    LET releasedFace == faceAmount(units)
        refund       == excessEscrow(0, releasedFace)
    IN
    /\ mayReleaseCva(caller, units)
    /\ burnUnits(caller, units)
    /\ defaultCvaReleaseStarted' = TRUE
    /\ custodyCredit' = custodyCredit - units
    /\ cvaAccounted' = cvaAccounted - units
    /\ cvaReleasedFace' = cvaReleasedFace + releasedFace
    /\ redemptionEscrow' = redemptionEscrow - refund
    /\ creditSettlement(refund, 0)
    /\ receivableState' = IF units = totalSupply THEN "Redeemed" ELSE receivableState
    /\ UNCHANGED <<envVars, protectionState, pendingConflict, authorizedOriginator,
                   pledgeVars, cvaSupply, cvaBurned, bondVars, entitlementVars,
                   redeemedFace, cash>>

-----------------------------------------------------------------------------
(* The environment: blocks advance, and the policies change their answers. *)

Tick ==
    /\ now < Horizon
    /\ now' = now + 1
    /\ UNCHANGED <<denied, isFacility, stateVars, authorizedOriginator, pledgeVars,
                   unitVars, cvaVars, moneyVars>>

changePolicy(answer) ==
    /\ denied' = IF answer \in denied THEN denied \ {answer} ELSE denied \cup {answer}
    /\ UNCHANGED <<now, isFacility, stateVars, authorizedOriginator, pledgeVars,
                   unitVars, cvaVars, moneyVars>>

Next ==
    \/ bindVault
    \/ \E f \in Relisted, enabled \in BOOLEAN : setFacility(f, enabled)
    \/ \E caller, signer \in Accounts : authorizeOriginatorWallet(caller, signer)
    \/ \E caller, funder \in Accounts, p \in Pledges, a \in Allocations :
            activate(caller, p, funder, a)
    \/ \E from, to \in Accounts, value \in 0..initialUnits : transfer(from, to, value)
    \/ \E caller \in Accounts, c \in Commitments : commitConflict(caller, c)
    \/ \E caller \in Accounts, p \in Pledges : revealConflict(caller, p)
    \/ expireCommit
    \/ \E caller \in Accounts, c \in Cancellations : cureConflict(caller, c)
    \/ finalizeConflict
    \/ \E caller \in Accounts : claimBond(caller) \/ claimSettlementCredit(caller)
    \/ \E caller \in Accounts, amount \in 0..faceValue : fundRedemption(caller, amount)
    \/ \E caller \in Accounts, units \in 0..initialUnits :
            redeem(caller, units) \/ releaseDefaultCva(caller, units)
    \/ closeProtection
    \/ markDefault
    \/ Tick
    \/ \E answer \in Deniable : changePolicy(answer)

Spec == Init /\ [][Next]_vars

(* Time passes.  expireCommit, finalizeConflict and closeProtection are    *)
(* permissionless and each pays somebody, and a holder claims its bond.    *)
Fairness ==
    /\ WF_vars(Tick)
    /\ WF_vars(expireCommit) /\ WF_vars(finalizeConflict) /\ WF_vars(closeProtection)
    /\ \A a \in Accounts : WF_vars(claimBond(a))

FairSpec == Spec /\ Fairness

-----------------------------------------------------------------------------
(* Correctness.                                                            *)

Conflict ==
    [commitment : Commitment \cup {None}, facility : Accounts \cup {None},
     snapshotSequence : 0..MaxSequence, snapshotSupply : 0..initialUnits,
     snapshotBond : 0..initialBond, committedAt : Nat, revealDeadline : Nat,
     cureDeadline : Nat, conflictingPledge : Pledges \cup {None}]

Checkpoint == [sequence : 0..MaxSequence, balance : 0..initialUnits]

(* Every variable keeps its type; no counter goes below zero.              *)
TypeOK ==
    /\ now \in 0..Horizon /\ denied \subseteq Deniable /\ isFacility \subseteq Accounts
    /\ {custodyCredit, cvaSupply, cvaAccounted, cvaBurned, totalSupply} \subseteq 0..initialUnits
    /\ protectionState \in ProtectionStates /\ receivableState \in ReceivableStates
    /\ pendingConflict \in Conflict
    /\ authorizedOriginator \subseteq Accounts /\ usedPledgeDigest \subseteq Pledges
    /\ protectedPledge \in Pledges \cup {None}
    /\ sequence \in 0..MaxSequence
    /\ balanceOf \in [Accounts -> 0..initialUnits]
    /\ balanceCheckpoints \in [Accounts -> Seq(Checkpoint)]
    /\ supplyCheckpoints \in Seq(Checkpoint)
    /\ {bondLocked, bondReturned, entitlementAllocated, entitlementClaimed}
            \subseteq 0..initialBond
    /\ {entitlementClaimedUnits, entitlementSnapshotSupply} \subseteq 0..initialUnits
    /\ entitlementSnapshotSequence \in 0..MaxSequence
    /\ bondClaimedBy \subseteq Accounts
    /\ {redemptionEscrow, redeemedFace, cvaReleasedFace} \subseteq 0..faceValue
    /\ defaultCvaReleaseStarted \in BOOLEAN
    /\ settlementCredit \in [Accounts -> Nat] /\ settlementCreditTotal \in Nat
    /\ cash \in Nat

(* One element per mINV unit held: a sum of balances is a cardinality.     *)
unitsOf(balances) == {u \in Accounts \X (1..initialUnits) : u[2] <= balances[u[1]]}

accountedSettlementBalance ==
    bondLocked + (entitlementAllocated - entitlementClaimed) + redemptionEscrow
        + settlementCreditTotal

(* Everything _assertAccounting and _assertCvaIntegrity demand, which no   *)
(* transaction can therefore ever trip over, and more: every token in the  *)
(* vault is owed to somebody, every credit is in the total, and only the   *)
(* buyer and the originator are ever credited.                             *)
AccountingHolds ==
    /\ cvaSupply = initialUnits - cvaBurned
    /\ protectionState # "Unfunded" =>
        /\ custodyCredit = cvaAccounted
        /\ bondLocked + bondReturned + entitlementAllocated = initialBond
    /\ totalSupply = cvaAccounted
    /\ totalSupply = Cardinality(unitsOf(balanceOf))
    /\ entitlementClaimed <= entitlementAllocated
    /\ entitlementClaimedUnits <= entitlementSnapshotSupply
    /\ redeemedFace + cvaReleasedFace <= faceValue
    /\ settlementCreditTotal =
            settlementCredit[buyer] + settlementCredit[originatorTreasury]
    /\ \A a \in Accounts \ {buyer, originatorTreasury} : settlementCredit[a] = 0
    /\ cash = accountedSettlementBalance

(* The bond is exactly what the units outstanding require while no claim   *)
(* is pending, exactly what the snapshot required while one is, and        *)
(* entirely allocated or returned once the protection has ended: redeeming *)
(* under a pending conflict neither frees the bond nor strands any of it.  *)
BondMatchesExposure ==
    /\ protectionState = "Active" => bondLocked = requiredBond(totalSupply)
    /\ protectionState \in {"CommitPending", "ConflictConfirmed"} =>
        /\ bondLocked = pendingConflict.snapshotBond
        /\ bondLocked = requiredBond(pendingConflict.snapshotSupply)
        /\ pendingConflict.snapshotSupply = totalSupplyAt(pendingConflict.snapshotSequence)
    /\ protectionState \in {"Entitled", "Released"} => bondLocked = 0
    /\ protectionState = "Entitled" =>
        entitlementAllocated = requiredBond(entitlementSnapshotSupply)

(* At every sequence number ever used the recorded balances add up to the  *)
(* recorded supply, and at the latest they are the current ones: what the  *)
(* binary search finds is a consistent record date.                        *)
HistoryAddsUp ==
    /\ \A q \in 0..sequence :
        totalSupplyAt(q) = Cardinality(unitsOf([a \in Accounts |-> balanceAt(a, q)]))
    /\ \A a \in Accounts : balanceAt(a, sequence) = balanceOf[a]
    /\ totalSupplyAt(sequence) = totalSupply

(* A claim pays its share of the bond by the record date and the last      *)
(* claim pays the rest, so that the whole bond is claimed exactly when     *)
(* every snapshot unit is, whoever claims in whatever order; and no claim  *)
(* is ever refused because the earlier ones have used up the units.        *)
ClaimsAreShares ==
    LET snapshotOf(a) == balanceAt(a, entitlementSnapshotSequence)
        share(a)   == mulDiv(entitlementAllocated, snapshotOf(a), entitlementSnapshotSupply)
    IN  protectionState = "Entitled" =>
        /\ entitlementClaimedUnits =
                Cardinality({u \in bondClaimedBy \X (1..initialUnits) : u[2] <= snapshotOf(u[1])})
        /\ entitlementClaimed =
                IF entitlementClaimedUnits = entitlementSnapshotSupply
                THEN entitlementAllocated
                ELSE Cardinality({u \in bondClaimedBy \X (1..initialBond) : u[2] <= share(u[1])})
        /\ \A a \in Accounts \ bondClaimedBy :
                entitlementClaimedUnits + snapshotOf(a) <= entitlementSnapshotSupply

(* The escrow never exceeds what is still owed, the last units are never   *)
(* short-changed by earlier roundings, and when all units are gone the     *)
(* whole face value was paid in cash or discharged in CVA.                 *)
FaceIsConserved ==
    /\ redemptionEscrow <= remainingFace
    /\ mulDiv(faceValue, totalSupply, initialUnits) <= remainingFace
    /\ receivableState = "Redeemed" => totalSupply = 0 /\ remainingFace = 0
    /\ receivableState \in {"Outstanding", "DefaultOutstanding"} => totalSupply # 0

(* In default every eligible holder has exactly one way out for its whole  *)
(* position: cash if the escrow and the policies allow it, else CVA.       *)
DefaultAlwaysHasAnExit ==
    \A a \in Accounts :
        LET units == balanceOf[a] IN
        (/\ receivableState = "DefaultOutstanding" /\ units # 0
         /\ requireHolder(a) /\ cvaIntegrity
         /\ Allows("identity", Vault) /\ Allows("identity", Adapter))
            => (mayRedeem(a, units) # mayReleaseCva(a, units))

(* The past does not change: no transaction alters a balance or a supply   *)
(* at a sequence number already used.                                      *)
HistoryIsImmutable ==
    [][\A q \in 0..sequence :
        /\ totalSupplyAt(q)' = totalSupplyAt(q)
        /\ \A a \in Accounts : balanceAt(a, q)' = balanceAt(a, q)]_vars

(* While a conflict is pending or confirmed no bond returns to the         *)
(* originator, and after entitlement none ever does and the record date    *)
(* and amount stay what they are.                                          *)
PendingBondIsFrozen ==
    [][/\ (protectionState \in {"CommitPending", "ConflictConfirmed", "Entitled"}
            /\ protectionState' # "Active") => bondReturned' = bondReturned
       /\ protectionState = "Entitled" =>
            /\ protectionState' = "Entitled"
            /\ entitlementAllocated' = entitlementAllocated
            /\ entitlementSnapshotSequence' = entitlementSnapshotSequence
            /\ entitlementSnapshotSupply' = entitlementSnapshotSupply
            /\ bondClaimedBy \subseteq bondClaimedBy']_vars

(* Once activated, the protection always ends: the bond is returned or     *)
(* becomes an entitlement, whatever the facilities commit or withhold.     *)
ProtectionIsResolved ==
    [](cvaIntegrity) =>
        (protectionState = "Active" ~> protectionState \in {"Entitled", "Released"})

(* A record-date holder that stays eligible gets its share of the bond,    *)
(* whatever the other record-date holders do.                              *)
EntitledHolderIsPaid ==
    \A a \in Accounts :
        (/\ protectionState = "Entitled"
         /\ balanceAt(a, entitlementSnapshotSequence) # 0
         /\ [](requireHolderRole(a) /\ transferAllowed(a) /\ cvaIntegrity))
            ~> (a \in bondClaimedBy)

(* docs/architecture.md: "No protection transition changes the receivable  *)
(* state or burns its units."  A protection transition is a step of the    *)
(* protection state machine that is neither activation nor a redemption.   *)
ProtectionLeavesReceivable ==
    [][(/\ protectionState # "Unfunded"
        /\ protectionState' # protectionState
        /\ redeemedFace' = redeemedFace)
            => receivableState' = receivableState /\ totalSupply' = totalSupply]_vars
=============================================================================
