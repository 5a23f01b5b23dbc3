--------------------------- MODULE RecourseAdapter ---------------------------
(***************************************************************************)
(* MordantRecourseAdapter ("Adapter V2"): the contract that consumes one   *)
(* governed FHE conflict decision and runs its settlement consequence.     *)
(* One action is one transaction; a revert is a transaction that is not    *)
(* enabled.  The settlement token and the CVI verifier are external and    *)
(* modelled by what the adapter sees of them: its own balance, the tokens  *)
(* everybody else holds, and a live eligibility answer that may change     *)
(* between any two transactions.                                           *)
(***************************************************************************)
EXTENDS Integers, FiniteSets

CONSTANTS
    Runs,         \* run identifiers other than bytes32(0)
    Results,      \* governed result digests other than bytes32(0)
    Accounts,     \* addresses other than address(0)
    Zero,         \* address(0), and the zero digest
    Owner, Facility, Attestor,
    Screened,     \* the <<account, role>> pairs the CVI verifier may ever accept
    Releases,     \* the attestations that may ever be presented
    Supply,       \* the settlement token's total supply, in atomic units
    CureWindow,   \* seconds, immutable
    MaxTimestamp, \* the largest uint64, scaled down
    Horizon       \* bound: the last block timestamp explored

Sides == {"A", "B"}

Roles == {"Facility", "Holder"}

CaseStates == {"None", "CureOpen", "Cured", "Entitled", "Claimed", "Refused"}

(* A GovernedRelease reduced to what the contract tells apart.  "pins" is  *)
(* the comparison of the asset, authority, release mode, circuit and       *)
(* parameter digests with the immutables; "signer" is the address that     *)
(* ECDSA.recover returns.  The EIP-712 digest is the whole record.         *)
Release ==
    [runId : Runs \cup {Zero}, governedResultDigest : Results \cup {Zero},
     holder : [Sides -> Accounts \cup {Zero}], payout : [Sides -> Nat],
     conflict : BOOLEAN, pins : {"match", "mismatch"}, nonce : Nat,
     issuedAt : Nat, expiry : Nat, signer : Accounts]

ASSUME AdapterAssumption ==
    /\ IsFiniteSet(Runs) /\ IsFiniteSet(Results)
    /\ Zero \notin Runs \cup Results \cup Accounts
    /\ {Owner, Facility, Attestor} \subseteq Accounts
    /\ Screened \subseteq Accounts \X Roles
    /\ Releases \subseteq Release
    /\ Supply \in Nat
    /\ CureWindow \in Nat \ {0}
    /\ MaxTimestamp \in Nat
    /\ Horizon \in 0..MaxTimestamp

VARIABLES
    now,                 \* block.timestamp
    availableReserve, openReserved, entitledUnpaid,
    caseByRun, resultConsumed, attestationConsumed,
    balance,             \* settlementToken.balanceOf(adapter)
    outside,             \* settlement tokens held by everybody else
    received,            \* tokens each account was paid by claim
    eligible             \* the <<account, role>> pairs the CVI verifier accepts

reserveVars == <<availableReserve, openReserved, entitledUnpaid>>
caseVars    == <<caseByRun, resultConsumed, attestationConsumed>>
tokenVars   == <<balance, outside, received>>
vars        == <<now, reserveVars, caseVars, tokenVars, eligible>>

Case ==
    [state : CaseStates, paid : SUBSET Sides, cureDeadline : Nat,
     holder : [Sides -> Accounts \cup {Zero}], payout : [Sides -> 0..Supply]]

NoCase ==
    [state |-> "None", paid |-> {}, cureDeadline |-> 0,
     holder |-> [s \in Sides |-> Zero], payout |-> [s \in Sides |-> 0]]

Init ==
    /\ now = 0
    /\ availableReserve = 0 /\ openReserved = 0 /\ entitledUnpaid = 0
    /\ caseByRun = [r \in Runs |-> NoCase]
    /\ resultConsumed = {}
    /\ attestationConsumed = {}
    /\ balance = 0
    /\ outside = Supply
    /\ received = [a \in Accounts |-> 0]
    /\ eligible \in SUBSET Screened

-----------------------------------------------------------------------------
(* The reserve.                                                            *)

(* Mistakes, here and below, are variants no transaction uses: the runs    *)
(* substitute them to show that a property would notice.                   *)

(* Mistake: the amount asked for is booked although the token kept a fee.  *)
fundReserveWithFee(amount) ==
    /\ amount \in 2..outside
    /\ availableReserve' = availableReserve + amount
    /\ balance' = balance + amount - 1
    /\ outside' = outside - amount + 1
    /\ UNCHANGED <<now, openReserved, entitledUnpaid, caseVars, received, eligible>>

fundReserve(amount) ==
    /\ amount # 0
    /\ amount <= outside                        \* safeTransferFrom succeeds
    /\ availableReserve' = availableReserve + amount
    /\ balance' = balance + amount
    /\ outside' = outside - amount
    /\ UNCHANGED <<now, openReserved, entitledUnpaid, caseVars, received, eligible>>

(* Mistake: the withdrawal is bounded by the balance, not the free reserve. *)
withdrawBalance(caller, to, amount) ==
    /\ caller = Owner
    /\ to # Zero
    /\ amount \in 1..balance
    /\ availableReserve' = availableReserve - amount
    /\ balance' = balance - amount
    /\ outside' = outside + amount
    /\ UNCHANGED <<now, openReserved, entitledUnpaid, caseVars, received, eligible>>

withdrawAvailable(caller, to, amount) ==
    /\ caller = Owner
    /\ to # Zero
    /\ amount # 0
    /\ amount <= availableReserve
    /\ amount <= balance                        \* safeTransfer succeeds
    /\ availableReserve' = availableReserve - amount
    /\ balance' = balance - amount
    /\ outside' = outside + amount
    /\ UNCHANGED <<now, openReserved, entitledUnpaid, caseVars, received, eligible>>

(* A plain token transfer to the adapter, which no adapter code sees.      *)
donate(amount) ==
    /\ amount \in 1..outside
    /\ balance' = balance + amount
    /\ outside' = outside - amount
    /\ UNCHANGED <<now, reserveVars, caseVars, received, eligible>>

-----------------------------------------------------------------------------
(* Consuming a release.                                                    *)

Total(c) == c.payout["A"] + c.payout["B"]

(* Mistake: only the attestation digest protects against a replay.         *)
releaseNotReplayed(r) ==
    /\ r.runId # Zero /\ r.governedResultDigest # Zero
    /\ caseByRun[r.runId].state = "None"
    /\ r.pins = "match"
    /\ now \in r.issuedAt..r.expiry
    /\ r \notin attestationConsumed
    /\ r.signer = Attestor

(* Mistake: a run that already has a case is not looked up.                *)
releaseForAnyRun(r) ==
    /\ r.runId # Zero /\ r.governedResultDigest # Zero
    /\ r.governedResultDigest \notin resultConsumed
    /\ r.pins = "match"
    /\ now \in r.issuedAt..r.expiry
    /\ r \notin attestationConsumed
    /\ r.signer = Attestor

(* Every check made before the Boolean is looked at. *)
releaseAdmitted(r) ==
    /\ r.runId # Zero /\ r.governedResultDigest # Zero
    /\ caseByRun[r.runId].state = "None"
    /\ r.governedResultDigest \notin resultConsumed
    /\ r.pins = "match"
    /\ now <= r.expiry
    /\ now >= r.issuedAt
    /\ r \notin attestationConsumed
    /\ r.signer = Attestor

markConsumed(r) ==
    /\ resultConsumed' = resultConsumed \cup {r.governedResultDigest}
    /\ attestationConsumed' = attestationConsumed \cup {r}

(* A signed false Boolean: terminal, and it may carry no payout. *)
refuseRelease(r) ==
    /\ releaseAdmitted(r)
    /\ ~r.conflict
    /\ \A s \in Sides : r.payout[s] = 0
    /\ markConsumed(r)
    /\ caseByRun' = [caseByRun EXCEPT
            ![r.runId] = [state |-> "Refused", paid |-> {}, holder |-> r.holder,
                          payout |-> [s \in Sides |-> 0], cureDeadline |-> 0]]
    /\ UNCHANGED <<now, reserveVars, tokenVars, eligible>>

(* A signed conflict: the whole payout is reserved and the cure window opens. *)
openCure(r) ==
    /\ releaseAdmitted(r)
    /\ r.conflict
    /\ \A s \in Sides : r.holder[s] # Zero
    /\ Total(r) # 0
    /\ Total(r) <= availableReserve
    /\ now + CureWindow <= MaxTimestamp         \* checked uint64 addition
    /\ markConsumed(r)
    /\ availableReserve' = availableReserve - Total(r)
    /\ openReserved' = openReserved + Total(r)
    /\ caseByRun' = [caseByRun EXCEPT
            ![r.runId] = [state |-> "CureOpen", paid |-> {}, holder |-> r.holder,
                          payout |-> r.payout, cureDeadline |-> now + CureWindow]]
    /\ UNCHANGED <<now, entitledUnpaid, tokenVars, eligible>>

consumeGovernedRelease(r) == refuseRelease(r) \/ openCure(r)

-----------------------------------------------------------------------------
(* The lifecycle of an open case.  Solidity's checked subtraction reverts  *)
(* on underflow, hence the guards on the two liability counters.           *)

(* Mistake: the cured amount returns to the reserve and stays reserved.    *)
cureKeepingReservation(caller, run) ==
    LET c == caseByRun[run] IN
    /\ caller = Facility
    /\ <<caller, "Facility">> \in eligible
    /\ c.state = "CureOpen"
    /\ now <= c.cureDeadline
    /\ availableReserve' = availableReserve + Total(c)
    /\ caseByRun' = [caseByRun EXCEPT ![run].state = "Cured"]
    /\ UNCHANGED <<now, openReserved, entitledUnpaid, resultConsumed,
                   attestationConsumed, tokenVars, eligible>>

cure(caller, run) ==
    LET c == caseByRun[run] IN
    /\ caller = Facility
    /\ <<caller, "Facility">> \in eligible
    /\ c.state = "CureOpen"
    /\ now <= c.cureDeadline
    /\ Total(c) <= openReserved
    /\ openReserved' = openReserved - Total(c)
    /\ availableReserve' = availableReserve + Total(c)
    /\ caseByRun' = [caseByRun EXCEPT ![run].state = "Cured"]
    /\ UNCHANGED <<now, entitledUnpaid, resultConsumed, attestationConsumed,
                   tokenVars, eligible>>

(* Mistake: the reservation is dropped but not entered as an entitlement.  *)
finalizeWithoutEntry(run) ==
    LET c == caseByRun[run] IN
    /\ c.state = "CureOpen"
    /\ now > c.cureDeadline
    /\ openReserved' = openReserved - Total(c)
    /\ caseByRun' = [caseByRun EXCEPT ![run].state = "Entitled"]
    /\ UNCHANGED <<now, availableReserve, entitledUnpaid, resultConsumed,
                   attestationConsumed, tokenVars, eligible>>

(* Mistake: finalizing needs the facility to be eligible.                  *)
finalizeWithFacility(run) ==
    LET c == caseByRun[run] IN
    /\ <<Facility, "Facility">> \in eligible
    /\ c.state = "CureOpen"
    /\ now > c.cureDeadline
    /\ openReserved' = openReserved - Total(c)
    /\ entitledUnpaid' = entitledUnpaid + Total(c)
    /\ caseByRun' = [caseByRun EXCEPT ![run].state = "Entitled"]
    /\ UNCHANGED <<now, availableReserve, resultConsumed, attestationConsumed,
                   tokenVars, eligible>>

finalize(run) ==
    LET c == caseByRun[run] IN
    /\ c.state = "CureOpen"
    /\ now > c.cureDeadline
    /\ Total(c) <= openReserved
    /\ openReserved' = openReserved - Total(c)
    /\ entitledUnpaid' = entitledUnpaid + Total(c)
    /\ caseByRun' = [caseByRun EXCEPT ![run].state = "Entitled"]
    /\ UNCHANGED <<now, availableReserve, resultConsumed, attestationConsumed,
                   tokenVars, eligible>>

(* Mistake: a side that was already paid is not refused.                   *)
claimAgain(run, side) ==
    LET c      == caseByRun[run]
        amount == c.payout[side]
    IN
    /\ c.state = "Entitled"
    /\ amount # 0
    /\ <<c.holder[side], "Holder">> \in eligible
    /\ amount <= entitledUnpaid
    /\ entitledUnpaid' = entitledUnpaid - amount
    /\ caseByRun' = [caseByRun EXCEPT ![run].paid = @ \cup {side}]
    /\ balance' = balance - amount
    /\ outside' = outside + amount
    /\ received' = [received EXCEPT ![c.holder[side]] = @ + amount]
    /\ UNCHANGED <<now, availableReserve, openReserved, resultConsumed,
                   attestationConsumed, eligible>>

(* Mistake: the first claim closes the case.                               *)
claimAndClose(run, side) ==
    LET c      == caseByRun[run]
        amount == c.payout[side]
    IN
    /\ c.state = "Entitled"
    /\ amount # 0
    /\ <<c.holder[side], "Holder">> \in eligible
    /\ entitledUnpaid' = entitledUnpaid - amount
    /\ caseByRun' = [caseByRun EXCEPT ![run].paid = {side}, ![run].state = "Claimed"]
    /\ balance' = balance - amount
    /\ outside' = outside + amount
    /\ received' = [received EXCEPT ![c.holder[side]] = @ + amount]
    /\ UNCHANGED <<now, availableReserve, openReserved, resultConsumed,
                   attestationConsumed, eligible>>

(* Anyone may call claim; the recipient is the holder fixed in the case. *)
claim(run, side) ==
    LET c      == caseByRun[run]
        amount == c.payout[side]
        paid   == c.paid \cup {side}
    IN
    /\ c.state = "Entitled"
    /\ side \notin c.paid
    /\ amount # 0
    /\ <<c.holder[side], "Holder">> \in eligible
    /\ amount <= entitledUnpaid
    /\ amount <= balance                        \* safeTransfer succeeds
    /\ entitledUnpaid' = entitledUnpaid - amount
    /\ caseByRun' = [caseByRun EXCEPT
            ![run].paid = paid,
            ![run].state = IF paid = Sides THEN "Claimed" ELSE "Entitled"]
    /\ balance' = balance - amount
    /\ outside' = outside + amount
    /\ received' = [received EXCEPT ![c.holder[side]] = @ + amount]
    /\ UNCHANGED <<now, availableReserve, openReserved, resultConsumed,
                   attestationConsumed, eligible>>

-----------------------------------------------------------------------------
(* The environment: blocks advance, and the verifier changes its mind.     *)

Tick ==
    /\ now < Horizon
    /\ now' = now + 1
    /\ UNCHANGED <<reserveVars, caseVars, tokenVars, eligible>>

changeEligibility(pair) ==
    /\ eligible' = IF pair \in eligible THEN eligible \ {pair}
                   ELSE eligible \cup {pair}
    /\ UNCHANGED <<now, reserveVars, caseVars, tokenVars>>

Next ==
    \/ \E amount \in 0..Supply : fundReserve(amount) \/ donate(amount)
    \/ \E caller \in Accounts, to \in Accounts \cup {Zero}, amount \in 0..Supply :
            withdrawAvailable(caller, to, amount)
    \/ \E r \in Releases : consumeGovernedRelease(r)
    \/ \E caller \in Accounts, run \in Runs : cure(caller, run)
    \/ \E run \in Runs : finalize(run)
    \/ \E run \in Runs, side \in Sides : claim(run, side)
    \/ Tick
    \/ \E pair \in Screened : changeEligibility(pair)

Spec == Init /\ [][Next]_vars

(* finalize and claim are permissionless "on purpose: an uncured conflict  *)
(* must not depend on any party acting"; whoever is owed calls them.       *)
Fairness ==
    /\ WF_vars(Tick)
    /\ \A run \in Runs :
        /\ WF_vars(finalize(run))
        /\ \A side \in Sides : WF_vars(claim(run, side))

FairSpec == Spec /\ Fairness

-----------------------------------------------------------------------------
(* Correctness.  A sum of payouts is stated as the number of atomic units  *)
(* owed: one element of Units per unit, so that sums are cardinalities.    *)

Units == Runs \X Sides \X (1..Supply)

OpenUnits ==
    {u \in Units : /\ caseByRun[u[1]].state = "CureOpen"
                   /\ u[3] <= caseByRun[u[1]].payout[u[2]]}

UnpaidUnits ==
    {u \in Units : /\ caseByRun[u[1]].state = "Entitled"
                   /\ u[2] \notin caseByRun[u[1]].paid
                   /\ u[3] <= caseByRun[u[1]].payout[u[2]]}

PaidUnits(account) ==
    {u \in Units : /\ u[2] \in caseByRun[u[1]].paid
                   /\ u[3] <= caseByRun[u[1]].payout[u[2]]
                   /\ caseByRun[u[1]].holder[u[2]] = account}

OpenedRuns == {run \in Runs : caseByRun[run].state # "None"}

(* Every variable keeps its type; the token supply is conserved.           *)
TypeOK ==
    /\ now \in 0..Horizon
    /\ availableReserve \in 0..Supply
    /\ openReserved \in 0..Supply
    /\ entitledUnpaid \in 0..Supply
    /\ caseByRun \in [Runs -> Case]
    /\ resultConsumed \subseteq Results
    /\ attestationConsumed \subseteq Releases
    /\ balance \in 0..Supply /\ outside \in 0..Supply
    /\ balance + outside = Supply
    /\ received \in [Accounts -> Nat]
    /\ eligible \subseteq Screened

(* solvent(): the adapter's token balance always covers the free reserve,  *)
(* the open reservations and the unpaid entitlements together, so no       *)
(* withdrawal, cure, donation or claim can eat into what is owed.          *)
Solvent == balance >= availableReserve + openReserved + entitledUnpaid

(* openReserved is exactly the sum of the payouts of the cases still in    *)
(* their cure window, and entitledUnpaid the sum of the finalized payouts  *)
(* not yet claimed: no path through cure, finalize and two claims leaks or *)
(* double counts a unit.                                                   *)
LedgerMatchesCases ==
    /\ openReserved = Cardinality(OpenUnits)
    /\ entitledUnpaid = Cardinality(UnpaidUnits)

(* What an account has been paid by claim is exactly the sum of the        *)
(* entitlements that name it and are marked paid: never twice, never for a *)
(* cured or refused case, never to anybody else.                           *)
PaidExactlyOnce ==
    /\ \A a \in Accounts : received[a] = Cardinality(PaidUnits(a))
    /\ \A run \in Runs : caseByRun[run].paid # {} =>
            caseByRun[run].state \in {"Entitled", "Claimed"}

(* One governed result opens at most one case and one case consumes one    *)
(* result and one attestation, whatever runs and nonces are presented.     *)
OneCasePerResult ==
    /\ Cardinality(OpenedRuns) = Cardinality(resultConsumed)
    /\ Cardinality(OpenedRuns) = Cardinality(attestationConsumed)

(* A liability that is due can always be honoured: no open or entitled     *)
(* case can be blocked by an underflow revert in cure, finalize or claim,  *)
(* nor by the adapter lacking the tokens.                                  *)
NeverStuck ==
    \A run \in Runs :
        LET c == caseByRun[run] IN
        /\ c.state = "CureOpen" => Total(c) <= openReserved
        /\ c.state = "Entitled" =>
            \A s \in Sides \ c.paid :
                c.payout[s] <= entitledUnpaid /\ c.payout[s] <= balance

(* What a case may become in one transaction. *)
Successors ==
    [None     |-> CaseStates \ {"Cured", "Entitled", "Claimed"},
     CureOpen |-> {"CureOpen", "Cured", "Entitled"},
     Cured    |-> {"Cured"},
     Entitled |-> {"Entitled", "Claimed"},
     Claimed  |-> {"Claimed"},
     Refused  |-> {"Refused"}]

(* The terms of a case are fixed when it is opened, a decided case is      *)
(* never reopened, payments are never forgotten, and a consumed result or  *)
(* attestation stays consumed.                                             *)
DecisionsAreFinal ==
    [][/\ \A run \in Runs :
            LET c == caseByRun[run]  d == caseByRun'[run] IN
            /\ d.state \in Successors[c.state]
            /\ c.state # "None" =>
                /\ d.holder = c.holder /\ d.payout = c.payout
                /\ d.cureDeadline = c.cureDeadline
                /\ c.paid \subseteq d.paid
       /\ resultConsumed \subseteq resultConsumed'
       /\ attestationConsumed \subseteq attestationConsumed']_vars

(* The promise the adapter keeps.  The mapping forgets the clock, the      *)
(* eligibility, the consumed digests and the two running totals.           *)
PhaseOf ==
    [None |-> "untouched", Refused |-> "refused", CureOpen |-> "earmarked",
     Cured |-> "released", Entitled |-> "owed", Claimed |-> "owed"]

Promise == INSTANCE RecoursePromise WITH
    Amounts <- 0..Supply,
    phase   <- [run \in Runs |-> PhaseOf[caseByRun[run].state]],
    due     <- [run \in Runs |-> caseByRun[run].payout],
    settled <- [run \in Runs |-> caseByRun[run].paid],
    free    <- availableReserve,
    pot     <- balance

(* Every transaction of the adapter is a step of RecoursePromise or leaves *)
(* it unchanged: earmarked money leaves the adapter only to the run and    *)
(* side it was earmarked for, once, and never through the owner.           *)
KeepsPromise == Promise!PromiseSpec

(* An open conflict is eventually decided without the facility, the owner  *)
(* or a holder doing anything: either it was cured in time or finalize     *)
(* turns it into an entitlement.                                           *)
ConflictIsDecided ==
    \A run \in Runs :
        caseByRun[run].state = "CureOpen" ~>
            caseByRun[run].state \in {"Cured", "Entitled", "Claimed"}

(* An entitled holder whose eligibility eventually stays good is paid,     *)
(* whatever the other holder's eligibility does.                           *)
EligibleHolderIsPaid ==
    \A run \in Runs, s \in Sides :
        LET c == caseByRun[run] IN
        (/\ c.state = "Entitled" /\ c.payout[s] > 0
         /\ [](<<caseByRun[run].holder[s], "Holder">> \in eligible))
            ~> (s \in caseByRun[run].paid)
=============================================================================
