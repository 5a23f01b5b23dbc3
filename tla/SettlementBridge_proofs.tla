---------------------- MODULE SettlementBridge_proofs ----------------------
(***************************************************************************)
(* Proofs about RecourseAdapter, for any runs, releases, supply, window    *)
(* and horizon, about SettlementBridge, which drives it, for any           *)
(* committers, executors, profiles and configurations, and then about the  *)
(* operator's tools that rehearse and drive a deployment: ForkRehearsal,   *)
(* ChainRunner and OperatorConsole.                                        *)
(***************************************************************************)
EXTENDS
  SettlementBridge, ForkRehearsal, ChainRunner, OperatorConsole,
  FiniteSetTheorems, SequenceTheorems, TLAPS

-----------------------------------------------------------------------------
\* Counting units.

\* The atomic units of one side of one run.
SideUnits(run, s, n) == {u \in Units : u[1] = run /\ u[2] = s /\ u[3] <= n}

\* The units of both sides of one run, given its payouts.
RunUnits(run, payout) == SideUnits(run, "A", payout["A"]) \cup SideUnits(run, "B", payout["B"])

\* Every set of units is finite.
LEMMA UnitsFinite == IsFiniteSet(Units)
<1> DEFINE P == (Runs \X Sides) \X (1..Supply)
           f == [u \in Units |-> <<<<u[1], u[2]>>, u[3]>>]
<1>1. IsFiniteSet(Sides)
  <2>1. IsFiniteSet({"A"} \cup {"B"})
    BY FS_Singleton, FS_AddElement
  <2>2. Sides = {"A"} \cup {"B"}
    BY DEF Sides
  <2> QED
    BY <2>1, <2>2
<1>2. IsFiniteSet(1..Supply)
  BY FS_Interval, AdapterAssumption
<1>3. IsFiniteSet(P)
  BY <1>1, <1>2, FS_Product, AdapterAssumption
<1>4. f \in Injection(Units, P)
  BY DEF Injection, IsInjective, Units
<1> QED
  BY <1>3, <1>4, FS_Injection

\* A side that is due n units has n units.
LEMMA SideUnitsCount ==
  ASSUME NEW run \in Runs, NEW s \in Sides, NEW n \in 0..Supply
  PROVE  IsFiniteSet(SideUnits(run, s, n)) /\ Cardinality(SideUnits(run, s, n)) = n
<1> DEFINE f == [k \in 1..n |-> <<run, s, k>>]
<1>0. Supply \in Nat
  BY AdapterAssumption
<1>1. f \in [1..n -> SideUnits(run, s, n)]
  BY <1>0 DEF SideUnits, Units
<1>2. f \in Bijection(1..n, SideUnits(run, s, n))
  <2>1. \A a, b \in 1..n : f[a] = f[b] => a = b
    OBVIOUS
  <2>2. ASSUME NEW u \in SideUnits(run, s, n)
        PROVE  \E k \in 1..n : f[k] = u
    <3>1. u[3] \in 1..n /\ u = <<run, s, u[3]>>
      BY <1>0 DEF SideUnits, Units
    <3> QED
      BY <3>1
  <2>3. f \in Injection(1..n, SideUnits(run, s, n))
    BY <1>1, <2>1 DEF Injection, IsInjective
  <2>4. f \in Surjection(1..n, SideUnits(run, s, n))
    BY <1>1, <2>2 DEF Surjection
  <2> QED
    BY <2>3, <2>4 DEF Bijection
<1>3. ExistsBijection(1..n, SideUnits(run, s, n))
  BY <1>2 DEF ExistsBijection
<1>4. IsFiniteSet(1..n) /\ Cardinality(1..n) = n
  BY FS_Interval, <1>0
<1> QED
  BY <1>3, <1>4, FS_Bijection

\* Adding units that were not there adds their number.
LEMMA AddUnits ==
  ASSUME NEW S, NEW T, IsFiniteSet(S), IsFiniteSet(T), S \cap T = {}
  PROVE  IsFiniteSet(S \cup T) /\ Cardinality(S \cup T) = Cardinality(S) + Cardinality(T)
<1>1. Cardinality(S \cap T) = 0
  BY FS_EmptySet
<1>2. Cardinality(S) \in Nat /\ Cardinality(T) \in Nat
  BY FS_CardinalityType
<1>3. /\ IsFiniteSet(S \cup T)
      /\ Cardinality(S \cup T) = Cardinality(S) + Cardinality(T) - Cardinality(S \cap T)
  BY FS_Union, IsFiniteSet(S), IsFiniteSet(T), Zenon
<1> QED
  BY <1>1, <1>2, <1>3

\* Removing units that were there removes their number.
LEMMA RemoveUnits ==
  ASSUME NEW S, NEW T, IsFiniteSet(S), T \subseteq S
  PROVE  Cardinality(S \ T) = Cardinality(S) - Cardinality(T)
<1>1. S \cap T = T
  OBVIOUS
<1> QED
  BY <1>1, FS_Difference

\* A run has as many units as its payouts total.
LEMMA RunUnitsCount ==
  ASSUME NEW run \in Runs, NEW p \in [Sides -> 0..Supply]
  PROVE  /\ IsFiniteSet(RunUnits(run, p))
         /\ Cardinality(RunUnits(run, p)) = p["A"] + p["B"]
<1>1. SideUnits(run, "A", p["A"]) \cap SideUnits(run, "B", p["B"]) = {}
  BY DEF SideUnits
<1>2. "A" \in Sides /\ "B" \in Sides
  BY DEF Sides
<1> QED
  BY <1>1, <1>2, SideUnitsCount, AddUnits DEF RunUnits
-----------------------------------------------------------------------------
\* The inductive invariant.  Solvency needs the reservations to be no more
\* than the counters say, which needs the counters to be the exact sums,
\* which needs a case that is still in its cure window to be wholly unpaid.

IndInv ==
    /\ TypeOK
    /\ Solvent
    /\ LedgerMatchesCases
    /\ PaidExactlyOnce
    /\ OneCasePerResult
    /\ IsFiniteSet(attestationConsumed)

\* The three sets of units are finite, and so is what has been consumed.
LEMMA FiniteSets ==
  ASSUME TypeOK
  PROVE  /\ IsFiniteSet(OpenUnits) /\ IsFiniteSet(UnpaidUnits)
         /\ \A a : IsFiniteSet(PaidUnits(a))
         /\ IsFiniteSet(resultConsumed) /\ IsFiniteSet(OpenedRuns)
<1>1. OpenUnits \subseteq Units /\ UnpaidUnits \subseteq Units /\ OpenedRuns \subseteq Runs
  BY DEF OpenUnits, UnpaidUnits, OpenedRuns
<1>2. \A a : PaidUnits(a) \subseteq Units
  BY DEF PaidUnits
<1>3. resultConsumed \subseteq Results
  BY DEF TypeOK
<1> QED
  BY <1>1, <1>2, <1>3, UnitsFinite, FS_Subset, AdapterAssumption

\* A transaction that leaves the cases alone leaves the units alone.
LEMMA CasesUnchanged ==
  ASSUME UNCHANGED caseVars, IndInv
  PROVE  /\ LedgerMatchesCases' <=> /\ openReserved' = Cardinality(OpenUnits)
                                    /\ entitledUnpaid' = Cardinality(UnpaidUnits)
         /\ received' = received => PaidExactlyOnce'
         /\ OneCasePerResult'
         /\ IsFiniteSet(attestationConsumed')
<1>1. OpenUnits' = OpenUnits /\ UnpaidUnits' = UnpaidUnits /\ OpenedRuns' = OpenedRuns
  BY DEF caseVars, OpenUnits, UnpaidUnits, OpenedRuns
<1>2. \A a : PaidUnits(a)' = PaidUnits(a)
  BY DEF caseVars, PaidUnits
<1> QED
  BY <1>1, <1>2 DEF caseVars, IndInv, LedgerMatchesCases, PaidExactlyOnce, OneCasePerResult

\* A freshly deployed adapter, with no reserve and no case, satisfies it.
THEOREM InitInv == Init => IndInv
<1> SUFFICES ASSUME Init PROVE IndInv
  OBVIOUS
<1>1. TypeOK
  BY AdapterAssumption DEF Init, TypeOK, Case, CaseStates, NoCase, Sides
<1>2. OpenUnits = {} /\ UnpaidUnits = {} /\ OpenedRuns = {}
  BY DEF Init, OpenUnits, UnpaidUnits, OpenedRuns, NoCase, Units
<1>3. \A a : PaidUnits(a) = {}
  BY DEF Init, PaidUnits, NoCase, Units
<1>4. Cardinality({}) = 0 /\ IsFiniteSet({})
  BY FS_EmptySet
<1>5. Solvent
  BY DEF Init, Solvent
<1>6. PaidExactlyOnce
  BY <1>3, <1>4 DEF Init, PaidExactlyOnce, NoCase
<1>7. OneCasePerResult /\ IsFiniteSet(attestationConsumed)
  BY <1>2, <1>4 DEF Init, OneCasePerResult
<1>8. LedgerMatchesCases
  BY <1>2, <1>4 DEF Init, LedgerMatchesCases
<1> QED
  BY <1>1, <1>5, <1>6, <1>7, <1>8 DEF IndInv

-----------------------------------------------------------------------------
\* One lemma per transaction.

\* fundReserve, withdrawAvailable and donate move tokens and the free
\* reserve only, and never below what is owed.
LEMMA ReserveStep ==
  ASSUME IndInv, NEW amount \in 0..Supply, NEW caller, NEW to,
         \/ fundReserve(amount)
         \/ donate(amount)
         \/ withdrawAvailable(caller, to, amount)
  PROVE  IndInv'
<1>1. UNCHANGED <<caseVars, received, openReserved, entitledUnpaid>>
  BY DEF fundReserve, donate, withdrawAvailable, reserveVars
<1>2. TypeOK' /\ Solvent'
  BY AdapterAssumption DEF IndInv, TypeOK, Solvent, fundReserve, donate,
     withdrawAvailable, reserveVars, caseVars
<1>3. LedgerMatchesCases' /\ PaidExactlyOnce' /\ OneCasePerResult'
      /\ IsFiniteSet(attestationConsumed')
  BY <1>1, CasesUnchanged DEF IndInv, LedgerMatchesCases
<1> QED
  BY <1>2, <1>3 DEF IndInv

\* The clock and the verifier's answers touch no storage of the adapter.
LEMMA EnvironmentStep ==
  ASSUME IndInv, Tick \/ (\E pair \in Screened : changeEligibility(pair))
  PROVE  IndInv'
<1>1. UNCHANGED <<caseVars, tokenVars, reserveVars>>
  BY DEF Tick, changeEligibility
<1>2. TypeOK' /\ Solvent'
  BY <1>1, AdapterAssumption DEF IndInv, TypeOK, Solvent, Tick, changeEligibility,
     reserveVars, tokenVars, caseVars
<1>3. LedgerMatchesCases' /\ PaidExactlyOnce' /\ OneCasePerResult'
      /\ IsFiniteSet(attestationConsumed')
  BY <1>1, CasesUnchanged DEF IndInv, LedgerMatchesCases, reserveVars, tokenVars
<1> QED
  BY <1>2, <1>3 DEF IndInv

\* Consuming a release adds one opened run, one result and one attestation.
LEMMA ConsumeCounts ==
  ASSUME IndInv, NEW r \in Releases, releaseAdmitted(r), markConsumed(r),
         NEW c, c.state # "None", caseByRun' = [caseByRun EXCEPT ![r.runId] = c]
  PROVE  OneCasePerResult' /\ IsFiniteSet(attestationConsumed')
<1>1. r \in Release /\ r.runId \in Runs /\ r.governedResultDigest \in Results
  BY AdapterAssumption DEF releaseAdmitted, Release
<1>2. caseByRun \in [Runs -> Case]
  BY DEF IndInv, TypeOK
<1>3. OpenedRuns' = OpenedRuns \cup {r.runId}
  BY <1>1, <1>2 DEF OpenedRuns
<1>4. r.runId \notin OpenedRuns /\ r.governedResultDigest \notin resultConsumed
      /\ r \notin attestationConsumed
  BY DEF releaseAdmitted, OpenedRuns
<1>5. IsFiniteSet(OpenedRuns) /\ IsFiniteSet(resultConsumed) /\ IsFiniteSet(attestationConsumed)
  BY FiniteSets DEF IndInv
<1>6. Cardinality(OpenedRuns') = Cardinality(OpenedRuns) + 1
  BY <1>3, <1>4, <1>5, FS_AddElement
<1>7. Cardinality(resultConsumed') = Cardinality(resultConsumed) + 1
  BY <1>4, <1>5, FS_AddElement DEF markConsumed
<1>8. /\ Cardinality(attestationConsumed') = Cardinality(attestationConsumed) + 1
      /\ IsFiniteSet(attestationConsumed')
  BY <1>4, <1>5, FS_AddElement DEF markConsumed
<1> QED
  BY <1>6, <1>7, <1>8 DEF IndInv, OneCasePerResult

\* consumeGovernedRelease of a false Boolean: a new case that owes nothing.
LEMMA RefuseStep ==
  ASSUME IndInv, NEW r \in Releases, refuseRelease(r)
  PROVE  IndInv'
<1> DEFINE c == [state |-> "Refused", paid |-> {}, holder |-> r.holder,
                 payout |-> [s \in Sides |-> 0], cureDeadline |-> 0]
<1>1. r \in Release /\ r.runId \in Runs /\ r.governedResultDigest \in Results
  BY AdapterAssumption DEF refuseRelease, releaseAdmitted, Release
<1>2. caseByRun \in [Runs -> Case] /\ caseByRun' = [caseByRun EXCEPT ![r.runId] = c]
  BY DEF IndInv, TypeOK, refuseRelease
<1>3. c \in Case /\ c.state = "Refused" /\ c.paid = {} /\ c.payout = [s \in Sides |-> 0]
  <2>1. Supply \in Nat /\ r.holder \in [Sides -> Accounts \cup {Zero}]
    BY <1>1, AdapterAssumption DEF Release
  <2> QED
    BY <2>1 DEF Case, CaseStates
<1>4. caseByRun[r.runId].state = "None" /\ caseByRun[r.runId].paid = {}
  BY <1>1 DEF refuseRelease, releaseAdmitted, IndInv, PaidExactlyOnce
<1>5. TypeOK' /\ Solvent'
  BY <1>1, <1>2, <1>3 DEF IndInv, TypeOK, Solvent, refuseRelease, markConsumed,
     reserveVars, tokenVars
<1>6. OneCasePerResult' /\ IsFiniteSet(attestationConsumed')
  BY <1>2, <1>3, ConsumeCounts DEF refuseRelease
<1>7. OpenUnits' = OpenUnits /\ UnpaidUnits' = UnpaidUnits
  BY <1>1, <1>2, <1>3, <1>4 DEF OpenUnits, UnpaidUnits, Units
<1>8. \A a : PaidUnits(a)' = PaidUnits(a)
  BY <1>1, <1>2, <1>3, <1>4 DEF PaidUnits, Units
<1>9. LedgerMatchesCases'
  BY <1>7 DEF IndInv, LedgerMatchesCases, refuseRelease, reserveVars
<1>10. PaidExactlyOnce'
  BY <1>1, <1>2, <1>3, <1>8 DEF IndInv, PaidExactlyOnce, refuseRelease, tokenVars
<1> QED
  BY <1>5, <1>6, <1>9, <1>10 DEF IndInv

\* consumeGovernedRelease of a conflict: the payout moves from the free
\* reserve to the open reservations, unit for unit.
LEMMA OpenStep ==
  ASSUME IndInv, NEW r \in Releases, openCure(r)
  PROVE  IndInv'
<1> DEFINE c == [state |-> "CureOpen", paid |-> {}, holder |-> r.holder,
                 payout |-> r.payout, cureDeadline |-> now + CureWindow]
           new == RunUnits(r.runId, r.payout)
<1>1. r \in Release /\ r.runId \in Runs /\ r.governedResultDigest \in Results
  BY AdapterAssumption DEF openCure, releaseAdmitted, Release
<1>2. caseByRun \in [Runs -> Case] /\ caseByRun' = [caseByRun EXCEPT ![r.runId] = c]
  BY DEF IndInv, TypeOK, openCure
<1>3. Supply \in Nat /\ CureWindow \in Nat /\ now \in Nat /\ availableReserve \in 0..Supply
  BY AdapterAssumption DEF IndInv, TypeOK
<1>4. r.payout \in [Sides -> 0..Supply] /\ Total(r) = r.payout["A"] + r.payout["B"]
  BY <1>1, <1>3 DEF openCure, Release, Total, Sides
<1>5. c \in Case /\ c.state = "CureOpen" /\ c.paid = {} /\ c.payout = r.payout
  BY <1>1, <1>3, <1>4 DEF Case, CaseStates, Release
<1>6. caseByRun[r.runId].state = "None" /\ caseByRun[r.runId].paid = {}
  BY <1>1 DEF openCure, releaseAdmitted, IndInv, PaidExactlyOnce
<1>7. TypeOK' /\ Solvent'
  <2>1. caseByRun' \in [Runs -> Case]
    BY <1>1, <1>2, <1>5
  <2>2. Total(r) \in 1..Supply /\ Total(r) <= availableReserve
    BY <1>3, <1>4 DEF openCure, Sides
  <2>3. resultConsumed' \subseteq Results /\ attestationConsumed' \subseteq Releases
    BY <1>1 DEF IndInv, TypeOK, openCure, markConsumed
  <2> HIDE DEF c
  <2> QED
    BY <1>3, <2>1, <2>2, <2>3 DEF IndInv, TypeOK, Solvent, openCure, tokenVars
<1>8. OneCasePerResult' /\ IsFiniteSet(attestationConsumed')
  BY <1>2, <1>5, ConsumeCounts DEF openCure
<1>9. OpenUnits' = OpenUnits \cup new /\ OpenUnits \cap new = {}
  BY <1>1, <1>2, <1>4, <1>5, <1>6 DEF OpenUnits, RunUnits, SideUnits, Units, Sides
<1>10. UnpaidUnits' = UnpaidUnits
  BY <1>1, <1>2, <1>5, <1>6 DEF UnpaidUnits, Units
<1>11. \A a : PaidUnits(a)' = PaidUnits(a)
  BY <1>1, <1>2, <1>5, <1>6 DEF PaidUnits, Units
<1>12. Cardinality(OpenUnits') = Cardinality(OpenUnits) + Total(r)
  BY <1>1, <1>4, <1>9, RunUnitsCount, AddUnits, FiniteSets DEF IndInv
<1>13. LedgerMatchesCases'
  BY <1>10, <1>12 DEF IndInv, LedgerMatchesCases, openCure
<1>14. PaidExactlyOnce'
  BY <1>1, <1>2, <1>5, <1>11 DEF IndInv, PaidExactlyOnce, openCure, tokenVars
<1> QED
  BY <1>7, <1>8, <1>13, <1>14 DEF IndInv

\* A case that has been decided to be open is wholly unpaid, and its units
\* are exactly those of its payouts.
LEMMA OpenCaseUnits ==
  ASSUME IndInv, NEW run \in Runs, caseByRun[run].state = "CureOpen"
  PROVE  /\ caseByRun[run] \in Case
         /\ caseByRun[run].payout \in [Sides -> 0..Supply]
         /\ caseByRun[run].paid = {}
         /\ RunUnits(run, caseByRun[run].payout) \subseteq OpenUnits
         /\ RunUnits(run, caseByRun[run].payout) \cap UnpaidUnits = {}
         /\ Cardinality(RunUnits(run, caseByRun[run].payout)) = Total(caseByRun[run])
         /\ IsFiniteSet(RunUnits(run, caseByRun[run].payout))
         /\ Total(caseByRun[run]) \in Nat
         /\ Total(caseByRun[run]) <= openReserved
<1> DEFINE c == caseByRun[run]
           U == RunUnits(run, c.payout)
<1>1. c \in Case /\ c.payout \in [Sides -> 0..Supply]
  BY DEF IndInv, TypeOK, Case
<1>2. c.paid = {}
  BY DEF IndInv, PaidExactlyOnce
<1>3. U \subseteq OpenUnits /\ U \cap UnpaidUnits = {}
  BY DEF RunUnits, SideUnits, OpenUnits, UnpaidUnits
<1>4. IsFiniteSet(U) /\ Cardinality(U) = Total(c)
  BY <1>1, RunUnitsCount DEF Total
<1>5. IsFiniteSet(OpenUnits) /\ Cardinality(OpenUnits) = openReserved
  BY FiniteSets DEF IndInv, LedgerMatchesCases
<1>6. Total(c) <= openReserved
  BY <1>3, <1>4, <1>5, FS_Subset
<1>7. Total(c) \in Nat
  BY <1>4, FS_CardinalityType
<1> QED
  BY <1>1, <1>2, <1>3, <1>4, <1>6, <1>7

\* Curing or finalizing a case changes its state and nothing else of it.
LEMMA CloseWindow ==
  ASSUME IndInv, NEW run \in Runs, caseByRun[run].state = "CureOpen",
         NEW st \in {"Cured", "Entitled"},
         caseByRun' = [caseByRun EXCEPT ![run].state = st],
         UNCHANGED <<resultConsumed, attestationConsumed, tokenVars>>
  PROVE  /\ caseByRun' \in [Runs -> Case]
         /\ OpenUnits' = OpenUnits \ RunUnits(run, caseByRun[run].payout)
         /\ UnpaidUnits' = IF st = "Entitled"
                           THEN UnpaidUnits \cup RunUnits(run, caseByRun[run].payout)
                           ELSE UnpaidUnits
         /\ PaidExactlyOnce' /\ OneCasePerResult' /\ IsFiniteSet(attestationConsumed')
<1>1. caseByRun \in [Runs -> Case] /\ caseByRun[run] \in Case /\ caseByRun[run].paid = {}
      /\ caseByRun[run].payout \in [Sides -> 0..Supply]
  BY OpenCaseUnits DEF IndInv, TypeOK
<1>2. caseByRun' \in [Runs -> Case]
  BY <1>1 DEF Case, CaseStates
<1>3. /\ \A q \in Runs : /\ caseByRun'[q].paid = caseByRun[q].paid
                         /\ caseByRun'[q].holder = caseByRun[q].holder
                         /\ caseByRun'[q].payout = caseByRun[q].payout
                         /\ q # run => caseByRun'[q].state = caseByRun[q].state
      /\ caseByRun'[run].state = st
  BY <1>1 DEF Case
<1>4. OpenUnits' = OpenUnits \ RunUnits(run, caseByRun[run].payout)
  BY <1>1, <1>3 DEF OpenUnits, RunUnits, SideUnits, Units, Sides
<1>5. st = "Entitled" => UnpaidUnits' = UnpaidUnits \cup RunUnits(run, caseByRun[run].payout)
  BY <1>1, <1>3 DEF UnpaidUnits, RunUnits, SideUnits, Units, Sides
<1>6. st = "Cured" => UnpaidUnits' = UnpaidUnits
  BY <1>1, <1>3 DEF UnpaidUnits, Units
<1>7. \A a : PaidUnits(a)' = PaidUnits(a)
  BY <1>3 DEF PaidUnits, Units
<1>8. PaidExactlyOnce'
  BY <1>1, <1>3, <1>7 DEF IndInv, PaidExactlyOnce, tokenVars
<1>9. OpenedRuns' = OpenedRuns
  BY <1>3 DEF OpenedRuns
<1>10. OneCasePerResult' /\ IsFiniteSet(attestationConsumed')
  BY <1>9 DEF IndInv, OneCasePerResult
<1> QED
  BY <1>2, <1>4, <1>5, <1>6, <1>8, <1>10

\* cure: the open units of the case return to the free reserve.
LEMMA CureStep ==
  ASSUME IndInv, NEW run \in Runs, NEW caller, cure(caller, run)
  PROVE  IndInv'
<1> DEFINE c == caseByRun[run]
           U == RunUnits(run, c.payout)
<1>1. /\ c.state = "CureOpen" /\ openReserved' = openReserved - Total(c)
      /\ availableReserve' = availableReserve + Total(c)
      /\ caseByRun' = [caseByRun EXCEPT ![run].state = "Cured"]
      /\ UNCHANGED <<now, entitledUnpaid, resultConsumed, attestationConsumed, tokenVars, eligible>>
  BY DEF cure
<1>2. /\ U \subseteq OpenUnits /\ Cardinality(U) = Total(c)
      /\ Total(c) \in Nat /\ Total(c) <= openReserved
  BY <1>1, OpenCaseUnits
<1>3. /\ caseByRun' \in [Runs -> Case] /\ OpenUnits' = OpenUnits \ U
      /\ UnpaidUnits' = UnpaidUnits
      /\ PaidExactlyOnce' /\ OneCasePerResult' /\ IsFiniteSet(attestationConsumed')
  BY <1>1, CloseWindow
<1>4. Cardinality(OpenUnits') = Cardinality(OpenUnits) - Total(c)
  BY <1>2, <1>3, RemoveUnits, FiniteSets DEF IndInv
<1>5. LedgerMatchesCases'
  BY <1>1, <1>3, <1>4 DEF IndInv, LedgerMatchesCases
<1>6. TypeOK' /\ Solvent'
  BY <1>1, <1>2, <1>3, AdapterAssumption DEF IndInv, TypeOK, Solvent, tokenVars
<1> QED
  BY <1>3, <1>5, <1>6 DEF IndInv

\* finalize: the open units of the case become its unpaid units.
LEMMA FinalizeStep ==
  ASSUME IndInv, NEW run \in Runs, finalize(run)
  PROVE  IndInv'
<1> DEFINE c == caseByRun[run]
           U == RunUnits(run, c.payout)
<1>1. /\ c.state = "CureOpen" /\ openReserved' = openReserved - Total(c)
      /\ entitledUnpaid' = entitledUnpaid + Total(c)
      /\ caseByRun' = [caseByRun EXCEPT ![run].state = "Entitled"]
      /\ UNCHANGED <<now, availableReserve, resultConsumed, attestationConsumed, tokenVars, eligible>>
  BY DEF finalize
<1>2. /\ U \subseteq OpenUnits /\ U \cap UnpaidUnits = {} /\ Cardinality(U) = Total(c)
      /\ IsFiniteSet(U) /\ Total(c) \in Nat /\ Total(c) <= openReserved
  BY <1>1, OpenCaseUnits
<1>3. /\ caseByRun' \in [Runs -> Case] /\ OpenUnits' = OpenUnits \ U
      /\ UnpaidUnits' = UnpaidUnits \cup U
      /\ PaidExactlyOnce' /\ OneCasePerResult' /\ IsFiniteSet(attestationConsumed')
  BY <1>1, CloseWindow
<1>4. Cardinality(OpenUnits') = Cardinality(OpenUnits) - Total(c)
  BY <1>2, <1>3, RemoveUnits, FiniteSets DEF IndInv
<1>5. Cardinality(UnpaidUnits') = Cardinality(UnpaidUnits) + Total(c)
  BY <1>2, <1>3, AddUnits, FiniteSets DEF IndInv
<1>6. LedgerMatchesCases'
  BY <1>1, <1>4, <1>5 DEF IndInv, LedgerMatchesCases
<1>7. TypeOK' /\ Solvent'
  BY <1>1, <1>2, <1>3, AdapterAssumption DEF IndInv, TypeOK, Solvent, tokenVars
<1> QED
  BY <1>3, <1>6, <1>7 DEF IndInv

\* claim: the unpaid units of one side become paid units of its holder.
LEMMA ClaimStep ==
  ASSUME IndInv, NEW run \in Runs, NEW side \in Sides, claim(run, side)
  PROVE  IndInv'
<1> DEFINE c == caseByRun[run]
           amount == c.payout[side]
           h == c.holder[side]
           U == SideUnits(run, side, amount)
<1>1. /\ c.state = "Entitled" /\ side \notin c.paid /\ amount # 0
      /\ <<h, "Holder">> \in eligible
      /\ amount <= entitledUnpaid /\ amount <= balance
      /\ entitledUnpaid' = entitledUnpaid - amount
      /\ balance' = balance - amount /\ outside' = outside + amount
      /\ received' = [received EXCEPT ![h] = @ + amount]
      /\ UNCHANGED <<now, availableReserve, openReserved, resultConsumed,
                     attestationConsumed, eligible>>
  BY DEF claim
<1>2. /\ Supply \in Nat /\ caseByRun \in [Runs -> Case] /\ c \in Case
      /\ amount \in 0..Supply /\ c.paid \in SUBSET Sides
  BY AdapterAssumption DEF IndInv, TypeOK, Case
<1>3. PICK payee \in Accounts : payee = h
  BY <1>1, AdapterAssumption DEF IndInv, TypeOK
<1>4. /\ caseByRun' \in [Runs -> Case]
      /\ \A q \in Runs : /\ caseByRun'[q].holder = caseByRun[q].holder
                         /\ caseByRun'[q].payout = caseByRun[q].payout
                         /\ q # run => /\ caseByRun'[q].state = caseByRun[q].state
                                       /\ caseByRun'[q].paid = caseByRun[q].paid
      /\ caseByRun'[run].paid = c.paid \cup {side}
      /\ caseByRun'[run].state \in {"Entitled", "Claimed"}
      /\ caseByRun'[run].state = "Claimed" => caseByRun'[run].paid = Sides
  BY <1>1, <1>2 DEF claim, Case, CaseStates
<1>5. OpenUnits' = OpenUnits
  BY <1>1, <1>4 DEF OpenUnits, Units
<1>6. UnpaidUnits' = UnpaidUnits \ U /\ U \subseteq UnpaidUnits
  BY <1>1, <1>2, <1>4 DEF UnpaidUnits, SideUnits, Units
<1>7. PaidUnits(payee)' = PaidUnits(payee) \cup U /\ PaidUnits(payee) \cap U = {}
  BY <1>1, <1>2, <1>3, <1>4 DEF PaidUnits, SideUnits, Units
<1>8. \A a : a # payee => PaidUnits(a)' = PaidUnits(a)
  BY <1>1, <1>2, <1>3, <1>4 DEF PaidUnits, Units
<1>9. IsFiniteSet(U) /\ Cardinality(U) = amount
  BY <1>2, SideUnitsCount
<1>10. LedgerMatchesCases'
  <2>1. Cardinality(UnpaidUnits') = Cardinality(UnpaidUnits) - amount
    BY <1>6, <1>9, RemoveUnits, FiniteSets DEF IndInv
  <2> QED
    BY <1>1, <1>5, <2>1 DEF IndInv, LedgerMatchesCases
<1>11. PaidExactlyOnce'
  <2>1. Cardinality(PaidUnits(payee)') = Cardinality(PaidUnits(payee)) + amount
    BY <1>7, <1>9, AddUnits, FiniteSets DEF IndInv
  <2>2. \A a \in Accounts : received'[a] = Cardinality(PaidUnits(a)')
    <3> SUFFICES ASSUME NEW a \in Accounts
                 PROVE  received'[a] = Cardinality(PaidUnits(a)')
      OBVIOUS
    <3>1. received \in [Accounts -> Nat] /\ received[a] = Cardinality(PaidUnits(a))
      BY DEF IndInv, TypeOK, PaidExactlyOnce
    <3>2. CASE a = payee
      BY <1>1, <1>3, <2>1, <3>1, <3>2
    <3>3. CASE a # payee
      <4>1. received'[a] = received[a]
        BY <1>1, <1>3, <3>1, <3>3
      <4>2. PaidUnits(a)' = PaidUnits(a)
        BY <1>8, <3>3
      <4> QED
        BY <3>1, <4>1, <4>2
    <3> QED
      BY <3>2, <3>3
  <2> QED
    BY <1>4, <2>2 DEF IndInv, PaidExactlyOnce
<1>12. OneCasePerResult' /\ IsFiniteSet(attestationConsumed')
  <2>1. OpenedRuns' = OpenedRuns
    BY <1>1, <1>4 DEF OpenedRuns
  <2> QED
    BY <1>1, <2>1 DEF IndInv, OneCasePerResult
<1>13. TypeOK' /\ Solvent'
  <2>1. received' \in [Accounts -> Nat]
    BY <1>1, <1>2, <1>3 DEF IndInv, TypeOK
  <2> QED
    BY <1>1, <1>2, <1>4, <2>1 DEF IndInv, TypeOK, Solvent
<1> QED
  BY <1>10, <1>11, <1>12, <1>13 DEF IndInv

-----------------------------------------------------------------------------
\* The invariant is inductive, hence invariant.

\* Every transaction preserves the invariant.
LEMMA NextInv == IndInv /\ [Next]_vars => IndInv'
<1> SUFFICES ASSUME IndInv, [Next]_vars PROVE IndInv'
  OBVIOUS
<1>1. ASSUME NEW amount \in 0..Supply, fundReserve(amount) \/ donate(amount) PROVE IndInv'
  BY <1>1, ReserveStep
<1>2. ASSUME NEW caller \in Accounts, NEW to \in Accounts \cup {Zero}, NEW amount \in 0..Supply,
             withdrawAvailable(caller, to, amount)
      PROVE  IndInv'
  BY <1>2, ReserveStep
<1>3. ASSUME NEW r \in Releases, consumeGovernedRelease(r) PROVE IndInv'
  BY <1>3, RefuseStep, OpenStep DEF consumeGovernedRelease
<1>4. ASSUME NEW caller \in Accounts, NEW run \in Runs, cure(caller, run) PROVE IndInv'
  BY <1>4, CureStep
<1>5. ASSUME NEW run \in Runs, finalize(run) PROVE IndInv'
  BY <1>5, FinalizeStep
<1>6. ASSUME NEW run \in Runs, NEW side \in Sides, claim(run, side) PROVE IndInv'
  BY <1>6, ClaimStep
<1>7. ASSUME Tick \/ (\E pair \in Screened : changeEligibility(pair)) PROVE IndInv'
  BY <1>7, EnvironmentStep
<1>8. ASSUME UNCHANGED vars PROVE IndInv'
  <2>1. TypeOK' /\ Solvent'
    BY <1>8 DEF IndInv, TypeOK, Solvent, vars, reserveVars, caseVars, tokenVars
  <2>2. LedgerMatchesCases' /\ PaidExactlyOnce' /\ OneCasePerResult'
        /\ IsFiniteSet(attestationConsumed')
    BY <1>8, CasesUnchanged DEF IndInv, LedgerMatchesCases, vars, reserveVars, tokenVars
  <2> QED
    BY <2>1, <2>2 DEF IndInv
<1> QED
  BY <1>1, <1>2, <1>3, <1>4, <1>5, <1>6, <1>7, <1>8 DEF Next

\* In every behaviour of the adapter the invariant always holds.
THEOREM AdapterInvariant == Spec => []IndInv
<1>1. Init => IndInv
  BY InitInv
<1>2. IndInv /\ [Next]_vars => IndInv'
  BY NextInv
<1> QED
  BY <1>1, <1>2, PTL DEF Spec

\* Type correctness of the adapter's storage and conservation of the
\* settlement token.
THEOREM TypeCorrect == Spec => []TypeOK
BY AdapterInvariant, PTL DEF IndInv

\* solvent() can never return false, however funding, withdrawals,
\* donations, releases, cures and claims interleave.
THEOREM SolvencyHolds == Spec => []Solvent
BY AdapterInvariant, PTL DEF IndInv

\* The two liability counters are the exact sums of what the cases owe.
THEOREM LedgerIsExact == Spec => []LedgerMatchesCases
BY AdapterInvariant, PTL DEF IndInv

\* claim pays every entitlement at most once, to its holder, in full.
THEOREM PaymentsAreExact == Spec => []PaidExactlyOnce
BY AdapterInvariant, PTL DEF IndInv

\* A governed result settles at most one run.
THEOREM ResultsAreSingleUse == Spec => []OneCasePerResult
BY AdapterInvariant, PTL DEF IndInv

\* No checked subtraction and no token shortage can block cure, finalize
\* or claim.
THEOREM NothingIsStuck == Spec => []NeverStuck
<1>1. IndInv => NeverStuck
  <2> SUFFICES ASSUME IndInv, NEW run \in Runs
               PROVE  /\ caseByRun[run].state = "CureOpen" => Total(caseByRun[run]) <= openReserved
                      /\ caseByRun[run].state = "Entitled" =>
                            \A s \in Sides \ caseByRun[run].paid :
                                /\ caseByRun[run].payout[s] <= entitledUnpaid
                                /\ caseByRun[run].payout[s] <= balance
    BY DEF NeverStuck
  <2>1. caseByRun[run].state = "CureOpen" => Total(caseByRun[run]) <= openReserved
    BY OpenCaseUnits
  <2>2. ASSUME caseByRun[run].state = "Entitled", NEW s \in Sides \ caseByRun[run].paid
        PROVE  /\ caseByRun[run].payout[s] <= entitledUnpaid
               /\ caseByRun[run].payout[s] <= balance
    <3> DEFINE U == SideUnits(run, s, caseByRun[run].payout[s])
    <3>1. caseByRun[run].payout[s] \in 0..Supply
      BY DEF IndInv, TypeOK, Case
    <3>2. U \subseteq UnpaidUnits
      BY <2>2 DEF SideUnits, UnpaidUnits
    <3>3. Cardinality(U) = caseByRun[run].payout[s]
      BY <3>1, SideUnitsCount
    <3>4. Cardinality(UnpaidUnits) = entitledUnpaid /\ IsFiniteSet(UnpaidUnits)
      BY FiniteSets DEF IndInv, LedgerMatchesCases
    <3>5. caseByRun[run].payout[s] <= entitledUnpaid
      BY <3>2, <3>3, <3>4, FS_Subset
    <3> QED
      BY <3>1, <3>5, AdapterAssumption DEF IndInv, TypeOK, Solvent
  <2> QED
    BY <2>1, <2>2
<1> QED
  BY <1>1, AdapterInvariant, PTL

-----------------------------------------------------------------------------
\* What a single transaction may do to a case.

CaseStep(run) ==
    LET c == caseByRun[run]  d == caseByRun'[run] IN
    /\ d.state \in Successors[c.state]
    /\ c.state # "None" =>
        /\ d.holder = c.holder /\ d.payout = c.payout
        /\ d.cureDeadline = c.cureDeadline
        /\ c.paid \subseteq d.paid
    /\ d.state = "None" => d = c

\* Only the transaction's own run moves, and only along Successors.
LEMMA StepsAreFinal ==
  ASSUME IndInv, [Next]_vars
  PROVE  /\ \A run \in Runs : CaseStep(run)
         /\ resultConsumed \subseteq resultConsumed'
         /\ attestationConsumed \subseteq attestationConsumed'
<1>1. caseByRun \in [Runs -> Case] /\ \A q \in Runs : caseByRun[q].state \in CaseStates
  BY DEF IndInv, TypeOK, Case
<1>2. \A q \in Runs : caseByRun[q].state \in Successors[caseByRun[q].state]
  BY <1>1 DEF Successors, CaseStates
<1>3. ASSUME UNCHANGED caseVars
      PROVE  /\ \A run \in Runs : CaseStep(run)
             /\ resultConsumed \subseteq resultConsumed'
             /\ attestationConsumed \subseteq attestationConsumed'
  BY <1>2, <1>3 DEF caseVars, CaseStep
<1>4. ASSUME NEW r \in Releases, consumeGovernedRelease(r)
      PROVE  /\ \A run \in Runs : CaseStep(run)
             /\ resultConsumed \subseteq resultConsumed'
             /\ attestationConsumed \subseteq attestationConsumed'
  <2>1. caseByRun[r.runId].state = "None" /\ r.runId \in Runs
    BY <1>4, AdapterAssumption DEF consumeGovernedRelease, refuseRelease, openCure,
       releaseAdmitted, Release
  <2>2. \A q \in Runs : q # r.runId => caseByRun'[q] = caseByRun[q]
    BY <1>1, <1>4 DEF consumeGovernedRelease, refuseRelease, openCure
  <2>3. caseByRun'[r.runId].state \in {"Refused", "CureOpen"}
    BY <1>1, <1>4, <2>1 DEF consumeGovernedRelease, refuseRelease, openCure
  <2>4. \A run \in Runs : CaseStep(run)
    BY <1>2, <2>1, <2>2, <2>3 DEF CaseStep, Successors, CaseStates
  <2> QED
    BY <1>4, <2>4 DEF consumeGovernedRelease, refuseRelease, openCure, markConsumed
<1>5. ASSUME NEW run \in Runs, NEW st \in {"Cured", "Entitled"}, caseByRun[run].state = "CureOpen",
             caseByRun' = [caseByRun EXCEPT ![run].state = st]
      PROVE  \A q \in Runs : CaseStep(q)
  <2>1. \A q \in Runs : q # run => caseByRun'[q] = caseByRun[q]
    BY <1>1, <1>5
  <2>2. /\ caseByRun'[run].state = st
        /\ caseByRun'[run].holder = caseByRun[run].holder
        /\ caseByRun'[run].payout = caseByRun[run].payout
        /\ caseByRun'[run].paid = caseByRun[run].paid
        /\ caseByRun'[run].cureDeadline = caseByRun[run].cureDeadline
    BY <1>1, <1>5 DEF Case
  <2>3. st \in Successors[caseByRun[run].state]
    BY <1>5 DEF Successors
  <2>4. CaseStep(run)
    BY <2>2, <2>3 DEF CaseStep
  <2>5. \A q \in Runs : q # run => CaseStep(q)
    BY <1>2, <2>1 DEF CaseStep
  <2> QED
    BY <2>4, <2>5
<1>6. ASSUME NEW run \in Runs, NEW side \in Sides, claim(run, side)
      PROVE  \A q \in Runs : CaseStep(q)
  <2>1. \A q \in Runs : q # run => caseByRun'[q] = caseByRun[q]
    BY <1>1, <1>6 DEF claim
  <2>2. /\ caseByRun[run].state = "Entitled"
        /\ caseByRun'[run].state \in {"Entitled", "Claimed"}
        /\ caseByRun'[run].holder = caseByRun[run].holder
        /\ caseByRun'[run].payout = caseByRun[run].payout
        /\ caseByRun'[run].paid = caseByRun[run].paid \cup {side}
        /\ caseByRun'[run].cureDeadline = caseByRun[run].cureDeadline
    BY <1>1, <1>6 DEF claim, Case
  <2>3. caseByRun'[run].state \in Successors[caseByRun[run].state]
    BY <2>2 DEF Successors
  <2>4. CaseStep(run)
    BY <2>2, <2>3 DEF CaseStep
  <2>5. \A q \in Runs : q # run => CaseStep(q)
    BY <1>2, <2>1 DEF CaseStep
  <2> QED
    BY <2>4, <2>5
<1>7. CASE Next
  <2>1. ASSUME NEW run \in Runs, NEW caller \in Accounts, cure(caller, run) \/ finalize(run)
        PROVE  /\ \A q \in Runs : CaseStep(q)
               /\ UNCHANGED <<resultConsumed, attestationConsumed>>
    BY <1>5, <2>1 DEF cure, finalize
  <2>2. ASSUME NEW run \in Runs, NEW side \in Sides, claim(run, side)
        PROVE  /\ \A q \in Runs : CaseStep(q)
               /\ UNCHANGED <<resultConsumed, attestationConsumed>>
    BY <1>6, <2>2 DEF claim
  <2>3. ASSUME NEW amount \in 0..Supply, NEW caller, NEW to,
               \/ fundReserve(amount) \/ donate(amount) \/ Tick
               \/ withdrawAvailable(caller, to, amount)
               \/ \E pair \in Screened : changeEligibility(pair)
        PROVE  UNCHANGED caseVars
    BY <2>3 DEF fundReserve, donate, Tick, withdrawAvailable, changeEligibility, caseVars
  <2>4. 0 \in 0..Supply /\ Facility \in Accounts
    BY AdapterAssumption
  <2> QED
    BY <1>3, <1>4, <1>7, <2>1, <2>2, <2>3, <2>4 DEF Next
<1> QED
  BY <1>3, <1>7 DEF vars

\* A decision once taken on chain is never revisited.
THEOREM FinalityHolds == Spec => DecisionsAreFinal
<1>1. IndInv /\ [Next]_vars =>
        [/\ \A run \in Runs :
              LET c == caseByRun[run]  d == caseByRun'[run] IN
              /\ d.state \in Successors[c.state]
              /\ c.state # "None" =>
                  /\ d.holder = c.holder /\ d.payout = c.payout
                  /\ d.cureDeadline = c.cureDeadline
                  /\ c.paid \subseteq d.paid
         /\ resultConsumed \subseteq resultConsumed'
         /\ attestationConsumed \subseteq attestationConsumed']_vars
  BY StepsAreFinal DEF CaseStep
<1> QED
  BY <1>1, AdapterInvariant, PTL DEF Spec, DecisionsAreFinal

\* A run that no release has touched still has Solidity's default storage.
Blank == \A run \in Runs : caseByRun[run].state = "None" => caseByRun[run] = NoCase

\* No transaction writes a case of a run without deciding its state.
LEMMA BlankInvariant == Spec => []Blank
<1>1. Init => Blank
  BY DEF Init, Blank
<1>2. IndInv /\ Blank /\ [Next]_vars => Blank'
  BY StepsAreFinal DEF CaseStep, Blank
<1> QED
  BY <1>1, <1>2, AdapterInvariant, PTL DEF Spec

-----------------------------------------------------------------------------
\* The adapter implements RecoursePromise.

PhaseNow == [run \in Runs |-> PhaseOf[caseByRun[run].state]]
DueNow   == [run \in Runs |-> caseByRun[run].payout]
PaidNow  == [run \in Runs |-> caseByRun[run].paid]

\* A transaction that touches neither a case, the free reserve nor the
\* balance is a stuttering step of the promise.
LEMMA PromiseStutter ==
  ASSUME UNCHANGED <<caseByRun, availableReserve, balance>>
  PROVE  UNCHANGED Promise!promiseVars
BY DEF Promise!promiseVars

\* consumeGovernedRelease refuses or earmarks in the promise.
LEMMA PromiseConsume ==
  ASSUME IndInv, Blank, NEW r \in Releases, consumeGovernedRelease(r)
  PROVE  Promise!PromiseNext
<1>0. caseByRun \in [Runs -> Case]
  BY DEF IndInv, TypeOK
<1>1. /\ r.runId \in Runs /\ caseByRun[r.runId].state = "None"
      /\ r.payout \in [Sides -> Nat]
  BY AdapterAssumption DEF consumeGovernedRelease, refuseRelease, openCure,
     releaseAdmitted, Release
<1>2. PhaseNow[r.runId] = "untouched" /\ DueNow[r.runId] = caseByRun[r.runId].payout
  BY <1>1 DEF PhaseNow, DueNow, PhaseOf
<1>3. CASE refuseRelease(r)
  <2>1. caseByRun' = [caseByRun EXCEPT
            ![r.runId] = [state |-> "Refused", paid |-> {}, holder |-> r.holder,
                          payout |-> [s \in Sides |-> 0], cureDeadline |-> 0]]
    BY <1>3 DEF refuseRelease
  <2>2. PhaseNow' = [PhaseNow EXCEPT ![r.runId] = "refused"]
    BY <1>0, <1>1, <2>1 DEF PhaseNow, PhaseOf
  <2>3. caseByRun[r.runId].payout = [s \in Sides |-> 0] /\ caseByRun[r.runId].paid = {}
    BY <1>1 DEF Blank, NoCase
  <2>4. DueNow' = DueNow /\ PaidNow' = PaidNow
    BY <1>0, <1>1, <2>1, <2>3 DEF DueNow, PaidNow
  <2>5. Promise!Refuse(r.runId)
    BY <1>2, <1>3, <2>2, <2>4
       DEF Promise!Refuse, PhaseNow, DueNow, PaidNow, refuseRelease, reserveVars, tokenVars
  <2> QED
    BY <1>1, <2>5 DEF Promise!PromiseNext
<1>4. CASE openCure(r)
  <2>1. caseByRun' = [caseByRun EXCEPT
            ![r.runId] = [state |-> "CureOpen", paid |-> {}, holder |-> r.holder,
                          payout |-> r.payout, cureDeadline |-> now + CureWindow]]
    BY <1>4 DEF openCure
  <2>2. PhaseNow' = [PhaseNow EXCEPT ![r.runId] = "earmarked"]
    BY <1>0, <1>1, <2>1 DEF PhaseNow, PhaseOf
  <2>3. caseByRun[r.runId].paid = {}
    BY <1>1 DEF Blank, NoCase
  <2>4. DueNow' = [DueNow EXCEPT ![r.runId] = r.payout] /\ PaidNow' = PaidNow
    BY <1>0, <1>1, <2>1, <2>3 DEF DueNow, PaidNow
  <2>5. availableReserve \in 0..Supply /\ Supply \in Nat
    BY AdapterAssumption DEF IndInv, TypeOK
  <2>6. r.payout \in [Sides -> 0..Supply] /\ Total(r) > 0
    BY <1>1, <1>4, <2>5 DEF openCure, Total, Sides
  <2>7. Promise!Earmark(r.runId, r.payout)
    BY <1>2, <1>4, <2>2, <2>4, <2>6
       DEF Promise!Earmark, Promise!Sum, PhaseNow, DueNow, PaidNow, openCure, Total, tokenVars
  <2> QED
    BY <1>1, <2>6, <2>7 DEF Promise!PromiseNext
<1> QED
  BY <1>3, <1>4 DEF consumeGovernedRelease

\* cure releases an earmark in the promise, and finalize makes it owed.
LEMMA PromiseClose ==
  ASSUME IndInv, NEW run \in Runs, NEW caller, cure(caller, run) \/ finalize(run)
  PROVE  Promise!PromiseNext
<1>0. caseByRun \in [Runs -> Case] /\ caseByRun[run] \in Case /\ caseByRun[run].state = "CureOpen"
  BY DEF IndInv, TypeOK, cure, finalize
<1>1. PhaseNow[run] = "earmarked" /\ DueNow[run] = caseByRun[run].payout
  BY <1>0 DEF PhaseNow, DueNow, PhaseOf
<1>2. ASSUME NEW st \in {"Cured", "Entitled"}, caseByRun' = [caseByRun EXCEPT ![run].state = st]
      PROVE  /\ PhaseNow' = [PhaseNow EXCEPT ![run] = PhaseOf[st]]
             /\ DueNow' = DueNow /\ PaidNow' = PaidNow
  <2>1. /\ \A q \in Runs : q # run => caseByRun'[q] = caseByRun[q]
        /\ caseByRun'[run].state = st /\ caseByRun'[run].payout = caseByRun[run].payout
        /\ caseByRun'[run].paid = caseByRun[run].paid
    BY <1>0, <1>2 DEF Case
  <2> QED
    BY <2>1 DEF PhaseNow, DueNow, PaidNow
<1>3. CASE cure(caller, run)
  <2>1. PhaseNow' = [PhaseNow EXCEPT ![run] = "released"] /\ DueNow' = DueNow /\ PaidNow' = PaidNow
    BY <1>2, <1>3 DEF cure, PhaseOf
  <2>2. Promise!ReleaseEarmark(run)
    BY <1>1, <1>3, <2>1 DEF Promise!ReleaseEarmark, Promise!Sum, PhaseNow, DueNow, PaidNow,
       cure, Total, tokenVars
  <2> QED
    BY <2>2 DEF Promise!PromiseNext
<1>4. CASE finalize(run)
  <2>1. PhaseNow' = [PhaseNow EXCEPT ![run] = "owed"] /\ DueNow' = DueNow /\ PaidNow' = PaidNow
    BY <1>2, <1>4 DEF finalize, PhaseOf
  <2>2. Promise!Owe(run)
    BY <1>1, <1>4, <2>1 DEF Promise!Owe, PhaseNow, DueNow, PaidNow, finalize, tokenVars
  <2> QED
    BY <2>2 DEF Promise!PromiseNext
<1> QED
  BY <1>3, <1>4

\* claim settles one side of an owed run in the promise.
LEMMA PromisePay ==
  ASSUME IndInv, NEW run \in Runs, NEW side \in Sides, claim(run, side)
  PROVE  Promise!PromiseNext
<1>0. /\ caseByRun \in [Runs -> Case] /\ caseByRun[run] \in Case
      /\ caseByRun[run].state = "Entitled" /\ caseByRun[run].payout[side] \in Nat \ {0}
  BY DEF IndInv, TypeOK, claim, Case
<1>1. /\ PhaseNow[run] = "owed" /\ DueNow[run] = caseByRun[run].payout
      /\ PaidNow[run] = caseByRun[run].paid
  BY <1>0 DEF PhaseNow, DueNow, PaidNow, PhaseOf
<1>2. /\ \A q \in Runs : q # run => caseByRun'[q] = caseByRun[q]
      /\ caseByRun'[run].state \in {"Entitled", "Claimed"}
      /\ caseByRun'[run].payout = caseByRun[run].payout
      /\ caseByRun'[run].paid = caseByRun[run].paid \cup {side}
  BY <1>0 DEF claim, Case
<1>3. PhaseOf[caseByRun'[run].state] = "owed"
  BY <1>2 DEF PhaseOf
<1>4. PhaseNow' = PhaseNow /\ DueNow' = DueNow
  BY <1>1, <1>2, <1>3 DEF PhaseNow, DueNow
<1>5. PaidNow' = [PaidNow EXCEPT ![run] = @ \cup {side}]
  BY <1>1, <1>2 DEF PaidNow
<1>6. Promise!Pay(run, side)
  BY <1>0, <1>1, <1>4, <1>5 DEF Promise!Pay, PhaseNow, DueNow, PaidNow, claim
<1> QED
  BY <1>6 DEF Promise!PromiseNext

\* Funding, withdrawing and donating move only free money in the promise.
LEMMA PromiseReserve ==
  ASSUME IndInv, NEW amount \in 0..Supply, NEW caller, NEW to,
         \/ fundReserve(amount) \/ donate(amount) \/ withdrawAvailable(caller, to, amount)
  PROVE  Promise!PromiseNext
<1>1. \/ Promise!Deposit(amount) \/ Promise!Gift(amount) \/ Promise!TakeBack(amount)
  BY DEF Promise!Deposit, Promise!Gift, Promise!TakeBack, fundReserve, donate,
     withdrawAvailable, caseVars, reserveVars
<1> QED
  BY <1>1 DEF Promise!PromiseNext

\* Every behaviour of the adapter is a behaviour of the promise.
THEOREM AdapterKeepsPromise == Spec => KeepsPromise
<1>1. Init => Promise!PromiseInit
  <2> SUFFICES ASSUME Init PROVE Promise!PromiseInit
    OBVIOUS
  <2>1. \A run \in Runs : /\ caseByRun[run].state = "None" /\ caseByRun[run].paid = {}
                          /\ caseByRun[run].payout = [s \in Sides |-> 0]
    BY DEF Init, NoCase
  <2>2. PhaseOf["None"] = "untouched"
    BY DEF PhaseOf
  <2> QED
    BY <2>1, <2>2 DEF Promise!PromiseInit, Init
<1>2. IndInv /\ Blank /\ [Next]_vars => [Promise!PromiseNext]_(Promise!promiseVars)
  <2> SUFFICES ASSUME IndInv, Blank, [Next]_vars
               PROVE  Promise!PromiseNext \/ UNCHANGED Promise!promiseVars
    OBVIOUS
  <2>1. ASSUME NEW amount \in 0..Supply, fundReserve(amount) \/ donate(amount)
        PROVE  Promise!PromiseNext
    BY <2>1, PromiseReserve
  <2>2. ASSUME NEW caller \in Accounts, NEW to \in Accounts \cup {Zero}, NEW amount \in 0..Supply,
               withdrawAvailable(caller, to, amount)
        PROVE  Promise!PromiseNext
    BY <2>2, PromiseReserve
  <2>3. ASSUME NEW r \in Releases, consumeGovernedRelease(r) PROVE Promise!PromiseNext
    BY <2>3, PromiseConsume
  <2>4. ASSUME NEW caller \in Accounts, NEW run \in Runs, cure(caller, run)
        PROVE  Promise!PromiseNext
    BY <2>4, PromiseClose
  <2>5. ASSUME NEW run \in Runs, finalize(run) PROVE Promise!PromiseNext
    BY <2>5, PromiseClose
  <2>6. ASSUME NEW run \in Runs, NEW side \in Sides, claim(run, side) PROVE Promise!PromiseNext
    BY <2>6, PromisePay
  <2>7. ASSUME \/ Tick \/ (\E pair \in Screened : changeEligibility(pair)) \/ UNCHANGED vars
        PROVE  UNCHANGED Promise!promiseVars
    <3>1. UNCHANGED <<caseByRun, availableReserve, balance>>
      BY <2>7 DEF Tick, changeEligibility, vars, caseVars, reserveVars, tokenVars
    <3> QED
      BY <3>1, PromiseStutter
  <2> QED
    BY <2>1, <2>2, <2>3, <2>4, <2>5, <2>6, <2>7 DEF Next
<1> QED
  BY <1>1, <1>2, AdapterInvariant, BlankInvariant, PTL DEF Spec, KeepsPromise, Promise!PromiseSpec

-----------------------------------------------------------------------------
(***************************************************************************)
(* The bridge around the adapter.                                          *)
(***************************************************************************)

\* The store: a profile in flight was chosen before any result; the file
\* a committer holds open is the partial one, and nobody else's.
Store ==
    /\ \A c \in Committers :
        LET x == committer[c] IN
        /\ x.phase = "asked" /\ resultFile = "absent" => x.blind
        /\ x.phase \in {"checked", "opened", "done"} => x.blind
        /\ x.phase \in {"asked", "checked", "opened"} => x.profile \in Profiles
        /\ x.phase = "opened" => profileFile = Partial
    /\ \A c, d \in Committers :
        committer[c].phase = "opened" /\ committer[d].phase = "opened" => c = d
    /\ ChosenBlind

\* What has to be true of a release before it may be signed.
Covered(r) ==
    /\ planAvailable
    /\ r \in Releases
    /\ r.runId = Run
    /\ Total(r) # 0
    /\ TermsOf(r) = TermsOf(profileFile)

\* What an executor holds in memory.
Held ==
    \A e \in Executors :
        LET x == executor[e] IN
        /\ x.phase # "idle" => x.release \in Releases /\ x.release.runId = Run
        /\ x.plan # None => planAvailable /\ x.plan = TermsOf(profileFile)
        /\ x.phase \in {"permitted", "signed", "sent", "reconciled"} => Covered(x.release)
        /\ x.phase \in {"signed", "sent", "reconciled"} => x.release \in authorized

\* What was signed is the durable record, and is covered.
Signed ==
    /\ OneAuthorization
    /\ \A r \in authorized : Covered(r)

\* The inductive invariant of the composition.  That a case on chain is on
\* the committed terms needs every signature to be covered by the profile,
\* which needs the permit an executor holds across other processes' steps
\* to stay covered, which needs the profile and the result never to change
\* once they are complete.
BridgeInv ==
    /\ BridgeTypeOK
    /\ Store
    /\ Held
    /\ Signed
    /\ PaidOnlyAsCommitted

-----------------------------------------------------------------------------
\* An empty run directory next to a freshly deployed adapter.
LEMMA BridgeInitInv == BridgeInit => BridgeInv
<1> SUFFICES ASSUME BridgeInit PROVE BridgeInv
  OBVIOUS
<1>1. BridgeTypeOK
  BY BridgeAssumption DEF BridgeInit, BridgeTypeOK, Idle, Unprepared, CommitPhases,
     ExecutorPhases
<1>2. Store
  BY BridgeAssumption DEF BridgeInit, Store, ChosenBlind, Idle
<1>3. Held
  BY DEF BridgeInit, Held, Unprepared
<1>4. Signed
  BY DEF BridgeInit, Signed, OneAuthorization
<1>5. PaidOnlyAsCommitted
  BY BridgeAssumption DEF BridgeInit, Init, PaidOnlyAsCommitted, NoCase
<1> QED
  BY <1>1, <1>2, <1>3, <1>4, <1>5 DEF BridgeInv

\* The steps of the processes that write the run directory.
FileStep ==
    \/ \E c \in Committers : commitSettlementProfile(c) \/ crashCommitter(c)
    \/ \E outcome \in {"conflict", "clear"} : publishResult(outcome)
    \/ \E terms \in Configurations : selectConfiguration(terms)

\* Once a plan can be derived from the run directory, no committer, no
\* crash, no second result and no new configuration can change it.
LEMMA PlanIsStable ==
  ASSUME BridgeInv, FileStep
  PROVE  /\ UNCHANGED <<signVars, vars>>
         /\ profileFile \in Profiles => profileFile' = profileFile
         /\ resultFile # "absent" => resultFile' = resultFile
         /\ planAvailable => planAvailable' /\ profileFile' = profileFile
<1>1. UNCHANGED <<signVars, vars>>
  BY DEF FileStep, commitSettlementProfile, proposeProfile, checkNoResult, createProfile,
     writeProfile, crashCommitter, publishResult, selectConfiguration
<1>2. profileFile \in Profiles => profileFile' = profileFile
  <2>1. CASE \E c \in Committers : commitSettlementProfile(c)
    BY <2>1, BridgeAssumption DEF BridgeInv, Store, commitSettlementProfile, proposeProfile,
       checkNoResult, createProfile, writeProfile
  <2>2. CASE ~ \E c \in Committers : commitSettlementProfile(c)
    BY <2>2 DEF FileStep, crashCommitter, publishResult, selectConfiguration
  <2> QED
    BY <2>1, <2>2
<1>3. resultFile # "absent" => resultFile' = resultFile
  BY DEF FileStep, commitSettlementProfile, proposeProfile, checkNoResult, createProfile,
     writeProfile, crashCommitter, publishResult, selectConfiguration
<1>4. planAvailable => planAvailable' /\ profileFile' = profileFile
  BY <1>2, <1>3 DEF planAvailable
<1> QED
  BY <1>1, <1>2, <1>3, <1>4

\* The run directory keeps its type.
LEMMA FileStepType ==
  ASSUME BridgeInv, FileStep
  PROVE  BridgeTypeOK'
<1>1. UNCHANGED signVars
  BY PlanIsStable
<1>2. ASSUME NEW c \in Committers, commitSettlementProfile(c) \/ crashCommitter(c)
      PROVE  BridgeTypeOK'
  <2>1. committer' \in [Committers -> [phase : CommitPhases,
                                      profile : Profiles \cup {None}, blind : BOOLEAN]]
    <3> DEFINE b == (resultFile = "absent")
    <3>1. b \in BOOLEAN
      OBVIOUS
    <3>2. ASSUME NEW p \in Profiles, proposeProfile(c, p)
          PROVE  committer' = [committer EXCEPT
                                  ![c] = [phase |-> "asked", profile |-> p, blind |-> b]]
      BY <3>2 DEF proposeProfile
    <3> HIDE DEF b
    <3>3. CASE \E p \in Profiles : proposeProfile(c, p)
      BY <3>1, <3>2, <3>3 DEF BridgeInv, BridgeTypeOK, CommitPhases
    <3>4. ASSUME NEW v \in CommitPhases, committer' = [committer EXCEPT ![c].phase = v]
          PROVE  committer' \in [Committers -> [phase : CommitPhases,
                                      profile : Profiles \cup {None}, blind : BOOLEAN]]
      BY <3>4 DEF BridgeInv, BridgeTypeOK
    <3>5. CASE checkNoResult(c) \/ createProfile(c) \/ writeProfile(c)
      BY <3>4, <3>5 DEF checkNoResult, createProfile, writeProfile, CommitPhases
    <3>6. CASE crashCommitter(c)
      BY <3>6 DEF BridgeInv, BridgeTypeOK, crashCommitter, Idle, CommitPhases
    <3> QED
      BY <1>2, <3>3, <3>5, <3>6 DEF commitSettlementProfile
  <2>2. profileFile' \in Profiles \cup {None, Partial}
    BY <1>2 DEF BridgeInv, BridgeTypeOK, Store, commitSettlementProfile, proposeProfile,
       checkNoResult, createProfile, writeProfile, crashCommitter
  <2>3. UNCHANGED <<resultFile, configuration>>
    BY <1>2 DEF commitSettlementProfile, proposeProfile, checkNoResult, createProfile,
       writeProfile, crashCommitter
  <2> QED
    BY <1>1, <2>1, <2>2, <2>3 DEF BridgeInv, BridgeTypeOK, signVars
<1>3. ASSUME NEW outcome \in {"conflict", "clear"}, publishResult(outcome)
      PROVE  BridgeTypeOK'
  BY <1>3 DEF BridgeInv, BridgeTypeOK, publishResult, signVars
<1>4. ASSUME NEW terms \in Configurations, selectConfiguration(terms)
      PROVE  BridgeTypeOK'
  BY <1>4 DEF BridgeInv, BridgeTypeOK, selectConfiguration, signVars
<1> QED
  BY <1>2, <1>3, <1>4 DEF FileStep

\* Whoever is on the way to writing the profile chose it blind, and only
\* one of them can have the file open.
LEMMA FileStepStore ==
  ASSUME BridgeInv, FileStep
  PROVE  Store'
<1> USE BridgeAssumption
<1>1. ASSUME NEW c \in Committers, \E p \in Profiles : proposeProfile(c, p)
      PROVE  Store'
  <2> DEFINE b == (resultFile = "absent")
  <2>1. PICK p \in Profiles : proposeProfile(c, p)
    BY <1>1
  <2>2. committer' = [committer EXCEPT
                         ![c] = [phase |-> "asked", profile |-> p, blind |-> b]]
    BY <2>1 DEF proposeProfile
  <2>3. b \in BOOLEAN /\ (resultFile = "absent" => b)
    OBVIOUS
  <2>4. UNCHANGED <<profileFile, resultFile>> /\ committer[c].phase = "idle"
    BY <2>1 DEF proposeProfile
  <2>5. ChosenBlind'
    BY <2>2, <2>4 DEF BridgeInv, BridgeTypeOK, Store, ChosenBlind
  <2> HIDE DEF b
  <2> QED
    BY <2>2, <2>3, <2>4, <2>5 DEF BridgeInv, BridgeTypeOK, Store
<1>2. ASSUME NEW c \in Committers, checkNoResult(c)
      PROVE  Store'
  BY <1>2 DEF BridgeInv, BridgeTypeOK, Store, ChosenBlind, checkNoResult
<1>3. ASSUME NEW c \in Committers, createProfile(c)
      PROVE  Store'
  BY <1>3 DEF BridgeInv, BridgeTypeOK, Store, ChosenBlind, createProfile
<1>4. ASSUME NEW c \in Committers, writeProfile(c)
      PROVE  Store'
  BY <1>4 DEF BridgeInv, BridgeTypeOK, Store, ChosenBlind, writeProfile
<1>5. ASSUME NEW c \in Committers, crashCommitter(c)
      PROVE  Store'
  BY <1>5 DEF BridgeInv, BridgeTypeOK, Store, ChosenBlind, crashCommitter, Idle
<1>6. ASSUME NEW outcome \in {"conflict", "clear"}, publishResult(outcome)
      PROVE  Store'
  BY <1>6 DEF BridgeInv, BridgeTypeOK, Store, ChosenBlind, publishResult
<1>7. ASSUME NEW terms \in Configurations, selectConfiguration(terms)
      PROVE  Store'
  BY <1>7 DEF BridgeInv, BridgeTypeOK, Store, ChosenBlind, selectConfiguration
<1> QED
  BY <1>1, <1>2, <1>3, <1>4, <1>5, <1>6, <1>7 DEF FileStep, commitSettlementProfile

\* A release that is covered stays covered while other processes write.
LEMMA FileStepInv ==
  ASSUME BridgeInv, FileStep
  PROVE  BridgeInv'
<1>1. /\ UNCHANGED <<signVars, vars>>
      /\ profileFile \in Profiles => profileFile' = profileFile
      /\ resultFile # "absent" => resultFile' = resultFile
      /\ planAvailable => planAvailable' /\ profileFile' = profileFile
  BY PlanIsStable
<1>2. \A r : Covered(r) => Covered(r)'
  BY <1>1 DEF Covered
<1>3. Held'
  BY <1>1, <1>2 DEF BridgeInv, Held, signVars
<1>4. Signed'
  BY <1>1, <1>2 DEF BridgeInv, Signed, OneAuthorization, signVars
<1>5. PaidOnlyAsCommitted'
  BY <1>1 DEF BridgeInv, PaidOnlyAsCommitted, vars, caseVars
<1> QED
  BY <1>3, <1>4, <1>5, FileStepType, FileStepStore DEF BridgeInv
-----------------------------------------------------------------------------
\* The steps of the executors and the relay.
ExecutorStep == \E e \in Executors : bridgeExecutor(e) \/ crashExecutor(e)

\* Executors write neither the run directory nor, by themselves, the chain.
LEMMA ExecutorLeavesAlone == ExecutorStep => UNCHANGED <<fileVars, vars>>
BY DEF ExecutorStep, bridgeExecutor, prepareDirect, simulate, refuseStale, signNew,
   signExisting, broadcast, reconcileReceipt, crashExecutor

\* The record an executor keeps in memory has its type.
Memory == [phase : ExecutorPhases, release : Releases \cup {None},
           plan : Terms \cup {None}, simulatedAt : Nat]

\* A preparation is built from the files as they are when it is made.
LEMMA PrepareInv ==
  ASSUME BridgeInv, NEW e \in Executors, NEW r \in Releases, NEW withPlan \in BOOLEAN,
         prepareDirect(e, r, withPlan)
  PROVE  BridgeTypeOK' /\ Held' /\ Signed'
<1> DEFINE plan == IF withPlan THEN TermsOf(profileFile) ELSE None
           x == [phase |-> "prepared", release |-> r, simulatedAt |-> 0, plan |-> plan]
<1>1. /\ executor' = [executor EXCEPT ![e] = x]
      /\ UNCHANGED <<bridgeRecord, authorized, mempool, profileFile, resultFile,
                     configuration, committer>>
      /\ r.runId = Run
  BY DEF prepareDirect, fileVars
<1>2. plan \in Terms \cup {None} /\ (plan # None => planAvailable /\ plan = TermsOf(profileFile))
  <2>1. CASE withPlan
    <3>1. planAvailable /\ profileFile \in Profile
      BY <2>1, BridgeAssumption DEF prepareDirect, planAvailable
    <3>2. TermsOf(profileFile) \in Terms
      BY <3>1 DEF Profile, Terms, TermsOf
    <3> QED
      BY <2>1, <3>1, <3>2
  <2>2. CASE ~withPlan
    BY <2>2
  <2> QED
    BY <2>1, <2>2
<1> HIDE DEF plan
<1>3. x \in Memory
  BY <1>2 DEF Memory, ExecutorPhases
<1>4. x.phase = "prepared" /\ x.release = r /\ x.plan = plan
  OBVIOUS
<1> HIDE DEF x
<1>5. BridgeTypeOK'
  BY <1>1, <1>3 DEF BridgeInv, BridgeTypeOK, Memory
<1>6. planAvailable' <=> planAvailable
  BY <1>1 DEF planAvailable
<1>7. \A q : Covered(q)' <=> Covered(q)
  BY <1>1, <1>6 DEF Covered
<1>8. Held'
  BY <1>1, <1>2, <1>4, <1>6, <1>7 DEF BridgeInv, BridgeTypeOK, Held
<1>9. Signed'
  BY <1>1, <1>7 DEF BridgeInv, Signed, OneAuthorization
<1> QED
  BY <1>5, <1>8, <1>9

\* A permit is only given for a release that the profile in the store
\* covers: the plan compared with it can be derived from no other file.
LEMMA SimulateInv ==
  ASSUME BridgeInv, TypeOK, NEW e \in Executors, simulate(e)
  PROVE  BridgeTypeOK' /\ Held' /\ Signed'
<1> DEFINE x == executor[e]
<1>1. /\ executor' = [executor EXCEPT ![e].phase = "permitted", ![e].simulatedAt = now]
      /\ UNCHANGED <<bridgeRecord, authorized, mempool, profileFile, resultFile,
                     configuration, committer>>
      /\ x.phase = "prepared"
  BY DEF simulate, fileVars
<1>2. x \in Memory /\ now \in Nat /\ "permitted" \in ExecutorPhases
  BY AdapterAssumption DEF BridgeInv, BridgeTypeOK, TypeOK, Memory, ExecutorPhases
<1>3. x.release \in Releases /\ x.release.runId = Run
  BY <1>1 DEF BridgeInv, Held
<1>4. Covered(x.release)
  <2>1. Total(x.release) # 0
    BY DEF simulate, simulationSucceeds
  <2>2. x.release \in Release
    BY <1>3, AdapterAssumption
  <2>3. Total(x.release) > 0
    BY <2>1, <2>2 DEF Total, Release, Sides
  <2>4. x.plan = TermsOf(x.release)
    BY <2>3 DEF simulate, planCovers
  <2>5. TermsOf(x.release) \in Terms
    BY <2>2 DEF Release, Terms, TermsOf
  <2>6. x.plan # None
    BY <2>4, <2>5, BridgeAssumption
  <2>7. planAvailable /\ x.plan = TermsOf(profileFile)
    BY <2>6 DEF BridgeInv, Held
  <2> QED
    BY <1>3, <2>1, <2>4, <2>7 DEF Covered
<1>5. BridgeTypeOK'
  <2>1. executor \in [Executors -> Memory]
    BY DEF BridgeInv, BridgeTypeOK, Memory
  <2>2. [x EXCEPT !.phase = "permitted", !.simulatedAt = now] \in Memory
    BY <1>2 DEF Memory
  <2>3. executor' \in [Executors -> Memory]
    BY <1>1, <2>1, <2>2
  <2> QED
    BY <1>1, <2>3 DEF BridgeInv, BridgeTypeOK, Memory
<1>6. planAvailable' <=> planAvailable
  BY <1>1 DEF planAvailable
<1>7. \A q : Covered(q)' <=> Covered(q)
  BY <1>1, <1>6 DEF Covered
<1>8. /\ executor'[e].phase = "permitted" /\ executor'[e].release = x.release
      /\ executor'[e].plan = x.plan
      /\ \A f \in Executors : f # e => executor'[f] = executor[f]
  <2>1. executor \in [Executors -> Memory]
    BY DEF BridgeInv, BridgeTypeOK, Memory
  <2>2. /\ executor'[e] = [x EXCEPT !.phase = "permitted", !.simulatedAt = now]
        /\ \A f \in Executors : f # e => executor'[f] = executor[f]
    BY <1>1, <2>1
  <2> QED
    BY <1>2, <2>2 DEF Memory
<1>9. Held'
  <2>1. PICK r \in Releases : r = x.release
    BY <1>3
  <2>2. Covered(r)'
    BY <1>4, <1>7, <2>1
  <2>3. Covered(executor[e].release)'
    BY <1>8, <2>1, <2>2
  <2>4. UNCHANGED <<authorized, profileFile>>
    BY <1>1
  <2> SUFFICES ASSUME NEW f \in Executors
               PROVE  LET y == executor'[f] IN
                      /\ y.phase # "idle" => y.release \in Releases /\ y.release.runId = Run
                      /\ y.plan # None => planAvailable' /\ y.plan = TermsOf(profileFile')
                      /\ y.phase \in {"permitted", "signed", "sent", "reconciled"} =>
                            Covered(executor[f].release)'
                      /\ y.phase \in {"signed", "sent", "reconciled"} => y.release \in authorized'
    BY DEF Held
  <2>5. CASE f = e
    BY <1>3, <1>6, <1>8, <2>3, <2>4, <2>5 DEF BridgeInv, Held
  <2>6. CASE f # e
    <3>1. executor'[f] = executor[f]
      BY <1>8, <2>6
    <3>2. Covered(executor[f].release) => Covered(executor[f].release)'
      BY <3>1, <2>4, <1>6 DEF Covered
    <3> QED
      BY <1>6, <2>4, <3>1, <3>2 DEF BridgeInv, Held
  <2> QED
    BY <2>5, <2>6
<1>10. Signed'
  BY <1>1, <1>7 DEF BridgeInv, Signed, OneAuthorization
<1> QED
  BY <1>5, <1>9, <1>10

\* Signing hands out a signature on the durable record only.
LEMMA SignInv ==
  ASSUME BridgeInv, NEW e \in Executors, signNew(e) \/ signExisting(e)
  PROVE  BridgeTypeOK' /\ Held' /\ Signed'
<1> DEFINE x == executor[e]
<1>1. /\ UNCHANGED <<mempool, profileFile, resultFile, configuration, committer>>
      /\ x.phase = "permitted"
  BY DEF signNew, signExisting, fileVars
<1>2. x \in Memory
  BY DEF BridgeInv, BridgeTypeOK, Memory
<1>3. x.release \in Releases /\ x.release.runId = Run /\ Covered(x.release)
  BY <1>1 DEF BridgeInv, Held
<1>4. planAvailable' <=> planAvailable
  BY <1>1 DEF planAvailable
<1>5. \A q : Covered(q)' <=> Covered(q)
  BY <1>1, <1>4 DEF Covered
<1>6. CASE /\ executor' = [executor EXCEPT ![e].phase = "signed"]
           /\ bridgeRecord' = x.release
           /\ authorized' = authorized \cup {x.release}
           /\ authorized \subseteq {x.release}
  <2>1. BridgeTypeOK'
    BY <1>1, <1>2, <1>3, <1>6 DEF BridgeInv, BridgeTypeOK, Memory, ExecutorPhases
  <2>2. /\ executor'[e].phase = "signed" /\ executor'[e].release = x.release
        /\ executor'[e].plan = x.plan
        /\ \A f \in Executors : f # e => executor'[f] = executor[f]
    BY <1>2, <1>6 DEF BridgeInv, BridgeTypeOK, Memory
  <2>3. Held'
    BY <1>3, <1>4, <1>5, <1>1, <1>6, <2>2 DEF BridgeInv, Held
  <2>4. Signed'
    BY <1>1, <1>3, <1>5, <1>6 DEF BridgeInv, Signed, OneAuthorization
  <2> QED
    BY <2>1, <2>3, <2>4
<1>7. CASE /\ executor' = [executor EXCEPT ![e] = Unprepared]
           /\ UNCHANGED <<bridgeRecord, authorized>>
  <2>1. BridgeTypeOK'
    BY <1>1, <1>7 DEF BridgeInv, BridgeTypeOK, Unprepared, ExecutorPhases
  <2>2. Held'
    BY <1>1, <1>4, <1>5, <1>7 DEF BridgeInv, BridgeTypeOK, Held, Unprepared
  <2>3. Signed'
    BY <1>1, <1>5, <1>7 DEF BridgeInv, Signed, OneAuthorization
  <2> QED
    BY <2>1, <2>2, <2>3
<1>8. CASE signNew(e)
  <2>1. authorized = {}
    BY <1>8, BridgeAssumption DEF signNew, BridgeInv, BridgeTypeOK, Signed, OneAuthorization
  <2> QED
    BY <1>6, <1>8, <2>1 DEF signNew
<1>9. CASE signExisting(e)
  <2>1. CASE reusable(x)
    <3>1. [x EXCEPT !.phase = "signed"] = [executor[e] EXCEPT !.phase = "signed"]
      OBVIOUS
    <3>2. executor' = [executor EXCEPT ![e].phase = "signed"]
      BY <1>9, <2>1 DEF signExisting, BridgeInv, BridgeTypeOK
    <3> QED
      BY <1>6, <1>9, <2>1, <3>2 DEF signExisting, reusable, BridgeInv, Signed, OneAuthorization
  <2>2. CASE ~reusable(x)
    BY <1>7, <1>9, <2>2 DEF signExisting
  <2> QED
    BY <2>1, <2>2
<1> QED
  BY <1>8, <1>9

\* A stale permit and a crash lose the executor's memory, nothing else.
LEMMA ForgetInv ==
  ASSUME BridgeInv, NEW e \in Executors, refuseStale(e) \/ crashExecutor(e)
  PROVE  BridgeTypeOK' /\ Held' /\ Signed'
<1>1. /\ executor' = [executor EXCEPT ![e] = Unprepared]
      /\ UNCHANGED <<bridgeRecord, authorized, mempool, profileFile, resultFile,
                     configuration, committer>>
  BY DEF refuseStale, crashExecutor, fileVars
<1>2. planAvailable' <=> planAvailable
  BY <1>1 DEF planAvailable
<1>3. \A q : Covered(q)' <=> Covered(q)
  BY <1>1, <1>2 DEF Covered
<1>4. BridgeTypeOK'
  BY <1>1 DEF BridgeInv, BridgeTypeOK, Unprepared, ExecutorPhases
<1>5. Held'
  BY <1>1, <1>2, <1>3 DEF BridgeInv, BridgeTypeOK, Held, Unprepared
<1>6. Signed'
  BY <1>1, <1>3 DEF BridgeInv, Signed, OneAuthorization
<1> QED
  BY <1>4, <1>5, <1>6

\* The relay only sends what was signed.
LEMMA RelayInv ==
  ASSUME BridgeInv, NEW e \in Executors, broadcast(e) \/ reconcileReceipt(e)
  PROVE  BridgeTypeOK' /\ Held' /\ Signed'
<1> DEFINE x == executor[e]
<1>1. PICK v \in {"sent", "reconciled"} : executor' = [executor EXCEPT ![e].phase = v]
  BY DEF broadcast, reconcileReceipt
<1>2. /\ UNCHANGED <<bridgeRecord, authorized, profileFile, resultFile, configuration, committer>>
      /\ x.phase \in {"signed", "sent"}
      /\ mempool' \subseteq mempool \cup {x.release}
  BY DEF broadcast, reconcileReceipt, fileVars
<1>3. x \in Memory
  BY DEF BridgeInv, BridgeTypeOK, Memory
<1>4. x.release \in Releases /\ x.release.runId = Run /\ Covered(x.release)
      /\ x.release \in authorized
  BY <1>2 DEF BridgeInv, Held
<1>5. planAvailable' <=> planAvailable
  BY <1>2 DEF planAvailable
<1>6. \A q : Covered(q)' <=> Covered(q)
  BY <1>2, <1>5 DEF Covered
<1>7. v \in ExecutorPhases
  BY DEF ExecutorPhases
<1>8. BridgeTypeOK'
  BY <1>1, <1>2, <1>3, <1>4, <1>7 DEF BridgeInv, BridgeTypeOK, Memory
<1>9. /\ executor'[e].phase = v /\ executor'[e].release = x.release
      /\ executor'[e].plan = x.plan
      /\ \A f \in Executors : f # e => executor'[f] = executor[f]
  BY <1>1, <1>3 DEF BridgeInv, BridgeTypeOK, Memory
<1>10. Held'
  BY <1>2, <1>4, <1>5, <1>6, <1>9 DEF BridgeInv, Held
<1>11. Signed'
  BY <1>2, <1>4, <1>6 DEF BridgeInv, Signed, OneAuthorization
<1> QED
  BY <1>8, <1>10, <1>11

\* Whatever an executor does, with or without a crash.
LEMMA ExecutorStepInv ==
  ASSUME BridgeInv, TypeOK, ExecutorStep
  PROVE  BridgeInv'
<1>1. UNCHANGED <<fileVars, vars>>
  BY ExecutorLeavesAlone
<1>2. BridgeTypeOK' /\ Held' /\ Signed'
  BY PrepareInv, SimulateInv, SignInv, ForgetInv, RelayInv DEF ExecutorStep, bridgeExecutor
<1>3. Store'
  BY <1>1 DEF BridgeInv, Store, ChosenBlind, fileVars
<1>4. PaidOnlyAsCommitted'
  BY <1>1 DEF BridgeInv, PaidOnlyAsCommitted, fileVars, vars, caseVars
<1> QED
  BY <1>2, <1>3, <1>4 DEF BridgeInv

-----------------------------------------------------------------------------
\* The adapter.

\* A case appears only by consuming a release of its run, and then carries
\* the release's terms if the release pays anything.
LEMMA OpensByRelease ==
  ASSUME TypeOK, Next, NEW run \in Runs, caseByRun[run].state = "None",
         caseByRun'[run].state # "None"
  PROVE  \E r \in Releases : /\ r.runId = run
                             /\ r \in attestationConsumed' \ attestationConsumed
                             /\ Total(r) # 0 =>
                                    /\ caseByRun'[run].holder = r.holder
                                    /\ caseByRun'[run].payout = r.payout
<1>1. caseByRun \in [Runs -> Case]
  BY DEF TypeOK
<1>2. ASSUME NEW r \in Releases, consumeGovernedRelease(r)
      PROVE  /\ r.runId = run
             /\ r \in attestationConsumed' \ attestationConsumed
             /\ Total(r) # 0 => /\ caseByRun'[run].holder = r.holder
                                /\ caseByRun'[run].payout = r.payout
  <2>1. r.runId = run
    BY <1>1, <1>2 DEF consumeGovernedRelease, refuseRelease, openCure
  <2>2. r \in attestationConsumed' \ attestationConsumed
    BY <1>2 DEF consumeGovernedRelease, refuseRelease, openCure, markConsumed, releaseAdmitted
  <2>3. refuseRelease(r) => Total(r) = 0
    BY DEF refuseRelease, Total, Sides
  <2>4. openCure(r) => /\ caseByRun'[run].holder = r.holder
                       /\ caseByRun'[run].payout = r.payout
    BY <1>1, <2>1 DEF openCure
  <2> QED
    BY <1>2, <2>1, <2>2, <2>3, <2>4 DEF consumeGovernedRelease
<1>3. ASSUME NEW amount, NEW caller, NEW to,
             \/ fundReserve(amount) \/ donate(amount) \/ Tick
             \/ withdrawAvailable(caller, to, amount)
             \/ \E pair \in Screened : changeEligibility(pair)
      PROVE  FALSE
  BY <1>3 DEF fundReserve, donate, Tick, withdrawAvailable, changeEligibility, caseVars
<1>4. ASSUME NEW q \in Runs, NEW caller, cure(caller, q) \/ finalize(q)
      PROVE  FALSE
  BY <1>1, <1>4 DEF cure, finalize
<1>5. ASSUME NEW q \in Runs, NEW side \in Sides, claim(q, side)
      PROVE  FALSE
  BY <1>1, <1>5 DEF claim
<1> QED
  BY <1>2, <1>3, <1>4, <1>5 DEF Next

\* Only what was broadcast can be consumed, so the chain only ever sees
\* the committed terms.
LEMMA AdapterStepInv ==
  ASSUME BridgeInv, IndInv, adapterStep
  PROVE  BridgeInv'
<1>1. /\ UNCHANGED <<profileFile, resultFile, configuration, committer,
                     executor, bridgeRecord, authorized, mempool>>
      /\ Next /\ attestationConsumed' \subseteq attestationConsumed \cup mempool
  BY DEF adapterStep, fileVars, signVars
<1>2. planAvailable' <=> planAvailable
  BY <1>1 DEF planAvailable
<1>3. \A q : Covered(q)' <=> Covered(q)
  BY <1>1, <1>2 DEF Covered
<1>4. BridgeTypeOK' /\ Store' /\ Held' /\ Signed'
  BY <1>1, <1>2, <1>3 DEF BridgeInv, BridgeTypeOK, Store, ChosenBlind, Held, Signed,
     OneAuthorization
<1>5. Run \in Runs
  BY BridgeAssumption
<1>6. CASE caseByRun[Run].state # "None"
  <2>1. CaseStep(Run)
    BY <1>1, <1>5, StepsAreFinal
  <2> QED
    BY <1>1, <1>4, <1>6, <2>1 DEF BridgeInv, PaidOnlyAsCommitted, CaseStep
<1>7. CASE caseByRun[Run].state = "None" /\ caseByRun'[Run].state # "None"
  <2>1. PICK r \in Releases :
            /\ r.runId = Run /\ r \in attestationConsumed' \ attestationConsumed
            /\ Total(r) # 0 => /\ caseByRun'[Run].holder = r.holder
                               /\ caseByRun'[Run].payout = r.payout
    BY <1>1, <1>5, <1>7, OpensByRelease DEF IndInv
  <2>2. Covered(r)
    BY <1>1, <2>1 DEF BridgeInv, Signed, OneAuthorization
  <2>3. r.holder = profileFile.holder /\ r.payout = profileFile.payout
    BY <2>2 DEF Covered, TermsOf
  <2> QED
    BY <1>1, <1>4, <2>1, <2>2, <2>3 DEF Covered, planAvailable, BridgeInv, PaidOnlyAsCommitted
<1>8. CASE caseByRun'[Run].state = "None"
  BY <1>4, <1>8 DEF BridgeInv, PaidOnlyAsCommitted
<1> QED
  BY <1>4, <1>6, <1>7, <1>8 DEF BridgeInv

-----------------------------------------------------------------------------
\* The theorems.

\* The composition does nothing to the adapter that the adapter's own
\* specification does not allow, so everything proved of the adapter holds
\* of the composed system.
THEOREM BridgeUsesAdapter == BridgeSpec => Spec
<1>1. BridgeInit => Init
  BY DEF BridgeInit
<1>2. [BridgeNext]_bridgeVars => [Next]_vars
  <2>1. FileStep => UNCHANGED vars
    BY DEF FileStep, commitSettlementProfile, proposeProfile, checkNoResult, createProfile,
       writeProfile, crashCommitter, publishResult, selectConfiguration
  <2>2. ExecutorStep => UNCHANGED vars
    BY ExecutorLeavesAlone
  <2>3. adapterStep => Next
    BY DEF adapterStep
  <2>4. UNCHANGED bridgeVars => UNCHANGED vars
    BY DEF bridgeVars
  <2>5. BridgeNext => FileStep \/ ExecutorStep \/ adapterStep
    BY DEF BridgeNext, FileStep, ExecutorStep
  <2> QED
    BY <2>1, <2>2, <2>3, <2>4, <2>5
<1> QED
  BY <1>1, <1>2, PTL DEF BridgeSpec, Spec

\* Every step of the composition preserves the inductive invariant.
LEMMA BridgeNextInv == BridgeInv /\ IndInv /\ [BridgeNext]_bridgeVars => BridgeInv'
<1> SUFFICES ASSUME BridgeInv, IndInv, [BridgeNext]_bridgeVars PROVE BridgeInv'
  OBVIOUS
<1>1. CASE FileStep
  BY <1>1, FileStepInv
<1>2. CASE ExecutorStep
  BY <1>2, ExecutorStepInv DEF IndInv
<1>3. CASE adapterStep
  BY <1>3, AdapterStepInv
<1>4. CASE UNCHANGED bridgeVars
  <2>1. UNCHANGED <<profileFile, resultFile, configuration, committer, executor,
                    bridgeRecord, authorized, mempool, caseByRun>>
    BY <1>4 DEF bridgeVars, fileVars, signVars, vars, caseVars
  <2>2. planAvailable' <=> planAvailable
    BY <2>1 DEF planAvailable
  <2>3. \A q : Covered(q)' <=> Covered(q)
    BY <2>1, <2>2 DEF Covered
  <2> QED
    BY <2>1, <2>2, <2>3 DEF BridgeInv, BridgeTypeOK, Store, ChosenBlind, Held, Signed,
       OneAuthorization, PaidOnlyAsCommitted
<1> QED
  BY <1>1, <1>2, <1>3, <1>4 DEF BridgeNext, FileStep, ExecutorStep

\* The inductive invariant holds throughout, whatever crashes and races.
THEOREM BridgeInvariant == BridgeSpec => []BridgeInv
<1>1. BridgeInit => BridgeInv
  BY BridgeInitInv
<1>2. BridgeInv /\ IndInv /\ [BridgeNext]_bridgeVars => BridgeInv'
  BY BridgeNextInv
<1>3. BridgeSpec => []IndInv
  BY BridgeUsesAdapter, AdapterInvariant, PTL
<1> QED
  BY <1>1, <1>2, <1>3, PTL DEF BridgeSpec

\* A case on chain is on the committed, authorized profile's terms and
\* follows a conflict result.
THEOREM PaymentsFollowProfile == BridgeSpec => []PaidOnlyAsCommitted
BY BridgeInvariant, PTL DEF BridgeInv

\* All signatures handed out for a result are for the one durable release.
THEOREM SignaturesAgree == BridgeSpec => []OneAuthorization
BY BridgeInvariant, PTL DEF BridgeInv, Signed

\* A complete profile was chosen before any result could be read.
THEOREM ProfilesAreBlind == BridgeSpec => []ChosenBlind
BY BridgeInvariant, PTL DEF BridgeInv, Store

\* linkSync and openSync "wx": neither a complete profile nor a durable
\* authorization is ever replaced or withdrawn.
THEOREM CommitmentsHold == BridgeSpec => CommitmentsAreImmutable
<1>1. BridgeInv /\ [BridgeNext]_bridgeVars =>
        [/\ profileFile \in Profiles => profileFile' = profileFile
         /\ bridgeRecord # None => bridgeRecord' = bridgeRecord
         /\ authorized \subseteq authorized']_bridgeVars
  <2> SUFFICES ASSUME BridgeInv, BridgeNext
               PROVE  /\ profileFile \in Profiles => profileFile' = profileFile
                      /\ bridgeRecord # None => bridgeRecord' = bridgeRecord
                      /\ authorized \subseteq authorized'
    OBVIOUS
  <2>1. CASE FileStep
    BY <2>1, PlanIsStable DEF signVars
  <2>2. CASE ExecutorStep
    <3>1. UNCHANGED profileFile
      BY <2>2, ExecutorLeavesAlone DEF fileVars
    <3> QED
      BY <2>2, <3>1 DEF ExecutorStep, bridgeExecutor, prepareDirect, simulate, refuseStale,
         signNew, signExisting, broadcast, reconcileReceipt, crashExecutor
  <2>3. CASE adapterStep
    BY <2>3 DEF adapterStep, fileVars, signVars
  <2> QED
    BY <2>1, <2>2, <2>3 DEF BridgeNext, FileStep, ExecutorStep
<1> QED
  BY <1>1, BridgeInvariant, PTL DEF BridgeSpec, CommitmentsAreImmutable

\* Composed with stores, executors and a relay that crash and race, the
\* adapter stays solvent and pays every entitlement exactly once.
THEOREM BridgedMoneyIsSafe == BridgeSpec => [](Solvent /\ PaidExactlyOnce)
BY BridgeUsesAdapter, SolvencyHolds, PaymentsAreExact, PTL

-----------------------------------------------------------------------------
\* Rehearsals on a fork.

\* The places of a script, in their order.
Places ==
  {"idle", "control", "spawn", "pin", "ceremony", "supply", "history", "fund", "vault", "bind", "activate",
   "redeem", "revert", "default", "verdict"}

Forks ==
  [height : Int, passes : SUBSET {"adapter", "participants", "vault"}, minters : SUBSET {"adapter", "other"},
   supply : Int, adapter : Int, holders : Int, receipts : Int, accounted : Int, burned : Int, released : Int,
   escrow : Int, bound : {"none", "vault", "elsewhere"}, proceeds : Int, funded : BOOLEAN]

\* A fork at the pinned block has issued nothing yet.
ForkOK(f) == f \in Forks /\ (f.height = 0 => f.passes = {})

\* The flaws that a script at a place has ruled out.
Grounded == Places \ {"idle", "control"}
Issued == Grounded \ {"spawn", "pin", "ceremony"}
Bound == {"activate", "redeem", "revert", "default", "verdict"}
Active == Bound \ {"activate"}
Redeemed == Active \ {"redeem"}

Ruled ==
  /\ rehearsal.pc \in Grounded => "reorged" \notin world
  /\ rehearsal.pc \in Issued => "not issuable" \notin world
  /\ rehearsal.pc \in Issued /\ rehearsal.script = "a" => "policy refuses" \notin world
  /\ rehearsal.pc \in Bound =>
       rehearsal.script = "c" /\ {"policy refuses", "binds elsewhere"} \cap world = {}
  /\ rehearsal.pc \in Active => "short proceeds" \notin world
  /\ rehearsal.pc \in Redeemed => {"books left", "escrow left"} \cap world = {}
  /\ rehearsal.pc = "verdict" => {"release burns", "release short"} \cap world = {}

\* What the fork a script works on must hold for its checks to mean
\* anything.
Standing ==
  /\ rehearsal.pc \in Grounded \ {"spawn", "pin"} => chain.height >= 0
  /\ rehearsal.pc = "ceremony" => chain.passes = {}
  /\ rehearsal.pc = "history" => rehearsal.script = "a" /\ ("other minter" \in world => "other" \in chain.minters)
  /\ rehearsal.pc \in {"fund", "vault", "bind"} => rehearsal.script # "a"
  /\ rehearsal.pc = "redeem" => chain.accounted = WholeSupply
  /\ rehearsal.pc \in Active => aside.height >= 0

RehearsalInv ==
  /\ world \subseteq Flaws
  /\ ports \in [Rehearsals -> Forks] /\ \A s \in Rehearsals : ForkOK(ports[s])
  /\ ForkOK(aside)
  /\ rehearsal \in [script : Rehearsals \cup {"none"}, pc : Places, own : BOOLEAN]
  /\ rehearsal.pc # "idle" => rehearsal.script \in Rehearsals
  /\ shelf \in [Rehearsals -> [class : {"none", "PROVEN"}, exclusive : BOOLEAN]]
  /\ Ruled /\ Standing
  /\ RehearsalIsTrue

\* A fork at another height.
LEMMA AtHeight ==
  ASSUME NEW f \in Forks, NEW h \in Int
  PROVE  [f EXCEPT !.height = h] \in Forks /\ [f EXCEPT !.height = h].height = h
  BY DEF Forks

\* The pinned block, and a port at which nothing listens.
LEMMA FreshForks == ForkOK(Fresh) /\ ForkOK(NoFork) /\ WholeSupply \in Nat /\ WholeSupply > 0
<1>1. Fresh \in Forks /\ Fresh.passes = {}
  BY DEF Fresh, Forks
<1>2. NoFork \in Forks /\ NoFork.height = -1
  BY <1>1, AtHeight DEF NoFork
<1>3. WholeSupply \in Nat /\ WholeSupply > 0
  BY RehearsalAssumption DEF WholeSupply
<1> QED
  BY <1>1, <1>2, <1>3 DEF ForkOK

\* The script ends, whatever it has found.
LEMMA EndKeeps ==
  ASSUME RehearsalInv, rehearsal.script \in Rehearsals, stopFork, UNCHANGED <<world, aside>>,
         shelf' \in [Rehearsals -> [class : {"none", "PROVEN"}, exclusive : BOOLEAN]],
         RehearsalIsTrue'
  PROVE  RehearsalInv'
<1>1. ports' \in [Rehearsals -> Forks] /\ \A s \in Rehearsals : ForkOK(ports'[s])
  BY FreshForks DEF RehearsalInv, stopFork, ForkOK
<1>2. ForkOK(aside)'
  BY DEF RehearsalInv, ForkOK
<1>3. rehearsal' = NoRehearsal /\ rehearsal'.pc = "idle"
  BY DEF stopFork, NoRehearsal
<1>4. rehearsal' \in [script : Rehearsals \cup {"none"}, pc : Places, own : BOOLEAN]
  BY <1>3 DEF NoRehearsal, Places
<1>5. Ruled' /\ Standing'
  BY <1>3 DEF Ruled, Standing, Grounded, Issued, Bound, Active, Redeemed
<1>6. world' \subseteq Flaws
  BY DEF RehearsalInv
<1>7. \A s \in Rehearsals : ForkOK(ports[s])'
  BY <1>1 DEF ForkOK
<1> QED
  BY <1>1, <1>2, <1>3, <1>4, <1>5, <1>6, <1>7 DEF RehearsalInv

\* The script ends and has nothing to show.
LEMMA RehearsalRefuseKeeps ==
  ASSUME RehearsalInv, rehearsal.script \in Rehearsals, refuseRehearsal
  PROVE  RehearsalInv'
<1>1. RehearsalIsTrue'
  BY DEF RehearsalInv, refuseRehearsal, RehearsalIsTrue
<1> QED
  BY <1>1, EndKeeps DEF RehearsalInv, refuseRehearsal

\* The script ends with an artifact, and what it says is so.
LEMMA ConcludeKeeps ==
  ASSUME RehearsalInv, rehearsal.script \in Rehearsals, NEW e \in BOOLEAN, conclude("PROVEN", e),
         e => rehearsal.script = "a" /\ "other minter" \notin world,
         world \cap {"reorged", "not issuable", "policy refuses"} = {},
         rehearsal.script # "a" => "binds elsewhere" \notin world,
         rehearsal.script = "c" => world \subseteq {"other minter"}
  PROVE  RehearsalInv'
<1>1. shelf' = [shelf EXCEPT ![rehearsal.script] = [class |-> "PROVEN", exclusive |-> e]]
  BY DEF conclude
<1>2. shelf' \in [Rehearsals -> [class : {"none", "PROVEN"}, exclusive : BOOLEAN]]
  BY <1>1 DEF RehearsalInv
<1>3. world' = world
  BY DEF conclude
<1>4. ASSUME NEW s \in Rehearsals
      PROVE  /\ s # rehearsal.script => shelf'[s] = shelf[s]
             /\ s = rehearsal.script => shelf'[s].class = "PROVEN" /\ shelf'[s].exclusive = e
  BY <1>1 DEF RehearsalInv
<1>5. RehearsalIsTrue'
  <2>1. {"a", "b", "c"} \subseteq Rehearsals
    BY DEF Rehearsals
  <2>2. shelf'["a"].exclusive => "other minter" \notin world
    BY <1>4, <2>1 DEF RehearsalInv, RehearsalIsTrue
  <2>3. shelf'["a"].class = "PROVEN" => world \cap {"reorged", "not issuable", "policy refuses"} = {}
    BY <1>4, <2>1 DEF RehearsalInv, RehearsalIsTrue
  <2>4. shelf'["b"].class = "PROVEN" =>
          world \cap {"reorged", "not issuable", "policy refuses", "binds elsewhere"} = {}
    BY <1>4, <2>1 DEF RehearsalInv, RehearsalIsTrue
  <2>5. shelf'["c"].class = "PROVEN" => world \subseteq {"other minter"}
    BY <1>4, <2>1 DEF RehearsalInv, RehearsalIsTrue
  <2> QED
    BY <1>3, <2>2, <2>3, <2>4, <2>5 DEF RehearsalIsTrue
<1> QED
  BY <1>2, <1>5, EndKeeps DEF conclude

\* The script goes on, and its fork may have moved.
LEMMA MoveKeeps ==
  ASSUME RehearsalInv, NEW s \in Rehearsals, NEW f, ForkOK(f), NEW p \in Places, NEW o \in BOOLEAN,
         UNCHANGED <<world, shelf>>, ForkOK(aside'), ports' = [ports EXCEPT ![s] = f],
         rehearsal' = [script |-> s, pc |-> p, own |-> o]
  PROVE  /\ chain' = f /\ (Ruled' /\ Standing' => RehearsalInv')
<1>1. ports' \in [Rehearsals -> Forks] /\ \A q \in Rehearsals : ForkOK(ports'[q])
  BY DEF RehearsalInv, ForkOK
<1>2. ports'[s] = f /\ rehearsal'.script = s
  BY DEF RehearsalInv
<1>3. chain' = f
  BY <1>2 DEF chain
<1>4. \A q \in Rehearsals : ForkOK(ports[q])'
  BY <1>1 DEF ForkOK
<1>5. ForkOK(aside)'
  BY DEF ForkOK
<1>6. RehearsalIsTrue' /\ world' \subseteq Flaws
  BY DEF RehearsalInv, RehearsalIsTrue
<1> QED
  BY <1>1, <1>2, <1>3, <1>4, <1>5, <1>6 DEF RehearsalInv

\* What a script at a place can rely on of its fork.
LEMMA ChainOK ==
  ASSUME RehearsalInv, rehearsal.pc # "idle"
  PROVE  /\ rehearsal.script \in Rehearsals /\ ForkOK(chain) /\ ports[rehearsal.script] = chain
         /\ rehearsal = [script |-> rehearsal.script, pc |-> rehearsal.pc, own |-> rehearsal.own]
         /\ rehearsal.own \in BOOLEAN /\ rehearsal.pc \in Places
  BY DEF RehearsalInv, chain

\* A step of the script that moves its fork.
LEMMA StepKeeps ==
  ASSUME RehearsalInv, rehearsal.pc \in Grounded \ {"spawn", "pin"}, NEW p \in Places, NEW n \in Forks, step(p, n)
  PROVE  /\ chain' = [n EXCEPT !.height = chain.height + 1] /\ chain'.height >= 0 /\ chain' \in Forks
         /\ chain'.minters = n.minters /\ chain'.accounted = n.accounted
         /\ rehearsal' = [script |-> rehearsal.script, pc |-> p, own |-> rehearsal.own]
         /\ world' = world /\ aside' = aside
         /\ Ruled' /\ Standing' => RehearsalInv'
<1>1. rehearsal.pc # "idle"
  BY DEF Grounded
<1>2. ForkOK(chain) /\ chain.height \in Int /\ chain.height >= 0
  BY <1>1, ChainOK DEF RehearsalInv, Standing, ForkOK, Forks
<1>3. PICK f : f = [n EXCEPT !.height = chain.height + 1]
  OBVIOUS
<1>4. f \in Forks /\ f.height = chain.height + 1
  BY <1>2, <1>3, AtHeight
<1>5. ForkOK(f) /\ f.height >= 0
  BY <1>2, <1>4 DEF ForkOK
<1>6. f.minters = n.minters /\ f.accounted = n.accounted
  BY <1>3 DEF Forks
<1>7. rehearsal' = [script |-> rehearsal.script, pc |-> p, own |-> rehearsal.own]
  BY <1>1, ChainOK DEF step
<1>8. ports' = [ports EXCEPT ![rehearsal.script] = f] /\ UNCHANGED <<world, shelf, aside>>
  BY <1>3 DEF step
<1>9. ForkOK(aside')
  BY <1>8 DEF RehearsalInv
<1>10. PICK s, o : s = rehearsal.script /\ o = rehearsal.own
  OBVIOUS
<1>11. s \in Rehearsals /\ o \in BOOLEAN
  BY <1>1, <1>10, ChainOK
<1>12. chain' = f /\ (Ruled' /\ Standing' => RehearsalInv')
  BY <1>5, <1>7, <1>8, <1>9, <1>10, <1>11, MoveKeeps
<1> QED
  BY <1>3, <1>4, <1>5, <1>6, <1>7, <1>8, <1>12

\* The adapter and the participants are given their passes, or the script
\* stops.
LEMMA CeremonyKeeps ==
  ASSUME RehearsalInv, ceremony
  PROVE  RehearsalInv'
<1> DEFINE n == [chain EXCEPT !.passes = issueApassFor({"adapter", "participants"})]
<1>1. rehearsal.pc = "ceremony" /\ rehearsal.pc # "idle" /\ rehearsal.pc \in Grounded \ {"spawn", "pin"}
  BY DEF ceremony, at, Grounded, Places
<1>2. rehearsal.script \in Rehearsals /\ chain \in Forks /\ chain.passes = {}
  BY <1>1, ChainOK DEF ForkOK, RehearsalInv, Standing
<1>3. n \in Forks /\ n.passes = issueApassFor({"adapter", "participants"})
  BY <1>2 DEF issueApassFor, Forks
<1>4. CASE refuseRehearsal
  BY <1>2, <1>4, RehearsalRefuseKeeps
<1>5. CASE "adapter" \in n.passes /\ (rehearsal.script = "a" => "policy refuses" \notin world) /\ step("supply", n)
  <2>1. "not issuable" \notin world
    BY <1>2, <1>3, <1>5 DEF issueApassFor
  <2>2. "reorged" \notin world
    BY <1>1 DEF RehearsalInv, Ruled
  <2>3. PICK m : m = n
    OBVIOUS
  <2>4. "supply" \in Places /\ m \in Forks /\ step("supply", m)
    BY <1>3, <1>5, <2>3 DEF Places
  <2>5. /\ chain'.height >= 0 /\ world' = world
        /\ rehearsal' = [script |-> rehearsal.script, pc |-> "supply", own |-> rehearsal.own]
        /\ Ruled' /\ Standing' => RehearsalInv'
    BY <1>1, <2>4, StepKeeps
  <2>6. rehearsal'.pc = "supply" /\ rehearsal'.script = rehearsal.script
    BY <2>5
  <2>7. Ruled' /\ Standing'
    BY <1>5, <2>1, <2>2, <2>5, <2>6 DEF Ruled, Standing, Grounded, Issued, Bound, Active, Redeemed
  <2> QED
    BY <2>5, <2>7
<1> QED
  BY <1>4, <1>5 DEF ceremony

\* The supply is minted; the minters of the fork are those of the world.
LEMMA SupplyKeeps ==
  ASSUME RehearsalInv, supplyCeremony
  PROVE  RehearsalInv'
<1> DEFINE others == IF "other minter" \in world THEN {"other"} ELSE {}
           n == [chain EXCEPT !.supply = @ + WholeSupply, !.adapter = @ + WholeSupply, !.minters = others \cup {"adapter"}]
           q == IF rehearsal.script = "a" THEN "history" ELSE "fund"
<1>1. rehearsal.pc = "supply" /\ rehearsal.pc # "idle" /\ rehearsal.pc \in Grounded \ {"spawn", "pin"}
  BY DEF supplyCeremony, at, Grounded, Places
<1>2. rehearsal.script \in Rehearsals /\ chain \in Forks
  BY <1>1, ChainOK DEF ForkOK
<1>3. n \in Forks /\ n.minters = others \cup {"adapter"}
  <2>1. PICK u, a, k : u = chain.supply + WholeSupply /\ a = chain.adapter + WholeSupply /\ k = others \cup {"adapter"}
    OBVIOUS
  <2>2. u \in Int /\ a \in Int /\ k \in SUBSET {"adapter", "other"}
    <3>1. others \subseteq {"other"}
      OBVIOUS
    <3>2. WholeSupply \in Int /\ chain.supply \in Int /\ chain.adapter \in Int
      BY <1>2, FreshForks DEF Forks
    <3> HIDE DEF others
    <3>3. k \in SUBSET {"adapter", "other"}
      BY <2>1, <3>1
    <3>4. u \in Int /\ a \in Int
      BY <2>1, <3>2
    <3> QED
      BY <3>3, <3>4
  <2>3. n = [chain EXCEPT !.supply = u, !.adapter = a, !.minters = k]
    BY <2>1
  <2>4. [chain EXCEPT !.supply = u, !.adapter = a, !.minters = k] \in Forks
    BY <1>2, <2>2 DEF Forks
  <2>5. [chain EXCEPT !.supply = u, !.adapter = a, !.minters = k].minters = k
    BY <1>2 DEF Forks
  <2> QED
    BY <2>1, <2>3, <2>4, <2>5
<1>4. CASE refuseRehearsal
  BY <1>2, <1>4, RehearsalRefuseKeeps
<1>5. CASE step(q, n)
  <2>1. "not issuable" \notin world /\ "reorged" \notin world /\ (rehearsal.script = "a" => "policy refuses" \notin world)
    BY <1>1 DEF RehearsalInv, Ruled, Issued, Grounded, Places
  <2>2. PICK m, p : m = n /\ p = q
    OBVIOUS
  <2>3. p \in Places /\ m \in Forks /\ step(p, m)
    BY <1>3, <1>5, <2>2 DEF Places
  <2>4. /\ chain'.height >= 0 /\ world' = world /\ chain'.minters = m.minters
        /\ rehearsal' = [script |-> rehearsal.script, pc |-> p, own |-> rehearsal.own]
        /\ Ruled' /\ Standing' => RehearsalInv'
    BY <1>1, <2>3, StepKeeps
  <2>5. rehearsal'.pc = p /\ rehearsal'.script = rehearsal.script /\ p \in {"history", "fund"}
    BY <2>2, <2>4
  <2>6. Ruled'
    BY <2>1, <2>4, <2>5 DEF Ruled, Grounded, Issued, Bound, Active, Redeemed
  <2>7. Standing'
    <3>1. (p = "history") = (rehearsal.script = "a")
      BY <2>2
    <3>2. "other minter" \in world => "other" \in chain'.minters
      BY <1>3, <2>2, <2>4
    <3> QED
      BY <2>4, <2>5, <3>1, <3>2 DEF Standing, Active, Bound, Grounded
  <2> QED
    BY <2>4, <2>6, <2>7
<1> QED
  BY <1>4, <1>5 DEF supplyCeremony

\* The ceremony is proven; exclusivity only on the whole history.
LEMMA HistoryKeeps ==
  ASSUME RehearsalInv, minterHistory
  PROVE  RehearsalInv'
<1>1. rehearsal.pc = "history" /\ rehearsal.pc # "idle"
  BY DEF minterHistory, at
<1>2. rehearsal.script = "a" /\ ("other minter" \in world => "other" \in chain.minters)
  BY <1>1 DEF RehearsalInv, Standing
<1>3. world \cap {"reorged", "not issuable", "policy refuses"} = {}
  BY <1>1, <1>2 DEF RehearsalInv, Ruled, Issued, Grounded, Places
<1>4. PICK complete \in BOOLEAN : conclude("PROVEN", complete /\ classifyMinterExclusivity(deriveActiveMinters))
  BY DEF minterHistory
<1>5. PICK e : e = (complete /\ classifyMinterExclusivity(deriveActiveMinters))
  OBVIOUS
<1>6. e \in BOOLEAN
  BY <1>4, <1>5 DEF classifyMinterExclusivity
<1>7. e => "other minter" \notin world
  BY <1>2, <1>5 DEF classifyMinterExclusivity, deriveActiveMinters
<1>8. conclude("PROVEN", e)
  BY <1>4, <1>5
<1> QED
  BY <1>1, <1>2, <1>3, <1>6, <1>7, <1>8, ConcludeKeeps, ChainOK

\* The payers are funded and the vault is deployed.
LEMMA FundKeeps ==
  ASSUME RehearsalInv, fundLegs \/ createInvoiceVault
  PROVE  RehearsalInv'
<1>1. /\ rehearsal.pc \in {"fund", "vault"} /\ rehearsal.pc # "idle"
      /\ rehearsal.pc \in Grounded \ {"spawn", "pin"}
  BY DEF fundLegs, createInvoiceVault, at, Grounded, Places
<1>2. chain \in Forks
  BY <1>1, ChainOK DEF ForkOK
<1>3. PICK p, n : p \in {"vault", "bind"} /\ n \in Forks /\ step(p, n)
  <2>1. [chain EXCEPT !.funded = TRUE] \in Forks
    BY <1>2 DEF Forks
  <2>2. [chain EXCEPT !.passes = issueApassFor({"vault"})] \in Forks
    BY <1>2 DEF Forks, issueApassFor
  <2> QED
    BY <2>1, <2>2 DEF fundLegs, createInvoiceVault
<1>4. p \in Places
  BY <1>3 DEF Places
<1>5. /\ chain'.height >= 0 /\ world' = world
      /\ rehearsal' = [script |-> rehearsal.script, pc |-> p, own |-> rehearsal.own]
      /\ Ruled' /\ Standing' => RehearsalInv'
  BY <1>1, <1>3, <1>4, StepKeeps
<1>6. rehearsal'.pc = p /\ rehearsal'.script = rehearsal.script
  BY <1>5
<1>7. "not issuable" \notin world /\ "reorged" \notin world /\ rehearsal.script # "a"
  BY <1>1 DEF RehearsalInv, Ruled, Standing, Issued, Grounded, Places
<1>8. Ruled' /\ Standing'
  BY <1>3, <1>5, <1>6, <1>7 DEF Ruled, Standing, Grounded, Issued, Bound, Active, Redeemed
<1> QED
  BY <1>5, <1>8

\* The vault is bound on what was asked before.
LEMMA BindKeeps ==
  ASSUME RehearsalInv, bindVault
  PROVE  RehearsalInv'
<1> DEFINE n == [chain EXCEPT !.bound = IF "binds elsewhere" \in world THEN "elsewhere" ELSE "vault",
                              !.accounted = WholeSupply]
<1>1. rehearsal.pc = "bind" /\ rehearsal.pc # "idle" /\ rehearsal.pc \in Grounded \ {"spawn", "pin"}
  BY DEF bindVault, at, Grounded, Places
<1>2. rehearsal.script \in Rehearsals /\ chain \in Forks
  BY <1>1, ChainOK DEF ForkOK
<1>3. n \in Forks /\ n.bound = IF "binds elsewhere" \in world THEN "elsewhere" ELSE "vault"
  <2>1. PICK b, u : b = (IF "binds elsewhere" \in world THEN "elsewhere" ELSE "vault") /\ u = WholeSupply
    OBVIOUS
  <2>2. b \in {"none", "vault", "elsewhere"} /\ u \in Int
    <3>1. b \in {"none", "vault", "elsewhere"}
      BY <2>1
    <3>2. WholeSupply \in Int
      BY FreshForks
    <3> QED
      BY <2>1, <3>1, <3>2
  <2>3. n = [chain EXCEPT !.bound = b, !.accounted = u]
    BY <2>1
  <2>4. [chain EXCEPT !.bound = b, !.accounted = u] \in Forks
    BY <1>2, <2>2 DEF Forks
  <2>5. [chain EXCEPT !.bound = b, !.accounted = u].bound = b
    BY <1>2 DEF Forks
  <2> QED
    BY <2>1, <2>3, <2>4, <2>5
<1>4. CASE refuseRehearsal
  BY <1>2, <1>4, RehearsalRefuseKeeps
<1>5. ASSUME checkBindPreconditions(chain), n.bound = "vault"
      PROVE  /\ {"reorged", "not issuable", "policy refuses"} \cap world = {} /\ "binds elsewhere" \notin world
  <2>1. "not issuable" \notin world /\ "reorged" \notin world
    BY <1>1 DEF RehearsalInv, Ruled, Issued, Grounded, Places
  <2>2. "policy refuses" \notin world
    BY <1>5 DEF checkBindPreconditions
  <2>3. "binds elsewhere" \notin world
    <3> HIDE DEF n
    <3>1. "binds elsewhere" \in world => n.bound = "elsewhere"
      BY <1>3
    <3> QED
      BY <1>5, <3>1
  <2> QED
    BY <2>1, <2>2, <2>3
<1>6. CASE checkBindPreconditions(chain) /\ n.bound = "vault" /\ rehearsal.script = "b" /\ conclude("PROVEN", FALSE)
  BY <1>2, <1>5, <1>6, ConcludeKeeps
<1>7. CASE /\ checkBindPreconditions(chain) /\ n.bound = "vault" /\ rehearsal.script # "b"
           /\ step("activate", n)
  <2>1. PICK m : m = n
    OBVIOUS
  <2>2. "activate" \in Places /\ m \in Forks /\ step("activate", m)
    BY <1>3, <1>7, <2>1 DEF Places
  <2>3. /\ chain'.height >= 0 /\ world' = world
        /\ rehearsal' = [script |-> rehearsal.script, pc |-> "activate", own |-> rehearsal.own]
        /\ Ruled' /\ Standing' => RehearsalInv'
    BY <1>1, <2>2, StepKeeps
  <2>4. rehearsal'.pc = "activate" /\ rehearsal'.script = rehearsal.script
    BY <2>3
  <2>5. rehearsal.script = "c"
    BY <1>1, <1>2, <1>7 DEF Rehearsals, RehearsalInv, Standing
  <2>6. Ruled' /\ Standing'
    BY <1>5, <1>7, <2>3, <2>4, <2>5 DEF Ruled, Standing, Grounded, Issued, Bound, Active, Redeemed
  <2> QED
    BY <2>3, <2>6
<1> QED
  BY <1>4, <1>6, <1>7 DEF bindVault

\* What an activation, a redemption and a release do to a fork.
ActivatedFrom(n, f, u, h, k) == n = [f EXCEPT !.receipts = u, !.height = h, !.proceeds = k]
BurnedFrom(n, f, s, a, z, u, l, e) ==
  n = [f EXCEPT !.supply = s, !.adapter = a, !.receipts = z, !.burned = u, !.accounted = l, !.escrow = e]
ReleasedFrom(n, f, a, r, u, z, t, h) ==
  n = [f EXCEPT !.adapter = a, !.receipts = r, !.released = u, !.accounted = z, !.supply = t, !.holders = h]

\* An activated fork is well formed.
LEMMA Activated ==
  ASSUME NEW f \in Forks, NEW u \in Int, NEW h \in Int, NEW k \in Int, NEW n,
         ActivatedFrom(n, f, u, h, k)
  PROVE  n \in Forks /\ n.height = h /\ n.proceeds = k
<1>1. [f EXCEPT !.receipts = u, !.height = h, !.proceeds = k] \in Forks
  BY DEF Forks
<1>2. [f EXCEPT !.receipts = u, !.height = h, !.proceeds = k].height = h
  BY DEF Forks
<1>3. [f EXCEPT !.receipts = u, !.height = h, !.proceeds = k].proceeds = k
  BY DEF Forks
<1> QED
  BY <1>1, <1>2, <1>3 DEF ActivatedFrom

\* So is a redeemed one.
LEMMA Burned ==
  ASSUME NEW f \in Forks, NEW s \in Int, NEW a \in Int, NEW z \in Int, NEW u \in Int, NEW l \in Int, NEW e \in Int,
         NEW n, BurnedFrom(n, f, s, a, z, u, l, e)
  PROVE  n \in Forks /\ n.accounted = l /\ n.escrow = e
<1>1. PICK g : g = [f EXCEPT !.supply = s, !.adapter = a, !.receipts = z]
  OBVIOUS
<1>2. [f EXCEPT !.supply = s, !.adapter = a, !.receipts = z] \in Forks
  BY DEF Forks
<1>3. g \in Forks
  BY <1>1, <1>2
<1>4. [g EXCEPT !.burned = u, !.accounted = l, !.escrow = e] \in Forks
  BY <1>3 DEF Forks
<1>5. /\ [g EXCEPT !.burned = u, !.accounted = l, !.escrow = e].accounted = l
      /\ [g EXCEPT !.burned = u, !.accounted = l, !.escrow = e].escrow = e
  BY <1>3 DEF Forks
<1>6. n = [g EXCEPT !.burned = u, !.accounted = l, !.escrow = e]
  BY <1>1 DEF Forks, BurnedFrom
<1> QED
  BY <1>4, <1>5, <1>6

\* And one that was released.
LEMMA Released ==
  ASSUME NEW f \in Forks, NEW a \in Int, NEW r \in Int, NEW u \in Int, NEW z \in Int, NEW t \in Int, NEW h \in Int,
         NEW n, ReleasedFrom(n, f, a, r, u, z, t, h)
  PROVE  n \in Forks /\ n.supply = t /\ n.holders = h
<1>1. PICK g : g = [f EXCEPT !.adapter = a, !.receipts = r, !.released = u]
  OBVIOUS
<1>2. [f EXCEPT !.adapter = a, !.receipts = r, !.released = u] \in Forks
  BY DEF Forks
<1>3. g \in Forks
  BY <1>1, <1>2
<1>4. [g EXCEPT !.accounted = z, !.supply = t, !.holders = h] \in Forks
  BY <1>3 DEF Forks
<1>5. /\ [g EXCEPT !.accounted = z, !.supply = t, !.holders = h].supply = t
      /\ [g EXCEPT !.accounted = z, !.supply = t, !.holders = h].holders = h
  BY <1>3 DEF Forks
<1>6. n = [g EXCEPT !.accounted = z, !.supply = t, !.holders = h]
  BY <1>1 DEF Forks, ReleasedFrom
<1> QED
  BY <1>4, <1>5, <1>6

\* The activation, and the fork that is set aside.
LEMMA ActivateKeeps ==
  ASSUME RehearsalInv, activate
  PROVE  RehearsalInv'
<1> DEFINE n == [chain EXCEPT !.receipts = WholeSupply, !.height = @ + 1,
                              !.proceeds = IF "short proceeds" \in world THEN WholeSupply - 1 ELSE WholeSupply]
<1>1. rehearsal.pc = "activate" /\ rehearsal.pc # "idle"
  BY DEF activate, at
<1>2. rehearsal.script = "c" /\ chain \in Forks /\ chain.height \in Int /\ chain.height >= 0
  BY <1>1, ChainOK DEF ForkOK, Forks, RehearsalInv, Ruled, Standing, Bound, Grounded, Places
<1>3. /\ n \in Forks /\ n.height = chain.height + 1
      /\ "short proceeds" \in world => n.proceeds = WholeSupply - 1
  <2>1. WholeSupply \in Int
    BY FreshForks
  <2>2. PICK k : k = IF "short proceeds" \in world THEN WholeSupply - 1 ELSE WholeSupply
    OBVIOUS
  <2>3. k = WholeSupply - 1 \/ k = WholeSupply
    BY <2>2
  <2>4. k \in Int
    BY <2>1, <2>3
  <2>5. n = [chain EXCEPT !.receipts = WholeSupply, !.height = @ + 1, !.proceeds = k]
    BY <2>2
  <2> HIDE DEF n
  <2>6. n \in Forks /\ n.height = chain.height + 1 /\ n.proceeds = k
    <3>1. PICK h : h = chain.height + 1
      OBVIOUS
    <3>2. h \in Int
      BY <1>2, <3>1
    <3>3. n = [chain EXCEPT !.receipts = WholeSupply, !.height = h, !.proceeds = k]
      BY <2>5, <3>1
    <3>4. PICK f, m, u : f = chain /\ m = n /\ u = WholeSupply
      OBVIOUS
    <3>5. f \in Forks /\ u \in Int /\ ActivatedFrom(m, f, u, h, k)
      BY <1>2, <2>1, <3>3, <3>4 DEF ActivatedFrom
    <3>6. m \in Forks /\ m.height = h /\ m.proceeds = k
      BY <2>4, <3>2, <3>5, Activated
    <3> QED
      BY <3>1, <3>4, <3>6
  <2>7. "short proceeds" \in world => k = WholeSupply - 1
    BY <2>2
  <2> QED
    BY <2>6, <2>7
<1>4. CASE refuseRehearsal
  BY <1>1, <1>4, RehearsalRefuseKeeps, ChainOK
<1>5. CASE /\ validateActivation(n) /\ rehearsal' = [rehearsal EXCEPT !.pc = "redeem"]
           /\ ports' = [ports EXCEPT !["c"] = n] /\ aside' = n /\ UNCHANGED <<world, shelf, rehearsals>>
  <2>1. PICK m : m = n
    OBVIOUS
  <2> HIDE DEF n
  <2>2. ForkOK(m) /\ m.height >= 0
    <3>1. m \in Forks /\ m.height = chain.height + 1
      BY <1>3, <2>1
    <3>2. m.height >= 0 /\ m.height # 0
      BY <1>2, <3>1
    <3>3. ForkOK(m)
      BY <3>1, <3>2, Zenon DEF ForkOK
    <3> QED
      BY <3>2, <3>3
  <2>3. m.proceeds = WholeSupply /\ m.accounted = WholeSupply
    BY <1>5, <2>1 DEF validateActivation
  <2>4. "short proceeds" \notin world
    <3>1. "short proceeds" \in world => WholeSupply = WholeSupply - 1
      BY <1>3, <2>1, <2>3
    <3>2. WholeSupply # WholeSupply - 1
      BY FreshForks
    <3> QED
      BY <3>1, <3>2, Zenon
  <2>5. rehearsal' = [script |-> "c", pc |-> "redeem", own |-> rehearsal.own]
    BY <1>1, <1>2, <1>5, ChainOK
  <2>6. "c" \in Rehearsals /\ "redeem" \in Places /\ rehearsal.own \in BOOLEAN
    BY <1>1, ChainOK DEF Rehearsals, Places
  <2>7. ports' = [ports EXCEPT !["c"] = m] /\ ForkOK(aside') /\ aside' = m /\ UNCHANGED <<world, shelf>>
    BY <1>5, <2>1, <2>2
  <2>8. chain' = m /\ (Ruled' /\ Standing' => RehearsalInv')
    BY <2>2, <2>5, <2>6, <2>7, MoveKeeps
  <2>9. rehearsal'.pc = "redeem" /\ rehearsal'.script = "c"
    BY <2>5
  <2>10. /\ "reorged" \notin world /\ "not issuable" \notin world
         /\ {"policy refuses", "binds elsewhere"} \cap world = {}
    BY <1>1 DEF RehearsalInv, Ruled, Grounded, Issued, Bound, Places
  <2>11. Ruled'
    BY <2>4, <2>7, <2>9, <2>10 DEF Ruled, Grounded, Issued, Bound, Active, Redeemed
  <2>12. Standing'
    BY <2>2, <2>3, <2>7, <2>8, <2>9 DEF Standing, WholeSupply
  <2> QED
    BY <2>8, <2>11, <2>12
<1> QED
  BY <1>4, <1>5 DEF activate

\* The first ending: what is left over in the books or in escrow is seen.
LEMMA RedeemKeeps ==
  ASSUME RehearsalInv, redeem
  PROVE  RehearsalInv'
<1> DEFINE left == IF "books left" \in world THEN chain.accounted ELSE 0
           stuck == IF "escrow left" \in world THEN 1 ELSE 0
           n == [chain EXCEPT !.supply = @ - WholeSupply, !.adapter = @ - WholeSupply, !.receipts = 0, !.burned = WholeSupply,
                              !.accounted = IF "books left" \in world THEN @ ELSE 0,
                              !.escrow = IF "escrow left" \in world THEN 1 ELSE 0]
<1>1. rehearsal.pc = "redeem" /\ rehearsal.pc # "idle" /\ rehearsal.pc \in Grounded \ {"spawn", "pin"}
  BY DEF redeem, at, Grounded, Places
<1>2. chain \in Forks /\ chain.accounted = WholeSupply /\ rehearsal.script = "c"
  BY <1>1, ChainOK DEF ForkOK, RehearsalInv, Ruled, Standing, Bound
<1>3. n \in Forks /\ n.accounted = left /\ n.escrow = stuck
  <2>1. WholeSupply \in Int /\ chain.accounted \in Int
    BY <1>2, FreshForks DEF Forks
  <2>2. left = chain.accounted \/ left = 0
    OBVIOUS
  <2>3. stuck = 1 \/ stuck = 0
    OBVIOUS
  <2>4. PICK l, e : l = left /\ e = stuck
    OBVIOUS
  <2>5. n = [chain EXCEPT !.supply = @ - WholeSupply, !.adapter = @ - WholeSupply, !.receipts = 0, !.burned = WholeSupply,
                          !.accounted = l, !.escrow = e]
    BY <2>4
  <2> HIDE DEF n, left, stuck
  <2>6. l \in Int /\ e \in Int
    BY <2>1, <2>2, <2>3, <2>4
  <2>7. n \in Forks /\ n.accounted = l /\ n.escrow = e
    <3>1. PICK s, a, u : s = chain.supply - WholeSupply /\ a = chain.adapter - WholeSupply /\ u = WholeSupply
      OBVIOUS
    <3>2. chain.supply \in Int /\ chain.adapter \in Int
      BY <1>2 DEF Forks
    <3>3. s \in Int
      BY <2>1, <3>1, <3>2
    <3>4. a \in Int
      BY <2>1, <3>1, <3>2
    <3>5. u \in Int
      BY <2>1, <3>1
    <3>6. PICK f, m, z : f = chain /\ m = n /\ z = 0
      OBVIOUS
    <3>7. f \in Forks /\ z \in Int
      BY <1>2, <3>6
    <3>8. BurnedFrom(m, f, s, a, z, u, l, e)
      BY <2>5, <3>1, <3>6 DEF BurnedFrom
    <3>9. m \in Forks /\ m.accounted = l /\ m.escrow = e
      BY <2>6, <3>3, <3>4, <3>5, <3>7, <3>8, Burned
    <3> QED
      BY <3>6, <3>9
  <2> QED
    BY <2>4, <2>7
<1>4. CASE refuseRehearsal
  BY <1>1, <1>4, RehearsalRefuseKeeps, ChainOK
<1>5. CASE validateScenarioA(chain, n) /\ step("revert", n)
  <2>1. PICK m : m = n
    OBVIOUS
  <2> HIDE DEF n
  <2>2. m.accounted = 0 /\ m.escrow = 0
    BY <1>5, <2>1 DEF validateScenarioA
  <2>3. "books left" \notin world /\ "escrow left" \notin world
    <3>1. left = 0 /\ stuck = 0
      BY <1>3, <2>1, <2>2
    <3>2. WholeSupply # 0
      BY FreshForks
    <3>3. "books left" \in world => left = WholeSupply
      BY <1>2
    <3>4. "escrow left" \in world => stuck = 1
      OBVIOUS
    <3>5. "books left" \notin world
      BY <3>1, <3>2, <3>3, Zenon
    <3>6. 1 # 0
      OBVIOUS
    <3>7. "escrow left" \notin world
      BY <3>1, <3>4, <3>6, Zenon
    <3> QED
      BY <3>5, <3>7
  <2>4. "revert" \in Places /\ m \in Forks /\ step("revert", m)
    BY <1>3, <1>5, <2>1 DEF Places
  <2>5. /\ chain'.height >= 0 /\ world' = world /\ aside' = aside
        /\ rehearsal' = [script |-> rehearsal.script, pc |-> "revert", own |-> rehearsal.own]
        /\ Ruled' /\ Standing' => RehearsalInv'
    BY <1>1, <2>4, StepKeeps
  <2>6. rehearsal'.pc = "revert" /\ rehearsal'.script = "c"
    BY <1>2, <2>5
  <2>7. /\ "reorged" \notin world /\ "not issuable" \notin world /\ "short proceeds" \notin world
        /\ {"policy refuses", "binds elsewhere"} \cap world = {} /\ aside.height >= 0
    BY <1>1 DEF RehearsalInv, Ruled, Standing, Grounded, Issued, Bound, Active, Places
  <2>8. Ruled'
    BY <2>3, <2>5, <2>6, <2>7 DEF Ruled, Grounded, Issued, Bound, Active, Redeemed
  <2>9. Standing'
    BY <2>5, <2>6, <2>7 DEF Standing
  <2> QED
    BY <2>5, <2>8, <2>9
<1> QED
  BY <1>4, <1>5 DEF redeem

\* The fork is put back to the activation.
LEMMA RevertKeeps ==
  ASSUME RehearsalInv, revert
  PROVE  RehearsalInv'
<1>1. rehearsal.pc = "revert" /\ rehearsal.pc # "idle"
  BY DEF revert, at
<1>2. /\ rehearsal.script = "c" /\ "reorged" \notin world /\ "not issuable" \notin world /\ "short proceeds" \notin world
      /\ {"policy refuses", "binds elsewhere"} \cap world = {} /\ {"books left", "escrow left"} \cap world = {}
      /\ aside.height >= 0 /\ ForkOK(aside)
  BY <1>1 DEF RehearsalInv, Ruled, Standing, Grounded, Issued, Bound, Active, Redeemed, Places
<1>3. rehearsal' = [script |-> "c", pc |-> "default", own |-> rehearsal.own]
  BY <1>1, <1>2, ChainOK DEF revert
<1>4. "c" \in Rehearsals /\ "default" \in Places /\ rehearsal.own \in BOOLEAN
  BY <1>1, ChainOK DEF Rehearsals, Places
<1>5. ports' = [ports EXCEPT !["c"] = aside] /\ aside' = aside /\ UNCHANGED <<world, shelf>>
  BY DEF revert
<1>6. PICK f : f = aside
  OBVIOUS
<1>7. ForkOK(f) /\ ForkOK(aside') /\ ports' = [ports EXCEPT !["c"] = f]
  BY <1>2, <1>5, <1>6
<1>8. chain' = f /\ (Ruled' /\ Standing' => RehearsalInv')
  BY <1>3, <1>4, <1>5, <1>7, MoveKeeps
<1>9. rehearsal'.pc = "default" /\ rehearsal'.script = "c"
  BY <1>3
<1>10. Ruled'
  BY <1>2, <1>5, <1>9 DEF Ruled, Grounded, Issued, Bound, Active, Redeemed
<1>11. Standing'
  BY <1>2, <1>5, <1>6, <1>8, <1>9 DEF Standing
<1> QED
  BY <1>8, <1>10, <1>11

\* The second ending: a burn or a short release is seen.
LEMMA DefaultKeeps ==
  ASSUME RehearsalInv, releaseDefaultCva
  PROVE  RehearsalInv'
<1> DEFINE total == IF "release burns" \in world THEN chain.supply - WholeSupply ELSE chain.supply
           given == IF "release burns" \in world THEN 0 ELSE IF "release short" \in world THEN WholeSupply - 1 ELSE WholeSupply
           n == [chain EXCEPT !.adapter = @ - WholeSupply, !.receipts = @ - WholeSupply, !.released = WholeSupply, !.accounted = 0,
                              !.supply = IF "release burns" \in world THEN @ - WholeSupply ELSE @,
                              !.holders = @ + (IF "release burns" \in world THEN 0
                                               ELSE IF "release short" \in world THEN WholeSupply - 1 ELSE WholeSupply)]
<1>1. rehearsal.pc = "default" /\ rehearsal.pc # "idle" /\ rehearsal.pc \in Grounded \ {"spawn", "pin"}
  BY DEF releaseDefaultCva, at, Grounded, Places
<1>2. chain \in Forks /\ rehearsal.script = "c" /\ aside.height >= 0
  BY <1>1, ChainOK DEF ForkOK, RehearsalInv, Ruled, Standing, Bound, Active
<1>3. WholeSupply \in Int /\ WholeSupply > 0 /\ chain.supply \in Int /\ chain.adapter \in Int /\ chain.receipts \in Int /\ chain.holders \in Int
  BY <1>2, FreshForks DEF Forks
<1>4. given \in Int /\ total \in Int
  <2>1. total = chain.supply - WholeSupply \/ total = chain.supply
    OBVIOUS
  <2>2. given = 0 \/ given = WholeSupply - 1 \/ given = WholeSupply
    OBVIOUS
  <2> HIDE DEF total, given
  <2> QED
    BY <1>3, <2>1, <2>2
<1>5. n \in Forks /\ n.supply = total /\ n.holders = chain.holders + given
  <2>1. PICK t, h : t = total /\ h = given
    OBVIOUS
  <2>2. n = [chain EXCEPT !.adapter = @ - WholeSupply, !.receipts = @ - WholeSupply, !.released = WholeSupply, !.accounted = 0,
                          !.supply = t, !.holders = @ + h]
    BY <2>1
  <2> HIDE DEF n, given, total
  <2>3. t \in Int /\ h \in Int
    BY <1>4, <2>1
  <2>4. n \in Forks /\ n.supply = t /\ n.holders = chain.holders + h
    <3>1. PICK a, r, u, g : /\ a = chain.adapter - WholeSupply /\ r = chain.receipts - WholeSupply /\ u = WholeSupply
                            /\ g = chain.holders + h
      OBVIOUS
    <3>2. a \in Int
      BY <1>3, <3>1
    <3>3. r \in Int
      BY <1>3, <3>1
    <3>4. u \in Int
      BY <1>3, <3>1
    <3>5. g \in Int
      BY <1>3, <2>3, <3>1
    <3>6. PICK f, m, z : f = chain /\ m = n /\ z = 0
      OBVIOUS
    <3>7. f \in Forks /\ z \in Int
      BY <1>2, <3>6
    <3>8. ReleasedFrom(m, f, a, r, u, z, t, g)
      BY <2>2, <3>1, <3>6 DEF ReleasedFrom
    <3>9. m \in Forks /\ m.supply = t /\ m.holders = g
      BY <2>3, <3>2, <3>3, <3>4, <3>5, <3>7, <3>8, Released
    <3> QED
      BY <3>1, <3>6, <3>9
  <2> QED
    BY <2>1, <2>4
<1>6. CASE refuseRehearsal
  BY <1>1, <1>6, RehearsalRefuseKeeps, ChainOK
<1>7. CASE validateScenarioB(chain, n) /\ step("verdict", n)
  <2>1. PICK m : m = n
    OBVIOUS
  <2> HIDE DEF n
  <2>2. chain.supply = m.supply /\ m.holders - chain.holders = WholeSupply
    BY <1>7, <2>1 DEF validateScenarioB, validateReleaseTokenDeltaShape
  <2>3. total = chain.supply /\ given = WholeSupply
    <3> HIDE DEF total, given
    <3> QED
      BY <1>3, <1>4, <1>5, <2>1, <2>2
  <2>4. "release burns" \notin world /\ "release short" \notin world
    <3>1. "release burns" \in world => given = 0
      OBVIOUS
    <3>2. "release burns" \notin world /\ "release short" \in world => given = WholeSupply - 1
      OBVIOUS
    <3>3. WholeSupply # 0 /\ WholeSupply # WholeSupply - 1
      BY <1>3
    <3> HIDE DEF given, total
    <3> QED
      BY <2>3, <3>1, <3>2, <3>3, Zenon
  <2>5. "verdict" \in Places /\ m \in Forks /\ step("verdict", m)
    BY <1>5, <1>7, <2>1 DEF Places
  <2>6. /\ chain'.height >= 0 /\ world' = world /\ aside' = aside
        /\ rehearsal' = [script |-> rehearsal.script, pc |-> "verdict", own |-> rehearsal.own]
        /\ Ruled' /\ Standing' => RehearsalInv'
    BY <1>1, <2>5, StepKeeps
  <2>7. rehearsal'.pc = "verdict" /\ rehearsal'.script = "c"
    BY <1>2, <2>6
  <2>8. /\ "reorged" \notin world /\ "not issuable" \notin world /\ "short proceeds" \notin world
        /\ {"policy refuses", "binds elsewhere"} \cap world = {} /\ {"books left", "escrow left"} \cap world = {}
    BY <1>1 DEF RehearsalInv, Ruled, Standing, Grounded, Issued, Bound, Active, Redeemed, Places
  <2>9. Ruled'
    BY <2>4, <2>6, <2>7, <2>8 DEF Ruled, Grounded, Issued, Bound, Active, Redeemed
  <2>10. Standing'
    BY <1>2, <2>6, <2>7 DEF Standing
  <2> QED
    BY <2>6, <2>9, <2>10
<1> QED
  BY <1>6, <1>7 DEF releaseDefaultCva

\* Both endings were as they should be.
LEMMA VerdictKeeps ==
  ASSUME RehearsalInv, classifyRehearsal
  PROVE  RehearsalInv'
<1>1. rehearsal.pc = "verdict" /\ rehearsal.pc # "idle"
  BY DEF classifyRehearsal, at
<1>2. /\ rehearsal.script = "c" /\ "reorged" \notin world /\ "not issuable" \notin world
      /\ {"policy refuses", "binds elsewhere"} \cap world = {} /\ "short proceeds" \notin world
      /\ {"books left", "escrow left"} \cap world = {} /\ {"release burns", "release short"} \cap world = {}
  BY <1>1 DEF RehearsalInv, Ruled, Grounded, Issued, Bound, Active, Redeemed, Places
<1>3. world \subseteq {"other minter"}
  BY <1>2 DEF RehearsalInv, Flaws
<1>4. world \cap {"reorged", "not issuable", "policy refuses"} = {} /\ "binds elsewhere" \notin world
  BY <1>2
<1>5. conclude("PROVEN", FALSE)
  BY DEF classifyRehearsal
<1> QED
  BY <1>1, <1>2, <1>3, <1>4, <1>5, ConcludeKeeps, ChainOK

\* Before the ground is known.
LEMMA OpeningKeeps ==
  ASSUME RehearsalInv, begin \/ runControlA \/ killRehearsal
  PROVE  RehearsalInv'
<1>1. UNCHANGED <<world, ports, aside, shelf>>
  BY DEF begin, runControlA, killRehearsal
<1>2. \/ rehearsal' = NoRehearsal
      \/ \E s \in Rehearsals : rehearsal' = [script |-> s, pc |-> "control", own |-> FALSE]
      \/ /\ rehearsal.pc = "control" /\ "reorged" \notin world
         /\ rehearsal' = [script |-> rehearsal.script, pc |-> "spawn", own |-> rehearsal.own]
  <2>1. CASE begin
    BY <2>1 DEF begin, NoRehearsal
  <2>2. CASE runControlA
    <3>1. rehearsal.pc = "control" /\ rehearsal.pc # "idle"
      BY <2>2 DEF runControlA, at
    <3> QED
      BY <2>2, <3>1, ChainOK DEF runControlA
  <2>3. CASE killRehearsal
    BY <2>3 DEF killRehearsal
  <2> QED
    BY <2>1, <2>2, <2>3
<1>3. /\ rehearsal' \in [script : Rehearsals \cup {"none"}, pc : Places, own : BOOLEAN]
      /\ rehearsal'.pc \in {"idle", "control", "spawn"}
      /\ rehearsal'.pc # "idle" => rehearsal'.script \in Rehearsals
      /\ rehearsal'.pc = "spawn" => "reorged" \notin world
  <2>1. CASE rehearsal' = NoRehearsal
    BY <2>1 DEF NoRehearsal, Places
  <2>2. ASSUME NEW s \in Rehearsals, rehearsal' = [script |-> s, pc |-> "control", own |-> FALSE]
        PROVE  <1>3!:
    BY <2>2 DEF Places
  <2>3. CASE /\ rehearsal.pc = "control" /\ "reorged" \notin world
             /\ rehearsal' = [script |-> rehearsal.script, pc |-> "spawn", own |-> rehearsal.own]
    <3>1. rehearsal.script \in Rehearsals /\ rehearsal.own \in BOOLEAN
      BY <2>3, ChainOK
    <3> QED
      BY <2>3, <3>1 DEF Places
  <2> QED
    BY <1>2, <2>1, <2>2, <2>3
<1>4. \A s \in Rehearsals : ForkOK(ports[s])'
  BY <1>1 DEF RehearsalInv, ForkOK
<1>5. ForkOK(aside)'
  BY <1>1 DEF RehearsalInv, ForkOK
<1>6. Ruled' /\ Standing'
  BY <1>1, <1>3 DEF Ruled, Standing, Grounded, Issued, Bound, Active, Redeemed
<1>7. RehearsalIsTrue'
  BY <1>1 DEF RehearsalInv, RehearsalIsTrue
<1> QED
  BY <1>1, <1>3, <1>4, <1>5, <1>6, <1>7 DEF RehearsalInv

\* The fork is found or started, and must stand at the pinned block.
LEMMA SpawnKeeps ==
  ASSUME RehearsalInv, spawnFork \/ pin
  PROVE  RehearsalInv'
<1>1. rehearsal.pc \in {"spawn", "pin"} /\ rehearsal.pc # "idle"
  BY DEF spawnFork, pin, at
<1>2. /\ rehearsal.script \in Rehearsals /\ ForkOK(chain) /\ ports[rehearsal.script] = chain
      /\ rehearsal = [script |-> rehearsal.script, pc |-> rehearsal.pc, own |-> rehearsal.own]
      /\ rehearsal.own \in BOOLEAN
  BY <1>1, ChainOK
<1>3. "reorged" \notin world
  BY <1>1 DEF RehearsalInv, Ruled, Grounded, Places
<1>4. CASE spawnFork
  <2>1. PICK s, f, o : /\ s = rehearsal.script /\ f = (IF chain = NoFork THEN Fresh ELSE chain)
                       /\ o = (chain = NoFork)
    OBVIOUS
  <2>2. s \in Rehearsals /\ ForkOK(f) /\ o \in BOOLEAN /\ "pin" \in Places
    BY <1>2, <2>1, FreshForks DEF Places
  <2>3. ports' = [ports EXCEPT ![s] = f]
    BY <1>2, <1>4, <2>1 DEF spawnFork
  <2>4. rehearsal' = [script |-> s, pc |-> "pin", own |-> o]
    BY <1>2, <1>4, <2>1 DEF spawnFork
  <2>5. UNCHANGED <<world, shelf>> /\ aside' = aside /\ ForkOK(aside')
    BY <1>4 DEF spawnFork, RehearsalInv
  <2>6. Ruled' /\ Standing' => RehearsalInv'
    BY <2>2, <2>3, <2>4, <2>5, MoveKeeps
  <2>7. rehearsal'.pc = "pin"
    BY <2>4
  <2>8. Ruled' /\ Standing'
    BY <1>3, <2>5, <2>7 DEF Ruled, Standing, Grounded, Issued, Bound, Active, Redeemed
  <2> QED
    BY <2>6, <2>8
<1>5. CASE pin /\ assertPinnedBlock(chain)
  <2>1. PICK s, f, o : s = rehearsal.script /\ f = chain /\ o = rehearsal.own
    OBVIOUS
  <2>2. s \in Rehearsals /\ ForkOK(f) /\ o \in BOOLEAN /\ "ceremony" \in Places
    BY <1>2, <2>1 DEF Places
  <2>3. ports' = [ports EXCEPT ![s] = f]
    BY <1>2, <1>5, <2>1 DEF pin, RehearsalInv
  <2>4. rehearsal' = [script |-> s, pc |-> "ceremony", own |-> o]
    BY <1>2, <1>5, <2>1 DEF pin
  <2>5. UNCHANGED <<world, shelf>> /\ aside' = aside /\ ForkOK(aside')
    BY <1>5 DEF pin, RehearsalInv
  <2>6. chain' = f /\ (Ruled' /\ Standing' => RehearsalInv')
    BY <2>2, <2>3, <2>4, <2>5, MoveKeeps
  <2>7. rehearsal'.pc = "ceremony"
    BY <2>4
  <2>8. f.height = 0 /\ f.passes = {}
    BY <1>5, <2>1, <2>2 DEF assertPinnedBlock, ForkOK
  <2>9. chain'.height >= 0 /\ chain'.passes = {}
    BY <2>6, <2>8
  <2>10. Ruled' /\ Standing'
    BY <1>3, <2>5, <2>7, <2>9 DEF Ruled, Standing, Grounded, Issued, Bound, Active, Redeemed
  <2> QED
    BY <2>6, <2>10
<1>6. CASE pin /\ ~assertPinnedBlock(chain)
  BY <1>2, <1>6, RehearsalRefuseKeeps DEF pin
<1> QED
  BY <1>4, <1>5, <1>6

\* The inductive invariant of the rehearsals: at each place of a script,
\* the flaws its checks so far would have found are not there.
THEOREM RehearsalInvariant == RehearsalSpec => []RehearsalInv
<1>1. RehearsalInit => RehearsalInv
  <2> SUFFICES ASSUME RehearsalInit PROVE RehearsalInv
    OBVIOUS
  <2>1. rehearsal = NoRehearsal /\ rehearsal.pc = "idle"
    BY DEF RehearsalInit, NoRehearsal
  <2>2. ports \in [Rehearsals -> Forks] /\ (\A s \in Rehearsals : ForkOK(ports[s])) /\ ForkOK(aside)
    BY FreshForks DEF RehearsalInit, ForkOK
  <2>3. rehearsal \in [script : Rehearsals \cup {"none"}, pc : Places, own : BOOLEAN]
    BY <2>1 DEF NoRehearsal, Places
  <2>4. /\ shelf \in [Rehearsals -> [class : {"none", "PROVEN"}, exclusive : BOOLEAN]]
        /\ \A s \in Rehearsals : shelf[s].class = "none" /\ shelf[s].exclusive = FALSE
    BY DEF RehearsalInit, NoArtifact
  <2>5. RehearsalIsTrue
    <3>1. {"a", "b", "c"} \subseteq Rehearsals
      BY DEF Rehearsals
    <3> QED
      BY <2>4, <3>1 DEF RehearsalIsTrue
  <2>6. Ruled /\ Standing
    BY <2>1 DEF Ruled, Standing, Grounded, Issued, Bound, Active, Redeemed
  <2>7. world \subseteq Flaws
    BY DEF RehearsalInit
  <2> QED
    BY <2>1, <2>2, <2>3, <2>4, <2>5, <2>6, <2>7 DEF RehearsalInv
<1>2. RehearsalInv /\ [RehearsalNext]_forkVars => RehearsalInv'
  <2> SUFFICES ASSUME RehearsalInv, [RehearsalNext]_forkVars PROVE RehearsalInv'
    OBVIOUS
  <2>1. CASE UNCHANGED forkVars
    <3>1. UNCHANGED <<world, ports, aside, rehearsal, shelf>> /\ chain' = chain
      BY <2>1 DEF forkVars, chain
    <3>2. Ruled' /\ Standing'
      BY <3>1 DEF RehearsalInv, Ruled, Standing
    <3>3. RehearsalIsTrue'
      BY <3>1 DEF RehearsalInv, RehearsalIsTrue
    <3>4. (\A s \in Rehearsals : ForkOK(ports[s])') /\ ForkOK(aside)'
      BY <3>1 DEF RehearsalInv, ForkOK
    <3> QED
      BY <3>1, <3>2, <3>3, <3>4 DEF RehearsalInv
  <2>2. CASE rehearsalFails
    <3>1. rehearsal.pc # "idle" /\ refuseRehearsal
      BY <2>2 DEF rehearsalFails
    <3> QED
      BY <3>1, RehearsalRefuseKeeps, ChainOK
  <2> QED
    BY <2>1, <2>2, OpeningKeeps, SpawnKeeps, CeremonyKeeps, SupplyKeeps, HistoryKeeps, FundKeeps, BindKeeps,
       ActivateKeeps, RedeemKeeps, RevertKeeps, DefaultKeeps, VerdictKeeps DEF RehearsalNext
<1> QED
  BY <1>1, <1>2, PTL DEF RehearsalSpec

\* A rehearsal that claims something is right about it, for any number of
\* units, flaws and rehearsals, also when a fork outlives the script that
\* started it (m13a-ceremony, m13b-vault-binding,
\* m13c-activation-terminal).
THEOREM RehearsalStaysTrue == RehearsalSpec => []RehearsalIsTrue
<1>1. RehearsalInv => RehearsalIsTrue
  BY DEF RehearsalInv
<1> QED
  BY <1>1, RehearsalInvariant, PTL

-----------------------------------------------------------------------------
\* The operator's scripts on the test network.

\* A transaction of a script, as the chain has it.
Transactions ==
  [run : Nat, out : Outs, script : Scripts, subject : Nat, leg : Nat, answered : BOOLEAN,
   status : {"pending", "success", "reverted"}]

\* What a script writes to its artifact.
Reports ==
  [run : Nat, script : Scripts \cup {"none"}, subject : Nat, status : {"none", "RUNNING", "STOPPED", "COMPLETE"}, class : Classes, legs : Seq(Legs),
   attempted : BOOLEAN, response : {"none", "accepted", "refused", "lost"}, recovery : BOOLEAN]

\* A script has taken no number of a later run, and every number was
\* taken by one run.
Numbered ==
  /\ runs \in Nat /\ runs <= MaxRuns
  /\ \A i \in 1..Len(txs) : txs[i].run <= runs
  /\ \A o \in Outs : disk[o].run <= runs

\* What one artifact says is so.
Truthful(a) ==
  /\ a.class \in Proven =>
       /\ \A leg \in 1..legCount(a.script) : did(a.run, leg) \/ (a.script = "configure" /\ leg = 1)
       /\ a.script = "probe" => a.run \in passes
       /\ a.script = "launch" => launches[a.run] = "issued"
  /\ a.recovery =>
       ~\E i \in DOMAIN txs : txs[i].run = a.run /\ txs[i].leg = 2 /\ txs[i].answered /\ txs[i].status = "pending"

\* An artifact that claims something is of a run that is over.
Closed(a) ==
  a.class \in Proven \/ a.recovery => a.run > 0 /\ (proc.pc = "idle" \/ a.run # runs)

\* The legs a report has recorded are transactions of its run.
LegOK(r, l) ==
  /\ r.legs[l].tx \in 1..Len(txs) /\ txs[r.legs[l].tx].run = r.run /\ txs[r.legs[l].tx].leg = l
  /\ r.legs[l].state = "CONFIRMED" => txs[r.legs[l].tx].status = "success"
  /\ r.legs[l].state = "REVERTED" => txs[r.legs[l].tx].status = "reverted"
  /\ r.legs[l].ok => did(r.run, l)

\* Every leg a report has recorded is such a transaction.
LegsOK(r) == \A l \in 1..Len(r.legs) : LegOK(r, l)

\* A hash the script was given is the one it has recorded for its leg.
HashesOK(r) ==
  \A i \in 1..Len(txs) :
    txs[i].run = r.run /\ txs[i].answered => txs[i].leg \in 1..Len(r.legs) /\ r.legs[txs[i].leg].tx = i

\* The legs that a script does not go on without.
Strict == {"deploy", "consume", "terminal"}

\* Where the script is, by what it has recorded.
At(pc, r) ==
  /\ pc = "preflight" => r.legs = << >>
  /\ pc \in {"await", "judge"} => Len(r.legs) > 0
  /\ pc = "judge" => /\ txs[r.legs[Len(r.legs)].tx].status # "pending"
                     /\ r.script # "roundtrip" => r.legs[Len(r.legs)].state # "PENDING"
  /\ r.script \in {"transfer", "probe"} => Len(r.legs) = IF pc \in {"await", "judge", "final"} THEN 1 ELSE 0
  /\ r.script = "probe" /\ pc = "final" => r.legs[1].state = "CONFIRMED"
  /\ r.script \in Strict =>
       /\ \A l \in 1..Len(r.legs) : pc \in {"send", "final"} \/ l < Len(r.legs) => r.legs[l].state = "CONFIRMED"
       /\ pc = "final" => Len(r.legs) = legCount(r.script)
  /\ r.script = "roundtrip" => /\ pc = "send" => Len(r.legs) < 2
                               /\ Len(r.legs) <= 2
                               /\ pc = "final" => Len(r.legs) > 0
  /\ pc = "poll" \/ r.attempted => r.script = "launch"

\* What holds of the script that is running.
Running ==
  proc.pc # "idle" =>
    /\ proc.report.run = runs /\ runs > 0 /\ proc.out \in Outs /\ proc.report.script \in Scripts
    /\ proc.report.status = "RUNNING" /\ proc.report.class \notin Proven /\ ~proc.report.recovery
    /\ LegsOK(proc.report) /\ HashesOK(proc.report) /\ At(proc.pc, proc.report)

\* The records the chain, the disk and the script are made of.
RunnerShape ==
  /\ campaign \in Campaigns
  /\ txs \in Seq(Transactions)
  /\ launches \in [RunNumbers -> {"none", "travelling", "accepted", "issued", "refused"}]
  /\ disk \in [Outs -> Reports]
  /\ DOMAIN proc = {"pc", "out", "mode", "report"} /\ proc.report \in Reports
  /\ proc.pc = "idle" => proc = NoScript

\* The chain and Cleanverse only add to what they have; what is added is
\* of the run that is on.
Grown ==
  /\ txs' \in Seq(Transactions) /\ Len(txs) <= Len(txs')
  /\ \A i \in 1..Len(txs) :
       /\ txs'[i].run = txs[i].run /\ txs'[i].leg = txs[i].leg /\ txs'[i].answered = txs[i].answered
       /\ txs[i].status # "pending" => txs'[i].status = txs[i].status
  /\ \A i \in 1..Len(txs') : i > Len(txs) => txs'[i].run = runs /\ proc.pc # "idle"
  /\ passes \subseteq passes'
  /\ launches' \in [RunNumbers -> {"none", "travelling", "accepted", "issued", "refused"}]
  /\ \A r \in RunNumbers : launches[r] = "issued" /\ (r # runs \/ proc.pc = "idle") => launches'[r] = "issued"

\* The inductive invariant of the runner.
RunnerInv ==
  /\ RunnerShape /\ Numbered /\ Running
  /\ \A o \in Outs : Truthful(disk[o]) /\ Closed(disk[o])

\* What has happened on the chain has happened.
LEMMA DidStays ==
  ASSUME RunnerShape, Grown, NEW r, NEW l, did(r, l)
  PROVE  did(r, l)'
<1>1. PICK i \in DOMAIN txs : txs[i].run = r /\ txs[i].leg = l /\ txs[i].status = "success"
  BY DEF did
<1>2. DOMAIN txs = 1..Len(txs) /\ Len(txs) \in Nat /\ DOMAIN txs' = 1..Len(txs') /\ Len(txs') \in Nat
  BY DEF RunnerShape, Grown
<1>3. i \in DOMAIN txs'
  BY <1>1, <1>2 DEF Grown
<1>4. txs'[i].run = r /\ txs'[i].leg = l /\ txs'[i].status = "success"
  BY <1>1, <1>2 DEF Grown
<1> QED
  BY <1>3, <1>4 DEF did

\* An artifact that is left alone stays true.
LEMMA TruthStays ==
  ASSUME RunnerShape, Numbered, Grown, NEW a \in Reports, a.run <= runs, Truthful(a), Closed(a)
  PROVE  Truthful(a)'
<1>1. a.class \in Proven =>
        /\ \A leg \in 1..legCount(a.script) : did(a.run, leg)' \/ (a.script = "configure" /\ leg = 1)
        /\ a.script = "probe" => a.run \in passes'
        /\ a.script = "launch" => launches'[a.run] = "issued"
  <2> SUFFICES ASSUME a.class \in Proven
               PROVE  /\ \A leg \in 1..legCount(a.script) : did(a.run, leg)' \/ (a.script = "configure" /\ leg = 1)
                      /\ a.script = "probe" => a.run \in passes'
                      /\ a.script = "launch" => launches'[a.run] = "issued"
    OBVIOUS
  <2>1. \A leg \in 1..legCount(a.script) : did(a.run, leg)' \/ (a.script = "configure" /\ leg = 1)
    BY DidStays DEF Truthful
  <2>2. a.script = "probe" => a.run \in passes'
    BY DEF Truthful, Grown
  <2>3. a.run \in RunNumbers /\ (a.run # runs \/ proc.pc = "idle")
    <3>1. a.run \in Nat /\ MaxRuns \in Nat
      BY RunnerAssumption DEF Reports
    <3>2. a.run > 0 /\ (a.run # runs \/ proc.pc = "idle")
      BY DEF Closed
    <3> QED
      BY <3>1, <3>2 DEF Numbered, RunNumbers
  <2>4. a.script = "launch" => launches'[a.run] = "issued"
    BY <2>3 DEF Truthful, Grown
  <2> QED
    BY <2>1, <2>2, <2>4
<1>2. a.recovery =>
        ~\E i \in DOMAIN txs' : /\ txs'[i].run = a.run /\ txs'[i].leg = 2 /\ txs'[i].answered
                                /\ txs'[i].status = "pending"
  <2> SUFFICES ASSUME a.recovery, NEW i \in DOMAIN txs', txs'[i].run = a.run, txs'[i].leg = 2, txs'[i].answered,
                      txs'[i].status = "pending"
               PROVE  FALSE
    OBVIOUS
  <2>1. DOMAIN txs = 1..Len(txs) /\ Len(txs) \in Nat /\ DOMAIN txs' = 1..Len(txs') /\ Len(txs') \in Nat
    BY DEF RunnerShape, Grown
  <2>2. CASE i > Len(txs)
    BY <2>1, <2>2 DEF Grown, Closed
  <2>3. CASE i \in 1..Len(txs)
    <3>1. txs[i].run = a.run /\ txs[i].leg = 2 /\ txs[i].answered /\ txs[i].status = "pending"
      BY <2>3 DEF Grown
    <3> QED
      BY <2>1, <2>3, <3>1 DEF Truthful
  <2> QED
    BY <2>1, <2>2, <2>3
<1> QED
  BY <1>1, <1>2 DEF Truthful

\* A leg that was recorded stays what it is.
LEMMA LegStays ==
  ASSUME RunnerShape, Grown, NEW r \in Reports, NEW l, LegOK(r, l)
  PROVE  LegOK(r, l)'
<1>1. Len(txs) \in Nat /\ Len(txs') \in Nat
  BY DEF RunnerShape, Grown
<1>2. PICK i : i = r.legs[l].tx
  OBVIOUS
<1>3. i \in 1..Len(txs) /\ txs[i].run = r.run /\ txs[i].leg = l
  BY <1>2 DEF LegOK
<1>4. i \in 1..Len(txs') /\ txs'[i].run = r.run /\ txs'[i].leg = l
  BY <1>1, <1>3 DEF Grown
<1>5. txs[i].status # "pending" => txs'[i].status = txs[i].status
  BY <1>3 DEF Grown
<1>6. r.legs[l].state = "CONFIRMED" => txs'[i].status = "success"
  BY <1>2, <1>5 DEF LegOK
<1>7. r.legs[l].state = "REVERTED" => txs'[i].status = "reverted"
  BY <1>2, <1>5 DEF LegOK
<1>8. r.legs[l].ok => did(r.run, l)'
  BY DidStays DEF LegOK
<1> QED
  BY <1>2, <1>4, <1>6, <1>7, <1>8 DEF LegOK

\* What is written, if something is, is what the new artifact says; the
\* others are as before.
Writes(a) == disk' = disk \/ disk' = [disk EXCEPT ![proc.out] = a]

\* Every artifact is true, the one that is written too.
LEMMA WrittenIsTrue ==
  ASSUME RunnerInv, Grown, proc.out \in Outs, proc.pc # "idle", NEW a \in Reports, Writes(a), a.run = runs, runs' = runs,
         Truthful(a)'
  PROVE  /\ disk' \in [Outs -> Reports]
         /\ \A o \in Outs : disk'[o].run <= runs' /\ Truthful(disk[o])'
         /\ \A o \in Outs : disk'[o] = a \/ (disk'[o] = disk[o] /\ Closed(disk[o]))
<1>1. disk \in [Outs -> Reports] /\ RunnerShape /\ Numbered /\ runs \in Nat
  BY DEF RunnerInv, RunnerShape, Numbered
<1>2. disk' \in [Outs -> Reports]
  BY <1>1 DEF Writes
<1>3. ASSUME NEW o \in Outs
      PROVE  /\ disk'[o].run <= runs' /\ Truthful(disk[o])'
             /\ disk'[o] = a \/ (disk'[o] = disk[o] /\ Closed(disk[o]))
  <2>1. disk'[o] = a \/ disk'[o] = disk[o]
    BY <1>1 DEF Writes
  <2>2. PICK b : b = disk[o]
    OBVIOUS
  <2>3. b \in Reports /\ b.run <= runs /\ Truthful(b) /\ Closed(b)
    BY <1>1, <2>2 DEF RunnerInv, Numbered
  <2>4. Truthful(b)'
    BY <1>1, <2>3, TruthStays
  <2>5. PICK c : c = disk'[o]
    OBVIOUS
  <2>6. c = a \/ c = b
    BY <2>1, <2>2, <2>5
  <2>7. Truthful(c)' /\ c.run <= runs'
    BY <1>1, <2>3, <2>4, <2>6
  <2>8. Truthful(disk[o])'
    BY <2>5, <2>7 DEF Truthful
  <2> QED
    BY <2>1, <2>2, <2>3, <2>5, <2>7, <2>8
<1> QED
  BY <1>2, <1>3

\* The run ends.
LEMMA EndRun ==
  ASSUME RunnerInv, Grown, proc.pc # "idle", NEW a \in Reports, Writes(a), a.run = runs, Truthful(a)',
         proc' = NoScript, UNCHANGED <<campaign, runs>>
  PROVE  RunnerInv'
<1>1. proc.out \in Outs /\ runs > 0 /\ runs \in Nat
  BY DEF RunnerInv, Running, Numbered
<1>2. /\ disk' \in [Outs -> Reports]
      /\ \A o \in Outs : disk'[o].run <= runs' /\ Truthful(disk[o])'
      /\ \A o \in Outs : disk'[o] = a \/ (disk'[o] = disk[o] /\ Closed(disk[o]))
  BY <1>1, WrittenIsTrue
<1>3. proc'.pc = "idle" /\ DOMAIN proc' = {"pc", "out", "mode", "report"} /\ proc'.report = NoReport
  BY DEF NoScript
<1>4. NoReport \in Reports
  <2>1. << >> \in Seq(Legs)
    OBVIOUS
  <2> QED
    BY <2>1 DEF NoReport, Reports, Classes
<1>5. RunnerShape'
  BY <1>2, <1>3, <1>4 DEF RunnerInv, RunnerShape, Grown
<1>6. Numbered'
  <2>1. \A i \in 1..Len(txs') : txs'[i].run <= runs
    <3> SUFFICES ASSUME NEW i \in 1..Len(txs') PROVE txs'[i].run <= runs
      OBVIOUS
    <3>1. Len(txs) \in Nat /\ Len(txs') \in Nat
      BY DEF RunnerInv, RunnerShape, Grown
    <3>2. CASE i > Len(txs)
      BY <1>1, <3>2 DEF Grown
    <3>3. CASE i \in 1..Len(txs)
      BY <3>3 DEF Grown, RunnerInv, Numbered
    <3> QED
      BY <3>1, <3>2, <3>3
  <2> QED
    BY <1>2, <2>1 DEF RunnerInv, Numbered
<1>7. Running'
  BY <1>3 DEF Running
<1>8. ASSUME NEW o \in Outs
      PROVE  Closed(disk[o])'
  <2>1. disk'[o] = a \/ (disk'[o] = disk[o] /\ Closed(disk[o]))
    BY <1>2
  <2>2. disk'[o].class \in Proven \/ disk'[o].recovery => disk'[o].run > 0
    BY <1>1, <2>1 DEF Closed
  <2> QED
    BY <1>3, <2>2 DEF Closed
<1> QED
  BY <1>2, <1>5, <1>6, <1>7, <1>8 DEF RunnerInv

\* The run goes on.
LEMMA GoOn ==
  ASSUME RunnerInv, Grown, proc.pc # "idle", NEW a \in Reports, Writes(a), a.run = runs, a.class \notin Proven, ~a.recovery,
         NEW p, NEW r \in Reports, goTo(p, r), UNCHANGED <<campaign, runs>>,
         p # "idle", r.run = runs, r.script = proc.report.script, r.status = "RUNNING", r.class \notin Proven, ~r.recovery,
         LegsOK(r)', HashesOK(r)', At(p, r)'
  PROVE  RunnerInv'
<1>1. proc.out \in Outs /\ runs > 0 /\ runs \in Nat /\ proc.report.script \in Scripts
  BY DEF RunnerInv, Running, Numbered
<1>2. Truthful(a)'
  BY DEF Truthful
<1>3. /\ disk' \in [Outs -> Reports]
      /\ \A o \in Outs : disk'[o].run <= runs' /\ Truthful(disk[o])'
      /\ \A o \in Outs : disk'[o] = a \/ (disk'[o] = disk[o] /\ Closed(disk[o]))
  BY <1>1, <1>2, WrittenIsTrue
<1>4. /\ proc'.pc = p /\ DOMAIN proc' = {"pc", "out", "mode", "report"} /\ proc'.report = r
      /\ proc'.out = proc.out /\ proc'.mode = proc.mode
  BY DEF goTo, RunnerInv, RunnerShape
<1>5. RunnerShape'
  BY <1>3, <1>4 DEF RunnerInv, RunnerShape, Grown
<1>6. Numbered'
  <2>1. \A i \in 1..Len(txs') : txs'[i].run <= runs
    <3> SUFFICES ASSUME NEW i \in 1..Len(txs') PROVE txs'[i].run <= runs
      OBVIOUS
    <3>1. Len(txs) \in Nat /\ Len(txs') \in Nat
      BY DEF RunnerInv, RunnerShape, Grown
    <3>2. CASE i > Len(txs)
      BY <1>1, <3>2 DEF Grown
    <3>3. CASE i \in 1..Len(txs)
      BY <3>3 DEF Grown, RunnerInv, Numbered
    <3> QED
      BY <3>1, <3>2, <3>3
  <2> QED
    BY <1>3, <2>1 DEF RunnerInv, Numbered
<1>7. Running'
  <2>1. LegsOK(proc.report)'
    BY <1>4 DEF LegsOK, LegOK
  <2>2. HashesOK(proc.report)'
    BY <1>4 DEF HashesOK
  <2>3. At(proc.pc, proc.report)'
    BY <1>4 DEF At
  <2> QED
    BY <1>1, <1>4, <2>1, <2>2, <2>3 DEF Running
<1>8. ASSUME NEW o \in Outs
      PROVE  Closed(disk[o])'
  <2>1. disk'[o] = a \/ (disk'[o] = disk[o] /\ Closed(disk[o]))
    BY <1>3
  <2>2. disk'[o].class \in Proven \/ disk'[o].recovery => disk'[o].run > 0 /\ disk'[o].run # runs
    BY <2>1 DEF Closed
  <2> QED
    BY <2>2 DEF Closed
<1> QED
  BY <1>3, <1>5, <1>6, <1>7, <1>8 DEF RunnerInv

\* A report with one field replaced.
SetsStatus(q, r, s) == q = [r EXCEPT !.status = s]
\* A report that differs in its class only.
SetsClass(q, r, c) == q = [r EXCEPT !.class = c]

\* A report with another status.
LEMMA WithStatus ==
  ASSUME NEW r \in Reports, NEW s \in {"none", "RUNNING", "STOPPED", "COMPLETE"}, NEW q, SetsStatus(q, r, s)
  PROVE  /\ q \in Reports /\ q.status = s
         /\ q.run = r.run /\ q.script = r.script /\ q.subject = r.subject /\ q.class = r.class
         /\ q.legs = r.legs /\ q.attempted = r.attempted /\ q.response = r.response /\ q.recovery = r.recovery
  BY DEF Reports, SetsStatus

\* A report with another class.
LEMMA WithClass ==
  ASSUME NEW r \in Reports, NEW c \in Classes, NEW q, SetsClass(q, r, c)
  PROVE  /\ q \in Reports /\ q.class = c
         /\ q.run = r.run /\ q.script = r.script /\ q.subject = r.subject /\ q.status = r.status
         /\ q.legs = r.legs /\ q.attempted = r.attempted /\ q.response = r.response /\ q.recovery = r.recovery
  BY DEF Reports, SetsClass

\* The classes that claim nothing.
LEMMA Claimless ==
  /\ {"BROADCAST ATTEMPT", "NO TRANSACTION SENT", "ATTEMPT, RECEIPT UNCONFIRMED", "ATTEMPT, RECEIPT PENDING",
      "SUBMITTED / PENDING", "LAUNCH FAILED", "OUTBOUND FAILED", "READ-ONLY PREFLIGHT", "PENDING"} \subseteq Classes
  /\ {"BROADCAST ATTEMPT", "NO TRANSACTION SENT", "ATTEMPT, RECEIPT UNCONFIRMED", "ATTEMPT, RECEIPT PENDING",
      "SUBMITTED / PENDING", "LAUNCH FAILED", "OUTBOUND FAILED", "READ-ONLY PREFLIGHT", "PENDING"} \cap Proven = {}
  BY DEF Classes, Proven

\* The artifact that is written of a report.
LEMMA SnapshotOf ==
  ASSUME NEW r \in Reports
  PROVE  /\ snapshot(r) \in Reports /\ snapshot(r).run = r.run /\ snapshot(r).script = r.script
         /\ snapshot(r).recovery = r.recovery
         /\ r.script # "double" \/ proc.mode # "write" => snapshot(r) = r
         /\ r.script = "double" /\ proc.mode = "write" => snapshot(r).class = classifyRun(r)
         /\ r.status # "COMPLETE" /\ r.class \notin Proven => snapshot(r).class \notin Proven
<1>1. classifyRun(r) \in Classes /\ (r.status # "COMPLETE" => classifyRun(r) \notin Proven)
  BY Claimless DEF classifyRun, Classes, Proven
<1>2. PICK c : c = classifyRun(r)
  OBVIOUS
<1>3. c \in Classes /\ "STOPPED" \in {"none", "RUNNING", "STOPPED", "COMPLETE"}
  BY <1>1, <1>2
<1>4. snapshot(r) = IF r.script = "double" /\ proc.mode = "write" THEN [r EXCEPT !.class = c] ELSE r
  BY <1>2 DEF snapshot
<1>5. PICK q : q = [r EXCEPT !.class = c] /\ SetsClass(q, r, c)
  BY DEF SetsClass
<1>6. q \in Reports /\ q.run = r.run /\ q.script = r.script /\ q.class = c /\ q.recovery = r.recovery
  BY <1>3, <1>5, WithClass
<1> QED
  BY <1>1, <1>2, <1>4, <1>5, <1>6

\* A script that stops claims nothing more than it did.
LEMMA StopKeeps ==
  ASSUME RunnerInv, Grown, proc.pc # "idle", NEW r \in Reports, r.run = runs, r.class \notin Proven, ~r.recovery,
         stop(r), UNCHANGED <<campaign, runs>>
  PROVE  RunnerInv'
<1>1. PICK s, x : s = [r EXCEPT !.status = "STOPPED"] /\ x = "STOPPED" /\ SetsStatus(s, r, x)
  BY DEF SetsStatus
<1>2. x \in {"none", "RUNNING", "STOPPED", "COMPLETE"}
  BY <1>1
<1>3. /\ s \in Reports /\ s.run = r.run /\ s.script = r.script /\ s.class = r.class /\ s.recovery = r.recovery
      /\ s.status = "STOPPED"
  BY <1>1, <1>2, WithStatus
<1>4. PICK c : c = checkpointOnFailure(r)
  OBVIOUS
<1>5. \/ c = s \/ c = [s EXCEPT !.class = "ATTEMPT, RECEIPT UNCONFIRMED"]
      \/ c = [s EXCEPT !.class = "NO TRANSACTION SENT"]
  BY <1>1, <1>4 DEF checkpointOnFailure
<1>6. /\ {"ATTEMPT, RECEIPT UNCONFIRMED", "NO TRANSACTION SENT"} \subseteq Classes
      /\ {"ATTEMPT, RECEIPT UNCONFIRMED", "NO TRANSACTION SENT"} \cap Proven = {}
  BY Claimless
<1>7. /\ c \in Reports /\ c.run = runs /\ c.class \notin Proven /\ ~c.recovery /\ c.status = "STOPPED"
  <2>1. CASE c = s
    BY <1>3, <2>1
  <2>2. CASE c = [s EXCEPT !.class = "ATTEMPT, RECEIPT UNCONFIRMED"]
    <3>1. PICK y : y = "ATTEMPT, RECEIPT UNCONFIRMED" /\ SetsClass(c, s, y)
      BY <2>2 DEF SetsClass
    <3>2. y \in Classes /\ y \notin Proven /\ SetsClass(c, s, y) /\ s \in Reports
      BY <1>3, <1>6, <3>1
    <3>3. c \in Reports /\ c.class = y /\ c.status = s.status /\ c.run = s.run /\ c.recovery = s.recovery
      BY <3>2, WithClass
    <3> QED
      BY <1>3, <3>2, <3>3
  <2>3. CASE c = [s EXCEPT !.class = "NO TRANSACTION SENT"]
    <3>1. PICK y : y = "NO TRANSACTION SENT" /\ SetsClass(c, s, y)
      BY <2>3 DEF SetsClass
    <3>2. y \in Classes /\ y \notin Proven /\ SetsClass(c, s, y) /\ s \in Reports
      BY <1>3, <1>6, <3>1
    <3>3. c \in Reports /\ c.class = y /\ c.status = s.status /\ c.run = s.run /\ c.recovery = s.recovery
      BY <3>2, WithClass
    <3> QED
      BY <1>3, <3>2, <3>3
  <2> QED
    BY <1>5, <2>1, <2>2, <2>3
<1>8. PICK a : a = snapshot(c)
  OBVIOUS
<1>9. a \in Reports /\ a.run = runs /\ a.class \notin Proven /\ ~a.recovery
  BY <1>7, <1>8, SnapshotOf
<1>10. Writes(a) /\ proc' = NoScript
  BY <1>4, <1>8 DEF stop, checkpoint, writeArtifact, Writes
<1>11. Truthful(a)'
  BY <1>9 DEF Truthful
<1> QED
  BY <1>9, <1>10, <1>11, EndRun

\* A script other than the ceremony ends with the class it has found.
LEMMA FinishKeeps ==
  ASSUME RunnerInv, Grown, proc.pc # "idle", NEW r \in Reports, r.run = runs,
         r.script # "double" \/ proc.mode # "write", Truthful(r)', finish(r), UNCHANGED <<campaign, runs>>
  PROVE  RunnerInv'
<1>1. PICK s, x : s = [r EXCEPT !.status = "COMPLETE"] /\ x = "COMPLETE" /\ SetsStatus(s, r, x)
  BY DEF SetsStatus
<1>2. x \in {"none", "RUNNING", "STOPPED", "COMPLETE"}
  BY <1>1
<1>3. /\ s \in Reports /\ s.run = r.run /\ s.script = r.script /\ s.class = r.class /\ s.recovery = r.recovery
  BY <1>1, <1>2, WithStatus
<1>4. Truthful(s)'
  BY <1>3 DEF Truthful
<1>5. snapshot(s) = s
  BY <1>3, SnapshotOf
<1>6. Writes(s) /\ proc' = NoScript
  BY <1>1, <1>5 DEF finish, checkpoint, writeArtifact, Writes
<1> QED
  BY <1>3, <1>4, <1>6, EndRun

\* A script goes on, and may write what it has.
LEMMA GoKeeps ==
  ASSUME RunnerInv, Grown, proc.pc # "idle", NEW p, NEW r \in Reports, goTo(p, r), checkpoint(r) \/ disk' = disk,
         UNCHANGED <<campaign, runs>>,
         p # "idle", r.run = runs, r.script = proc.report.script, r.status = "RUNNING", r.class \notin Proven, ~r.recovery,
         LegsOK(r)', HashesOK(r)', At(p, r)'
  PROVE  RunnerInv'
<1>1. PICK a : a = snapshot(r)
  OBVIOUS
<1>2. a \in Reports /\ a.run = runs /\ a.class \notin Proven /\ ~a.recovery
  BY <1>1, SnapshotOf
<1>3. Writes(a)
  BY <1>1 DEF checkpoint, writeArtifact, Writes
<1> QED
  BY <1>2, <1>3, GoOn

\* A step in which the chain and Cleanverse do nothing.
LEMMA NothingGrows ==
  ASSUME RunnerInv, UNCHANGED <<txs, launches>>, passes \subseteq passes'
  PROVE  Grown
<1>1. RunnerShape /\ Len(txs) \in Nat
  BY DEF RunnerInv, RunnerShape
<1> QED
  BY <1>1 DEF RunnerShape, Grown

\* What the running script knows of itself.
LEMMA RunningOK ==
  ASSUME RunnerInv, proc.pc # "idle"
  PROVE  /\ proc.report \in Reports /\ proc.report.run = runs /\ runs > 0 /\ runs \in Nat /\ proc.out \in Outs
         /\ proc.report.script \in Scripts /\ proc.report.status = "RUNNING" /\ proc.report.class \notin Proven
         /\ ~proc.report.recovery /\ LegsOK(proc.report) /\ HashesOK(proc.report) /\ At(proc.pc, proc.report)
         /\ proc.report.legs \in Seq(Legs) /\ Len(proc.report.legs) \in Nat
         /\ txs \in Seq(Transactions) /\ Len(txs) \in Nat
<1>1. proc.report \in Reports /\ txs \in Seq(Transactions)
  BY DEF RunnerInv, RunnerShape
<1>2. proc.report.legs \in Seq(Legs)
  BY <1>1 DEF Reports
<1> QED
  BY <1>1, <1>2 DEF RunnerInv, Running, Numbered

\* Steps of the script that stop it, where the chain does nothing.
LEMMA StopsKeep ==
  ASSUME RunnerInv, proc.pc # "idle", stop(proc.report), UNCHANGED <<campaign, txs, launches, runs>>, passes \subseteq passes'
  PROVE  RunnerInv'
<1>1. Grown
  BY NothingGrows
<1>2. PICK r : r = proc.report
  OBVIOUS
<1>3. r \in Reports /\ r.run = runs /\ r.class \notin Proven /\ ~r.recovery /\ stop(r)
  BY <1>2, RunningOK
<1> QED
  BY <1>1, <1>3, StopKeeps

\* How many transactions the scripts send that claim something for them.
LEMMA LegCounts ==
  /\ legCount("double") = Ceremony /\ legCount("roundtrip") = 2 /\ legCount("configure") = 2
  /\ legCount("terminal") = 3 /\ legCount("launch") = 0 /\ legCount("transfer") = 1 /\ legCount("probe") = 1
  /\ legCount("withdraw") = 1 /\ legCount("deploy") = 1 /\ legCount("consume") = 1
  BY DEF legCount, Inspecting

\* A report with the same legs of the same run.
LEMMA SameLegs ==
  ASSUME NEW r, NEW q, q.legs = r.legs, q.run = r.run, LegsOK(r), HashesOK(r)
  PROVE  LegsOK(q) /\ HashesOK(q)
  BY DEF LegsOK, LegOK, HashesOK

\* A script goes on while the chain does nothing.
LEMMA GoStill ==
  ASSUME RunnerInv, proc.pc # "idle", NEW p, NEW r \in Reports, goTo(p, r), checkpoint(r) \/ disk' = disk,
         UNCHANGED <<campaign, runs, txs>>, Grown,
         p # "idle", r.run = runs, r.script = proc.report.script, r.status = "RUNNING", r.class \notin Proven, ~r.recovery,
         LegsOK(r), HashesOK(r), At(p, r)
  PROVE  RunnerInv'
<1>1. LegsOK(r)'
  BY DEF LegsOK, LegOK, did
<1>2. HashesOK(r)'
  BY DEF HashesOK
<1>3. At(p, r)'
  BY DEF At
<1> QED
  BY <1>1, <1>2, <1>3, GoKeeps

\* A step of Cleanverse or the chain while a script runs or none does.
LEMMA OthersStep ==
  ASSUME RunnerInv, Grown, UNCHANGED <<campaign, disk, proc, runs>>, Len(txs') = Len(txs)
  PROVE  RunnerInv'
<1>1. RunnerShape /\ Numbered /\ Len(txs) \in Nat
  BY DEF RunnerInv, RunnerShape
<1>2. RunnerShape'
  BY <1>1 DEF RunnerShape, Grown
<1>3. Numbered'
  BY <1>1 DEF Numbered, Grown
<1>4. ASSUME NEW o \in Outs
      PROVE  Truthful(disk[o])' /\ Closed(disk[o])'
  <2>1. PICK a : a = disk[o]
    OBVIOUS
  <2>2. a \in Reports /\ a.run <= runs /\ Truthful(a) /\ Closed(a)
    BY <1>1, <2>1 DEF RunnerInv, RunnerShape, Numbered
  <2>3. Truthful(a)' /\ disk'[o] = a
    BY <1>1, <2>1, <2>2, TruthStays
  <2>4. Truthful(disk[o])'
    BY <2>3 DEF Truthful
  <2> QED
    BY <2>1, <2>2, <2>3, <2>4 DEF Closed
<1>5. Running'
  <2> SUFFICES ASSUME proc.pc # "idle"
               PROVE  LegsOK(proc.report)' /\ HashesOK(proc.report)' /\ At(proc.pc, proc.report)'
    BY DEF Running, RunnerInv
  <2>1. PICK r, p : r = proc.report /\ p = proc.pc
    OBVIOUS
  <2>2. r \in Reports /\ LegsOK(r) /\ HashesOK(r) /\ At(p, r) /\ proc'.report = r /\ proc'.pc = p
        /\ r.legs \in Seq(Legs) /\ Len(r.legs) \in Nat
    BY <2>1, RunningOK
  <2>3. LegsOK(r)'
    BY <1>1, <2>2, LegStays DEF LegsOK
  <2>4. HashesOK(r)'
    BY <2>2 DEF HashesOK, Grown
  <2>5. At(p, r)'
    <3>1. p = "judge" => txs'[r.legs[Len(r.legs)].tx].status # "pending"
      <4> SUFFICES ASSUME p = "judge" PROVE txs'[r.legs[Len(r.legs)].tx].status # "pending"
        OBVIOUS
      <4>1. Len(r.legs) > 0 /\ txs[r.legs[Len(r.legs)].tx].status # "pending"
        BY <2>2 DEF At
      <4>2. r.legs[Len(r.legs)].tx \in 1..Len(txs)
        BY <2>2, <4>1 DEF LegsOK, LegOK
      <4> QED
        BY <4>1, <4>2 DEF Grown
    <3> QED
      BY <2>2, <3>1 DEF At
  <2>6. LegsOK(proc.report)'
    BY <2>2, <2>3 DEF LegsOK, LegOK
  <2>7. HashesOK(proc.report)'
    BY <2>2, <2>4 DEF HashesOK
  <2>8. At(proc.pc, proc.report)'
    BY <2>2, <2>5 DEF At
  <2> QED
    BY <2>6, <2>7, <2>8
<1> QED
  BY <1>2, <1>3, <1>4, <1>5 DEF RunnerInv

\* A transaction is mined.
LEMMA MineKeeps == ASSUME RunnerInv, mine PROVE RunnerInv'
<1>1. PICK i \in DOMAIN txs, s \in {"success", "reverted"} :
        txs[i].status = "pending" /\ txs' = [txs EXCEPT ![i].status = s]
  BY DEF mine
<1>2. UNCHANGED <<campaign, launches, passes, closed, disk, proc, runs>>
  BY DEF mine
<1>3. txs \in Seq(Transactions) /\ DOMAIN txs = 1..Len(txs) /\ Len(txs) \in Nat /\ RunnerShape
  BY DEF RunnerInv, RunnerShape
<1>4. PICK t : t = [txs[i] EXCEPT !.status = s]
  OBVIOUS
<1>5. txs[i] \in Transactions
  BY <1>1, <1>3
<1>6. t \in Transactions /\ t.run = txs[i].run /\ t.leg = txs[i].leg /\ t.answered = txs[i].answered
  BY <1>4, <1>5 DEF Transactions
<1>7. txs' = [txs EXCEPT ![i] = t]
  BY <1>1, <1>4
<1>8. txs' \in Seq(Transactions) /\ Len(txs') = Len(txs)
  BY <1>1, <1>3, <1>6, <1>7
<1>9. \A j \in 1..Len(txs) :
        /\ txs'[j].run = txs[j].run /\ txs'[j].leg = txs[j].leg /\ txs'[j].answered = txs[j].answered
        /\ txs[j].status # "pending" => txs'[j].status = txs[j].status
  BY <1>1, <1>3, <1>6, <1>7
<1>10. Grown
  <2>1. launches \in [RunNumbers -> {"none", "travelling", "accepted", "issued", "refused"}]
    BY <1>3 DEF RunnerShape
  <2> QED
    BY <1>2, <1>3, <1>8, <1>9, <2>1 DEF Grown
<1> QED
  BY <1>2, <1>8, <1>10, OthersStep

\* A cure window ends.
LEMMA WindowClosesKeeps == ASSUME RunnerInv, windowCloses PROVE RunnerInv'
<1>1. UNCHANGED <<campaign, txs, launches, passes, disk, proc, runs>>
  BY DEF windowCloses
<1>2. Grown
  BY <1>1, NothingGrows
<1> QED
  BY <1>1, <1>2, OthersStep

\* Cleanverse goes on with a request.
LEMMA CleanverseKeeps == ASSUME RunnerInv, cleanverse PROVE RunnerInv'
<1>1. PICK r \in RunNumbers, s \in {"accepted", "issued", "refused"} :
        launches[r] \in {"travelling", "accepted"} /\ launches' = [launches EXCEPT ![r] = s]
  BY DEF cleanverse
<1>2. UNCHANGED <<campaign, txs, passes, closed, disk, proc, runs>>
  BY DEF cleanverse
<1>3. RunnerShape /\ launches \in [RunNumbers -> {"none", "travelling", "accepted", "issued", "refused"}]
  BY DEF RunnerInv, RunnerShape
<1>4. launches' \in [RunNumbers -> {"none", "travelling", "accepted", "issued", "refused"}]
  BY <1>1, <1>3
<1>5. \A q \in RunNumbers : launches[q] = "issued" => launches'[q] = "issued"
  BY <1>1, <1>3
<1>6. txs \in Seq(Transactions) /\ Len(txs) \in Nat
  BY <1>3 DEF RunnerShape
<1>7. Grown
  BY <1>2, <1>4, <1>5, <1>6 DEF Grown
<1> QED
  BY <1>2, <1>7, OthersStep

\* The operator starts a script.
LEMMA StartKeeps == ASSUME RunnerInv, start PROVE RunnerInv'
<1>1. PICK script \in Scripts : \E out \in OutsOf[script], mode \in modes(script), subject \in subjects(script) :
        /\ proc = NoScript
        /\ runs < Len(campaign)
        /\ proc' = [pc |-> "preflight", out |-> out, mode |-> mode,
                    report |-> [NoReport EXCEPT
                      !.run = runs + 1, !.script = script, !.subject = subject, !.status = "RUNNING",
                      !.class = IF mode = "check" THEN "READ-ONLY PREFLIGHT" ELSE "PENDING"]]
  BY DEF start
<1>2. PICK out \in OutsOf[script], mode \in modes(script), subject \in subjects(script) :
        /\ proc = NoScript
        /\ runs < Len(campaign)
        /\ proc' = [pc |-> "preflight", out |-> out, mode |-> mode,
                    report |-> [NoReport EXCEPT
                      !.run = runs + 1, !.script = script, !.subject = subject, !.status = "RUNNING",
                      !.class = IF mode = "check" THEN "READ-ONLY PREFLIGHT" ELSE "PENDING"]]
  BY <1>1
<1>3. runs' = runs + 1 /\ UNCHANGED <<campaign, closed, txs, launches, passes, disk>>
  BY DEF start
<1>4. RunnerShape /\ Numbered /\ runs \in Nat /\ Len(txs) \in Nat /\ txs \in Seq(Transactions)
  BY DEF RunnerInv, RunnerShape, Numbered
<1>5. subject \in Nat
  <2>1. subject \in RunNumbers \/ subject = 0 \/ \E o \in Outs : subject = disk[o].run
    BY DEF subjects
  <2>2. RunNumbers \subseteq Nat
    BY RunnerAssumption DEF RunNumbers
  <2>3. \A o \in Outs : disk[o].run \in Nat
    BY <1>4 DEF RunnerShape, Reports
  <2> QED
    BY <2>1, <2>2, <2>3
<1>6. PICK class : class = IF mode = "check" THEN "READ-ONLY PREFLIGHT" ELSE "PENDING"
  OBVIOUS
<1>7. class \in Classes /\ class \notin Proven
  BY <1>6, Claimless
<1>8. PICK n : n = runs + 1
  OBVIOUS
<1>9. n \in Nat /\ n > 0 /\ n > runs /\ runs' = n
  BY <1>3, <1>4, <1>8
<1>10. n <= MaxRuns
  <2>1. Len(campaign) <= MaxRuns /\ campaign \in Seq(SUBSET Scripts)
    BY <1>4, RunnerAssumption DEF RunnerShape
  <2>2. Len(campaign) \in Nat /\ MaxRuns \in Nat
    BY <2>1, RunnerAssumption
  <2> QED
    BY <1>2, <1>4, <1>8, <2>1, <2>2
<1>11. PICK r : r = [NoReport EXCEPT !.run = n, !.script = script, !.subject = subject, !.status = "RUNNING", !.class = class]
  OBVIOUS
<1>12. proc' = [pc |-> "preflight", out |-> out, mode |-> mode, report |-> r]
  BY <1>2, <1>6, <1>8, <1>11
<1>13. /\ r = [run |-> n, script |-> script, subject |-> subject, status |-> "RUNNING", class |-> class, legs |-> << >>,
               attempted |-> FALSE, response |-> "none", recovery |-> FALSE]
  BY <1>11 DEF NoReport
<1>14. r \in Reports
  <2>1. << >> \in Seq(Legs)
    OBVIOUS
  <2> QED
    BY <1>5, <1>7, <1>9, <1>13, <2>1 DEF Reports
<1>15. /\ r.legs = << >> /\ Len(r.legs) = 0 /\ r.run = n /\ r.script = script /\ ~r.attempted /\ ~r.recovery
       /\ r.class = class /\ r.status = "RUNNING"
  BY <1>13
<1>16. /\ proc'.pc = "preflight" /\ proc'.out = out /\ proc'.report = r
       /\ DOMAIN proc' = {"pc", "out", "mode", "report"}
  BY <1>12
<1>17. out \in Outs
  BY RunnerAssumption
<1>18. RunnerShape'
  BY <1>3, <1>4, <1>14, <1>16 DEF RunnerShape
<1>19. Numbered'
  <2>1. \A i \in 1..Len(txs) : txs[i].run <= n
    <3> SUFFICES ASSUME NEW i \in 1..Len(txs) PROVE txs[i].run <= n
      OBVIOUS
    <3>1. txs[i] \in Transactions /\ txs[i].run <= runs
      BY <1>4 DEF Numbered
    <3>2. txs[i].run \in Nat
      BY <3>1 DEF Transactions
    <3> QED
      BY <1>4, <1>9, <3>1, <3>2
  <2>2. \A o \in Outs : disk[o].run <= n
    <3> SUFFICES ASSUME NEW o \in Outs PROVE disk[o].run <= n
      OBVIOUS
    <3>1. disk[o].run \in Nat /\ disk[o].run <= runs
      BY <1>4 DEF RunnerShape, Reports, Numbered
    <3> QED
      BY <1>4, <1>9, <3>1
  <2> QED
    BY <1>3, <1>9, <1>10, <2>1, <2>2 DEF Numbered
<1>20. ASSUME NEW o \in Outs
       PROVE  Truthful(disk[o])' /\ Closed(disk[o])'
  <2>1. Truthful(disk[o])'
    BY <1>3 DEF RunnerInv, Truthful, did
  <2>2. disk[o].run \in Nat /\ disk[o].run <= runs
    BY <1>4 DEF RunnerShape, Reports, Numbered
  <2>3. disk[o].run # n
    BY <1>4, <1>9, <2>2
  <2> QED
    BY <1>3, <1>9, <2>1, <2>3 DEF RunnerInv, Closed
<1>21. Running'
  <2>1. LegsOK(proc.report)'
    BY <1>15, <1>16 DEF LegsOK
  <2>2. HashesOK(proc.report)'
    <3> SUFFICES ASSUME NEW i \in 1..Len(txs) PROVE txs[i].run # n
      BY <1>3, <1>15, <1>16 DEF HashesOK
    <3>1. txs[i] \in Transactions /\ txs[i].run <= runs
      BY <1>4 DEF Numbered
    <3>2. txs[i].run \in Nat
      BY <3>1 DEF Transactions
    <3> QED
      BY <1>4, <1>9, <3>1, <3>2
  <2>3. At(proc.pc, proc.report)'
    BY <1>15, <1>16 DEF At, Strict
  <2> QED
    BY <1>7, <1>9, <1>15, <1>16, <1>17, <2>1, <2>2, <2>3 DEF Running
<1> QED
  BY <1>18, <1>19, <1>20, <1>21 DEF RunnerInv

\* The process dies.
LEMMA KillKeeps ==
  ASSUME RunnerInv, proc.pc # "idle", proc' = NoScript, UNCHANGED <<campaign, txs, launches, passes, disk, runs>>
  PROVE  RunnerInv'
<1>1. Grown
  BY NothingGrows
<1>2. PICK a : a = proc.report
  OBVIOUS
<1>3. a \in Reports /\ a.run = runs /\ a.class \notin Proven /\ ~a.recovery
  BY <1>2, RunningOK
<1>4. Writes(a) /\ Truthful(a)'
  BY <1>3 DEF Writes, Truthful
<1> QED
  BY <1>1, <1>3, <1>4, EndRun

\* A gate refuses.
LEMMA RefuseKeeps == ASSUME RunnerInv, refuse PROVE RunnerInv'
<1>1. proc.pc # "idle" /\ stop(proc.report) /\ UNCHANGED <<campaign, txs, launches, runs>> /\ passes \subseteq passes'
  BY DEF refuse
<1> QED
  BY <1>1, StopsKeep

\* The sweep of a round trip cannot be costed.
LEMMA SweepNotCostedKeeps == ASSUME RunnerInv, sweepNotCosted PROVE RunnerInv'
<1>1. proc.pc # "idle" /\ stop(proc.report) /\ UNCHANGED <<campaign, txs, launches, runs>> /\ passes \subseteq passes'
  BY DEF sweepNotCosted
<1> QED
  BY <1>1, StopsKeep

\* A reading near the end throws.
LEMMA ReadingFailsKeeps == ASSUME RunnerInv, readingFails PROVE RunnerInv'
<1>1. proc.pc # "idle" /\ stop(proc.report) /\ UNCHANGED <<campaign, txs, launches, runs>> /\ passes \subseteq passes'
  BY DEF readingFails
<1> QED
  BY <1>1, StopsKeep

\* A leg that fails stops the script, or leads a round trip to its end.
LEMMA LegFails ==
  ASSUME RunnerInv, proc.pc \in {"send", "await", "judge"}, NEW r, r = proc.report, legFails(r), Grown,
         LegsOK(r)', HashesOK(r)', UNCHANGED <<campaign, runs>>
  PROVE  RunnerInv'
<1>1. PICK p : p = proc.pc
  OBVIOUS
<1>2. /\ r \in Reports /\ r.run = runs /\ r.class \notin Proven /\ ~r.recovery /\ r.status = "RUNNING"
      /\ r.script = proc.report.script /\ Len(r.legs) \in Nat /\ At(p, r) /\ proc.pc # "idle"
  BY <1>1, RunningOK
<1>3. CASE stop(r)
  BY <1>2, <1>3, StopKeeps
<1>4. CASE ~stop(r)
  <2>1. /\ r.script = "roundtrip" /\ (Len(r.legs) = 2 \/ Len(r.legs) = 1)
        /\ goTo("final", r) /\ disk' = disk
    BY <1>4 DEF legFails
  <2>2. At("final", r)'
    <3>1. r.attempted => r.script = "launch"
      BY <1>2 DEF At
    <3>2. PICK k : k = Len(r.legs) /\ k \in {1, 2}
      BY <2>1
    <3>3. k <= 2 /\ k > 0
      BY <3>2
    <3> QED
      BY <2>1, <3>1, <3>2, <3>3 DEF At, Strict
  <2>3. PICK f : f = "final"
    OBVIOUS
  <2>4. goTo(f, r) /\ f # "idle" /\ (checkpoint(r) \/ disk' = disk) /\ At(f, r)'
    BY <2>1, <2>2, <2>3
  <2> QED
    BY <1>2, <2>4, GoKeeps
<1> QED
  BY <1>3, <1>4

\* The wait for a receipt, or a reading after it, throws.
LEMMA WaitFailsKeeps == ASSUME RunnerInv, waitFails PROVE RunnerInv'
<1>1. /\ proc.pc \in {"send", "await", "judge"} /\ proc.pc # "idle" /\ legFails(proc.report)
      /\ UNCHANGED <<campaign, txs, launches, passes, runs>>
  BY DEF waitFails
<1>2. Grown
  BY <1>1, NothingGrows
<1>3. PICK r : r = proc.report
  OBVIOUS
<1>4. LegsOK(r) /\ HashesOK(r) /\ legFails(r)
  BY <1>1, <1>3, RunningOK
<1>5. LegsOK(r)' /\ HashesOK(r)'
  BY <1>1, <1>4 DEF LegsOK, LegOK, HashesOK, did
<1> QED
  BY <1>1, <1>2, <1>3, <1>4, <1>5, LegFails

\* A transaction of the run is broadcast.
LEMMA Broadcast ==
  ASSUME RunnerInv, proc.pc = "send", NEW b \in BOOLEAN, txs' = Append(txs, newTx(b)), UNCHANGED <<launches, passes>>
  PROVE  /\ Grown /\ Len(txs') = Len(txs) + 1
         /\ \A i \in 1..Len(txs) : txs'[i] = txs[i]
         /\ /\ txs'[Len(txs) + 1].run = runs /\ txs'[Len(txs) + 1].leg = Len(proc.report.legs) + 1
            /\ txs'[Len(txs) + 1].answered = b
<1>1. PICK t : t = newTx(b)
  OBVIOUS
<1>2. PICK n : n = Len(proc.report.legs) + 1
  OBVIOUS
<1>3. /\ proc.report \in Reports /\ proc.report.run = runs /\ runs \in Nat /\ proc.out \in Outs
      /\ proc.report.script \in Scripts /\ txs \in Seq(Transactions) /\ Len(txs) \in Nat /\ n \in Nat
  BY <1>2, RunningOK
<1>4. proc.report.subject \in Nat
  BY <1>3 DEF Reports
<1>5. t \in Transactions /\ t.run = runs /\ t.leg = n /\ t.answered = b
  BY <1>1, <1>2, <1>3, <1>4 DEF newTx, Transactions
<1>6. /\ txs' \in Seq(Transactions) /\ Len(txs') = Len(txs) + 1 /\ txs'[Len(txs) + 1] = t
      /\ \A i \in 1..Len(txs) : txs'[i] = txs[i]
  BY <1>1, <1>3, <1>5
<1>7. \A i \in 1..Len(txs') : i > Len(txs) => txs'[i].run = runs /\ proc.pc # "idle"
  <2> SUFFICES ASSUME NEW i \in 1..Len(txs'), i > Len(txs) PROVE txs'[i].run = runs
    OBVIOUS
  <2>1. i = Len(txs) + 1
    BY <1>3, <1>6
  <2> QED
    BY <1>5, <1>6, <2>1
<1>8. Grown
  BY <1>3, <1>6, <1>7 DEF Grown, RunnerInv, RunnerShape
<1> QED
  BY <1>2, <1>5, <1>6, <1>8

\* The broadcast fails, or its answer is lost.
LEMMA SendFailsKeeps == ASSUME RunnerInv, sendFails PROVE RunnerInv'
<1>1. /\ proc.pc = "send" /\ proc.pc \in {"send", "await", "judge"} /\ proc.pc # "idle" /\ legFails(proc.report)
      /\ UNCHANGED <<campaign, launches, passes, runs>>
      /\ txs' = txs \/ txs' = Append(txs, newTx(FALSE))
  BY DEF sendFails
<1>2. PICK r : r = proc.report
  OBVIOUS
<1>3. LegsOK(r) /\ HashesOK(r) /\ legFails(r) /\ r \in Reports /\ RunnerShape /\ Len(txs) \in Nat
  BY <1>1, <1>2, RunningOK DEF RunnerInv
<1>4. CASE txs' = txs
  <2>1. Grown
    BY <1>1, <1>4, NothingGrows
  <2>2. LegsOK(r)' /\ HashesOK(r)'
    BY <1>3, <1>4 DEF LegsOK, LegOK, HashesOK, did
  <2> QED
    BY <1>1, <1>2, <1>3, <2>1, <2>2, LegFails
<1>5. CASE txs' = Append(txs, newTx(FALSE))
  <2>1. /\ Grown /\ Len(txs') = Len(txs) + 1 /\ ~txs'[Len(txs) + 1].answered
        /\ \A i \in 1..Len(txs) : txs'[i] = txs[i]
    BY <1>1, <1>5, Broadcast
  <2>2. LegsOK(r)'
    BY <1>3, <2>1, LegStays DEF LegsOK
  <2>3. HashesOK(r)'
    <3> SUFFICES ASSUME NEW i \in 1..Len(txs'), txs'[i].run = r.run, txs'[i].answered
                 PROVE  txs'[i].leg \in 1..Len(r.legs) /\ r.legs[txs'[i].leg].tx = i
      BY DEF HashesOK
    <3>1. i # Len(txs) + 1
      BY <2>1
    <3>2. i \in 1..Len(txs)
      BY <1>3, <2>1, <3>1
    <3> QED
      BY <1>3, <2>1, <3>2 DEF HashesOK
  <2> QED
    BY <1>1, <1>2, <1>3, <2>1, <2>2, <2>3, LegFails
<1> QED
  BY <1>1, <1>4, <1>5

\* The script goes on from where it is, with the same legs.
LEMMA GoSame ==
  ASSUME RunnerInv, proc.pc # "idle", NEW p, NEW r \in Reports, goTo(p, r), checkpoint(r) \/ disk' = disk,
         UNCHANGED <<campaign, runs, txs>>, Grown,
         p # "idle", r.run = runs, r.script = proc.report.script, r.status = "RUNNING", r.class \notin Proven, ~r.recovery,
         r.legs = proc.report.legs, At(p, r)
  PROVE  RunnerInv'
<1>1. PICK q : q = proc.report
  OBVIOUS
<1>2. LegsOK(q) /\ HashesOK(q) /\ r.legs = q.legs /\ r.run = q.run
  BY <1>1, RunningOK
<1>3. LegsOK(r) /\ HashesOK(r)
  BY <1>2, SameLegs
<1> QED
  BY <1>3, GoStill

\* The gates are passed.
LEMMA PreflightKeeps == ASSUME RunnerInv, preflight PROVE RunnerInv'
<1>1. /\ proc.pc = "preflight" /\ proc.pc # "idle" /\ UNCHANGED <<campaign, txs, launches, passes, runs>>
  BY DEF preflight
<1>2. Grown
  BY <1>1, NothingGrows
<1>3. PICK r : r = proc.report
  OBVIOUS
<1>4. /\ r \in Reports /\ r.run = runs /\ r.class \notin Proven /\ ~r.recovery /\ r.status = "RUNNING"
      /\ r.script = proc.report.script /\ At("preflight", r) /\ r.legs = proc.report.legs
  BY <1>1, <1>3, RunningOK
<1>5. CASE stop(r)
  BY <1>1, <1>2, <1>4, <1>5, StopKeeps
<1>6. CASE proc.mode = "check" /\ finish(r)
  <2>1. Truthful(r)'
    BY <1>4 DEF Truthful
  <2> QED
    BY <1>1, <1>2, <1>4, <1>6, <2>1, FinishKeeps
<1>7. CASE /\ checkpoint(r) \/ disk' = disk
           /\ goTo(IF r.script \in {"launch", "apass"} THEN "request" ELSE "send", r)
  <2>1. PICK p : p = IF r.script \in {"launch", "apass"} THEN "request" ELSE "send"
    OBVIOUS
  <2>2. p = "request" \/ p = "send"
    BY <2>1
  <2>3. goTo(p, r) /\ p # "idle"
    BY <1>7, <2>1, <2>2
  <2>4. At(p, r)
    <3>1. r.legs = << >> /\ Len(r.legs) = 0 /\ (r.attempted => r.script = "launch")
      BY <1>4 DEF At
    <3> QED
      BY <2>2, <3>1 DEF At, Strict
  <2> QED
    BY <1>1, <1>2, <1>4, <1>7, <2>3, <2>4, GoSame
<1> QED
  BY <1>3, <1>5, <1>6, <1>7 DEF preflight

\* The artifact an inspection writes claims nothing.
LEMMA InspectKeeps == ASSUME RunnerInv, inspect PROVE RunnerInv'
<1>1. /\ proc.pc = "preflight" /\ proc.pc # "idle" /\ UNCHANGED <<campaign, txs, launches, passes, runs>>
      /\ proc.report.script \in Inspecting
  BY DEF inspect
<1>2. Grown
  BY <1>1, NothingGrows
<1>3. PICK r : r = proc.report
  OBVIOUS
<1>4. /\ r \in Reports /\ r.run = runs /\ r.class \notin Proven /\ ~r.recovery /\ r.script \in Inspecting
  BY <1>1, <1>3, RunningOK
<1>5. CASE stop(r)
  BY <1>1, <1>2, <1>4, <1>5, StopKeeps
<1>6. CASE ~stop(r)
  <2>1. PICK class \in findings(r.script) : finish([r EXCEPT !.class = class])
    BY <1>3, <1>6 DEF inspect
  <2>2. class \in {"PLANNED", "ALL CHECKS PASS", "CHECKS FAIL", "READ-ONLY INSPECTION", "INPUTS INCOMPLETE", "MANIFEST READY", "CHECK ONLY"}
    BY DEF findings, classifyManifest
  <2>3. class \in Classes /\ class \notin Proven
    BY <2>2 DEF Classes, Proven
  <2>4. PICK q : q = [r EXCEPT !.class = class] /\ SetsClass(q, r, class)
    BY DEF SetsClass
  <2>5. q \in Reports /\ q.run = r.run /\ q.class = class /\ q.recovery = r.recovery /\ q.script = r.script
    BY <1>4, <2>3, <2>4, WithClass
  <2>6. Truthful(q)' /\ q.script # "double"
    BY <1>4, <2>3, <2>5 DEF Truthful, Inspecting
  <2>7. finish(q)
    BY <2>1, <2>4
  <2> QED
    BY <1>1, <1>2, <1>4, <2>5, <2>6, <2>7, FinishKeeps
<1> QED
  BY <1>5, <1>6

\* A report with one leg more.
AddsLeg(q, r, g, c) == q = [r EXCEPT !.legs = Append(@, g), !.class = c]

\* A report with one leg more, and perhaps another class.
LEMMA WithLegMore ==
  ASSUME NEW r \in Reports, NEW g \in Legs, NEW c \in Classes, NEW q, AddsLeg(q, r, g, c)
  PROVE  /\ q \in Reports /\ q.run = r.run /\ q.script = r.script /\ q.status = r.status /\ q.class = c
         /\ q.recovery = r.recovery /\ q.attempted = r.attempted
         /\ Len(r.legs) \in Nat /\ Len(q.legs) = Len(r.legs) + 1 /\ q.legs[Len(r.legs) + 1] = g
         /\ \A l \in 1..Len(r.legs) : q.legs[l] = r.legs[l]
<1>1. r.legs \in Seq(Legs)
  BY DEF Reports
<1>2. PICK s : s = Append(r.legs, g)
  OBVIOUS
<1>3. /\ s \in Seq(Legs) /\ Len(r.legs) \in Nat /\ Len(s) = Len(r.legs) + 1 /\ s[Len(r.legs) + 1] = g
      /\ \A l \in 1..Len(r.legs) : s[l] = r.legs[l]
  BY <1>1, <1>2
<1>4. q = [r EXCEPT !.legs = s, !.class = c]
  BY <1>2 DEF AddsLeg
<1>5. /\ q \in Reports /\ q.run = r.run /\ q.script = r.script /\ q.status = r.status /\ q.class = c
      /\ q.recovery = r.recovery /\ q.attempted = r.attempted /\ q.legs = s
  BY <1>3, <1>4 DEF Reports
<1> QED
  BY <1>3, <1>5

\* The transaction is broadcast and its hash is recorded.
LEMMA SendKeeps == ASSUME RunnerInv, send PROVE RunnerInv'
<1>1. /\ proc.pc = "send" /\ proc.pc # "idle" /\ txs' = Append(txs, newTx(TRUE)) /\ TRUE \in BOOLEAN
      /\ UNCHANGED <<campaign, closed, launches, passes, runs>>
  BY DEF send
<1>2. PICK r : r = proc.report
  OBVIOUS
<1>3. /\ r \in Reports /\ r.run = runs /\ r.class \notin Proven /\ ~r.recovery /\ r.status = "RUNNING"
      /\ r.script = proc.report.script /\ At("send", r) /\ LegsOK(r) /\ HashesOK(r) /\ RunnerShape
      /\ Len(r.legs) \in Nat /\ Len(txs) \in Nat
  BY <1>1, <1>2, RunningOK DEF RunnerInv
<1>4. PICK n, m : n = Len(txs) + 1 /\ m = Len(r.legs) + 1
  OBVIOUS
<1>5. n \in Nat /\ m \in Nat /\ n > 0 /\ m > 0 /\ n \notin 1..Len(txs) /\ m \notin 1..Len(r.legs)
  BY <1>3, <1>4
<1>6. /\ Grown /\ Len(txs') = n
      /\ txs'[n].run = runs /\ txs'[n].leg = m /\ txs'[n].answered
      /\ \A i \in 1..Len(txs) : txs'[i] = txs[i]
  BY <1>1, <1>2, <1>4, Broadcast
<1>7. PICK g, c : g = [tx |-> n, state |-> "PENDING", ok |-> FALSE]
                  /\ c = IF r.script = "transfer" THEN "ATTEMPT, RECEIPT PENDING" ELSE r.class
  OBVIOUS
<1>8. g \in Legs /\ g.tx = n /\ g.state = "PENDING" /\ ~g.ok
  BY <1>5, <1>7 DEF Legs
<1>9. c \in Classes /\ c \notin Proven
  <2>1. r.class \in Classes
    BY <1>3 DEF Reports
  <2> QED
    BY <1>3, <1>7, <2>1, Claimless
<1>10. PICK q : q = [r EXCEPT !.legs = Append(@, g), !.class = c]
  OBVIOUS
<1>11. q = withHash(r, n)
  BY <1>7, <1>10 DEF withHash
<1> r \in Reports /\ g \in Legs /\ c \in Classes /\ AddsLeg(q, r, g, c)
  BY <1>3, <1>8, <1>9, <1>10 DEF AddsLeg
<1>12. /\ q \in Reports /\ q.run = r.run /\ q.script = r.script /\ q.status = r.status /\ q.class = c
       /\ q.recovery = r.recovery /\ q.attempted = r.attempted
       /\ Len(q.legs) = m /\ q.legs[m] = g
       /\ \A l \in 1..Len(r.legs) : q.legs[l] = r.legs[l]
  BY <1>4, WithLegMore
<1>13. LegsOK(q)'
  <2> SUFFICES ASSUME NEW l \in 1..Len(q.legs) PROVE LegOK(q, l)'
    BY DEF LegsOK
  <2>1. CASE l = m
    BY <1>3, <1>5, <1>6, <1>8, <1>12, <2>1 DEF LegOK
  <2>2. CASE l # m
    <3>1. l \in 1..Len(r.legs)
      BY <1>3, <1>4, <1>12, <2>2
    <3>2. LegOK(r, l)'
      BY <1>3, <1>6, <3>1, LegStays DEF LegsOK
    <3> QED
      BY <1>12, <3>1, <3>2 DEF LegOK
  <2> QED
    BY <2>1, <2>2
<1>14. HashesOK(q)'
  <2> SUFFICES ASSUME NEW i \in 1..Len(txs'), txs'[i].run = q.run, txs'[i].answered
               PROVE  txs'[i].leg \in 1..Len(q.legs) /\ q.legs[txs'[i].leg].tx = i
    BY DEF HashesOK
  <2>1. CASE i = n
    BY <1>5, <1>6, <1>8, <1>12, <2>1
  <2>2. CASE i # n
    <3>1. i \in 1..Len(txs)
      BY <1>3, <1>4, <1>6, <2>2
    <3>2. txs[i].leg \in 1..Len(r.legs) /\ r.legs[txs[i].leg].tx = i
      BY <1>3, <1>6, <1>12, <3>1 DEF HashesOK
    <3>3. 1..Len(r.legs) \subseteq 1..Len(q.legs)
      BY <1>3, <1>4, <1>12
    <3> QED
      BY <1>6, <1>12, <3>1, <3>2, <3>3
  <2> QED
    BY <2>1, <2>2
<1>15. At("await", q)'
  <2>1. r.script \in {"transfer", "probe"} => m = 1
    BY <1>3, <1>4 DEF At
  <2>2. r.script \in Strict => \A l \in 1..Len(r.legs) : r.legs[l].state = "CONFIRMED"
    BY <1>3 DEF At
  <2>3. r.script = "roundtrip" => m <= 2
    BY <1>3, <1>4 DEF At
  <2>4. r.attempted => r.script = "launch"
    BY <1>3 DEF At
  <2>5. ASSUME NEW l \in 1..Len(q.legs), q.script \in Strict, l < Len(q.legs)
        PROVE  q.legs[l].state = "CONFIRMED"
    <3>1. l \in 1..Len(r.legs)
      BY <1>3, <1>4, <1>12, <2>5
    <3> QED
      BY <1>12, <2>2, <2>5, <3>1
  <2> QED
    BY <1>5, <1>12, <2>1, <2>3, <2>4, <2>5 DEF At
<1>16. PICK p : p = "await"
  OBVIOUS
<1>17. goTo(p, q) /\ p # "idle" /\ (checkpoint(q) \/ disk' = disk) /\ At(p, q)'
  BY <1>2, <1>4, <1>11, <1>15, <1>16 DEF send, checkpointPending
<1>18. q.run = runs /\ q.script = proc.report.script /\ q.status = "RUNNING" /\ q.class \notin Proven /\ ~q.recovery
  BY <1>3, <1>9, <1>12
<1> QED
  BY <1>1, <1>6, <1>12, <1>13, <1>14, <1>17, <1>18, GoKeeps

\* A report with one leg replaced.
SetsLeg(q, r, n, g) == q = [r EXCEPT !.legs[n] = g]

\* A report with one leg replaced is the same otherwise.
LEMMA WithLeg ==
  ASSUME NEW r \in Reports, NEW n \in 1..Len(r.legs), NEW g \in Legs, NEW q, SetsLeg(q, r, n, g)
  PROVE  /\ q \in Reports /\ q.run = r.run /\ q.script = r.script /\ q.status = r.status /\ q.class = r.class
         /\ q.recovery = r.recovery /\ q.attempted = r.attempted /\ q.response = r.response
         /\ Len(q.legs) = Len(r.legs) /\ q.legs[n] = g
         /\ \A l \in 1..Len(r.legs) : l # n => q.legs[l] = r.legs[l]
<1>1. r.legs \in Seq(Legs)
  BY DEF Reports
<1>2. PICK s : s = [r.legs EXCEPT ![n] = g]
  OBVIOUS
<1>3. /\ s \in Seq(Legs) /\ Len(r.legs) \in Nat /\ Len(s) = Len(r.legs) /\ s[n] = g
      /\ \A l \in 1..Len(r.legs) : l # n => s[l] = r.legs[l]
  BY <1>1, <1>2
<1>4. q = [r EXCEPT !.legs = s]
  BY <1>2 DEF SetsLeg, Reports
<1>5. /\ q \in Reports /\ q.run = r.run /\ q.script = r.script /\ q.status = r.status /\ q.class = r.class
      /\ q.recovery = r.recovery /\ q.attempted = r.attempted /\ q.response = r.response /\ q.legs = s
  BY <1>3, <1>4 DEF Reports
<1> QED
  BY <1>3, <1>5

\* What a receipt says of a leg: whose transaction it is, that it succeeded
\* or reverted as the chain has it, and a reading that is so.
Judged(g, h, n) ==
  /\ g.tx = h.tx
  /\ g.state = h.state \/ g.state = (IF txs[h.tx].status = "success" THEN "CONFIRMED" ELSE "REVERTED")
  /\ g.ok = h.ok \/ (g.ok => did(runs, n))

\* The last leg is judged: the report still records what there is.
LEMMA JudgedLeg ==
  ASSUME RunnerInv, proc.pc # "idle", NEW r, r = proc.report, NEW n \in 1..Len(r.legs), NEW g \in Legs,
         txs[r.legs[n].tx].status # "pending",
         Judged(g, r.legs[n], n), NEW q, SetsLeg(q, r, n, g)
  PROVE  /\ q \in Reports /\ q.run = runs /\ q.script = r.script /\ q.status = "RUNNING" /\ q.class \notin Proven
         /\ ~q.recovery /\ q.class = r.class /\ q.attempted = r.attempted /\ q.response = r.response
         /\ Len(q.legs) = Len(r.legs) /\ q.legs[n] = g
         /\ \A l \in 1..Len(r.legs) : l # n => q.legs[l] = r.legs[l]
         /\ LegsOK(q) /\ HashesOK(q)
<1>1. /\ r \in Reports /\ r.run = runs /\ r.status = "RUNNING" /\ r.class \notin Proven /\ ~r.recovery
      /\ LegsOK(r) /\ HashesOK(r) /\ Len(r.legs) \in Nat /\ txs \in Seq(Transactions)
  BY RunningOK
<1>2. /\ q \in Reports /\ q.run = r.run /\ q.script = r.script /\ q.status = r.status /\ q.class = r.class
      /\ q.recovery = r.recovery /\ q.attempted = r.attempted /\ q.response = r.response
      /\ Len(q.legs) = Len(r.legs) /\ q.legs[n] = g
      /\ \A l \in 1..Len(r.legs) : l # n => q.legs[l] = r.legs[l]
  <2>1. r \in Reports
    BY <1>1
  <2> QED
    BY <2>1, WithLeg
<1>3. LegsOK(q)
  <2> SUFFICES ASSUME NEW l \in 1..Len(r.legs) PROVE LegOK(q, l)
    BY <1>2 DEF LegsOK
  <2>1. CASE l = n
    <3>1. PICK i, s : i = r.legs[n].tx /\ s = txs[i].status
      OBVIOUS
    <3>2. i \in 1..Len(txs) /\ txs[i].run = r.run /\ txs[i].leg = n
      BY <1>1, <3>1 DEF LegsOK, LegOK
    <3>3. s \in {"success", "reverted"}
      <4>1. txs[i] \in Transactions
        BY <1>1, <3>2
      <4> QED
        BY <3>1, <4>1 DEF Transactions
    <3>4. g.tx = i
      BY <3>1 DEF Judged
    <3>5. (g.state = "CONFIRMED" => s = "success") /\ (g.state = "REVERTED" => s = "reverted")
      BY <1>1, <3>1, <3>3 DEF Judged, LegsOK, LegOK
    <3>6. g.ok => did(r.run, n)
      BY <1>1 DEF Judged, LegsOK, LegOK
    <3> QED
      BY <1>2, <2>1, <3>1, <3>2, <3>4, <3>5, <3>6 DEF LegOK
  <2>2. CASE l # n
    <3>1. LegOK(r, l)
      BY <1>1 DEF LegsOK
    <3>2. q.legs[l] = r.legs[l] /\ q.run = r.run
      BY <1>2, <2>2
    <3> QED
      BY <3>1, <3>2 DEF LegOK
  <2> QED
    BY <2>1, <2>2
<1>4. HashesOK(q)
  <2> SUFFICES ASSUME NEW i \in 1..Len(txs), txs[i].run = r.run, txs[i].answered
               PROVE  txs[i].leg \in 1..Len(q.legs) /\ q.legs[txs[i].leg].tx = i
    BY <1>2 DEF HashesOK
  <2>1. txs[i].leg \in 1..Len(r.legs) /\ r.legs[txs[i].leg].tx = i
    BY <1>1 DEF HashesOK
  <2>2. g.tx = r.legs[n].tx
    BY DEF Judged
  <2> QED
    BY <1>2, <2>1, <2>2
<1> QED
  BY <1>1, <1>2, <1>3, <1>4

\* The last leg of the running script.
LEMMA LastLeg ==
  ASSUME RunnerInv, proc.pc \in {"await", "judge"}, NEW r, r = proc.report, NEW n, n = Len(r.legs)
  PROVE  /\ n \in Nat /\ n > 0 /\ n \in 1..Len(r.legs) /\ r.legs[n] \in Legs /\ lastLeg = n
         /\ r \in Reports /\ r.run = runs /\ r.script \in Scripts /\ At(proc.pc, r)
         /\ proc.pc = "judge" => txs[r.legs[n].tx].status # "pending"
<1>1. r \in Reports /\ r.legs \in Seq(Legs) /\ n \in Nat /\ At(proc.pc, r) /\ r.script \in Scripts /\ r.run = runs
  BY RunningOK
<1>2. n > 0 /\ (proc.pc = "judge" => txs[r.legs[n].tx].status # "pending")
  BY <1>1 DEF At
<1> QED
  BY <1>1, <1>2 DEF lastLeg

\* The receipt arrives.
LEMMA ReceiveKeeps == ASSUME RunnerInv, receive PROVE RunnerInv'
<1>1. /\ proc.pc = "await" /\ proc.pc # "idle" /\ proc.pc \in {"await", "judge"}
      /\ UNCHANGED <<campaign, closed, txs, launches, passes, runs>>
  BY DEF receive
<1>2. Grown
  BY <1>1, NothingGrows
<1>3. PICK r, n : r = proc.report /\ n = Len(r.legs)
  OBVIOUS
<1>4. /\ n \in Nat /\ n > 0 /\ n \in 1..Len(r.legs) /\ r.legs[n] \in Legs /\ lastLeg = n /\ r \in Reports
      /\ r.run = runs /\ At("await", r)
  BY <1>1, <1>3, LastLeg
<1>5. PICK i, x : i = r.legs[n].tx /\ x = IF txs[i].status = "success" THEN "CONFIRMED" ELSE "REVERTED"
  OBVIOUS
<1>6. x \in {"CONFIRMED", "REVERTED"}
  BY <1>5
<1>7. PICK g : g = [r.legs[n] EXCEPT !.state = x]
  OBVIOUS
<1>8. g \in Legs /\ g.tx = i /\ g.state = x /\ g.ok = r.legs[n].ok
  BY <1>4, <1>5, <1>6, <1>7 DEF Legs
<1>9. PICK q : q = [r EXCEPT !.legs[n].state = x]
  OBVIOUS
<1>10. q = [r EXCEPT !.legs[n] = g]
  BY <1>7, <1>9
<1>11. SetsLeg(q, r, n, g) /\ Judged(g, r.legs[n], n)
  BY <1>5, <1>8, <1>10 DEF SetsLeg, Judged
<1>12. txs[i].status # "pending"
  BY <1>3, <1>4, <1>5 DEF receive
<1>13. txs[r.legs[n].tx].status # "pending"
  BY <1>5, <1>12
<1>14. /\ q \in Reports /\ q.run = runs /\ q.script = r.script /\ q.status = "RUNNING" /\ q.class \notin Proven
       /\ ~q.recovery /\ q.attempted = r.attempted
       /\ Len(q.legs) = Len(r.legs) /\ q.legs[n] = g
       /\ \A l \in 1..Len(r.legs) : l # n => q.legs[l] = r.legs[l]
       /\ LegsOK(q) /\ HashesOK(q)
  BY <1>1, <1>3, <1>4, <1>8, <1>11, <1>13, JudgedLeg
<1>15. /\ r.script # "roundtrip" => (checkpoint(q) \/ disk' = disk) /\ goTo("judge", q)
       /\ r.script = "roundtrip" => disk' = disk /\ goTo("judge", r)
  BY <1>3, <1>4, <1>5, <1>9 DEF receive
<1>16. PICK p : p = "judge"
  OBVIOUS
<1>17. CASE r.script # "roundtrip"
  <2>1. At("judge", q)
    <3>1. r.script \in {"transfer", "probe"} => Len(q.legs) = 1
      BY <1>3, <1>4, <1>14 DEF At
    <3>2. ASSUME q.script \in Strict, NEW l \in 1..Len(q.legs), l < Len(q.legs)
          PROVE  q.legs[l].state = "CONFIRMED"
      <4>1. l # n /\ l \in 1..Len(r.legs)
        BY <1>3, <1>4, <1>14, <3>2
      <4>2. r.legs[l].state = "CONFIRMED"
        BY <1>4, <1>14, <3>2, <4>1 DEF At
      <4> QED
        BY <1>14, <4>1, <4>2
    <3>3. r.attempted => r.script = "launch"
      BY <1>4 DEF At
    <3>4. txs[q.legs[Len(q.legs)].tx].status # "pending" /\ q.legs[Len(q.legs)].state # "PENDING" /\ Len(q.legs) > 0
      BY <1>3, <1>4, <1>6, <1>8, <1>12, <1>14
    <3> QED
      BY <1>14, <1>17, <3>1, <3>2, <3>3, <3>4 DEF At
  <2>2. At(p, q) /\ goTo(p, q) /\ p # "idle" /\ (checkpoint(q) \/ disk' = disk) /\ q.script = proc.report.script
    BY <1>3, <1>14, <1>15, <1>16, <1>17, <2>1
  <2> QED
    BY <1>1, <1>2, <1>14, <2>2, GoStill
<1>18. CASE r.script = "roundtrip"
  <2>1. At("judge", r)
    BY <1>3, <1>4, <1>13, <1>18 DEF At, Strict
  <2>2. At(p, r) /\ goTo(p, r) /\ p # "idle" /\ (checkpoint(r) \/ disk' = disk) /\ r.script = proc.report.script
        /\ r.legs = proc.report.legs
    BY <1>3, <1>15, <1>16, <1>18, <2>1
  <2>3. r.status = "RUNNING" /\ r.class \notin Proven /\ ~r.recovery
    BY <1>1, <1>3, RunningOK
  <2> QED
    BY <1>1, <1>2, <1>4, <2>2, <2>3, GoSame
<1> QED
  BY <1>17, <1>18

\* A ceremony that ends complete has done all of it.
LEMMA CeremonyEnds ==
  ASSUME RunnerInv, Grown, proc.pc # "idle", NEW q \in Reports, q.run = runs, q.script = "double", q.class \notin Proven,
         ~q.recovery, LegsOK(q), Len(q.legs) = Ceremony, finish(q), UNCHANGED <<campaign, runs, txs>>
  PROVE  RunnerInv'
<1>1. CASE proc.mode # "write"
  <2>1. Truthful(q)'
    BY DEF Truthful
  <2> QED
    BY <1>1, <2>1, FinishKeeps
<1>2. CASE proc.mode = "write"
  <2>1. PICK s, x : s = [q EXCEPT !.status = "COMPLETE"] /\ x = "COMPLETE" /\ SetsStatus(s, q, x)
    BY DEF SetsStatus
  <2>2. x \in {"none", "RUNNING", "STOPPED", "COMPLETE"} /\ SetsStatus(s, q, x)
    BY <2>1
  <2>3. /\ s \in Reports /\ s.run = q.run /\ s.script = q.script /\ s.class = q.class /\ s.recovery = q.recovery
        /\ s.legs = q.legs
    BY <2>2, WithStatus
  <2>4. PICK a : a = snapshot(s)
    OBVIOUS
  <2>5. a \in Reports /\ a.run = runs /\ a.script = "double" /\ ~a.recovery /\ a.class = classifyRun(s)
    BY <1>2, <2>3, <2>4, SnapshotOf
  <2>6. Writes(a) /\ proc' = NoScript
    BY <2>1, <2>4 DEF finish, checkpoint, writeArtifact, Writes
  <2>7. ASSUME a.class \in Proven
        PROVE  \A leg \in 1..Ceremony : did(runs, leg)
    <3>1. confirmed(s) = Ceremony
      BY <2>5, <2>7 DEF classifyRun, Proven
    <3>2. PICK C : C = {l \in 1..Ceremony : q.legs[l].state = "CONFIRMED"}
      OBVIOUS
    <3>3. q.legs \in Seq(Legs) /\ DOMAIN q.legs = 1..Ceremony
      BY DEF Reports
    <3>4. Cardinality(C) = Ceremony
      BY <2>3, <3>1, <3>2, <3>3 DEF confirmed
    <3>5. Ceremony \in Nat
      BY RunnerAssumption
    <3>6. IsFiniteSet(1..Ceremony) /\ Cardinality(1..Ceremony) = Ceremony
      <4>1. IsFiniteSet(1..Ceremony) /\ Cardinality(1..Ceremony) = IF 1 > Ceremony THEN 0 ELSE Ceremony - 1 + 1
        BY <3>5, FS_Interval
      <4> QED
        BY <3>5, <4>1, RunnerAssumption
    <3>7. C \in SUBSET (1..Ceremony)
      BY <3>2
    <3>8. C = 1..Ceremony
      BY <3>4, <3>6, <3>7, FS_Subset
    <3> SUFFICES ASSUME NEW leg \in 1..Ceremony PROVE did(runs, leg)
      OBVIOUS
    <3>9. q.legs[leg].state = "CONFIRMED"
      BY <3>2, <3>8
    <3>10. PICK i : i = q.legs[leg].tx
      OBVIOUS
    <3>11. i \in 1..Len(txs) /\ txs[i].run = runs /\ txs[i].leg = leg /\ txs[i].status = "success"
      BY <3>9, <3>10 DEF LegsOK, LegOK
    <3>12. DOMAIN txs = 1..Len(txs)
      BY DEF RunnerInv, RunnerShape
    <3> QED
      BY <3>11, <3>12 DEF did
  <2>8. Truthful(a)'
    <3>1. a.class \in Proven => \A leg \in 1..legCount(a.script) : did(a.run, leg)'
      BY <2>5, <2>7, LegCounts DEF did
    <3> QED
      BY <2>5, <3>1 DEF Truthful
  <2> QED
    BY <2>5, <2>6, <2>8, EndRun
<1> QED
  BY <1>1, <1>2

\* What stands behind a proven artifact of the run that is on.
Backs(script) ==
  /\ \A leg \in 1..legCount(script) : did(runs, leg) \/ (script = "configure" /\ leg = 1)
  /\ script = "probe" => runs \in passes
  /\ script = "launch" => launches[runs] = "issued"

\* A script ends with a class that it can back.
LEMMA EndsWithClass ==
  ASSUME RunnerInv, proc.pc # "idle", NEW r, r = proc.report, r.script # "double", NEW c \in Classes,
         finish([r EXCEPT !.class = c]), UNCHANGED <<campaign, txs, launches, runs>>, passes \subseteq passes',
         c \in Proven => Backs(r.script)
  PROVE  RunnerInv'
<1>1. Grown
  BY NothingGrows
<1>2. r \in Reports /\ r.run = runs /\ ~r.recovery
  BY RunningOK
<1>3. PICK q : q = [r EXCEPT !.class = c] /\ SetsClass(q, r, c)
  BY DEF SetsClass
<1>4. q \in Reports /\ q.run = r.run /\ q.script = r.script /\ q.class = c /\ q.recovery = r.recovery
  BY <1>2, <1>3, WithClass
<1>5. Truthful(q)'
  <2>1. c \in Proven => /\ \A leg \in 1..legCount(r.script) : did(runs, leg)' \/ (r.script = "configure" /\ leg = 1)
                        /\ r.script = "probe" => runs \in passes'
                        /\ r.script = "launch" => launches'[runs] = "issued"
    BY DEF Backs, did
  <2> QED
    BY <1>2, <1>4, <2>1 DEF Truthful
<1>6. finish(q)
  BY <1>3
<1> QED
  BY <1>1, <1>2, <1>4, <1>5, <1>6, FinishKeeps

\* A leg recorded as confirmed, or as read back, was done.
LEMMA RecordedDid ==
  ASSUME RunnerInv, proc.pc # "idle", NEW l \in 1..Len(proc.report.legs),
         proc.report.legs[l].state = "CONFIRMED" \/ proc.report.legs[l].ok
  PROVE  did(runs, l)
<1>1. PICK r, i : r = proc.report /\ i = r.legs[l].tx
  OBVIOUS
<1>2. LegOK(r, l) /\ r.run = runs /\ DOMAIN txs = 1..Len(txs)
  BY <1>1, RunningOK DEF LegsOK
<1>3. CASE r.legs[l].ok
  BY <1>2, <1>3 DEF LegOK
<1>4. CASE r.legs[l].state = "CONFIRMED"
  <2>1. i \in DOMAIN txs /\ txs[i].run = runs /\ txs[i].leg = l /\ txs[i].status = "success"
    BY <1>1, <1>2, <1>4 DEF LegOK
  <2> QED
    BY <2>1 DEF did
<1> QED
  BY <1>1, <1>3, <1>4

\* A withdrawal is reported as the chain has it.
LEMMA WithdrawKeeps == ASSUME RunnerInv, withdraw PROVE RunnerInv'
<1>1. PICK r, c : r = proc.report /\ c = IF did(proc.report.run, 1) THEN "WITHDRAWN" ELSE "WITHDRAWAL REVERTED"
  OBVIOUS
<1>2. /\ proc.pc = "final" /\ proc.pc # "idle" /\ r.script = "withdraw" /\ r.script # "double"
      /\ finish([r EXCEPT !.class = c]) /\ UNCHANGED <<campaign, txs, launches, runs>> /\ passes \subseteq passes'
  BY <1>1 DEF withdraw
<1>3. c \in Classes /\ (c = "WITHDRAWN" => did(runs, 1))
  BY <1>1, <1>2, RunningOK DEF Classes, Proven
<1>4. c \in Proven => Backs(r.script)
  <2>1. c \in Proven => did(runs, 1)
    BY <1>1, <1>3 DEF Proven
  <2>2. legCount(r.script) = 1
    BY <1>2, LegCounts
  <2> QED
    BY <1>2, <2>1, <2>2 DEF Backs
<1> QED
  BY <1>1, <1>2, <1>3, <1>4, EndsWithClass

\* A reserve is reported funded when the funding went through.
LEMMA ConfigureKeeps == ASSUME RunnerInv, configure PROVE RunnerInv'
<1>1. PICK r, c : r = proc.report /\ c = IF did(proc.report.run, 2) THEN "RESERVE FUNDED" ELSE "RESERVE NOT FUNDED"
  OBVIOUS
<1>2. /\ proc.pc = "final" /\ proc.pc # "idle" /\ r.script = "configure" /\ r.script # "double"
      /\ finish([r EXCEPT !.class = c]) /\ UNCHANGED <<campaign, txs, launches, runs>> /\ passes \subseteq passes'
  BY <1>1 DEF configure
<1>3. c \in Classes /\ (c = "RESERVE FUNDED" => did(runs, 2))
  BY <1>1, <1>2, RunningOK DEF Classes, Proven
<1>4. c \in Proven => Backs(r.script)
  <2>1. c \in Proven => did(runs, 2)
    BY <1>1, <1>3 DEF Proven
  <2>2. legCount(r.script) = 2
    BY <1>2, LegCounts
  <2>3. \A leg \in 1..2 : leg = 1 \/ leg = 2
    OBVIOUS
  <2> QED
    BY <1>2, <2>1, <2>2, <2>3 DEF Backs
<1> QED
  BY <1>1, <1>2, <1>3, <1>4, EndsWithClass

\* A script that does not go on past a failure has done all of its legs.
LEMMA StrictEnds ==
  ASSUME RunnerInv, proc.pc = "final", proc.report.script \in Strict
  PROVE  Backs(proc.report.script)
<1>1. PICK r : r = proc.report
  OBVIOUS
<1>2. proc.pc # "idle" /\ At("final", r) /\ r.script \in Strict
  BY <1>1, RunningOK
<1>3. Len(r.legs) = legCount(r.script) /\ \A l \in 1..Len(r.legs) : r.legs[l].state = "CONFIRMED"
  BY <1>2 DEF At
<1>4. \A l \in 1..legCount(r.script) : did(runs, l)
  BY <1>1, <1>2, <1>3, RecordedDid
<1> QED
  BY <1>1, <1>2, <1>4 DEF Backs, Strict

\* A deployment, a release or a terminal step is reported.
LEMMA StrictKeeps == ASSUME RunnerInv, deploy \/ consume \/ terminal PROVE RunnerInv'
<1>1. PICK r : r = proc.report
  OBVIOUS
<1>2. PICK c \in {"ADAPTER DEPLOYED", "RELEASE CONSUMED", "RECOURSE TERMINAL"} : finish([r EXCEPT !.class = c])
  BY <1>1 DEF deploy, consume, terminal
<1>3. /\ proc.pc = "final" /\ proc.pc # "idle" /\ r.script \in Strict /\ r.script # "double"
      /\ UNCHANGED <<campaign, txs, launches, runs>> /\ passes \subseteq passes'
  BY <1>1 DEF deploy, consume, terminal, Strict
<1>4. Backs(r.script) /\ c \in Classes
  BY <1>1, <1>3, StrictEnds DEF Classes, Proven
<1> QED
  BY <1>1, <1>2, <1>3, <1>4, EndsWithClass

\* An A-Pass is asked for.
LEMMA ApassKeeps == ASSUME RunnerInv, apass PROVE RunnerInv'
<1>1. PICK r : r = proc.report
  OBVIOUS
<1>2. /\ proc.pc = "request" /\ proc.pc # "idle" /\ r.script # "double" /\ UNCHANGED <<campaign, closed, txs, launches, runs>>
  BY <1>1 DEF apass
<1>3. CASE r.subject \in passes
  <2>1. proc' = NoScript /\ UNCHANGED <<disk, passes>>
    BY <1>1, <1>3 DEF apass
  <2> QED
    BY <1>2, <2>1, KillKeeps
<1>4. CASE r.subject \notin passes
  <2>1. PICK c \in {"A-PASS VALID", "A-PASS NOT VALID"} : finish([r EXCEPT !.class = c])
    BY <1>1, <1>4 DEF apass
  <2>2. passes \subseteq passes'
    BY <1>1, <1>4 DEF apass
  <2>3. c \in Classes /\ c \notin Proven
    BY DEF Classes, Proven
  <2> QED
    BY <1>1, <1>2, <2>1, <2>2, <2>3, EndsWithClass
<1> QED
  BY <1>3, <1>4

\* The A-Pass of the probe is read back.
LEMMA ClassifyApassKeeps == ASSUME RunnerInv, classifyApass PROVE RunnerInv'
<1>1. PICK r : r = proc.report
  OBVIOUS
<1>2. PICK usable \in BOOLEAN, transfers \in BOOLEAN :
        /\ usable => r.run \in passes
        /\ finish([r EXCEPT !.class = classifyOutcome(r.response = "accepted", usable, transfers)])
  BY <1>1 DEF classifyApass
<1>3. /\ proc.pc = "final" /\ proc.pc # "idle" /\ r.script = "probe" /\ r.script # "double"
      /\ UNCHANGED <<campaign, txs, launches, runs>> /\ passes \subseteq passes'
  BY <1>1 DEF classifyApass
<1>4. PICK c, b : b = (r.response = "accepted") /\ c = classifyOutcome(b, usable, transfers)
  OBVIOUS
<1>5. b \in BOOLEAN
  BY <1>4
<1>6. c \in Classes /\ (c \in Proven => usable)
  <2>1. \/ c = "REFUSED BY CLEANVERSE" \/ c = "ACCEPTED BUT NOT USABLE" \/ c = "ISSUED BUT TRANSFER STILL REFUSED"
        \/ (c = "CONTRACT APASS PROVEN" /\ usable)
    BY <1>4, <1>5 DEF classifyOutcome
  <2> QED
    BY <2>1 DEF Classes, Proven
<1>7. c \in Proven => Backs(r.script)
  <2>1. At("final", r) /\ r.run = runs
    BY <1>1, <1>3, RunningOK
  <2>2. Len(r.legs) = 1 /\ r.legs[1].state = "CONFIRMED"
    BY <1>3, <2>1 DEF At
  <2>3. did(runs, 1)
    BY <1>1, <1>3, <2>2, RecordedDid
  <2>4. legCount(r.script) = 1
    BY <1>3, LegCounts
  <2> QED
    BY <1>2, <1>3, <1>6, <2>1, <2>3, <2>4 DEF Backs
<1>8. finish([r EXCEPT !.class = c])
  BY <1>2, <1>4
<1> QED
  BY <1>1, <1>3, <1>6, <1>7, <1>8, EndsWithClass

\* A launch ends with what Cleanverse says and the chain agrees with.
LEMMA LaunchEndsKeeps == ASSUME RunnerInv, launchEnds PROVE RunnerInv'
<1>1. PICK r : r = proc.report
  OBVIOUS
<1>2. PICK readback \in BOOLEAN : finish([r EXCEPT !.class = classifyLaunch(launches[r.run], readback)])
  BY <1>1 DEF launchEnds
<1>3. /\ proc.pc = "poll" /\ proc.pc # "idle"
      /\ UNCHANGED <<campaign, txs, launches, runs>> /\ passes \subseteq passes'
  BY <1>1 DEF launchEnds
<1>4. r.script = "launch" /\ r.run = runs
  BY <1>1, <1>3, RunningOK DEF At
<1>5. PICK c, s : s = launches[r.run] /\ c = classifyLaunch(s, readback)
  OBVIOUS
<1>6. c \in Classes /\ (c \in Proven => s = "issued")
  <2>1. c = "LAUNCH FAILED" \/ c = "SUBMITTED / PENDING" \/ (c = "ISSUED / READBACK PROVEN" /\ s = "issued")
    BY <1>5 DEF classifyLaunch
  <2> QED
    BY <2>1 DEF Classes, Proven
<1>7. c \in Proven => Backs(r.script)
  BY <1>4, <1>5, <1>6, LegCounts DEF Backs
<1>8. finish([r EXCEPT !.class = c]) /\ r.script # "double"
  BY <1>2, <1>4, <1>5
<1> QED
  BY <1>1, <1>3, <1>6, <1>7, <1>8, EndsWithClass

\* The ceremony checks a transaction before the next.
LEMMA ReadbackDoubleKeeps == ASSUME RunnerInv, readbackDouble PROVE RunnerInv'
<1>1. PICK r, n : r = proc.report /\ n = Len(r.legs)
  OBVIOUS
<1>2. /\ proc.pc = "judge" /\ proc.pc # "idle" /\ proc.pc \in {"await", "judge"} /\ r.script = "double"
      /\ UNCHANGED <<campaign, closed, txs, launches, passes, runs>>
  BY <1>1 DEF readbackDouble
<1>3. /\ n \in Nat /\ n > 0 /\ n \in 1..Len(r.legs) /\ r.legs[n] \in Legs /\ lastLeg = n /\ r \in Reports
      /\ r.run = runs /\ At("judge", r) /\ txs[r.legs[n].tx].status # "pending"
  BY <1>1, <1>2, LastLeg
<1>4. PICK ok \in readbacks :
        LET report == [r EXCEPT !.legs[n].ok = ok] IN
          IF ~ok THEN stop(report) ELSE IF n = Ceremony THEN finish(report) ELSE checkpoint(report) /\ goTo("send", report)
  BY <1>1, <1>3 DEF readbackDouble
<1>5. ok \in BOOLEAN /\ (ok => did(runs, n))
  BY <1>1, <1>3 DEF readbacks
<1>6. PICK g : g = [r.legs[n] EXCEPT !.ok = ok]
  OBVIOUS
<1>7. g \in Legs /\ g.tx = r.legs[n].tx /\ g.state = r.legs[n].state /\ g.ok = ok
  BY <1>3, <1>5, <1>6 DEF Legs
<1>8. PICK q : q = [r EXCEPT !.legs[n].ok = ok]
  OBVIOUS
<1>9. SetsLeg(q, r, n, g) /\ Judged(g, r.legs[n], n)
  BY <1>5, <1>6, <1>7, <1>8 DEF SetsLeg, Judged
<1>10. /\ q \in Reports /\ q.run = runs /\ q.script = r.script /\ q.status = "RUNNING" /\ q.class \notin Proven
       /\ ~q.recovery /\ q.attempted = r.attempted /\ Len(q.legs) = Len(r.legs)
       /\ LegsOK(q) /\ HashesOK(q)
  BY <1>1, <1>2, <1>3, <1>7, <1>9, JudgedLeg
<1>11. Grown
  BY <1>2, NothingGrows
<1>12. stop(q) \/ (n = Ceremony /\ finish(q)) \/ (checkpoint(q) /\ goTo("send", q))
  BY <1>4, <1>8
<1>13. CASE stop(q)
  BY <1>2, <1>10, <1>11, <1>13, StopKeeps
<1>14. CASE n = Ceremony /\ finish(q)
  BY <1>1, <1>2, <1>10, <1>11, <1>14, CeremonyEnds
<1>15. CASE checkpoint(q) /\ goTo("send", q)
  <2>1. At("send", q)
    <3>1. ~r.attempted
      BY <1>2, <1>3 DEF At
    <3> QED
      BY <1>2, <1>10, <3>1 DEF At, Strict
  <2>2. PICK p : p = "send"
    OBVIOUS
  <2>3. At(p, q) /\ goTo(p, q) /\ p # "idle" /\ (checkpoint(q) \/ disk' = disk) /\ q.script = proc.report.script
    BY <1>1, <1>10, <1>15, <2>1, <2>2
  <2> QED
    BY <1>2, <1>10, <1>11, <2>3, GoStill
<1> QED
  BY <1>12, <1>13, <1>14, <1>15

\* A leg of the round trip is recorded.
LEMMA RunLegKeeps == ASSUME RunnerInv, runLeg PROVE RunnerInv'
<1>1. PICK r, n : r = proc.report /\ n = Len(r.legs)
  OBVIOUS
<1>2. /\ proc.pc = "judge" /\ proc.pc # "idle" /\ proc.pc \in {"await", "judge"} /\ r.script = "roundtrip"
      /\ UNCHANGED <<campaign, closed, txs, launches, passes, runs>>
  BY <1>1 DEF runLeg
<1>3. /\ n \in Nat /\ n > 0 /\ n \in 1..Len(r.legs) /\ r.legs[n] \in Legs /\ lastLeg = n /\ r \in Reports
      /\ r.run = runs /\ At("judge", r) /\ txs[r.legs[n].tx].status # "pending"
  BY <1>1, <1>2, LastLeg
<1>4. PICK ok \in readbacks :
        LET report == [r EXCEPT
                         !.legs[n] = [@ EXCEPT
                           !.state = IF txs[r.legs[n].tx].status = "success" THEN "CONFIRMED" ELSE "REVERTED",
                           !.ok = ok]] IN
          IF n = 2 THEN checkpoint(report) /\ goTo("final", report)
          ELSE IF ok THEN checkpoint(report) /\ goTo("send", report)
          ELSE stop([report EXCEPT !.class = "OUTBOUND FAILED"])
  BY <1>1, <1>3 DEF runLeg
<1>5. ok \in BOOLEAN /\ (ok => did(runs, n))
  BY <1>1, <1>3 DEF readbacks
<1>6. PICK x : x = IF txs[r.legs[n].tx].status = "success" THEN "CONFIRMED" ELSE "REVERTED"
  OBVIOUS
<1>7. x \in {"CONFIRMED", "REVERTED"}
  BY <1>6
<1>8. PICK g : g = [r.legs[n] EXCEPT !.state = x, !.ok = ok]
  OBVIOUS
<1>9. g \in Legs /\ g.tx = r.legs[n].tx /\ g.state = x /\ g.ok = ok
  BY <1>3, <1>5, <1>7, <1>8 DEF Legs
<1>10. PICK q : q = [r EXCEPT !.legs[n] = [@ EXCEPT !.state = x, !.ok = ok]]
  OBVIOUS
<1>11. SetsLeg(q, r, n, g) /\ Judged(g, r.legs[n], n)
  <2>1. q = [r EXCEPT !.legs[n] = g]
    BY <1>8, <1>10
  <2> QED
    BY <1>5, <1>6, <1>9, <2>1 DEF SetsLeg, Judged
<1>12. /\ q \in Reports /\ q.run = runs /\ q.script = r.script /\ q.status = "RUNNING" /\ q.class \notin Proven
       /\ ~q.recovery /\ q.attempted = r.attempted /\ Len(q.legs) = Len(r.legs)
       /\ LegsOK(q) /\ HashesOK(q)
  BY <1>1, <1>2, <1>3, <1>9, <1>11, JudgedLeg
<1>13. Grown
  BY <1>2, NothingGrows
<1>14. PICK p : p = IF n = 2 THEN "final" ELSE "send"
  OBVIOUS
<1>15. (checkpoint(q) /\ goTo(p, q)) \/ stop([q EXCEPT !.class = "OUTBOUND FAILED"])
  BY <1>4, <1>6, <1>10, <1>14
<1>16. CASE stop([q EXCEPT !.class = "OUTBOUND FAILED"])
  <2>1. PICK s, c : s = [q EXCEPT !.class = c] /\ c = "OUTBOUND FAILED" /\ SetsClass(s, q, c)
    BY DEF SetsClass
  <2>2. c \in Classes /\ c \notin Proven /\ SetsClass(s, q, c)
    BY <2>1, Claimless
  <2>3. s \in Reports /\ s.run = q.run /\ s.class = c /\ s.recovery = q.recovery
    BY <1>12, <2>2, WithClass
  <2>4. stop(s)
    BY <1>16, <2>1
  <2> QED
    BY <1>2, <1>12, <1>13, <2>2, <2>3, <2>4, StopKeeps
<1>17. CASE checkpoint(q) /\ goTo(p, q)
  <2>2. ~q.attempted /\ n <= 2
    BY <1>1, <1>2, <1>3, <1>12 DEF At
  <2>3. n = 2 \/ n = 1
    BY <1>3, <2>2
  <2>4. p = "final" \/ (p = "send" /\ n < 2)
    BY <1>14, <2>3
  <2>5. At(p, q)
    BY <1>1, <1>2, <1>3, <1>12, <2>2, <2>4 DEF At, Strict
  <2>6. goTo(p, q) /\ p # "idle" /\ (checkpoint(q) \/ disk' = disk) /\ q.script = proc.report.script
    BY <1>1, <1>12, <1>17, <2>4
  <2> QED
    BY <1>2, <1>12, <1>13, <2>5, <2>6, GoStill
<1> QED
  BY <1>15, <1>16, <1>17

\* An activation script goes on to its next transaction.
LEMMA NextLegKeeps == ASSUME RunnerInv, nextLeg PROVE RunnerInv'
<1>1. PICK r, n : r = proc.report /\ n = Len(r.legs)
  OBVIOUS
<1>2. /\ proc.pc = "judge" /\ proc.pc # "idle" /\ proc.pc \in {"await", "judge"} /\ r.script \in Late
      /\ UNCHANGED <<campaign, closed, txs, launches, passes, runs>>
  BY <1>1 DEF nextLeg
<1>3. /\ n \in Nat /\ n > 0 /\ n \in 1..Len(r.legs) /\ r.legs[n] \in Legs /\ lastLeg = n /\ r \in Reports
      /\ r.run = runs /\ At("judge", r) /\ txs[r.legs[n].tx].status # "pending"
  BY <1>1, <1>2, LastLeg
<1>4. r.status = "RUNNING" /\ r.class \notin Proven /\ ~r.recovery
  BY <1>1, <1>2, RunningOK
<1>5. Grown
  BY <1>2, NothingGrows
<1>6. CASE stop(r)
  BY <1>2, <1>3, <1>4, <1>5, <1>6, StopKeeps
<1>7. CASE ~stop(r)
  <2>1. /\ ~(r.legs[n].state = "REVERTED" /\ r.script \in Strict) /\ disk' = disk
        /\ goTo(IF n = legCount(r.script) THEN "final" ELSE "send", r)
    BY <1>1, <1>3, <1>7 DEF nextLeg, Strict
  <2>2. PICK p : p = IF n = legCount(r.script) THEN "final" ELSE "send"
    OBVIOUS
  <2>3. p = "send" \/ (p = "final" /\ n = legCount(r.script))
    BY <2>2
  <2>4. r.script \notin {"transfer", "probe", "roundtrip", "launch"}
    BY <1>2 DEF Late
  <2>5. r.script \in Strict => \A l \in 1..Len(r.legs) : r.legs[l].state = "CONFIRMED"
    <3> SUFFICES ASSUME r.script \in Strict, NEW l \in 1..Len(r.legs) PROVE r.legs[l].state = "CONFIRMED"
      OBVIOUS
    <3>1. CASE l < Len(r.legs)
      BY <1>3, <3>1 DEF At
    <3>2. CASE l = n
      <4>1. r.legs[n].state # "PENDING"
        BY <1>1, <1>3, <2>4 DEF At
      <4>2. r.legs[n].state \in {"PENDING", "CONFIRMED", "REVERTED"}
        BY <1>3 DEF Legs
      <4> QED
        BY <2>1, <3>2, <4>1, <4>2
    <3> QED
      BY <1>1, <1>3, <3>1, <3>2
  <2>6. At(p, r)
    <3>1. ~r.attempted
      BY <1>3, <2>4 DEF At
    <3> QED
      BY <1>1, <2>3, <2>4, <2>5, <3>1 DEF At
  <2>7. goTo(p, r) /\ p # "idle" /\ r.legs = proc.report.legs /\ r.script = proc.report.script
    BY <1>1, <2>1, <2>2, <2>3
  <2> QED
    BY <1>2, <1>3, <1>4, <1>5, <2>1, <2>6, <2>7, GoSame
<1> QED
  BY <1>6, <1>7

\* A transfer is reconciled with the balances.
LEMMA ReconcileTransferKeeps == ASSUME RunnerInv, reconcileTransfer PROVE RunnerInv'
<1>1. PICK r, n : r = proc.report /\ n = Len(r.legs)
  OBVIOUS
<1>2. /\ proc.pc = "judge" /\ proc.pc # "idle" /\ proc.pc \in {"await", "judge"} /\ r.script = "transfer"
      /\ UNCHANGED <<campaign, closed, txs, launches, passes, runs>>
  BY <1>1 DEF reconcileTransfer
<1>3. /\ n \in Nat /\ n > 0 /\ n \in 1..Len(r.legs) /\ r.legs[n] \in Legs /\ lastLeg = n /\ r \in Reports
      /\ r.run = runs /\ At("judge", r) /\ txs[r.legs[n].tx].status # "pending"
  BY <1>1, <1>2, LastLeg
<1>4. n = 1
  BY <1>1, <1>2, <1>3 DEF At
<1>5. CASE stop(r)
  BY <1>1, <1>2, <1>5, StopsKeep
<1>6. CASE ~stop(r)
  <2>1. PICK ok \in readbacks :
          finish([r EXCEPT !.legs[1].ok = ok, !.class = IF ok THEN "AUSDC LIVE TRANSFER" ELSE "TRANSFER ATTEMPT"])
    BY <1>1, <1>6 DEF reconcileTransfer
  <2>2. ok \in BOOLEAN /\ (ok => did(runs, 1))
    BY <1>1, <1>3, <1>4 DEF readbacks
  <2>3. PICK c : c = IF ok THEN "AUSDC LIVE TRANSFER" ELSE "TRANSFER ATTEMPT"
    OBVIOUS
  <2>4. c \in Classes /\ (c \in Proven => did(runs, 1))
    BY <2>2, <2>3 DEF Classes, Proven
  <2>5. PICK g : g = [r.legs[1] EXCEPT !.ok = ok]
    OBVIOUS
  <2>6. g \in Legs
    BY <1>3, <1>4, <2>2, <2>5 DEF Legs
  <2>7. PICK q : q = [r EXCEPT !.legs[1] = g]
    OBVIOUS
  <2>8. SetsLeg(q, r, n, g)
    BY <1>4, <2>7 DEF SetsLeg
  <2>9. q \in Reports /\ q.run = r.run /\ q.script = r.script /\ q.recovery = r.recovery
    BY <1>3, <2>6, <2>8, WithLeg
  <2>10. PICK s : s = [q EXCEPT !.class = c] /\ SetsClass(s, q, c)
    BY DEF SetsClass
  <2>11. s \in Reports /\ s.run = q.run /\ s.script = q.script /\ s.recovery = q.recovery /\ s.class = c
    BY <2>4, <2>9, <2>10, WithClass
  <2>12. s = [r EXCEPT !.legs[1].ok = ok, !.class = c]
    BY <1>3, <2>5, <2>7, <2>10 DEF Reports
  <2>13. finish(s) /\ s.script # "double" /\ s.run = runs
    BY <1>2, <1>3, <2>1, <2>3, <2>9, <2>11, <2>12
  <2>14. ~r.recovery
    BY <1>1, <1>2, RunningOK
  <2>15. Truthful(s)'
    <3>1. legCount(s.script) = 1 /\ s.script # "probe" /\ s.script # "launch"
      BY <1>2, <2>9, <2>11, LegCounts
    <3>2. s.class \in Proven => did(s.run, 1)'
      BY <1>2, <2>4, <2>11, <2>13 DEF did
    <3>3. \A leg \in 1..legCount(s.script) : leg = 1
      BY <3>1
    <3>4. s.class \in Proven => \A leg \in 1..legCount(s.script) : did(s.run, leg)'
      BY <3>2, <3>3
    <3>5. ~s.recovery
      BY <2>9, <2>11, <2>14
    <3> QED
      BY <3>1, <3>4, <3>5 DEF Truthful
  <2>16. Grown
    BY <1>2, NothingGrows
  <2> QED
    BY <1>2, <2>11, <2>13, <2>15, <2>16, FinishKeeps
<1> QED
  BY <1>5, <1>6

\* The probe is deployed and an A-Pass is asked for it.
LEMMA ProbeDeployedKeeps == ASSUME RunnerInv, probeDeployed PROVE RunnerInv'
<1>1. PICK r, n : r = proc.report /\ n = Len(r.legs)
  OBVIOUS
<1>2. /\ proc.pc = "judge" /\ proc.pc # "idle" /\ proc.pc \in {"await", "judge"} /\ r.script = "probe"
      /\ UNCHANGED <<campaign, closed, txs, launches, runs>> /\ passes \subseteq passes'
  BY <1>1 DEF probeDeployed
<1>3. /\ n \in Nat /\ n > 0 /\ n \in 1..Len(r.legs) /\ r.legs[n] \in Legs /\ lastLeg = n /\ r \in Reports
      /\ r.run = runs /\ At("judge", r) /\ txs[r.legs[n].tx].status # "pending"
  BY <1>1, <1>2, LastLeg
<1>4. CASE stop(r)
  BY <1>1, <1>2, <1>4, StopsKeep
<1>5. CASE ~stop(r)
  <2>1. PICK x \in {"accepted", "refused"} :
          checkpoint([r EXCEPT !.response = x]) /\ goTo("final", [r EXCEPT !.response = x])
    BY <1>1, <1>5 DEF probeDeployed
  <2>2. r.legs[1].state # "REVERTED"
    BY <1>1, <1>5 DEF probeDeployed
  <2>3. PICK q, p : q = [r EXCEPT !.response = x] /\ p = "final"
    OBVIOUS
  <2>4. /\ q \in Reports /\ q.run = r.run /\ q.script = r.script /\ q.status = r.status /\ q.class = r.class
        /\ q.legs = r.legs /\ q.attempted = r.attempted /\ q.recovery = r.recovery
    BY <1>3, <2>3 DEF Reports
  <2>5. r.status = "RUNNING" /\ r.class \notin Proven /\ ~r.recovery
    BY <1>1, <1>2, RunningOK
  <2>6. At("final", q)
    <3>1. n = 1 /\ r.legs[n].state # "PENDING" /\ ~r.attempted
      BY <1>1, <1>2, <1>3 DEF At
    <3>2. r.legs[1].state = "CONFIRMED"
      BY <1>3, <2>2, <3>1 DEF Legs
    <3> QED
      BY <1>1, <1>2, <2>4, <3>1, <3>2 DEF At, Strict
  <2>7. At(p, q) /\ goTo(p, q) /\ p # "idle" /\ (checkpoint(q) \/ disk' = disk)
    BY <2>1, <2>3, <2>6
  <2>8. /\ q.run = runs /\ q.script = proc.report.script /\ q.status = "RUNNING" /\ q.class \notin Proven /\ ~q.recovery
        /\ q.legs = proc.report.legs
    BY <1>1, <1>3, <2>4, <2>5
  <2>9. Grown
    BY <1>2, NothingGrows
  <2> QED
    BY <1>2, <2>4, <2>7, <2>8, <2>9, GoSame
<1> QED
  BY <1>4, <1>5

\* One leg has no second.
LEMMA NoSecond == 2 \notin 1..1
  OBVIOUS

\* What becomes of the unit is decided: a proven round trip has done both
\* legs, and a recovery is offered when no return can land.
LEMMA RoundTripEndsKeeps == ASSUME RunnerInv, roundTripEnds PROVE RunnerInv'
<1>1. PICK r, n : r = proc.report /\ n = Len(r.legs)
  OBVIOUS
<1>2. /\ proc.pc = "final" /\ proc.pc # "idle" /\ r.script = "roundtrip"
      /\ UNCHANGED <<campaign, closed, txs, launches, passes, runs>>
  BY <1>1 DEF roundTripEnds
<1>3. PICK c : c = classifyRoundTrip(r, probeBalance)
  OBVIOUS
<1>4. finish([r EXCEPT !.class = c, !.recovery = (c = "FUNDS IN PROBE")])
  BY <1>1, <1>3 DEF roundTripEnds, describeRecovery
<1>5. /\ r \in Reports /\ r.run = runs /\ LegsOK(r) /\ HashesOK(r) /\ At("final", r) /\ n \in Nat /\ r.legs \in Seq(Legs)
      /\ DOMAIN txs = 1..Len(txs)
  BY <1>1, <1>2, RunningOK
<1>6. n = 1 \/ n = 2
  <2>1. n > 0 /\ n <= 2
    BY <1>1, <1>2, <1>5 DEF At
  <2> QED
    BY <1>5, <2>1
<1>7. \/ c = "OUTBOUND FAILED" \/ (c = "FUNDS IN PROBE" /\ n = 1) \/ c = "RETURN PENDING"
      \/ (c = "FUNDS IN PROBE" /\ n = 2 /\ r.legs[2].state # "PENDING")
      \/ (c = "ROUND-TRIP PROVEN" /\ n = 2 /\ r.legs[1].ok /\ r.legs[2].ok)
  <2>1. PICK b : b = probeBalance
    OBVIOUS
  <2>2. c = IF ~r.legs[1].ok THEN "OUTBOUND FAILED"
            ELSE IF n < 2 THEN "FUNDS IN PROBE"
            ELSE IF r.legs[2].state = "PENDING" THEN "RETURN PENDING"
            ELSE IF ~r.legs[2].ok \/ b # 0 THEN "FUNDS IN PROBE"
            ELSE "ROUND-TRIP PROVEN"
    BY <1>1, <1>3, <2>1 DEF classifyRoundTrip
  <2>3. CASE n = 1
    <3>1. n < 2
      BY <2>3
    <3> QED
      BY <2>2, <2>3, <3>1, Zenon
  <2>4. CASE n = 2
    <3>1. ~(n < 2)
      BY <2>4
    <3> QED
      BY <2>2, <2>4, <3>1, Zenon
  <2> QED
    BY <1>6, <2>3, <2>4
<1>8. c \in Classes
  BY <1>7 DEF Classes, Proven
<1>9. c \in Proven => did(runs, 1) /\ did(runs, 2)
  <2> SUFFICES ASSUME c \in Proven PROVE did(runs, 1) /\ did(runs, 2)
    OBVIOUS
  <2>1. n = 2 /\ r.legs[1].ok /\ r.legs[2].ok
    BY <1>7 DEF Proven
  <2>2. 1 \in 1..Len(r.legs) /\ 2 \in 1..Len(r.legs)
    BY <1>1, <1>5, <2>1
  <2> QED
    BY <1>1, <1>2, <2>1, <2>2, RecordedDid
<1>10. c = "FUNDS IN PROBE" =>
         ~\E i \in DOMAIN txs : txs[i].run = runs /\ txs[i].leg = 2 /\ txs[i].answered /\ txs[i].status = "pending"
  <2> SUFFICES ASSUME c = "FUNDS IN PROBE", NEW i \in 1..Len(txs), txs[i].run = runs, txs[i].leg = 2, txs[i].answered,
                      txs[i].status = "pending"
               PROVE  FALSE
    BY <1>5
  <2>1. 2 \in 1..Len(r.legs) /\ r.legs[2].tx = i
    BY <1>5 DEF HashesOK
  <2>2. r.legs[2].state # "PENDING"
    <3>1. 2 \in 1..n
      BY <1>1, <2>1
    <3>2. n # 1
      BY <3>1, NoSecond, Zenon
    <3> QED
      BY <1>7, <3>2
  <2>3. r.legs[2] \in Legs
    <3>1. PICK k : k = 2 /\ k \in 1..Len(r.legs)
      BY <2>1
    <3>2. PICK s : s = r.legs /\ s \in Seq(Legs) /\ k \in 1..Len(s)
      BY <1>5, <3>1
    <3>3. s[k] \in Legs
      BY <3>2, ElementOfSeq
    <3> QED
      BY <3>1, <3>2, <3>3
  <2>4. r.legs[2].state \in {"CONFIRMED", "REVERTED"}
    BY <2>2, <2>3 DEF Legs
  <2>5. LegOK(r, 2)
    BY <1>5, <2>1 DEF LegsOK
  <2> QED
    BY <2>1, <2>4, <2>5 DEF LegOK
<1>11. PICK b : b = (c = "FUNDS IN PROBE")
  OBVIOUS
<1>12. b \in BOOLEAN
  BY <1>11
<1>13. PICK q : q = [r EXCEPT !.class = c, !.recovery = b]
  OBVIOUS
<1>14. q \in Reports /\ q.run = r.run /\ q.script = r.script /\ q.class = c /\ q.recovery = b
  BY <1>5, <1>8, <1>12, <1>13 DEF Reports
<1>15. finish(q) /\ q.script # "double" /\ q.run = runs
  BY <1>2, <1>4, <1>5, <1>11, <1>13, <1>14
<1>16. Truthful(q)'
  <2>1. legCount(q.script) = 2 /\ q.script # "probe" /\ q.script # "launch"
    BY <1>2, <1>14, LegCounts
  <2>2. q.class \in Proven => did(q.run, 1)' /\ did(q.run, 2)'
    BY <1>2, <1>9, <1>14, <1>15 DEF did
  <2>3. \A leg \in 1..legCount(q.script) : leg = 1 \/ leg = 2
    BY <2>1
  <2>4. q.class \in Proven => \A leg \in 1..legCount(q.script) : did(q.run, leg)'
    BY <2>2, <2>3
  <2>5. q.recovery => ~\E i \in DOMAIN txs' : /\ txs'[i].run = q.run /\ txs'[i].leg = 2 /\ txs'[i].answered
                                              /\ txs'[i].status = "pending"
    BY <1>2, <1>10, <1>11, <1>14, <1>15
  <2> QED
    BY <2>1, <2>4, <2>5 DEF Truthful
<1>17. Grown
  BY <1>2, NothingGrows
<1> QED
  BY <1>2, <1>14, <1>15, <1>16, <1>17, FinishKeeps

\* The attempt to launch is recorded.
LEMMA AttemptLaunchKeeps == ASSUME RunnerInv, attemptLaunch PROVE RunnerInv'
<1>1. PICK r, c, p : r = proc.report /\ c = "SUBMITTED / PENDING" /\ p = "request"
  OBVIOUS
<1>2. PICK q : q = [r EXCEPT !.attempted = TRUE, !.class = c]
  OBVIOUS
<1>3. /\ proc.pc = "request" /\ proc.pc # "idle" /\ r.script = "launch" /\ checkpoint(q) /\ goTo(p, q)
      /\ UNCHANGED <<campaign, closed, txs, launches, passes, runs>>
  BY <1>1, <1>2 DEF attemptLaunch
<1>4. /\ r \in Reports /\ r.run = runs /\ r.status = "RUNNING" /\ ~r.recovery /\ At("request", r)
  BY <1>1, <1>3, RunningOK
<1>5. c \in Classes /\ c \notin Proven
  BY <1>1, Claimless
<1>6. /\ q \in Reports /\ q.run = r.run /\ q.script = r.script /\ q.status = r.status /\ q.class = c
      /\ q.legs = r.legs /\ q.recovery = r.recovery
  BY <1>2, <1>4, <1>5 DEF Reports
<1>7. At(p, q)
  BY <1>1, <1>3, <1>6 DEF At, Strict
<1>8. /\ q.run = runs /\ q.script = proc.report.script /\ q.status = "RUNNING" /\ q.class \notin Proven /\ ~q.recovery
      /\ q.legs = proc.report.legs /\ p # "idle"
  BY <1>1, <1>4, <1>5, <1>6
<1>9. Grown
  BY <1>3, NothingGrows
<1> QED
  BY <1>3, <1>6, <1>7, <1>8, <1>9, GoSame

\* The one launch request is made.
LEMMA LaunchKeeps == ASSUME RunnerInv, launch PROVE RunnerInv'
<1>1. PICK r : r = proc.report
  OBVIOUS
<1>2. /\ proc.pc = "request" /\ proc.pc # "idle" /\ r.attempted /\ UNCHANGED <<campaign, closed, txs, passes, runs>>
  BY <1>1 DEF launch
<1>3. /\ r \in Reports /\ r.run = runs /\ r.status = "RUNNING" /\ ~r.recovery /\ r.class \notin Proven
      /\ At("request", r) /\ txs \in Seq(Transactions) /\ Len(txs) \in Nat
  BY <1>1, <1>2, RunningOK
<1>4. launches' = launches \/ \E s \in {"none", "travelling", "accepted"} : launches' = [launches EXCEPT ![runs] = s]
  BY <1>1, <1>3 DEF launch
<1>5. Grown
  <2>1. launches \in [RunNumbers -> {"none", "travelling", "accepted", "issued", "refused"}]
    BY DEF RunnerInv, RunnerShape
  <2>2. /\ launches' \in [RunNumbers -> {"none", "travelling", "accepted", "issued", "refused"}]
        /\ \A k \in RunNumbers : k # runs => launches'[k] = launches[k]
    BY <1>4, <2>1
  <2> QED
    BY <1>2, <1>3, <2>2 DEF Grown
<1>6. ASSUME NEW x \in {"accepted", "refused", "lost"}, NEW c \in Classes, c \notin Proven, NEW q,
             q = [r EXCEPT !.response = x, !.class = c]
      PROVE  /\ q \in Reports /\ q.run = runs /\ q.script = r.script /\ q.status = "RUNNING" /\ q.class \notin Proven
             /\ ~q.recovery /\ q.legs = r.legs /\ q.attempted = r.attempted
  <2>1. /\ q \in Reports /\ q.run = r.run /\ q.script = r.script /\ q.status = r.status /\ q.class = c
        /\ q.recovery = r.recovery /\ q.legs = r.legs /\ q.attempted = r.attempted
    BY <1>3, <1>6 DEF Reports
  <2> QED
    BY <1>3, <1>6, <2>1
<1>7. r.class \in Classes /\ \A x : [r EXCEPT !.response = x] = [r EXCEPT !.response = x, !.class = r.class]
  BY <1>3 DEF Reports
<1>8. CASE checkpoint([r EXCEPT !.response = "accepted"]) /\ goTo("poll", [r EXCEPT !.response = "accepted"])
  <2>1. PICK q, x, c, p : x = "accepted" /\ c = r.class /\ p = "poll" /\ q = [r EXCEPT !.response = x, !.class = c]
    OBVIOUS
  <2>2. /\ q \in Reports /\ q.run = runs /\ q.script = r.script /\ q.status = "RUNNING" /\ q.class \notin Proven
        /\ ~q.recovery /\ q.legs = r.legs /\ q.attempted = r.attempted
    <3>1. x \in {"accepted", "refused", "lost"} /\ c \in Classes /\ c \notin Proven
      BY <1>3, <1>7, <2>1
    <3>2. q = [r EXCEPT !.response = x, !.class = c]
      BY <2>1
    <3> QED
      BY <1>6, <3>1, <3>2
  <2>3. q = [r EXCEPT !.response = "accepted"]
    BY <1>7, <2>1
  <2>4. checkpoint(q) /\ goTo(p, q) /\ p # "idle"
    BY <1>8, <2>1, <2>3
  <2>5. At(p, q)
    <3>1. r.script = "launch"
      BY <1>2, <1>3 DEF At
    <3> QED
      BY <2>1, <2>2, <3>1 DEF At, Strict
  <2> QED
    BY <1>1, <1>2, <1>5, <2>2, <2>4, <2>5, GoSame
<1>9. CASE stop([r EXCEPT !.response = "refused", !.class = "LAUNCH FAILED"])
  <2>1. PICK q, x, c : x = "refused" /\ c = "LAUNCH FAILED" /\ q = [r EXCEPT !.response = x, !.class = c]
    OBVIOUS
  <2>2. c \in Classes /\ c \notin Proven
    BY <2>1, Claimless
  <2>3. q \in Reports /\ q.run = runs /\ q.class \notin Proven /\ ~q.recovery
    BY <1>6, <2>1, <2>2
  <2>4. stop(q)
    BY <1>9, <2>1
  <2> QED
    BY <1>2, <1>5, <2>3, <2>4, StopKeeps
<1>10. CASE stop([r EXCEPT !.response = "lost"])
  <2>1. PICK q, x, c : x = "lost" /\ c = r.class /\ q = [r EXCEPT !.response = x, !.class = c]
    OBVIOUS
  <2>2. q \in Reports /\ q.run = runs /\ q.class \notin Proven /\ ~q.recovery
    BY <1>3, <1>6, <1>7, <2>1
  <2>3. stop(q)
    BY <1>7, <1>10, <2>1
  <2> QED
    BY <1>2, <1>5, <2>2, <2>3, StopKeeps
<1> QED
  BY <1>1, <1>8, <1>9, <1>10 DEF launch

\* Every step keeps the invariant.
LEMMA RunnerStep == ASSUME RunnerInv, [RunnerNext]_runnerVars PROVE RunnerInv'
<1>1. CASE UNCHANGED runnerVars
  <2>1. UNCHANGED <<campaign, txs, launches, passes, disk, proc, runs>>
    BY <1>1 DEF runnerVars
  <2>2. Grown
    BY <2>1, NothingGrows
  <2> QED
    BY <2>1, <2>2, OthersStep
<1>2. CASE kill
  <2>1. proc.pc # "idle" /\ proc' = NoScript /\ UNCHANGED <<campaign, txs, launches, passes, disk, runs>>
    BY <1>2 DEF kill, RunnerInv, RunnerShape
  <2> QED
    BY <2>1, KillKeeps
<1> QED
  BY <1>1, <1>2, StartKeeps, RefuseKeeps, PreflightKeeps, SendKeeps, SendFailsKeeps, ReceiveKeeps, WaitFailsKeeps, SweepNotCostedKeeps,
     ReadbackDoubleKeeps, ReconcileTransferKeeps, ProbeDeployedKeeps, ClassifyApassKeeps, RunLegKeeps, RoundTripEndsKeeps,
     AttemptLaunchKeeps, LaunchKeeps, LaunchEndsKeeps, ReadingFailsKeeps, NextLegKeeps, WithdrawKeeps, StrictKeeps,
     ConfigureKeeps, ApassKeeps, InspectKeeps, MineKeeps, WindowClosesKeeps, CleanverseKeeps DEF RunnerNext

\* Nothing is on the chain and nothing is written.
LEMMA RunnerStart == RunnerInit => RunnerInv
<1> SUFFICES ASSUME RunnerInit PROVE RunnerInv
  OBVIOUS
<1>1. NoReport \in Reports /\ NoReport.run = 0 /\ ~NoReport.recovery /\ NoReport.class = "none"
  <2>1. << >> \in Seq(Legs)
    OBVIOUS
  <2> QED
    BY <2>1 DEF NoReport, Reports, Classes
<1>2. proc.pc = "idle" /\ DOMAIN proc = {"pc", "out", "mode", "report"} /\ proc.report = NoReport /\ proc = NoScript
  BY DEF RunnerInit, NoScript
<1>3. txs = << >> /\ txs \in Seq(Transactions) /\ Len(txs) = 0 /\ runs = 0 /\ campaign \in Campaigns
  BY DEF RunnerInit
<1>4. disk \in [Outs -> Reports] /\ \A o \in Outs : disk[o] = NoReport
  BY <1>1 DEF RunnerInit
<1>5. RunnerShape
  BY <1>1, <1>2, <1>3, <1>4 DEF RunnerShape, RunnerInit
<1>6. Numbered
  BY <1>1, <1>3, <1>4, RunnerAssumption DEF Numbered
<1>7. Running
  BY <1>2 DEF Running
<1>8. "none" \notin Proven
  BY DEF Proven
<1>9. \A o \in Outs : Truthful(disk[o]) /\ Closed(disk[o])
  BY <1>1, <1>4, <1>8 DEF Truthful, Closed
<1> QED
  BY <1>5, <1>6, <1>7, <1>9 DEF RunnerInv

\* The inductive invariant of the operator's scripts: what a running
\* script has recorded of its transactions is as the chain has it.
THEOREM RunnerInvariant == RunnerSpec => []RunnerInv
<1>1. RunnerInv /\ [RunnerNext]_runnerVars => RunnerInv'
  BY RunnerStep
<1> QED
  BY <1>1, RunnerStart, PTL DEF RunnerSpec

\* What an artifact of the operator's scripts says is so on the chain and
\* at Cleanverse, whatever was lost, killed or run again: a proven one has
\* all of its transactions succeeded and its A-Pass or its token issued,
\* and no recovery is offered while a return whose hash came back is
\* unresolved.
THEOREM ArtifactStaysTrue == RunnerSpec => []ArtifactIsTrue
<1>1. RunnerInv => ArtifactIsTrue
  BY DEF RunnerInv, Truthful, ArtifactIsTrue
<1> QED
  BY <1>1, RunnerInvariant, PTL

-----------------------------------------------------------------------------
\* The operator's console.

\* The fields of the page, of a request and of a stored record.
PageFields ==
  {"scenario", "mode", "evidence", "view", "pending", "readback", "recovery", "invalid", "resumeRun", "error"}
CallFields == {"kind", "run", "scenario", "custom", "post", "answer"}
RecordFields == {"kind", "run", "scenario", "operation", "valid"}

\* The records the page, its storage and its requests are made of.
ConsoleShape ==
  /\ DOMAIN page = PageFields /\ DOMAIN call = CallFields /\ DOMAIN timer = {"record", "run", "scenario"}
  /\ DOMAIN storage = RecordFields
  /\ DOMAIN server = Cases /\ \A c \in Cases : DOMAIN server[c] = {"step", "scenario"}
  /\ sent \in Nat /\ minted \subseteq Cases

\* What names a run names one that was asked for.
Named(record) == record # NoRecord => record.run \in Cases
ConsoleRuns ==
  /\ Named(page.recovery) /\ Named(storage) /\ Named(timer.record)
  /\ timer.run \in Cases \cup {Null} /\ page.resumeRun \in Cases \cup {Null}
  /\ page.readback # NoNeed => page.readback.run \in Cases
  /\ call.kind \notin {Null, "load"} => call.run \in Cases

\* The server has the run, and bound it to the scenario.
BoundTo(run, scenario) == run \in Cases /\ server[run].step # 0 /\ server[run].scenario = scenario

\* A request is answered for the run it is about.
ConsoleAnswers ==
  /\ \A p \in posts : p.n \in 1..sent /\ p.run \in Cases /\ (p.n = call.post => p.run = call.run)
  /\ call.answer.is = "view" => /\ call.answer.view.run = call.run
                                /\ BoundTo(call.run, call.answer.view.scenario)

\* The view on the screen is of a run the server has bound to the scenario
\* that is shown.
ConsoleView ==
  page.view # NoView => /\ page.mode = "local" /\ page.view.scenario = page.scenario
                        /\ BoundTo(page.view.run, page.scenario)

\* What the page is while it waits.
ConsoleCall ==
  /\ call.kind \in {"resume", "lookup", "readback", "execute"} => page.mode = "local" /\ page.scenario = call.scenario
  /\ call.kind = "create" => page.mode = "local"
  /\ page.pending # NoNeed => call.kind = "execute"
  /\ call.kind = "execute" =>
       /\ page.pending.run = call.run /\ page.pending.scenario = page.scenario /\ page.recovery # NoRecord
       /\ BoundTo(call.run, page.scenario)
  /\ timer # NoTimer => call.kind \in {Null, "load"} /\ page.view = NoView

\* What is left of a mutation in doubt: the record of it, which the page
\* holds too once it is resumed, and nothing but the request that settles
\* it.
Doubted(d) ==
  /\ storage.kind \in {"CREATION_PENDING", "MUTATION_PENDING"} /\ storage.valid /\ storage.run = d.run
  /\ d.operation # "create" => storage.kind = "MUTATION_PENDING"
  /\ storage.kind = "MUTATION_PENDING" => BoundTo(d.run, storage.scenario)
  /\ timer # NoTimer => timer.record = storage /\ call.kind = Null
  /\ timer = NoTimer =>
       /\ page.recovery = storage
       /\ call.kind \in {Null, "create", "execute", "resume", "lookup", "readback"}
       /\ call.kind # Null => call.run = d.run
       /\ call.kind # "execute" => page.view = NoView
       /\ storage.kind = "MUTATION_PENDING" =>
            /\ page.scenario = storage.scenario /\ page.mode = "local"
            /\ call.kind # "execute" => page.resumeRun = d.run
            /\ page.readback # NoNeed => page.readback.run = d.run /\ page.readback.scenario = storage.scenario

\* One mutation at most is in doubt, and what is left of it is known.
ConsoleDoubt == \A d \in doubt : Doubted(d) /\ \A e \in doubt : e = d

\* The inductive invariant of the console.
ConsoleInv ==
  /\ ConsoleShape /\ ConsoleRuns /\ ConsoleAnswers /\ ConsoleView /\ ConsoleCall /\ ConsoleDoubt

\* The console starts with nothing in doubt.
LEMMA ConsoleStart == ConsoleInit => ConsoleInv
<1> SUFFICES ASSUME ConsoleInit PROVE ConsoleInv
  OBVIOUS
<1>1. PICK scenario \in Scenarios : page = mounted(scenario, Null)
  BY DEF ConsoleInit
<1>2. /\ DOMAIN page = PageFields /\ page.view = NoView /\ page.pending = NoNeed /\ page.readback = NoNeed
      /\ page.recovery = NoRecord /\ page.resumeRun = Null
  BY <1>1 DEF mounted, PageFields
<1>3. DOMAIN call = CallFields /\ call.kind = Null /\ call.answer.is = Null /\ call.post = 0
  BY DEF ConsoleInit, NoCall, CallFields
<1>4. DOMAIN timer = {"record", "run", "scenario"} /\ timer.record = NoRecord /\ timer.run = Null /\ timer = NoTimer
  BY DEF ConsoleInit, NoTimer
<1>5. DOMAIN storage = RecordFields /\ storage = NoRecord
  BY DEF ConsoleInit, NoRecord, RecordFields
<1>6. DOMAIN server = Cases /\ \A c \in Cases : DOMAIN server[c] = {"step", "scenario"}
  BY DEF ConsoleInit
<1>7. sent = 0 /\ minted = {} /\ posts = {} /\ doubt = {}
  BY DEF ConsoleInit
<1>8. ConsoleShape
  BY <1>2, <1>3, <1>4, <1>5, <1>6, <1>7 DEF ConsoleShape
<1>9. ConsoleRuns
  BY <1>2, <1>3, <1>4, <1>5 DEF ConsoleRuns, Named
<1>10. ConsoleAnswers
  BY <1>3, <1>7 DEF ConsoleAnswers, Null
<1>11. ConsoleView /\ ConsoleDoubt
  BY <1>2, <1>7 DEF ConsoleView, ConsoleDoubt
<1>12. ConsoleCall
  BY <1>2, <1>3, <1>4 DEF ConsoleCall, Null
<1> QED
  BY <1>8, <1>9, <1>10, <1>11, <1>12 DEF ConsoleInv

\* A request that was begun.
LEMMA Begun ==
  ASSUME NEW k, NEW r, NEW s, NEW c, NEW n, beginRequest(k, r, s, c, n)
  PROVE  /\ DOMAIN call' = CallFields /\ call'.kind = k /\ call'.run = r /\ call'.scenario = s /\ call'.custom = c
         /\ call'.post = n /\ call'.answer.is = Null
  BY DEF beginRequest, CallFields

\* No request.
LEMMA NoRequest ==
  /\ DOMAIN NoCall = CallFields /\ NoCall.kind = Null /\ NoCall.post = 0 /\ NoCall.answer.is = Null
  /\ DOMAIN NoTimer = {"record", "run", "scenario"} /\ NoTimer.record = NoRecord /\ NoTimer.run = Null
  /\ DOMAIN NoRecord = RecordFields /\ NoRecord.kind = Null /\ NoRecord.run = Null /\ NoNeed.run = Null
  BY DEF NoCall, CallFields, NoTimer, NoRecord, RecordFields, NoNeed

\* The page while retained evidence is loaded.
LEMMA Loading ==
  ASSUME NEW p, DOMAIN p = PageFields, NEW s, loadImportedScenario(p, s)
  PROVE  /\ DOMAIN page' = PageFields /\ page'.view = NoView /\ page'.pending = p.pending /\ page'.readback = NoNeed
         /\ page'.recovery = p.recovery /\ page'.resumeRun = Null
         /\ DOMAIN call' = CallFields /\ call'.kind = "load" /\ call'.post = 0 /\ call'.answer.is = Null
<1>1. page' = [clearAuthority(p, s, "imported") EXCEPT !.readback = NoNeed, !.resumeRun = Null, !.error = FALSE]
  BY DEF loadImportedScenario
<1>2. beginRequest("load", Null, s, FALSE, 0)
  BY DEF loadImportedScenario
<1>3. DOMAIN call' = CallFields /\ call'.kind = "load" /\ call'.post = 0 /\ call'.answer.is = Null
  BY <1>2, Begun
<1> QED
  BY <1>1, <1>3 DEF clearAuthority, PageFields

\* The page while a run is read.
LEMMA Resuming ==
  ASSUME NEW p, DOMAIN p = PageFields, NEW r, NEW s, resumeLocalRun(p, r, s)
  PROVE  /\ DOMAIN page' = PageFields /\ page'.view = NoView /\ page'.pending = p.pending
         /\ page'.recovery = p.recovery /\ page'.resumeRun = r /\ page'.scenario = s /\ page'.mode = "local"
         /\ page'.readback = NoNeed \/ (page'.readback = p.readback /\ p.readback.run = r /\ p.readback.scenario = s)
         /\ DOMAIN call' = CallFields /\ call'.kind = "resume" /\ call'.run = r /\ call'.scenario = s /\ call'.post = 0
         /\ call'.answer.is = Null
<1>1. PICK need : need = IF p.readback.run = r /\ p.readback.scenario = s THEN p.readback ELSE NoNeed
  OBVIOUS
<1>2. page' = [clearAuthority(p, s, "local") EXCEPT !.readback = need, !.resumeRun = r, !.error = FALSE]
  BY <1>1 DEF resumeLocalRun
<1>3. beginRequest("resume", r, s, FALSE, 0)
  BY DEF resumeLocalRun
<1>4. /\ DOMAIN call' = CallFields /\ call'.kind = "resume" /\ call'.run = r /\ call'.scenario = s /\ call'.post = 0
      /\ call'.answer.is = Null
  BY <1>3, Begun
<1>5. need = NoNeed \/ (need = p.readback /\ p.readback.run = r /\ p.readback.scenario = s)
  BY <1>1
<1>6. /\ DOMAIN page' = PageFields /\ page'.view = NoView /\ page'.pending = p.pending
      /\ page'.recovery = p.recovery /\ page'.resumeRun = r /\ page'.scenario = s /\ page'.mode = "local"
      /\ page'.readback = need
  BY <1>2 DEF clearAuthority, PageFields
<1> QED
  BY <1>4, <1>5, <1>6

\* The page while a creation is looked up.
LEMMA Recovering ==
  ASSUME NEW p, DOMAIN p = PageFields, NEW record, recoverPendingCreation(p, record)
  PROVE  /\ DOMAIN page' = PageFields /\ page'.view = NoView /\ page'.pending = p.pending
         /\ page'.recovery = p.recovery /\ page'.resumeRun = Null /\ page'.scenario = record.scenario
         /\ page'.mode = "local" /\ page'.readback = p.readback
         /\ DOMAIN call' = CallFields /\ call'.kind = "lookup" /\ call'.run = record.run
         /\ call'.scenario = record.scenario /\ call'.post = 0 /\ call'.answer.is = Null
<1>1. page' = [clearAuthority(p, record.scenario, "local") EXCEPT !.resumeRun = Null, !.error = FALSE]
  BY DEF recoverPendingCreation
<1>2. beginRequest("lookup", record.run, record.scenario, FALSE, 0)
  BY DEF recoverPendingCreation
<1>3. /\ DOMAIN call' = CallFields /\ call'.kind = "lookup" /\ call'.run = record.run
      /\ call'.scenario = record.scenario /\ call'.post = 0 /\ call'.answer.is = Null
  BY <1>2, Begun
<1> QED
  BY <1>1, <1>3 DEF clearAuthority, PageFields

\* The page while a stored record is resumed.
LEMMA Restoring ==
  ASSUME DOMAIN page = PageFields, NEW record, resumeStoredAuthority(record)
  PROVE  /\ DOMAIN page' = PageFields /\ page'.view = NoView /\ page'.pending = page.pending
         /\ page'.recovery = record /\ page'.scenario = record.scenario /\ page'.mode = "local"
         /\ DOMAIN call' = CallFields /\ call'.kind \in {"lookup", "resume"} /\ call'.run = record.run
         /\ call'.scenario = record.scenario /\ call'.post = 0 /\ call'.answer.is = Null
         /\ record.kind = "CREATION_PENDING" => page'.readback = page.readback /\ page'.resumeRun = Null
         /\ record.kind # "CREATION_PENDING" => /\ page'.resumeRun = record.run
                                                /\ page'.readback # NoNeed => /\ page'.readback.run = record.run
                                                                              /\ page'.readback.scenario = record.scenario
<1>1. PICK held : held = [page EXCEPT !.recovery = record, !.invalid = FALSE, !.scenario = record.scenario, !.mode = "local"]
  OBVIOUS
<1>2. DOMAIN held = PageFields /\ held.pending = page.pending /\ held.recovery = record /\ held.readback = page.readback
  BY <1>1 DEF PageFields
<1>3. CASE record.kind = "CREATION_PENDING"
  <2>1. recoverPendingCreation(held, record)
    BY <1>1, <1>3 DEF resumeStoredAuthority
  <2> QED
    BY <1>2, <1>3, <2>1, Recovering
<1>4. CASE record.kind # "CREATION_PENDING"
  <2>1. PICK h : resumeLocalRun(h, record.run, record.scenario) /\ DOMAIN h = PageFields /\ h.pending = page.pending
                 /\ h.recovery = record
    <3>1. \/ resumeLocalRun([held EXCEPT !.readback =
               [run |-> record.run, scenario |-> record.scenario, operation |-> record.operation]], record.run, record.scenario)
          \/ resumeLocalRun([held EXCEPT !.readback = NoNeed], record.run, record.scenario)
      BY <1>1, <1>4 DEF resumeStoredAuthority
    <3> QED
      BY <1>2, <3>1 DEF PageFields
  <2>2. PICK r, s : r = record.run /\ s = record.scenario
    OBVIOUS
  <2>3. resumeLocalRun(h, r, s)
    BY <2>1, <2>2
  <2>4. /\ DOMAIN page' = PageFields /\ page'.view = NoView /\ page'.pending = h.pending
        /\ page'.recovery = h.recovery /\ page'.resumeRun = r /\ page'.scenario = s /\ page'.mode = "local"
        /\ page'.readback = NoNeed \/ (page'.readback = h.readback /\ h.readback.run = r /\ h.readback.scenario = s)
        /\ DOMAIN call' = CallFields /\ call'.kind = "resume" /\ call'.run = r /\ call'.scenario = s /\ call'.post = 0
        /\ call'.answer.is = Null
    BY <2>1, <2>3, Resuming
  <2> QED
    BY <1>4, <2>1, <2>2, <2>4
<1> QED
  BY <1>3, <1>4

\* A request that posts nothing and is not answered.
LEMMA FreshAnswers ==
  ASSUME ConsoleAnswers, call'.post = 0, call'.answer.is = Null, posts' = posts, sent' = sent
  PROVE  ConsoleAnswers'
  BY DEF ConsoleAnswers, Null

\* Nothing is in doubt when the page rests without a record.
LEMMA RestsWithoutDoubt ==
  ASSUME ConsoleInv, timer = NoTimer, page.recovery = NoRecord
  PROVE  doubt = {}
  BY NoRequest DEF ConsoleInv, ConsoleDoubt, Doubted, Null

\* Retained evidence is loaded where nothing is in doubt.
LEMMA LoadKeeps ==
  ASSUME ConsoleInv, NEW p, DOMAIN p = PageFields, p.pending = NoNeed, NEW s, loadImportedScenario(p, s), doubt' = {},
         p.recovery = page.recovery \/ p.recovery = NoRecord, storage' = storage \/ storage' = NoRecord,
         UNCHANGED <<server, timer, posts, minted, sent>>
  PROVE  ConsoleInv'
<1>1. /\ DOMAIN page' = PageFields /\ page'.view = NoView /\ page'.pending = p.pending /\ page'.readback = NoNeed
      /\ page'.recovery = p.recovery /\ page'.resumeRun = Null
      /\ DOMAIN call' = CallFields /\ call'.kind = "load" /\ call'.post = 0 /\ call'.answer.is = Null
  BY Loading
<1>2. ConsoleShape'
  BY <1>1, NoRequest DEF ConsoleInv, ConsoleShape
<1>3. ConsoleRuns'
  BY <1>1 DEF ConsoleInv, ConsoleRuns, Named
<1>4. ConsoleAnswers'
  BY <1>1, FreshAnswers DEF ConsoleInv
<1>5. ConsoleView' /\ ConsoleDoubt'
  BY <1>1 DEF ConsoleView, ConsoleDoubt
<1>6. ConsoleCall'
  BY <1>1 DEF ConsoleCall, Null
<1> QED
  BY <1>2, <1>3, <1>4, <1>5, <1>6 DEF ConsoleInv

\* A run is read: what is in doubt is of that run.
LEMMA ResumeKeeps ==
  ASSUME ConsoleInv, page.pending = NoNeed, NEW r \in Cases, NEW s, resumeLocalRun(page, r, s), timer' = NoTimer,
         timer = NoTimer \/ doubt = {},
         \A d \in doubt : r = d.run /\ (storage.kind = "MUTATION_PENDING" => s = storage.scenario),
         UNCHANGED <<server, storage, posts, minted, doubt, sent>>
  PROVE  ConsoleInv'
<1>1. /\ DOMAIN page' = PageFields /\ page'.view = NoView /\ page'.pending = page.pending
      /\ page'.recovery = page.recovery /\ page'.resumeRun = r /\ page'.scenario = s /\ page'.mode = "local"
      /\ page'.readback = NoNeed \/ (page'.readback = page.readback /\ page.readback.run = r /\ page.readback.scenario = s)
      /\ DOMAIN call' = CallFields /\ call'.kind = "resume" /\ call'.run = r /\ call'.scenario = s /\ call'.post = 0
      /\ call'.answer.is = Null
  BY Resuming DEF ConsoleInv, ConsoleShape
<1>2. ConsoleShape'
  BY <1>1, NoRequest DEF ConsoleInv, ConsoleShape
<1>3. ConsoleRuns'
  BY <1>1, NoRequest DEF ConsoleInv, ConsoleRuns, Named
<1>4. ConsoleAnswers'
  BY <1>1, FreshAnswers DEF ConsoleInv
<1>5. ConsoleView'
  BY <1>1 DEF ConsoleView
<1>6. ConsoleCall'
  BY <1>1 DEF ConsoleCall
<1>7. ConsoleDoubt'
  <2> SUFFICES ASSUME NEW d \in doubt PROVE Doubted(d)'
    BY DEF ConsoleInv, ConsoleDoubt
  <2>1. Doubted(d) /\ r = d.run /\ (storage.kind = "MUTATION_PENDING" => s = storage.scenario) /\ timer = NoTimer
    BY DEF ConsoleInv, ConsoleDoubt
  <2>2. storage.kind = "MUTATION_PENDING" => BoundTo(d.run, storage.scenario)'
    BY <2>1 DEF Doubted, BoundTo
  <2> QED
    BY <1>1, <2>1, <2>2 DEF Doubted
<1> QED
  BY <1>2, <1>3, <1>4, <1>5, <1>6, <1>7 DEF ConsoleInv

\* A creation is looked up: what is in doubt is of that creation.
LEMMA RecoverKeeps ==
  ASSUME ConsoleInv, page.pending = NoNeed, timer = NoTimer, page.recovery.kind = "CREATION_PENDING",
         recoverPendingCreation(page, page.recovery), UNCHANGED <<server, storage, timer, posts, minted, doubt, sent>>
  PROVE  ConsoleInv'
<1>1. PICK record : record = page.recovery
  OBVIOUS
<1>2. /\ DOMAIN page' = PageFields /\ page'.view = NoView /\ page'.pending = page.pending
      /\ page'.recovery = page.recovery /\ page'.resumeRun = Null /\ page'.scenario = record.scenario
      /\ page'.mode = "local" /\ page'.readback = page.readback
      /\ DOMAIN call' = CallFields /\ call'.kind = "lookup" /\ call'.run = record.run
      /\ call'.scenario = record.scenario /\ call'.post = 0 /\ call'.answer.is = Null
  BY <1>1, Recovering DEF ConsoleInv, ConsoleShape
<1>3. ConsoleShape'
  BY <1>2 DEF ConsoleInv, ConsoleShape
<1>4. record.run \in Cases
  BY <1>1, NoRequest DEF ConsoleInv, ConsoleRuns, Named, Null
<1>5. ConsoleRuns'
  BY <1>2, <1>4 DEF ConsoleInv, ConsoleRuns, Named
<1>6. ConsoleAnswers'
  BY <1>2, FreshAnswers DEF ConsoleInv
<1>7. ConsoleView'
  BY <1>2 DEF ConsoleView
<1>8. ConsoleCall'
  BY <1>2 DEF ConsoleCall
<1>9. ConsoleDoubt'
  <2> SUFFICES ASSUME NEW d \in doubt PROVE Doubted(d)'
    BY DEF ConsoleInv, ConsoleDoubt
  <2>1. Doubted(d)
    BY DEF ConsoleInv, ConsoleDoubt
  <2>2. storage.kind = "CREATION_PENDING" /\ record = storage /\ record.run = d.run
    BY <1>1, <2>1 DEF Doubted
  <2> QED
    BY <1>1, <1>2, <2>1, <2>2 DEF Doubted
<1> QED
  BY <1>3, <1>5, <1>6, <1>7, <1>8, <1>9 DEF ConsoleInv

\* A stored record is resumed: what is in doubt is what it names.
LEMMA RestoreKeeps ==
  ASSUME ConsoleInv, page.pending = NoNeed, NEW record, record # NoRecord, Named(record), resumeStoredAuthority(record), timer' = NoTimer,
         doubt = {} \/ record = storage, UNCHANGED <<server, storage, posts, minted, doubt, sent>>
  PROVE  ConsoleInv'
<1>1. /\ DOMAIN page' = PageFields /\ page'.view = NoView /\ page'.pending = page.pending
      /\ page'.recovery = record /\ page'.scenario = record.scenario /\ page'.mode = "local"
      /\ DOMAIN call' = CallFields /\ call'.kind \in {"lookup", "resume"} /\ call'.run = record.run
      /\ call'.scenario = record.scenario /\ call'.post = 0 /\ call'.answer.is = Null
      /\ record.kind = "CREATION_PENDING" => page'.readback = page.readback /\ page'.resumeRun = Null
      /\ record.kind # "CREATION_PENDING" => /\ page'.resumeRun = record.run
                                             /\ page'.readback # NoNeed => /\ page'.readback.run = record.run
                                                                           /\ page'.readback.scenario = record.scenario
  BY Restoring DEF ConsoleInv, ConsoleShape
<1>2. ConsoleShape'
  BY <1>1, NoRequest DEF ConsoleInv, ConsoleShape
<1>3. record.run \in Cases
  BY DEF Named
<1>4. ConsoleRuns'
  BY <1>1, <1>3, NoRequest DEF ConsoleInv, ConsoleRuns, Named
<1>5. ConsoleAnswers'
  BY <1>1, FreshAnswers DEF ConsoleInv
<1>6. ConsoleView'
  BY <1>1 DEF ConsoleView
<1>7. ConsoleCall'
  BY <1>1 DEF ConsoleCall
<1>8. ConsoleDoubt'
  <2> SUFFICES ASSUME NEW d \in doubt PROVE Doubted(d)'
    BY DEF ConsoleInv, ConsoleDoubt
  <2>1. Doubted(d) /\ record = storage
    BY DEF ConsoleInv, ConsoleDoubt
  <2>2. storage.kind = "MUTATION_PENDING" => BoundTo(d.run, storage.scenario)'
    BY <2>1 DEF Doubted, BoundTo
  <2> QED
    BY <1>1, <2>1, <2>2 DEF Doubted
<1> QED
  BY <1>2, <1>4, <1>5, <1>6, <1>7, <1>8 DEF ConsoleInv

\* A page that only notes an error keeps everything else.
LEMMA ErrorKeeps ==
  ASSUME ConsoleInv, page' = [page EXCEPT !.error = TRUE] \/ page' = [page EXCEPT !.error = FALSE],
         UNCHANGED <<server, storage, call, timer, posts, doubt, sent>>, minted' \subseteq Cases
  PROVE  ConsoleInv'
<1>1. /\ DOMAIN page' = PageFields /\ page'.view = page.view /\ page'.pending = page.pending /\ page'.readback = page.readback
      /\ page'.recovery = page.recovery /\ page'.resumeRun = page.resumeRun /\ page'.scenario = page.scenario
      /\ page'.mode = page.mode
  BY DEF ConsoleInv, ConsoleShape, PageFields
<1>2. ConsoleShape' /\ ConsoleRuns'
  BY <1>1 DEF ConsoleInv, ConsoleShape, ConsoleRuns, Named
<1>3. ConsoleAnswers' /\ ConsoleView'
  BY <1>1 DEF ConsoleInv, ConsoleAnswers, ConsoleView, BoundTo
<1>4. ConsoleCall'
  BY <1>1 DEF ConsoleInv, ConsoleCall, BoundTo
<1>5. ConsoleDoubt'
  BY <1>1 DEF ConsoleInv, ConsoleDoubt, Doubted, BoundTo
<1> QED
  BY <1>2, <1>3, <1>4, <1>5 DEF ConsoleInv

\* The operator picks a scenario.
LEMMA ClickScenarioKeeps == ASSUME timer = NoTimer, ConsoleInv, NEW s, clickScenario(s) PROVE ConsoleInv'
<1>1. /\ timer = NoTimer /\ page.recovery = NoRecord /\ page.pending = NoNeed /\ loadImportedScenario(page, s)
      /\ UNCHANGED <<server, storage, timer, posts, minted, doubt, sent>>
  BY DEF clickScenario, clickable, unresolvedRecovery
<1>2. doubt' = {}
  BY <1>1, RestsWithoutDoubt
<1>3. PICK p : p = page /\ DOMAIN p = PageFields
  BY DEF ConsoleInv, ConsoleShape
<1> QED
  BY <1>1, <1>2, <1>3, LoadKeeps

\* The operator has a run read again.
LEMMA ClickResumeKeeps == ASSUME timer = NoTimer, ConsoleInv, clickResume PROVE ConsoleInv'
<1>1. PICK r, s : r = currentRunId /\ s = page.scenario
  OBVIOUS
<1>2. /\ timer = NoTimer /\ call.kind = Null /\ r # Null /\ resumeLocalRun(page, r, s)
      /\ UNCHANGED <<server, storage, timer, posts, minted, doubt, sent>>
  BY <1>1 DEF clickResume, clickable, busy, offersResume
<1>3. r \in Cases
  BY <1>1, <1>2 DEF currentRunId, ConsoleInv, ConsoleRuns, ConsoleView, BoundTo
<1>4. page.pending = NoNeed
  BY <1>2 DEF ConsoleInv, ConsoleCall, Null
<1>5. ASSUME NEW d \in doubt PROVE r = d.run /\ (storage.kind = "MUTATION_PENDING" => s = storage.scenario)
  <2>1. Doubted(d)
    BY DEF ConsoleInv, ConsoleDoubt
  <2>2. page.view = NoView /\ page.recovery = storage
    BY <1>2, <2>1 DEF Doubted, Null
  <2>3. storage.kind = "MUTATION_PENDING"
    <3>1. ~activeCase \/ page.mode = "local"
      BY DEF clickResume, offersResume
    <3>2. page.recovery.kind \notin {"CREATION_PENDING", "RETENTION_REQUIRED"}
      BY <2>2 DEF clickResume, offersResume, activeCase
    <3> QED
      BY <2>1, <2>2, <3>2 DEF Doubted
  <2> QED
    BY <1>1, <1>2, <2>1, <2>2, <2>3 DEF Doubted, currentRunId, Null
<1> QED
  BY <1>2, <1>3, <1>4, <1>5, ResumeKeeps

\* The operator has a creation looked up.
LEMMA ClickRecoverKeeps == ASSUME timer = NoTimer, ConsoleInv, clickRecover PROVE ConsoleInv'
<1>1. /\ timer = NoTimer /\ call.kind = Null /\ page.recovery.kind = "CREATION_PENDING"
      /\ recoverPendingCreation(page, page.recovery) /\ UNCHANGED <<server, storage, timer, posts, minted, doubt, sent>>
  BY DEF clickRecover, clickable, busy, offersRecover
<1>2. page.pending = NoNeed
  BY <1>1 DEF ConsoleInv, ConsoleCall, Null
<1> QED
  BY <1>1, <1>2, RecoverKeeps

\* The operator drops the record.
LEMMA AbandonKeeps == ASSUME ConsoleInv, abandonUnresolvedRecovery PROVE ConsoleInv'
<1>1. UNCHANGED <<server, timer, posts, minted, sent>>
  BY DEF abandonUnresolvedRecovery
<1>2. CASE page' = [page EXCEPT !.error = TRUE] /\ UNCHANGED <<storage, call, doubt>>
  BY <1>1, <1>2, ErrorKeeps DEF ConsoleInv, ConsoleShape
<1>3. CASE /\ storage' = NoRecord /\ doubt' = {}
           /\ loadImportedScenario([page EXCEPT !.pending = NoNeed, !.recovery = NoRecord, !.invalid = FALSE], page.scenario)
  <2>1. PICK p, s : p = [page EXCEPT !.pending = NoNeed, !.recovery = NoRecord, !.invalid = FALSE] /\ s = page.scenario
    OBVIOUS
  <2>2. DOMAIN p = PageFields /\ p.pending = NoNeed /\ p.recovery = NoRecord
    BY <2>1 DEF ConsoleInv, ConsoleShape, PageFields
  <2>3. loadImportedScenario(p, s)
    BY <1>3, <2>1
  <2> QED
    BY <1>1, <1>3, <2>2, <2>3, LoadKeeps
<1> QED
  BY <1>2, <1>3 DEF abandonUnresolvedRecovery

\* A mutation that was interrupted has to be read back.
LEMMA Interrupted ==
  ASSUME ConsoleInv, call.kind = "execute", NEW need, need = page.pending, timer = NoTimer,
         page' = [requireDurableReadback(page, need) EXCEPT !.recovery = recordRequired(need)], requireRecord(need),
         call' = NoCall, UNCHANGED <<server, timer, posts, minted, doubt, sent>>
  PROVE  ConsoleInv'
<1>1. /\ need.run = call.run /\ need.scenario = page.scenario /\ page.recovery # NoRecord /\ BoundTo(call.run, page.scenario)
      /\ need.run \in Cases
  BY DEF ConsoleInv, ConsoleCall, BoundTo
<1>2. storage' = storage /\ recordRequired(need) = page.recovery
  BY <1>1 DEF requireRecord, recordRequired
<1>3. PICK record : record = page.recovery
  OBVIOUS
<1>4. page' = [requireDurableReadback(page, need) EXCEPT !.recovery = record]
  BY <1>2, <1>3
<1>5. /\ DOMAIN page' = PageFields /\ page'.view = NoView /\ page'.pending = NoNeed /\ page'.readback = need
      /\ page'.recovery = record /\ page'.resumeRun = need.run /\ page'.scenario = need.scenario /\ page'.mode = "local"
  BY <1>4 DEF requireDurableReadback, clearAuthority, ConsoleInv, ConsoleShape, PageFields
<1>6. DOMAIN call' = CallFields /\ call'.kind = Null /\ call'.post = 0 /\ call'.answer.is = Null
  BY NoRequest
<1>7. ConsoleShape'
  BY <1>2, <1>5, <1>6 DEF ConsoleInv, ConsoleShape
<1>8. ConsoleRuns'
  BY <1>1, <1>2, <1>3, <1>5, <1>6 DEF ConsoleInv, ConsoleRuns, Named
<1>9. ConsoleAnswers'
  BY <1>6, FreshAnswers DEF ConsoleInv
<1>10. ConsoleView' /\ ConsoleCall'
  BY <1>5, <1>6 DEF ConsoleView, ConsoleCall, Null
<1>11. ConsoleDoubt'
  <2> SUFFICES ASSUME NEW d \in doubt PROVE Doubted(d)'
    BY DEF ConsoleInv, ConsoleDoubt
  <2>1. Doubted(d)
    BY DEF ConsoleInv, ConsoleDoubt
  <2>2. need.run = d.run /\ record = storage /\ (storage.kind = "MUTATION_PENDING" => need.scenario = storage.scenario)
    BY <1>1, <1>3, <2>1 DEF Doubted, Null
  <2>3. storage.kind = "MUTATION_PENDING" => BoundTo(d.run, storage.scenario)'
    BY <1>2, <2>1 DEF Doubted, BoundTo
  <2> QED
    BY <1>2, <1>5, <1>6, <2>1, <2>2, <2>3 DEF Doubted
<1> QED
  BY <1>7, <1>8, <1>9, <1>10, <1>11 DEF ConsoleInv

\* A mutation that is dispatched is the one the page waits for.
LEMMA PostAnswers ==
  ASSUME ConsoleInv, NEW k, NEW r \in Cases, NEW o, NEW s, post(k, r, o, s), call'.post = sent + 1, call'.run = r,
         call'.answer.is = Null
  PROVE  ConsoleAnswers' /\ sent' \in Nat
<1>1. PICK q : q = [n |-> sent + 1, kind |-> k, run |-> r, operation |-> o, scenario |-> s]
  OBVIOUS
<1>2. posts' = posts \cup {q} /\ sent' = sent + 1 /\ q.n = sent + 1 /\ q.run = r
  BY <1>1 DEF post
<1>3. sent \in Nat /\ \A p \in posts : p.n \in 1..sent /\ p.run \in Cases
  BY DEF ConsoleInv, ConsoleShape, ConsoleAnswers
<1>4. ASSUME NEW p \in posts' PROVE p.n \in 1..sent' /\ p.run \in Cases /\ (p.n = call'.post => p.run = call'.run)
  <2>1. CASE p = q
    BY <1>2, <1>3, <2>1
  <2>2. CASE p \in posts
    <3>1. PICK m : m = p.n
      OBVIOUS
    <3>2. m \in 1..sent /\ p.run \in Cases
      BY <1>3, <2>2, <3>1
    <3>3. m \in 1..(sent + 1) /\ m # sent + 1
      BY <1>3, <3>2
    <3> QED
      BY <1>2, <3>1, <3>2, <3>3
  <2> QED
    BY <1>2, <1>4, <2>1, <2>2
<1> QED
  BY <1>2, <1>3, <1>4 DEF ConsoleAnswers, Null

\* The operator finishes a retention.
LEMMA FinishRetentionKeeps == ASSUME timer = NoTimer, ConsoleInv, finishEvidenceRetention PROVE ConsoleInv'
<1>1. PICK r, s, n : r = page.recovery.run /\ s = page.recovery.scenario /\ n = sent + 1
  OBVIOUS
<1>2. /\ timer = NoTimer /\ call.kind = Null /\ page.recovery.kind = "RETENTION_REQUIRED" /\ page' = [page EXCEPT !.error = FALSE]
      /\ post("retain", r, "retainProtectionEvidence", Null) /\ beginRequest("retain", r, s, FALSE, n)
      /\ UNCHANGED <<server, storage, timer, minted, doubt>>
  BY <1>1 DEF finishEvidenceRetention, clickable, busy, offersRetention
<1>3. DOMAIN call' = CallFields /\ call'.kind = "retain" /\ call'.run = r /\ call'.post = n /\ call'.answer.is = Null
  BY <1>2, Begun
<1>4. doubt = {} /\ page.pending = NoNeed /\ r \in Cases
  <2>1. doubt = {}
    BY <1>2 DEF ConsoleInv, ConsoleDoubt, Doubted
  <2>2. page.recovery # NoRecord
    BY <1>2, NoRequest DEF Null
  <2> QED
    BY <1>1, <1>2, <2>1, <2>2 DEF ConsoleInv, ConsoleRuns, Named, ConsoleCall, Null
<1>5. /\ DOMAIN page' = PageFields /\ page'.view = page.view /\ page'.pending = page.pending /\ page'.readback = page.readback
      /\ page'.recovery = page.recovery /\ page'.resumeRun = page.resumeRun /\ page'.scenario = page.scenario
      /\ page'.mode = page.mode
  BY <1>2 DEF ConsoleInv, ConsoleShape, PageFields
<1>6. ConsoleAnswers' /\ sent' \in Nat
  <2>1. PICK k, o : k = "retain" /\ o = "retainProtectionEvidence"
    OBVIOUS
  <2>2. post(k, r, o, Null)
    BY <1>2, <2>1
  <2>3. call'.post = sent + 1
    BY <1>1, <1>3
  <2> QED
    BY <1>3, <1>4, <2>2, <2>3, PostAnswers
<1>7. ConsoleShape'
  BY <1>2, <1>3, <1>5, <1>6 DEF ConsoleInv, ConsoleShape
<1>8. ConsoleRuns'
  BY <1>2, <1>3, <1>4, <1>5 DEF ConsoleInv, ConsoleRuns, Named
<1>9. ConsoleView'
  BY <1>2, <1>5 DEF ConsoleInv, ConsoleView, BoundTo
<1>10. ConsoleCall' /\ ConsoleDoubt'
  BY <1>2, <1>3, <1>4, <1>5 DEF ConsoleCall, ConsoleDoubt, Null
<1> QED
  BY <1>6, <1>7, <1>8, <1>9, <1>10 DEF ConsoleInv

\* A case is started.
LEMMA StartCaseKeeps == ASSUME timer = NoTimer, ConsoleInv, NEW id \in Cases, NEW custom, startRun(id, custom) PROVE ConsoleInv'
<1>1. /\ timer = NoTimer /\ call.kind = Null /\ page.pending = NoNeed /\ page.recovery = NoRecord
      /\ minted' = minted \cup {id} /\ UNCHANGED <<server, timer>>
  BY DEF startRun, mayStart, clickable, busy
<1>2. doubt = {} /\ minted' \subseteq Cases
  BY <1>1, RestsWithoutDoubt DEF ConsoleInv, ConsoleShape
<1>3. CASE page' = [page EXCEPT !.error = TRUE] /\ UNCHANGED <<storage, call, posts, doubt, sent>>
  BY <1>1, <1>2, <1>3, ErrorKeeps
<1>4. CASE ~(page' = [page EXCEPT !.error = TRUE] /\ UNCHANGED <<storage, call, posts, doubt, sent>>)
  <2>1. PICK record, s, t, n : /\ record = pendingCreationRecovery(s, id) /\ s = page.scenario
                               /\ t = (IF custom THEN "conflict" ELSE s) /\ n = sent + 1
    OBVIOUS
  <2>2. /\ storage' = record /\ post("create", id, Null, t) /\ beginRequest("create", id, s, custom, n)
        /\ dispatched(id, "create")
        /\ page' = [clearAuthority(page, s, "local") EXCEPT
                      !.recovery = record, !.invalid = FALSE, !.readback = NoNeed, !.resumeRun = Null, !.error = FALSE]
    BY <1>4, <2>1 DEF startRun, retainRecoveryAuthority
  <2>3. /\ DOMAIN record = RecordFields /\ record.run = id /\ record.kind = "CREATION_PENDING" /\ record.valid
        /\ record # NoRecord
    <3>1. DOMAIN record = RecordFields /\ record.run = id /\ record.kind = "CREATION_PENDING" /\ record.valid
      BY <2>1 DEF pendingCreationRecovery, RecordFields
    <3> QED
      BY <3>1, NoRequest DEF Null
  <2>4. DOMAIN call' = CallFields /\ call'.kind = "create" /\ call'.run = id /\ call'.post = n /\ call'.answer.is = Null
    BY <2>2, Begun
  <2>5. /\ DOMAIN page' = PageFields /\ page'.view = NoView /\ page'.pending = NoNeed /\ page'.readback = NoNeed
        /\ page'.recovery = record /\ page'.resumeRun = Null /\ page'.mode = "local"
    BY <1>1, <2>2 DEF clearAuthority, ConsoleInv, ConsoleShape, PageFields
  <2>6. ConsoleAnswers' /\ sent' \in Nat
    <3>1. PICK k : k = "create"
      OBVIOUS
    <3>2. post(k, id, Null, t) /\ call'.post = sent + 1
      BY <2>1, <2>2, <2>4, <3>1
    <3> QED
      BY <2>4, <3>2, PostAnswers
  <2>7. ConsoleShape'
    BY <1>1, <1>2, <2>2, <2>3, <2>4, <2>5, <2>6 DEF ConsoleInv, ConsoleShape
  <2>8. ConsoleRuns'
    BY <1>1, <2>2, <2>3, <2>4, <2>5 DEF ConsoleInv, ConsoleRuns, Named
  <2>9. ConsoleView'
    BY <2>5 DEF ConsoleView
  <2>10. ConsoleCall'
    BY <1>1, <2>4, <2>5 DEF ConsoleCall, Null
  <2>11. ConsoleDoubt'
    <3>1. PICK d : d = [n |-> sent + 1, run |-> id, operation |-> "create"]
      OBVIOUS
    <3>2. doubt' = {d} /\ d.run = id /\ d.operation = "create"
      BY <1>2, <2>2, <3>1 DEF dispatched
    <3>3. Doubted(d)'
      BY <1>1, <2>2, <2>3, <2>4, <2>5, <3>2 DEF Doubted
    <3> QED
      BY <3>2, <3>3 DEF ConsoleDoubt
  <2> QED
    BY <2>6, <2>7, <2>8, <2>9, <2>10, <2>11 DEF ConsoleInv
<1> QED
  BY <1>3, <1>4

\* The next operation of the run on the screen is dispatched.
LEMMA ExecuteKeeps == ASSUME timer = NoTimer, ConsoleInv, executeNext PROVE ConsoleInv'
<1>1. /\ timer = NoTimer /\ call.kind = Null /\ page.pending = NoNeed /\ page.view # NoView /\ page.mode = "local"
      /\ page.readback = NoNeed /\ UNCHANGED <<server, timer, minted>>
  BY DEF executeNext, clickable, busy, currentOperation
<1>2. doubt = {}
  BY <1>1 DEF ConsoleInv, ConsoleDoubt, Doubted, Null
<1>3. CASE page' = [page EXCEPT !.error = TRUE] /\ UNCHANGED <<storage, call, posts, doubt, sent>>
  BY <1>1, <1>3, ErrorKeeps DEF ConsoleInv, ConsoleShape
<1>4. CASE ~(page' = [page EXCEPT !.error = TRUE] /\ UNCHANGED <<storage, call, posts, doubt, sent>>)
  <2>1. PICK record, r, s, o, n, need :
          /\ r = page.view.run /\ s = page.scenario /\ o = currentOperation /\ n = sent + 1
          /\ record = pendingMutationRecovery(s, r, o) /\ need = [run |-> r, scenario |-> s, operation |-> o]
    OBVIOUS
  <2>2. /\ storage' = record /\ post("execute", r, o, Null) /\ beginRequest("execute", r, s, FALSE, n)
        /\ dispatched(r, o)
        /\ page' = [page EXCEPT !.recovery = record, !.invalid = FALSE, !.pending = need, !.error = FALSE]
    BY <1>4, <2>1 DEF executeNext, mutationRecord, retainRecoveryAuthority
  <2>3. /\ DOMAIN record = RecordFields /\ record.run = r /\ record.scenario = s /\ record.kind = "MUTATION_PENDING"
        /\ record.valid /\ record # NoRecord
    <3>1. DOMAIN record = RecordFields /\ record.run = r /\ record.scenario = s /\ record.kind = "MUTATION_PENDING" /\ record.valid
      BY <2>1 DEF pendingMutationRecovery, RecordFields
    <3> QED
      BY <3>1, NoRequest DEF Null
  <2>4. /\ DOMAIN call' = CallFields /\ call'.kind = "execute" /\ call'.run = r /\ call'.scenario = s /\ call'.post = n
        /\ call'.answer.is = Null
    BY <2>2, Begun
  <2>5. /\ DOMAIN page' = PageFields /\ page'.view = page.view /\ page'.pending = need /\ page'.readback = page.readback
        /\ page'.recovery = record /\ page'.resumeRun = page.resumeRun /\ page'.mode = "local" /\ page'.scenario = s
    BY <1>1, <2>1, <2>2 DEF ConsoleInv, ConsoleShape, PageFields
  <2>6. BoundTo(r, s) /\ BoundTo(r, s)' /\ r \in Cases
    BY <1>1, <2>1 DEF ConsoleInv, ConsoleView, BoundTo
  <2>7. ConsoleAnswers' /\ sent' \in Nat
    <3>1. PICK k : k = "execute"
      OBVIOUS
    <3>2. post(k, r, o, Null) /\ call'.post = sent + 1
      BY <2>1, <2>2, <2>4, <3>1
    <3> QED
      BY <2>4, <2>6, <3>2, PostAnswers
  <2>8. ConsoleShape'
    BY <1>1, <2>2, <2>3, <2>4, <2>5, <2>7 DEF ConsoleInv, ConsoleShape
  <2>9. ConsoleRuns'
    BY <1>1, <2>2, <2>3, <2>4, <2>5, <2>6 DEF ConsoleInv, ConsoleRuns, Named
  <2>10. ConsoleView'
    BY <1>1, <2>1, <2>5, <2>6 DEF ConsoleInv, ConsoleView, BoundTo
  <2>11. need.run = r /\ need.scenario = s
    BY <2>1
  <2>12. ConsoleCall'
    BY <1>1, <2>3, <2>4, <2>5, <2>6, <2>11 DEF ConsoleCall, Null
  <2>13. ConsoleDoubt'
    <3>1. PICK d : d = [n |-> sent + 1, run |-> r, operation |-> o]
      OBVIOUS
    <3>2. doubt' = {d} /\ d.run = r
      BY <1>2, <2>2, <3>1 DEF dispatched
    <3>3. Doubted(d)'
      BY <1>1, <2>2, <2>3, <2>4, <2>5, <2>6, <3>2 DEF Doubted
    <3> QED
      BY <3>2, <3>3 DEF ConsoleDoubt
  <2> QED
    BY <2>7, <2>8, <2>9, <2>10, <2>12, <2>13 DEF ConsoleInv
<1> QED
  BY <1>3, <1>4

\* Nothing is kept but the record: where nothing is in doubt the rest is
\* as it may be on a page at rest.
LEMMA RestKeeps ==
  ASSUME ConsoleInv, doubt' = {}, DOMAIN page' = PageFields, page'.view = NoView, page'.pending = NoNeed,
         page'.readback = NoNeed \/ page'.readback.run \in Cases, page'.resumeRun \in Cases \cup {Null},
         page'.recovery = page.recovery \/ page'.recovery = NoRecord, call' = NoCall, timer' = NoTimer,
         UNCHANGED <<server, storage, posts, minted, sent>>
  PROVE  ConsoleInv'
<1>1. DOMAIN call' = CallFields /\ call'.kind = Null /\ call'.post = 0 /\ call'.answer.is = Null
  BY NoRequest
<1>2. DOMAIN timer' = {"record", "run", "scenario"} /\ timer'.record = NoRecord /\ timer'.run = Null
  BY NoRequest
<1>3. ConsoleShape'
  BY <1>1, <1>2 DEF ConsoleInv, ConsoleShape
<1>4. ConsoleRuns'
  BY <1>1, <1>2 DEF ConsoleInv, ConsoleRuns, Named
<1>5. ConsoleAnswers'
  BY <1>1, FreshAnswers DEF ConsoleInv
<1>6. ConsoleView' /\ ConsoleDoubt'
  BY DEF ConsoleView, ConsoleDoubt
<1>7. ConsoleCall'
  BY <1>1 DEF ConsoleCall, Null
<1> QED
  BY <1>3, <1>4, <1>5, <1>6, <1>7 DEF ConsoleInv

\* The operator steps through the history.
LEMMA PopstateKeeps ==
  ASSUME timer = NoTimer, backOver = {}, ConsoleInv, NEW scenario, NEW run \in minted \cup {Null},
         NEW wrong \in BOOLEAN, popstate(scenario, run, wrong)
  PROVE  ConsoleInv'
<1>1. timer = NoTimer /\ timer' = NoTimer /\ UNCHANGED <<server, timer, posts, minted, doubt, sent>>
  BY DEF popstate
<1>2. CASE page.pending # NoNeed
  <2>1. interrupted(page.pending)
    BY <1>2 DEF popstate
  <2>2. call.kind = "execute"
    BY <1>2 DEF ConsoleInv, ConsoleCall
  <2>3. PICK need : need = page.pending
    OBVIOUS
  <2>4. /\ page' = [requireDurableReadback(page, need) EXCEPT !.recovery = recordRequired(need)]
        /\ requireRecord(need) /\ call' = NoCall
    BY <2>1, <2>3 DEF interrupted
  <2> QED
    BY <1>1, <2>2, <2>3, <2>4, Interrupted
<1>3. CASE page.pending = NoNeed /\ page.readback # NoNeed
  <2>1. PICK r, s : r = page.readback.run /\ s = page.readback.scenario
    OBVIOUS
  <2>2. resumeLocalRun(page, r, s) /\ UNCHANGED storage
    BY <1>3, <2>1 DEF popstate
  <2>3. r \in Cases
    BY <1>3, <2>1 DEF ConsoleInv, ConsoleRuns
  <2>4. ASSUME NEW d \in doubt PROVE r = d.run /\ (storage.kind = "MUTATION_PENDING" => s = storage.scenario)
    <3>1. Doubted(d)
      BY DEF ConsoleInv, ConsoleDoubt
    <3>2. page.recovery = storage /\ storage.run = d.run /\ storage.kind # Null
      BY <1>1, <3>1 DEF Doubted, Null
    <3>3. page.recovery # NoRecord
      BY <3>2, NoRequest
    <3>4. page.readback.run = page.recovery.run
      BY <1>3, <3>3 DEF backOver
    <3> QED
      BY <1>1, <1>3, <2>1, <3>1, <3>2, <3>4 DEF Doubted
  <2> QED
    BY <1>1, <1>3, <2>2, <2>3, <2>4, ResumeKeeps
<1>4. CASE page.pending = NoNeed /\ page.readback = NoNeed /\ page.recovery # NoRecord
  <2>1. PICK record : record = page.recovery
    OBVIOUS
  <2>2. resumeStoredAuthority(record) /\ UNCHANGED storage
    BY <1>4, <2>1 DEF popstate
  <2>3. doubt = {} \/ record = storage
    BY <1>1, <2>1 DEF ConsoleInv, ConsoleDoubt, Doubted
  <2>4. Named(record) /\ record # NoRecord
    BY <1>4, <2>1 DEF ConsoleInv, ConsoleRuns
  <2> QED
    BY <1>1, <1>4, <2>2, <2>3, <2>4, RestoreKeeps
<1>5. CASE page.pending = NoNeed /\ page.readback = NoNeed /\ page.recovery = NoRecord
  <2>1. doubt = {} /\ doubt' = {}
    BY <1>1, <1>5, RestsWithoutDoubt
  <2>2. /\ UNCHANGED storage
        /\ IF wrong
           THEN /\ page' = [clearAuthority(page, scenario, "imported") EXCEPT
                              !.readback = NoNeed, !.resumeRun = Null, !.error = TRUE]
                /\ call' = NoCall
           ELSE IF run # Null THEN resumeLocalRun(page, run, scenario)
           ELSE IF page.invalid THEN UNCHANGED <<page, call>>
           ELSE loadImportedScenario(page, scenario)
    BY <1>5 DEF popstate
  <2>3. CASE wrong
    <3>1. /\ page' = [clearAuthority(page, scenario, "imported") EXCEPT !.readback = NoNeed, !.resumeRun = Null, !.error = TRUE]
          /\ call' = NoCall
      BY <2>2, <2>3
    <3>2. /\ DOMAIN page' = PageFields /\ page'.view = NoView /\ page'.pending = NoNeed /\ page'.readback = NoNeed
          /\ page'.resumeRun = Null /\ page'.recovery = page.recovery
      BY <1>5, <3>1 DEF clearAuthority, ConsoleInv, ConsoleShape, PageFields
    <3> QED
      BY <1>1, <2>1, <2>2, <3>1, <3>2, RestKeeps
  <2>4. CASE ~wrong /\ run # Null
    <3>1. run \in Cases
      BY <2>4 DEF ConsoleInv, ConsoleShape
    <3>2. resumeLocalRun(page, run, scenario)
      BY <2>2, <2>4
    <3> QED
      BY <1>1, <1>5, <2>1, <2>2, <3>1, <3>2, ResumeKeeps
  <2>5. CASE ~wrong /\ run = Null /\ page.invalid
    <3>1. UNCHANGED <<page, call, storage, server, timer, posts, minted, doubt, sent>>
      BY <1>1, <2>2, <2>5
    <3> QED
      BY <3>1 DEF ConsoleInv, ConsoleShape, ConsoleRuns, Named, ConsoleAnswers, ConsoleView, ConsoleCall, ConsoleDoubt,
                  Doubted, BoundTo
  <2>6. CASE ~wrong /\ run = Null /\ ~page.invalid
    <3>1. loadImportedScenario(page, scenario)
      BY <2>2, <2>6
    <3>2. PICK p : p = page /\ DOMAIN p = PageFields
      BY DEF ConsoleInv, ConsoleShape
    <3> QED
      BY <1>1, <1>5, <2>1, <2>2, <3>1, <3>2, LoadKeeps
  <2> QED
    BY <2>3, <2>4, <2>5, <2>6
<1> QED
  BY <1>2, <1>3, <1>4, <1>5

\* The page is opened again.
LEMMA ReloadKeeps ==
  ASSUME ConsoleInv, NEW scenario, NEW run \in minted \cup {Null}, reload(scenario, run)
  PROVE  ConsoleInv'
<1>1. call' = NoCall /\ UNCHANGED <<server, storage, posts, minted, doubt, sent>>
  BY DEF reload
<1>2. run \in Cases \cup {Null}
  BY DEF ConsoleInv, ConsoleShape
<1>3. PICK p : p = mounted(scenario, run)
  OBVIOUS
<1>4. /\ DOMAIN p = PageFields /\ p.view = NoView /\ p.pending = NoNeed /\ p.recovery = NoRecord /\ p.resumeRun = run
      /\ p.readback = NoNeed \/ p.readback.run = run
      /\ run = Null => p.readback = NoNeed
  BY <1>3 DEF mounted, PageFields
<1>5. p.readback = NoNeed \/ p.readback.run \in Cases
  BY <1>2, <1>4
<1>6. CASE storage # NoRecord /\ ~storage.valid
  <2>1. page' = [clearAuthority(p, scenario, "local") EXCEPT !.invalid = TRUE, !.error = TRUE] /\ timer' = NoTimer
    BY <1>3, <1>6 DEF reload, parseProtectionBrowserRecovery
  <2>2. /\ DOMAIN page' = PageFields /\ page'.view = NoView /\ page'.pending = NoNeed /\ page'.recovery = NoRecord
        /\ page'.resumeRun = run /\ page'.readback = p.readback
    BY <1>4, <2>1 DEF clearAuthority, PageFields
  <2>3. doubt' = {}
    BY <1>1, <1>6 DEF ConsoleInv, ConsoleDoubt, Doubted
  <2> QED
    BY <1>1, <1>2, <1>5, <2>1, <2>2, <2>3, RestKeeps
<1>7. CASE ~(storage # NoRecord /\ ~storage.valid)
  <2>1. page' = p /\ timer' = [record |-> storage, run |-> run, scenario |-> scenario]
    BY <1>3, <1>7 DEF reload, parseProtectionBrowserRecovery
  <2>2. DOMAIN timer' = {"record", "run", "scenario"} /\ timer'.record = storage /\ timer'.run = run
    BY <2>1
  <2>3. DOMAIN call' = CallFields /\ call'.kind = Null /\ call'.post = 0 /\ call'.answer.is = Null
    BY <1>1, NoRequest
  <2>4. ConsoleShape'
    BY <1>1, <1>4, <2>1, <2>2, <2>3 DEF ConsoleInv, ConsoleShape
  <2>5. ConsoleRuns'
    BY <1>1, <1>2, <1>4, <1>5, <2>1, <2>2, <2>3 DEF ConsoleInv, ConsoleRuns, Named
  <2>6. ConsoleAnswers'
    BY <1>1, <2>3, FreshAnswers DEF ConsoleInv
  <2>7. ConsoleView' /\ ConsoleCall'
    BY <1>4, <2>1, <2>3 DEF ConsoleView, ConsoleCall, Null
  <2>8. ConsoleDoubt'
    <3> SUFFICES ASSUME NEW d \in doubt PROVE Doubted(d)'
      BY <1>1 DEF ConsoleInv, ConsoleDoubt
    <3>1. Doubted(d)
      BY DEF ConsoleInv, ConsoleDoubt
    <3>2. storage.kind = "MUTATION_PENDING" => BoundTo(d.run, storage.scenario)'
      BY <1>1, <3>1 DEF Doubted, BoundTo
    <3>3. timer' # NoTimer
      BY <2>2, <3>1, NoRequest DEF Doubted, Null
    <3> QED
      BY <1>1, <2>2, <2>3, <3>1, <3>2, <3>3 DEF Doubted
  <2> QED
    BY <2>4, <2>5, <2>6, <2>7, <2>8 DEF ConsoleInv
<1> QED
  BY <1>6, <1>7

\* The scheduled resumption runs.
LEMMA TimerKeeps == ASSUME ConsoleInv, resumeTimer PROVE ConsoleInv'
<1>1. timer # NoTimer /\ timer' = NoTimer /\ UNCHANGED <<server, storage, posts, minted, doubt, sent>>
  BY DEF resumeTimer
<1>2. doubt = {} \/ timer.record = storage
  BY <1>1 DEF ConsoleInv, ConsoleDoubt, Doubted
<1>3. page.pending = NoNeed /\ page.view = NoView /\ call.kind \in {Null, "load"}
  BY <1>1 DEF ConsoleInv, ConsoleCall, Null
<1>4. CASE timer.record # NoRecord
  <2>1. PICK record : record = timer.record
    OBVIOUS
  <2>2. resumeStoredAuthority(record) /\ Named(record) /\ record # NoRecord
    BY <1>4, <2>1 DEF resumeTimer, ConsoleInv, ConsoleRuns
  <2> QED
    BY <1>1, <1>2, <1>3, <2>1, <2>2, RestoreKeeps
<1>5. CASE timer.record = NoRecord
  <2>1. doubt = {}
    BY <1>2, <1>5, NoRequest DEF ConsoleInv, ConsoleDoubt, Doubted, Null
  <2>2. CASE timer.run # Null
    <3>1. PICK r, s : r = timer.run /\ s = timer.scenario
      OBVIOUS
    <3>2. resumeLocalRun(page, r, s) /\ r \in Cases
      BY <1>5, <2>2, <3>1 DEF resumeTimer, ConsoleInv, ConsoleRuns
    <3> QED
      BY <1>1, <1>3, <2>1, <3>2, ResumeKeeps
  <2>3. CASE timer.run = Null
    <3>1. UNCHANGED <<page, call>>
      BY <1>5, <2>3 DEF resumeTimer
    <3>2. ConsoleShape' /\ ConsoleRuns'
      BY <1>1, <3>1, NoRequest DEF ConsoleInv, ConsoleShape, ConsoleRuns, Named
    <3>3. ConsoleAnswers' /\ ConsoleView'
      BY <1>1, <3>1 DEF ConsoleInv, ConsoleAnswers, ConsoleView, BoundTo
    <3>4. ConsoleCall' /\ ConsoleDoubt'
      BY <1>1, <1>3, <2>1, <3>1 DEF ConsoleCall, ConsoleDoubt, Null
    <3> QED
      BY <3>2, <3>3, <3>4 DEF ConsoleInv
  <2> QED
    BY <2>2, <2>3
<1> QED
  BY <1>4, <1>5

\* A day passes.
LEMMA ExpireKeeps == ASSUME doubt = {}, ConsoleInv, expire PROVE ConsoleInv'
<1>1. /\ storage' = [storage EXCEPT !.valid = FALSE] /\ doubt' = {} /\ storage # NoRecord
      /\ UNCHANGED <<server, page, call, timer, posts, minted, sent>>
  BY DEF expire
<1>2. DOMAIN storage' = RecordFields /\ storage'.run = storage.run
  BY <1>1 DEF ConsoleInv, ConsoleShape, RecordFields
<1>3. ConsoleShape' /\ ConsoleRuns'
  BY <1>1, <1>2 DEF ConsoleInv, ConsoleShape, ConsoleRuns, Named
<1>4. ConsoleAnswers' /\ ConsoleView'
  BY <1>1 DEF ConsoleInv, ConsoleAnswers, ConsoleView, BoundTo
<1>5. ConsoleCall' /\ ConsoleDoubt'
  BY <1>1 DEF ConsoleInv, ConsoleCall, ConsoleDoubt, BoundTo
<1> QED
  BY <1>3, <1>4, <1>5 DEF ConsoleInv

\* The server moves on: no run it has is lost or bound anew.
ServerGoesOn ==
  /\ DOMAIN server' = Cases /\ \A c \in Cases : DOMAIN server'[c] = {"step", "scenario"}
  /\ \A c \in Cases : server[c].step # 0 => server'[c].step # 0 /\ server'[c].scenario = server[c].scenario

\* The server has the run after the step, bound to the scenario.
BoundToNext(run, scenario) == run \in Cases /\ server'[run].step # 0 /\ server'[run].scenario = scenario

\* A request is answered, for the run it is about, or left waiting.
LEMMA AnswerKeeps ==
  ASSUME ConsoleInv, ServerGoesOn, NEW a, call' = call \/ call' = [call EXCEPT !.answer = a], posts' \subseteq posts,
         call' # call /\ a.is = "view" => a.view.run = call.run /\ BoundToNext(call.run, a.view.scenario),
         UNCHANGED <<storage, page, timer, minted, doubt, sent>>
  PROVE  ConsoleInv'
<1>1. /\ DOMAIN call' = CallFields /\ call'.kind = call.kind /\ call'.run = call.run /\ call'.scenario = call.scenario
      /\ call'.post = call.post
  BY DEF ConsoleInv, ConsoleShape, CallFields
<1>2. call'.answer = call.answer \/ (call'.answer = a /\ call' # call)
  <2>1. CASE call' = call
    BY <2>1
  <2>2. CASE call' # call
    BY <2>2 DEF ConsoleInv, ConsoleShape, CallFields
  <2> QED
    BY <2>1, <2>2
<1>3. ASSUME NEW r, NEW s, BoundTo(r, s) PROVE BoundTo(r, s)'
  BY <1>3 DEF BoundTo, ServerGoesOn
<1>4. ConsoleShape'
  BY <1>1 DEF ConsoleInv, ConsoleShape, ServerGoesOn
<1>5. ConsoleRuns'
  BY <1>1 DEF ConsoleInv, ConsoleRuns, Named
<1>6. ConsoleAnswers'
  <2>1. \A p \in posts' : p.n \in 1..sent' /\ p.run \in Cases /\ (p.n = call'.post => p.run = call'.run)
    BY <1>1 DEF ConsoleInv, ConsoleAnswers
  <2>2. ASSUME call'.answer.is = "view" PROVE call'.answer.view.run = call.run /\ BoundToNext(call.run, call'.answer.view.scenario)
    <3>1. CASE call'.answer = call.answer
      <4>1. PICK r, s : r = call.run /\ s = call.answer.view.scenario
        OBVIOUS
      <4>2. call.answer.view.run = r /\ BoundTo(r, s)
        BY <2>2, <3>1, <4>1 DEF ConsoleInv, ConsoleAnswers
      <4>3. BoundToNext(r, s)
        BY <4>2 DEF BoundTo, BoundToNext, ServerGoesOn
      <4> QED
        BY <3>1, <4>1, <4>2, <4>3
    <3>2. CASE call'.answer = a /\ call' # call
      BY <2>2, <3>2
    <3> QED
      BY <1>2, <3>1, <3>2
  <2>3. call'.answer.is = "view" => call'.answer.view.run = call'.run /\ BoundToNext(call'.run, call'.answer.view.scenario)
    BY <1>1, <2>2
  <2> QED
    BY <2>1, <2>3 DEF ConsoleAnswers, BoundTo, BoundToNext
<1>7. ConsoleView'
  <2>1. PICK r, s : r = page.view.run /\ s = page.scenario
    OBVIOUS
  <2>2. BoundTo(r, s) => BoundTo(r, s)'
    BY <1>3
  <2> QED
    BY <2>1, <2>2 DEF ConsoleInv, ConsoleView, BoundTo
<1>8. ConsoleCall'
  <2>1. PICK r, s : r = call.run /\ s = page.scenario
    OBVIOUS
  <2>2. BoundTo(r, s) => BoundTo(r, s)'
    BY <1>3
  <2> QED
    BY <1>1, <2>1, <2>2 DEF ConsoleInv, ConsoleCall, BoundTo
<1>9. ConsoleDoubt'
  <2> SUFFICES ASSUME NEW d \in doubt PROVE Doubted(d)'
    BY DEF ConsoleInv, ConsoleDoubt
  <2>1. Doubted(d)
    BY DEF ConsoleInv, ConsoleDoubt
  <2>2. PICK r, s : r = d.run /\ s = storage.scenario
    OBVIOUS
  <2>3. BoundTo(r, s) => BoundTo(r, s)'
    BY <1>3
  <2>4. storage.kind = "MUTATION_PENDING" => BoundTo(d.run, storage.scenario)'
    BY <2>1, <2>2, <2>3 DEF Doubted, BoundTo
  <2> QED
    BY <1>1, <2>1, <2>4 DEF Doubted
<1> QED
  BY <1>4, <1>5, <1>6, <1>7, <1>8, <1>9 DEF ConsoleInv

\* A read is answered.
LEMMA ServeGetKeeps == ASSUME ConsoleInv, serveGet PROVE ConsoleInv'
<1>1. PICK a : a = answerTo
  OBVIOUS
<1>2. /\ call' = [call EXCEPT !.answer = a] /\ UNCHANGED <<server, storage, page, timer, posts, minted, doubt, sent>>
      /\ call.kind \in {"load", "resume", "lookup", "readback", "sealed"}
  BY <1>1 DEF serveGet
<1>3. ServerGoesOn
  BY <1>2 DEF ServerGoesOn, ConsoleInv, ConsoleShape
<1>4. ASSUME a.is = "view" PROVE a.view.run = call.run /\ BoundToNext(call.run, a.view.scenario)
  <2>1. call.kind # "load"
    BY <1>1, <1>4 DEF answerTo
  <2>2. call.run \in Cases
    BY <1>2, <2>1 DEF ConsoleInv, ConsoleRuns, Null
  <2>3. a # failed
    BY <1>4 DEF failed
  <2>4. server[call.run].step # 0
    <3>1. Exported # 0
      BY ConsoleAssumption DEF Exported
    <3>2. server[call.run].step = 0 => answerTo = failed
      BY <2>1, <3>1 DEF answerTo
    <3> QED
      BY <1>1, <2>3, <3>2
  <2>5. a = viewed(viewOf(call.run))
    BY <1>1, <1>4, <2>1, <2>4 DEF answerTo
  <2>6. a.view.run = call.run /\ a.view.scenario = server[call.run].scenario
    BY <2>5 DEF viewed, viewOf
  <2> QED
    BY <1>2, <2>2, <2>4, <2>6 DEF BoundToNext
<1> QED
  BY <1>2, <1>3, <1>4, AnswerKeeps

\* An answer is lost on its way.
LEMMA ServeFailsKeeps == ASSUME ConsoleInv, serveFails PROVE ConsoleInv'
<1>1. PICK a : a = failed
  OBVIOUS
<1>2. call' = [call EXCEPT !.answer = a] /\ UNCHANGED <<server, storage, page, timer, posts, minted, doubt, sent>>
  BY <1>1 DEF serveFails
<1>3. ServerGoesOn
  BY <1>2 DEF ServerGoesOn, ConsoleInv, ConsoleShape
<1>4. a.is # "view"
  BY <1>1 DEF failed
<1> QED
  BY <1>2, <1>3, <1>4, AnswerKeeps

\* A mutation is answered for its run, whether or not the page still waits.
LEMMA PostedKeeps ==
  ASSUME ConsoleInv, ServerGoesOn, NEW p \in posts, NEW a, answered(p, a), posts' = posts \ {p},
         a.is = "view" => a.view.run = p.run /\ BoundToNext(p.run, a.view.scenario),
         UNCHANGED <<storage, page, timer, minted, doubt, sent>>
  PROVE  ConsoleInv'
<1>1. call' = call \/ (call.post = p.n /\ call' = [call EXCEPT !.answer = a])
  BY DEF answered
<1>2. call.post = p.n => p.run = call.run
  BY DEF ConsoleInv, ConsoleAnswers
<1>3. call' # call /\ a.is = "view" => a.view.run = call.run /\ BoundToNext(call.run, a.view.scenario)
  BY <1>1, <1>2
<1>4. (call' = call \/ call' = [call EXCEPT !.answer = a]) /\ posts' \subseteq posts
  BY <1>1
<1> QED
  BY <1>3, <1>4, AnswerKeeps

\* A mutation is lost or refused.
LEMMA LosePostKeeps == ASSUME ConsoleInv, NEW p \in posts, losePost(p) PROVE ConsoleInv'
<1>1. posts' = posts \ {p} /\ UNCHANGED <<server, storage, page, timer, minted, doubt, sent>>
  BY DEF losePost
<1>2. ServerGoesOn
  BY <1>1 DEF ServerGoesOn, ConsoleInv, ConsoleShape
<1>3. PICK a : answered(p, a) /\ a.is # "view"
  <2>1. CASE answered(p, failed)
    BY <2>1 DEF failed
  <2>2. CASE answered(p, [is |-> "notAdmitted"])
    BY <2>2
  <2> QED
    BY <2>1, <2>2 DEF losePost
<1> QED
  BY <1>1, <1>2, <1>3, PostedKeeps

\* A mutation is carried out.
LEMMA ServePostKeeps == ASSUME ConsoleInv, NEW p \in posts, servePost(p) PROVE ConsoleInv'
<1>1. posts' = posts \ {p} /\ UNCHANGED <<storage, page, timer, minted, doubt, sent>>
  BY DEF servePost
<1>2. p.run \in Cases /\ DOMAIN server = Cases /\ \A c \in Cases : DOMAIN server[c] = {"step", "scenario"}
  BY DEF ConsoleInv, ConsoleAnswers, ConsoleShape
<1>3. PICK r, was, n : r = p.run /\ was = server[r].step /\ n = Len(Chain) /\ r \in Cases /\ n \in Nat \ {0}
  BY <1>2, ConsoleAssumption
<1>4. PICK bound : bound = server[r].scenario
  OBVIOUS
<1>5. UNCHANGED server => ServerGoesOn
  BY <1>2 DEF ServerGoesOn
<1>6. ASSUME NEW k, server' = [server EXCEPT ![r].step = k], k # 0
      PROVE  ServerGoesOn /\ server'[r].step = k /\ server'[r].scenario = bound
  <2>1. DOMAIN server' = Cases /\ server'[r] = [server[r] EXCEPT !.step = k]
    BY <1>2, <1>3, <1>6
  <2>2. \A c \in Cases : c # r => server'[c] = server[c]
    BY <1>2, <1>6
  <2>3. DOMAIN server'[r] = {"step", "scenario"} /\ server'[r].step = k /\ server'[r].scenario = bound
    BY <1>2, <1>3, <1>4, <2>1
  <2> QED
    BY <1>2, <1>4, <1>6, <2>1, <2>2, <2>3 DEF ServerGoesOn
<1>7. ASSUME NEW a, a.is # "view", answered(p, a), ServerGoesOn PROVE ConsoleInv'
  BY <1>1, <1>7, PostedKeeps
<1>8. ASSUME NEW v, v.run = r, v.scenario = server'[r].scenario, server'[r].step # 0, answered(p, viewed(v)), ServerGoesOn
      PROVE  ConsoleInv'
  <2>1. PICK a : a = viewed(v)
    OBVIOUS
  <2>2. answered(p, a) /\ a.view = v
    BY <1>8, <2>1 DEF viewed
  <2>3. a.view.run = p.run /\ BoundToNext(p.run, a.view.scenario)
    BY <1>3, <1>8, <2>2 DEF BoundToNext
  <2> QED
    BY <1>1, <1>8, <2>2, <2>3, PostedKeeps
<1>9. failed.is # "view"
  BY DEF failed
<1>10. viewOf(r).run = r /\ viewOf(r).scenario = bound /\ DOMAIN viewOf(r) = {"run", "step", "scenario"}
  BY <1>4 DEF viewOf
<1>11. CASE create(p)
  <2>1. CASE was = 0
    <3>1. PICK s : s = p.scenario
      OBVIOUS
    <3>2. server' = [server EXCEPT ![r] = [step |-> 1, scenario |-> s]]
      BY <1>3, <1>11, <2>1, <3>1 DEF create
    <3>3. DOMAIN server' = Cases /\ server'[r] = [step |-> 1, scenario |-> s] /\ \A c \in Cases : c # r => server'[c] = server[c]
      BY <1>2, <1>3, <3>2
    <3>4. DOMAIN server'[r] = {"step", "scenario"} /\ server'[r].step = 1
      BY <3>3
    <3>5. ServerGoesOn
      BY <1>2, <1>3, <2>1, <3>3, <3>4 DEF ServerGoesOn
    <3>6. PICK v : v = [run |-> p.run, step |-> server'[p.run].step, scenario |-> server'[p.run].scenario]
      OBVIOUS
    <3>7. v.run = r /\ v.scenario = server'[r].scenario
      BY <1>3, <3>6
    <3>8. answered(p, viewed(v))
      BY <1>11, <3>6 DEF create
    <3> QED
      BY <1>8, <3>4, <3>5, <3>7, <3>8
  <2>2. CASE was # 0
    <3>1. server' = server
      BY <1>3, <1>11, <2>2 DEF create
    <3>2. PICK v : v = [run |-> p.run, step |-> server'[p.run].step, scenario |-> server'[p.run].scenario]
      OBVIOUS
    <3>3. v.run = r /\ v.scenario = server'[r].scenario
      BY <1>3, <3>2
    <3>4. answered(p, viewed(v))
      BY <1>11, <3>2 DEF create
    <3> QED
      BY <1>3, <1>5, <1>8, <2>2, <3>1, <3>3, <3>4
  <2> QED
    BY <2>1, <2>2
<1>12. CASE execute(p)
  <2>1. CASE /\ was \in 1..n /\ server' = [server EXCEPT ![r].step = was + 1]
             /\ answered(p, viewed([viewOf(r) EXCEPT !.step = was + 1]))
    <3>1. was + 1 # 0
      BY <1>3, <2>1
    <3>2. PICK k, v : k = was + 1 /\ v = [viewOf(r) EXCEPT !.step = k]
      OBVIOUS
    <3>3. server' = [server EXCEPT ![r].step = k] /\ k # 0 /\ answered(p, viewed(v))
      BY <2>1, <3>1, <3>2
    <3>4. v.run = r /\ v.scenario = bound
      BY <1>10, <3>2
    <3>5. ServerGoesOn /\ server'[r].step = k /\ server'[r].scenario = bound
      BY <1>6, <3>3
    <3> QED
      BY <1>8, <3>3, <3>4, <3>5
  <2>2. CASE was - 1 \in 1..n /\ UNCHANGED server /\ answered(p, viewed(viewOf(r)))
    <3>1. was # 0
      BY <1>3, <2>2
    <3>2. PICK v : v = viewOf(r)
      OBVIOUS
    <3>3. v.run = r /\ v.scenario = server'[r].scenario /\ server'[r].step # 0 /\ answered(p, viewed(v))
      BY <1>3, <1>4, <1>10, <2>2, <3>1, <3>2
    <3> QED
      BY <1>5, <1>8, <2>2, <3>3
  <2>3. CASE UNCHANGED server /\ answered(p, failed)
    BY <1>5, <1>7, <1>9, <2>3
  <2> QED
    BY <1>3, <1>12, <2>1, <2>2, <2>3 DEF execute
<1>13. CASE exportAndRetain(p)
  <2>1. CASE /\ was >= n /\ server' = [server EXCEPT ![r].step = Retained]
             /\ answered(p, viewed([viewOf(r) EXCEPT !.step = Retained]))
    <3>1. PICK k, v : k = Retained /\ v = [viewOf(r) EXCEPT !.step = k]
      OBVIOUS
    <3>2. k # 0
      BY <1>3, <3>1 DEF Retained
    <3>3. server' = [server EXCEPT ![r].step = k] /\ answered(p, viewed(v))
      BY <2>1, <3>1
    <3>4. v.run = r /\ v.scenario = bound
      BY <1>10, <3>1
    <3>5. ServerGoesOn /\ server'[r].step = k /\ server'[r].scenario = bound
      BY <1>6, <3>2, <3>3
    <3> QED
      BY <1>8, <3>2, <3>3, <3>4, <3>5
  <2>2. CASE server' = [server EXCEPT ![r].step = Exported] /\ answered(p, failed)
    <3>1. PICK k : k = Exported /\ k # 0
      BY <1>3 DEF Exported
    <3>2. ServerGoesOn
      BY <1>6, <2>2, <3>1
    <3> QED
      BY <1>7, <1>9, <2>2, <3>2
  <2>3. CASE UNCHANGED server /\ answered(p, failed)
    BY <1>5, <1>7, <1>9, <2>3
  <2> QED
    BY <1>3, <1>13, <2>1, <2>2, <2>3 DEF exportAndRetain
<1>14. CASE retain(p)
  <2>1. ServerGoesOn
    <3>1. CASE was = Exported
      <4>1. PICK k : k = Retained /\ k # 0
        BY <1>3 DEF Retained
      <4>2. server' = [server EXCEPT ![r].step = k]
        BY <1>3, <1>14, <3>1, <4>1 DEF retain
      <4> QED
        BY <1>6, <4>1, <4>2
    <3>2. CASE was # Exported
      BY <1>3, <1>5, <1>14, <3>2 DEF retain
    <3> QED
      BY <3>1, <3>2
  <2>2. PICK a : answered(p, a) /\ (a = [is |-> "retained"] \/ a = failed)
    BY <1>14 DEF retain
  <2>3. a.is # "view"
    BY <2>2 DEF failed
  <2> QED
    BY <1>7, <2>1, <2>2, <2>3
<1> QED
  BY <1>11, <1>12, <1>13, <1>14 DEF servePost

\* An answer that settles nothing: the page notes it and waits no longer.
LEMMA QuietKeeps ==
  ASSUME ConsoleInv, call.kind # "execute", NEW e,
         page' = [page EXCEPT !.error = TRUE] \/ page' = [page EXCEPT !.evidence = e],
         call' = NoCall, UNCHANGED <<server, storage, timer, posts, minted, doubt, sent>>
  PROVE  ConsoleInv'
<1>1. /\ DOMAIN page' = PageFields /\ page'.view = page.view /\ page'.pending = page.pending /\ page'.readback = page.readback
      /\ page'.recovery = page.recovery /\ page'.resumeRun = page.resumeRun /\ page'.scenario = page.scenario
      /\ page'.mode = page.mode
  BY DEF ConsoleInv, ConsoleShape, PageFields
<1>2. DOMAIN call' = CallFields /\ call'.kind = Null /\ call'.post = 0 /\ call'.answer.is = Null
  BY NoRequest
<1>3. ConsoleShape' /\ ConsoleRuns'
  BY <1>1, <1>2 DEF ConsoleInv, ConsoleShape, ConsoleRuns, Named
<1>4. ConsoleAnswers'
  BY <1>2, FreshAnswers DEF ConsoleInv
<1>5. ConsoleView'
  BY <1>1 DEF ConsoleInv, ConsoleView, BoundTo
<1>6. ConsoleCall'
  BY <1>1, <1>2 DEF ConsoleInv, ConsoleCall, Null
<1>7. ConsoleDoubt'
  <2> SUFFICES ASSUME NEW d \in doubt PROVE Doubted(d)'
    BY DEF ConsoleInv, ConsoleDoubt
  <2>1. Doubted(d)
    BY DEF ConsoleInv, ConsoleDoubt
  <2>2. storage.kind = "MUTATION_PENDING" => BoundTo(d.run, storage.scenario)'
    BY <2>1 DEF Doubted, BoundTo
  <2> QED
    BY <1>1, <1>2, <2>1, <2>2 DEF Doubted, Null
<1> QED
  BY <1>3, <1>4, <1>5, <1>6, <1>7 DEF ConsoleInv

\* Learning the outcome of the run the page waits for ends every doubt.
LEMMA Learns == ASSUME ConsoleInv, call.kind # Null, learnt(call.run) PROVE doubt' = {}
<1>1. ASSUME NEW d \in doubt PROVE d.run = call.run
  BY DEF ConsoleInv, ConsoleDoubt, Doubted
<1> QED
  BY <1>1 DEF learnt

\* An answer that settles the doubt: what is shown was read from the
\* server.
LEMMA SettledKeeps ==
  ASSUME ConsoleInv, timer = NoTimer, call' = NoCall, doubt' = {}, DOMAIN page' = PageFields, page'.pending = NoNeed,
         page'.readback = NoNeed \/ page'.readback = page.readback, page'.resumeRun \in Cases \cup {Null},
         Named(page'.recovery), DOMAIN storage' = RecordFields, Named(storage'), ConsoleView',
         UNCHANGED <<server, timer, posts, minted, sent>>
  PROVE  ConsoleInv'
<1>1. DOMAIN call' = CallFields /\ call'.kind = Null /\ call'.post = 0 /\ call'.answer.is = Null
  BY NoRequest
<1>2. ConsoleShape'
  BY <1>1 DEF ConsoleInv, ConsoleShape
<1>3. ConsoleRuns'
  BY <1>1 DEF ConsoleInv, ConsoleRuns, Named
<1>4. ConsoleAnswers'
  BY <1>1, FreshAnswers DEF ConsoleInv
<1>5. ConsoleCall' /\ ConsoleDoubt'
  BY <1>1 DEF ConsoleCall, ConsoleDoubt, Null
<1> QED
  BY <1>2, <1>3, <1>4, <1>5 DEF ConsoleInv

\* The record of a settled doubt is removed, or stays when that fails.
LEMMA ClearedKeeps ==
  ASSUME ConsoleInv, timer = NoTimer, call' = NoCall, doubt' = {}, NEW p, DOMAIN p = PageFields, p.pending = NoNeed,
         p.readback = NoNeed \/ p.readback = page.readback, p.resumeRun \in Cases \cup {Null}, p.recovery = page.recovery,
         p.view # NoView => p.mode = "local" /\ p.view.scenario = p.scenario /\ BoundTo(p.view.run, p.scenario),
         clearVerifiedRecoveryAuthority(p) \/ (page' = p /\ storage' = storage),
         UNCHANGED <<server, timer, posts, minted, sent>>
  PROVE  ConsoleInv'
<1>1. \/ storage' = NoRecord /\ page' = [p EXCEPT !.recovery = NoRecord, !.invalid = FALSE]
      \/ storage' = storage /\ page' = [p EXCEPT !.error = TRUE]
      \/ storage' = storage /\ page' = p
  BY DEF clearVerifiedRecoveryAuthority
<1>2. /\ DOMAIN page' = PageFields /\ page'.view = p.view /\ page'.pending = p.pending /\ page'.readback = p.readback
      /\ page'.recovery = p.recovery \/ page'.recovery = NoRecord
      /\ page'.resumeRun = p.resumeRun /\ page'.scenario = p.scenario /\ page'.mode = p.mode
  BY <1>1 DEF PageFields
<1>3. DOMAIN storage' = RecordFields /\ Named(storage') /\ Named(page'.recovery)
  BY <1>1, <1>2, NoRequest DEF ConsoleInv, ConsoleShape, ConsoleRuns, Named
<1>4. ConsoleView'
  BY <1>2 DEF ConsoleView, BoundTo
<1> QED
  BY <1>2, <1>3, <1>4, SettledKeeps

\* The view that was asked for: the server has the run, bound as shown.
LEMMA ParsedView ==
  ASSUME ConsoleInv, NEW v, v = call.answer.view, call.answer.is = "view"
  PROVE  v.run = call.run /\ v.run \in Cases /\ BoundTo(v.run, v.scenario)
  BY DEF ConsoleInv, ConsoleAnswers, BoundTo

\* A run, or the run a creation made, is read and shown.
LEMMA AdoptKeeps ==
  ASSUME ConsoleInv, call.kind \in {"resume", "readback"}, parseProtectionCaseView(call.answer, call.run, call.scenario),
         clearVerifiedRecoveryAuthority(adopt(page, call.answer.view))
           \/ (page' = adopt(page, call.answer.view) /\ storage' = storage),
         learnt(call.run), call' = NoCall, UNCHANGED <<server, timer, posts, minted, sent>>
  PROVE  ConsoleInv'
<1>1. PICK v, p : v = call.answer.view /\ p = adopt(page, v)
  OBVIOUS
<1>2. v.run = call.run /\ v.run \in Cases /\ BoundTo(v.run, v.scenario) /\ v.scenario = call.scenario
  BY <1>1, ParsedView DEF parseProtectionCaseView
<1>3. /\ DOMAIN p = PageFields /\ p.view = v /\ p.resumeRun = v.run /\ p.readback = NoNeed /\ p.pending = page.pending
      /\ p.recovery = page.recovery /\ p.scenario = page.scenario /\ p.mode = page.mode
  <2>1. PICK r : r = v.run
    OBVIOUS
  <2>2. p = [page EXCEPT !.view = v, !.resumeRun = r, !.readback = NoNeed]
    BY <1>1, <2>1 DEF adopt
  <2> QED
    BY <2>1, <2>2 DEF ConsoleInv, ConsoleShape, PageFields
<1>4. page.pending = NoNeed /\ page.mode = "local" /\ page.scenario = call.scenario /\ timer = NoTimer
  BY DEF ConsoleInv, ConsoleCall, Null
<1>5. doubt' = {}
  BY Learns DEF Null
<1>6. clearVerifiedRecoveryAuthority(p) \/ (page' = p /\ storage' = storage)
  BY <1>1
<1>7. p.mode = "local" /\ p.view.scenario = p.scenario /\ BoundTo(p.view.run, p.scenario)
  BY <1>2, <1>3, <1>4
<1>8. p.pending = NoNeed /\ p.resumeRun \in Cases \cup {Null}
  BY <1>2, <1>3, <1>4
<1> QED
  BY <1>3, <1>4, <1>5, <1>6, <1>7, <1>8, ClearedKeeps

\* Retained evidence arrives.
LEMMA ImportedLoadedKeeps ==
  ASSUME ConsoleInv, importedLoaded, UNCHANGED <<server, timer, posts, minted, sent>>
  PROVE  ConsoleInv'
<1>1. PICK e : e = call.scenario
  OBVIOUS
<1>2. /\ page' = [page EXCEPT !.error = TRUE] \/ page' = [page EXCEPT !.evidence = e]
      /\ call' = NoCall /\ UNCHANGED <<storage, doubt>> /\ call.kind # "execute"
  BY <1>1 DEF importedLoaded, refused, idle
<1> QED
  BY <1>2, QuietKeeps

\* A run arrives.
LEMMA RunResumedKeeps ==
  ASSUME ConsoleInv, runResumed, UNCHANGED <<server, timer, posts, minted, sent>>
  PROVE  ConsoleInv'
<1>1. call.kind = "resume" /\ call' = NoCall
  BY DEF runResumed, idle
<1>2. page.pending = NoNeed /\ timer = NoTimer /\ call.run \in Cases
  BY <1>1 DEF ConsoleInv, ConsoleCall, ConsoleRuns, Null
<1>3. CASE page' = [page EXCEPT !.error = TRUE] /\ UNCHANGED <<storage, doubt>>
  BY <1>1, <1>3, QuietKeeps
<1>4. ASSUME NEW record, record = retentionRequiredRecovery(call.scenario, call.run), storage' = record, learnt(call.run),
             page' = [page EXCEPT !.recovery = record, !.invalid = FALSE, !.pending = NoNeed,
                                  !.readback = NoNeed, !.view = NoView, !.error = FALSE]
      PROVE  ConsoleInv'
  <2>1. DOMAIN record = RecordFields /\ record.run = call.run
    BY <1>4 DEF retentionRequiredRecovery, RecordFields
  <2>2. /\ DOMAIN page' = PageFields /\ page'.view = NoView /\ page'.pending = NoNeed /\ page'.readback = NoNeed
        /\ page'.recovery = record /\ page'.resumeRun = page.resumeRun
    BY <1>4 DEF ConsoleInv, ConsoleShape, PageFields
  <2>3. Named(page'.recovery) /\ Named(storage') /\ DOMAIN storage' = RecordFields
    BY <1>2, <1>4, <2>1, <2>2 DEF Named
  <2>4. doubt' = {}
    BY <1>1, <1>4, Learns DEF Null
  <2>5. page'.resumeRun \in Cases \cup {Null} /\ ConsoleView'
    BY <2>2 DEF ConsoleInv, ConsoleRuns, ConsoleView
  <2> QED
    BY <1>1, <1>2, <2>2, <2>3, <2>4, <2>5, SettledKeeps
<1>5. CASE /\ parseProtectionCaseView(call.answer, call.run, call.scenario) /\ learnt(call.run)
           /\ clearVerifiedRecoveryAuthority(adopt(page, call.answer.view))
                \/ (page' = adopt(page, call.answer.view) /\ storage' = storage)
  BY <1>1, <1>5, AdoptKeeps
<1> QED
  BY <1>3, <1>4, <1>5 DEF runResumed, refused, retainRecoveryAuthority

\* The run of a creation arrives.
LEMMA CreationRecoveredKeeps ==
  ASSUME ConsoleInv, creationRecovered, UNCHANGED <<server, timer, posts, minted, sent>>
  PROVE  ConsoleInv'
<1>1. call.kind = "readback" /\ call' = NoCall
  BY DEF creationRecovered, idle
<1>2. CASE page' = [page EXCEPT !.error = TRUE] /\ UNCHANGED <<storage, doubt>>
  BY <1>1, <1>2, QuietKeeps
<1>3. CASE /\ parseProtectionCaseView(call.answer, call.run, call.scenario) /\ learnt(call.run)
           /\ clearVerifiedRecoveryAuthority(adopt(page, call.answer.view))
  BY <1>1, <1>3, AdoptKeeps
<1> QED
  BY <1>2, <1>3 DEF creationRecovered, refused

\* The run a creation made is named, and then read.
LEMMA CreationLookedUpKeeps ==
  ASSUME ConsoleInv, creationLookedUp, UNCHANGED <<server, timer, posts, minted, sent>>
  PROVE  ConsoleInv'
<1>1. call.kind = "lookup"
  BY DEF creationLookedUp
<1>2. CASE page' = [page EXCEPT !.error = TRUE] /\ call' = NoCall /\ UNCHANGED <<storage, doubt>>
  BY <1>1, <1>2, QuietKeeps
<1>3. CASE /\ call.answer.is = "view" /\ page' = [page EXCEPT !.resumeRun = call.answer.view.run]
           /\ beginRequest("readback", call.answer.view.run, call.scenario, FALSE, 0)
           /\ UNCHANGED <<storage, doubt>>
  <2>1. PICK v, r, s : v = call.answer.view /\ r = v.run /\ s = call.scenario
    OBVIOUS
  <2>2. r = call.run /\ r \in Cases
    BY <1>3, <2>1, ParsedView
  <2>3. /\ DOMAIN call' = CallFields /\ call'.kind = "readback" /\ call'.run = r /\ call'.scenario = s /\ call'.post = 0
        /\ call'.answer.is = Null
    BY <1>3, <2>1, Begun
  <2>4. page' = [page EXCEPT !.resumeRun = r]
    BY <1>3, <2>1
  <2>5. /\ DOMAIN page' = PageFields /\ page'.view = page.view /\ page'.pending = page.pending /\ page'.readback = page.readback
        /\ page'.recovery = page.recovery /\ page'.resumeRun = r /\ page'.scenario = page.scenario /\ page'.mode = page.mode
    BY <2>4 DEF ConsoleInv, ConsoleShape, PageFields
  <2>6. ConsoleShape' /\ ConsoleRuns'
    BY <1>3, <2>2, <2>3, <2>5 DEF ConsoleInv, ConsoleShape, ConsoleRuns, Named
  <2>7. ConsoleAnswers'
    BY <2>3, FreshAnswers DEF ConsoleInv
  <2>8. ConsoleView'
    BY <2>5 DEF ConsoleInv, ConsoleView, BoundTo
  <2>9. ConsoleCall'
    BY <1>1, <2>1, <2>3, <2>5 DEF ConsoleInv, ConsoleCall, Null
  <2>10. ConsoleDoubt'
    <3> SUFFICES ASSUME NEW d \in doubt PROVE Doubted(d)'
      BY <1>3 DEF ConsoleInv, ConsoleDoubt
    <3>1. Doubted(d)
      BY DEF ConsoleInv, ConsoleDoubt
    <3>2. storage.kind = "MUTATION_PENDING" => BoundTo(d.run, storage.scenario)'
      BY <1>3, <3>1 DEF Doubted, BoundTo
    <3>3. timer = NoTimer /\ r = d.run
      BY <1>1, <2>2, <3>1 DEF Doubted, Null
    <3> QED
      BY <1>1, <1>3, <2>3, <2>5, <3>1, <3>2, <3>3 DEF Doubted
  <2> QED
    BY <2>6, <2>7, <2>8, <2>9, <2>10 DEF ConsoleInv
<1> QED
  BY <1>2, <1>3 DEF creationLookedUp, refused, idle

\* The run just created arrives, under the scenario the server bound it to.
LEMMA RunCreatedKeeps ==
  ASSUME ConsoleInv, runCreated, UNCHANGED <<server, timer, posts, minted, sent>>
  PROVE  ConsoleInv'
<1>1. call.kind = "create" /\ call' = NoCall
  BY DEF runCreated, idle
<1>2. page.pending = NoNeed /\ timer = NoTimer /\ page.mode = "local"
  BY <1>1 DEF ConsoleInv, ConsoleCall, Null
<1>3. CASE page' = [page EXCEPT !.error = TRUE] /\ UNCHANGED <<storage, doubt>>
  BY <1>1, <1>3, QuietKeeps
<1>4. CASE /\ call.answer.is = "view" /\ learnt(call.run)
           /\ clearVerifiedRecoveryAuthority(
                [page EXCEPT !.view = call.answer.view, !.resumeRun = call.answer.view.run,
                             !.scenario = boundScenario(call.answer.view)])
  <2>1. PICK v, r, s : v = call.answer.view /\ r = v.run /\ s = v.scenario
    OBVIOUS
  <2>2. r \in Cases /\ BoundTo(r, s)
    BY <1>4, <2>1, ParsedView
  <2>3. PICK p : p = [page EXCEPT !.view = v, !.resumeRun = r, !.scenario = s]
    OBVIOUS
  <2>4. clearVerifiedRecoveryAuthority(p)
    BY <1>4, <2>1, <2>3 DEF boundScenario
  <2>5. /\ DOMAIN p = PageFields /\ p.view = v /\ p.resumeRun = r /\ p.readback = page.readback /\ p.pending = NoNeed
        /\ p.recovery = page.recovery /\ p.scenario = s /\ p.mode = "local"
    BY <1>2, <2>3 DEF ConsoleInv, ConsoleShape, PageFields
  <2>6. doubt' = {}
    BY <1>1, <1>4, Learns DEF Null
  <2>7. p.view.scenario = p.scenario /\ BoundTo(p.view.run, p.scenario) /\ p.resumeRun \in Cases \cup {Null}
    BY <2>1, <2>2, <2>5
  <2> QED
    BY <1>1, <1>2, <2>4, <2>5, <2>6, <2>7, ClearedKeeps
<1> QED
  BY <1>3, <1>4 DEF runCreated, refused

\* The answer to an operation arrives.
LEMMA NextExecutedKeeps ==
  ASSUME ConsoleInv, nextExecuted, UNCHANGED <<server, timer, posts, minted, sent>>
  PROVE  ConsoleInv'
<1>1. call.kind = "execute" /\ call' = NoCall
  BY DEF nextExecuted, idle
<1>2. timer = NoTimer /\ page.mode = "local" /\ page.scenario = call.scenario
  BY <1>1 DEF ConsoleInv, ConsoleCall, Null
<1>3. learnt(call.run) => doubt' = {}
  BY <1>1, Learns DEF Null
<1>4. page.resumeRun \in Cases \cup {Null}
  BY DEF ConsoleInv, ConsoleRuns
<1>5. CASE /\ parseProtectionCaseView(call.answer, call.run, call.scenario) /\ learnt(call.run)
           /\ clearVerifiedRecoveryAuthority(
                [page EXCEPT !.pending = NoNeed, !.view = call.answer.view, !.readback = NoNeed])
  <2>1. PICK v : v = call.answer.view
    OBVIOUS
  <2>2. BoundTo(v.run, v.scenario) /\ v.scenario = call.scenario
    BY <1>5, <2>1, ParsedView DEF parseProtectionCaseView
  <2>3. PICK p : p = [page EXCEPT !.pending = NoNeed, !.view = v, !.readback = NoNeed]
    OBVIOUS
  <2>4. clearVerifiedRecoveryAuthority(p)
    BY <1>5, <2>1, <2>3
  <2>5. /\ DOMAIN p = PageFields /\ p.view = v /\ p.resumeRun = page.resumeRun /\ p.readback = NoNeed /\ p.pending = NoNeed
        /\ p.recovery = page.recovery /\ p.scenario = page.scenario /\ p.mode = page.mode
    BY <2>3 DEF ConsoleInv, ConsoleShape, PageFields
  <2>6. p.mode = "local" /\ p.view.scenario = p.scenario /\ BoundTo(p.view.run, p.scenario) /\ p.resumeRun \in Cases \cup {Null}
    BY <1>2, <1>4, <2>2, <2>5
  <2> QED
    BY <1>1, <1>2, <1>3, <1>5, <2>4, <2>5, <2>6, ClearedKeeps
<1>6. CASE learnt(call.run) /\ clearVerifiedRecoveryAuthority([page EXCEPT !.pending = NoNeed, !.error = TRUE])
  <2>1. PICK p : p = [page EXCEPT !.pending = NoNeed, !.error = TRUE]
    OBVIOUS
  <2>2. clearVerifiedRecoveryAuthority(p)
    BY <1>6, <2>1
  <2>3. /\ DOMAIN p = PageFields /\ p.view = page.view /\ p.resumeRun = page.resumeRun /\ p.readback = page.readback
        /\ p.pending = NoNeed /\ p.recovery = page.recovery /\ p.scenario = page.scenario /\ p.mode = page.mode
    BY <2>1 DEF ConsoleInv, ConsoleShape, PageFields
  <2>4. p.view # NoView => p.mode = "local" /\ p.view.scenario = p.scenario /\ BoundTo(p.view.run, p.scenario)
    BY <2>3 DEF ConsoleInv, ConsoleView
  <2> QED
    BY <1>1, <1>2, <1>3, <1>4, <1>6, <2>2, <2>3, <2>4, ClearedKeeps
<1>7. CASE /\ page' = [requireDurableReadback(page, page.pending) EXCEPT !.recovery = recordRequired(page.pending)]
           /\ requireRecord(page.pending) /\ UNCHANGED doubt
  <2>1. PICK need : need = page.pending
    OBVIOUS
  <2>2. /\ page' = [requireDurableReadback(page, need) EXCEPT !.recovery = recordRequired(need)]
        /\ requireRecord(need) /\ UNCHANGED doubt
    BY <1>7, <2>1
  <2> QED
    BY <1>1, <1>2, <2>1, <2>2, Interrupted
<1> QED
  BY <1>5, <1>6, <1>7 DEF nextExecuted

\* The evidence is retained, and the run is then read.
LEMMA EvidenceRetainedKeeps ==
  ASSUME ConsoleInv, evidenceRetained, UNCHANGED <<server, timer, posts, minted, sent>>
  PROVE  ConsoleInv'
<1>1. call.kind = "retain"
  BY DEF evidenceRetained
<1>2. CASE page' = [page EXCEPT !.error = TRUE] /\ call' = NoCall /\ UNCHANGED <<storage, doubt>>
  BY <1>1, <1>2, QuietKeeps
<1>3. CASE beginRequest("sealed", call.run, call.scenario, FALSE, 0) /\ UNCHANGED <<page, storage, doubt>>
  <2>1. PICK r, s : r = call.run /\ s = call.scenario
    OBVIOUS
  <2>2. DOMAIN call' = CallFields /\ call'.kind = "sealed" /\ call'.run = r /\ call'.post = 0 /\ call'.answer.is = Null
    BY <1>3, <2>1, Begun
  <2>3. doubt = {} /\ page.pending = NoNeed /\ timer = NoTimer /\ r \in Cases
    BY <1>1, <2>1 DEF ConsoleInv, ConsoleDoubt, Doubted, ConsoleCall, ConsoleRuns, Null
  <2>4. ConsoleShape' /\ ConsoleRuns'
    BY <1>3, <2>2, <2>3 DEF ConsoleInv, ConsoleShape, ConsoleRuns, Named
  <2>5. ConsoleAnswers'
    BY <2>2, FreshAnswers DEF ConsoleInv
  <2>6. ConsoleView'
    BY <1>3 DEF ConsoleInv, ConsoleView, BoundTo
  <2>7. ConsoleCall' /\ ConsoleDoubt'
    BY <1>3, <2>2, <2>3 DEF ConsoleCall, ConsoleDoubt, Null
  <2> QED
    BY <2>4, <2>5, <2>6, <2>7 DEF ConsoleInv
<1> QED
  BY <1>2, <1>3 DEF evidenceRetained, refused, idle

\* The run of a finished retention arrives.
LEMMA RetentionSealedKeeps ==
  ASSUME ConsoleInv, retentionSealed, UNCHANGED <<server, timer, posts, minted, sent>>
  PROVE  ConsoleInv'
<1>1. call.kind = "sealed" /\ call' = NoCall
  BY DEF retentionSealed, idle
<1>2. page.pending = NoNeed /\ timer = NoTimer
  BY <1>1 DEF ConsoleInv, ConsoleCall, Null
<1>3. CASE page' = [page EXCEPT !.error = TRUE] /\ UNCHANGED <<storage, doubt>>
  BY <1>1, <1>3, QuietKeeps
<1>4. CASE /\ parseProtectionCaseView(call.answer, call.run, call.scenario) /\ learnt(call.run)
           /\ clearVerifiedRecoveryAuthority(
                [adopt(page, call.answer.view) EXCEPT !.scenario = call.scenario, !.mode = "local"])
  <2>1. PICK v, q, s : v = call.answer.view /\ q = adopt(page, v) /\ s = call.scenario
    OBVIOUS
  <2>2. v.run \in Cases /\ BoundTo(v.run, v.scenario) /\ v.scenario = s
    BY <1>4, <2>1, ParsedView DEF parseProtectionCaseView
  <2>3. /\ DOMAIN q = PageFields /\ q.view = v /\ q.resumeRun = v.run /\ q.readback = NoNeed /\ q.pending = page.pending
        /\ q.recovery = page.recovery
    <3>1. PICK r : r = v.run
      OBVIOUS
    <3>2. q = [page EXCEPT !.view = v, !.resumeRun = r, !.readback = NoNeed]
      BY <2>1, <3>1 DEF adopt
    <3> QED
      BY <3>1, <3>2 DEF ConsoleInv, ConsoleShape, PageFields
  <2>4. PICK p : p = [q EXCEPT !.scenario = s, !.mode = "local"]
    OBVIOUS
  <2>5. clearVerifiedRecoveryAuthority(p)
    BY <1>4, <2>1, <2>4
  <2>6. /\ DOMAIN p = PageFields /\ p.view = v /\ p.resumeRun = v.run /\ p.readback = NoNeed /\ p.pending = page.pending
        /\ p.recovery = page.recovery /\ p.scenario = s /\ p.mode = "local"
    BY <2>3, <2>4 DEF PageFields
  <2>7. doubt' = {}
    BY <1>1, <1>4, Learns DEF Null
  <2>8. p.view.scenario = p.scenario /\ BoundTo(p.view.run, p.scenario) /\ p.resumeRun \in Cases \cup {Null} /\ p.pending = NoNeed
    BY <1>2, <2>2, <2>6
  <2> QED
    BY <1>1, <1>2, <2>5, <2>6, <2>7, <2>8, ClearedKeeps
<1> QED
  BY <1>3, <1>4 DEF retentionSealed, refused

\* An answer is delivered.
LEMMA DeliverKeeps == ASSUME ConsoleInv, deliver PROVE ConsoleInv'
<1>1. UNCHANGED <<server, timer, posts, minted, sent>>
  BY DEF deliver
<1> QED
  BY <1>1, ImportedLoadedKeeps, RunResumedKeeps, CreationLookedUpKeeps, CreationRecoveredKeeps, RunCreatedKeeps,
     NextExecutedKeeps, EvidenceRetainedKeeps, RetentionSealedKeeps DEF deliver

\* Every step keeps the invariant unless one of the unguarded cases
\* happens in it.
LEMMA ConsoleStep ==
  ASSUME lapses = {} => ConsoleInv, [ConsoleNext]_consoleVars, lapses' = {}
  PROVE  ConsoleInv'
<1>1. lapses = {}
  BY DEF ConsoleNext, consoleVars
<1>2. ConsoleInv
  BY <1>1
<1>3. ASSUME lapses' = lapses \cup early PROVE timer = NoTimer
  BY <1>3 DEF early
<1>4. CASE (\E scenario \in Scenarios : clickScenario(scenario)) /\ lapses' = lapses \cup early
  BY <1>2, <1>3, <1>4, ClickScenarioKeeps
<1>5. CASE (\E id \in Cases : startLocalRun(id) \/ startCustomLocalRun(id)) /\ lapses' = lapses \cup early
  <2>1. PICK id \in Cases, custom \in BOOLEAN : startRun(id, custom)
    BY <1>5 DEF startLocalRun, startCustomLocalRun
  <2> QED
    BY <1>2, <1>3, <1>5, <2>1, StartCaseKeeps
<1>6. CASE (executeNext \/ finishEvidenceRetention \/ clickResume \/ clickRecover) /\ lapses' = lapses \cup early
  BY <1>2, <1>3, <1>6, ExecuteKeeps, FinishRetentionKeeps, ClickResumeKeeps, ClickRecoverKeeps
<1>7. CASE /\ \E scenario \in Scenarios, run \in minted \cup {Null}, wrong \in BOOLEAN : popstate(scenario, run, wrong)
           /\ lapses' = lapses \cup early \cup backOver
  <2>1. timer = NoTimer /\ backOver = {}
    BY <1>7 DEF early, backOver
  <2> QED
    BY <1>2, <1>7, <2>1, PopstateKeeps
<1>8. CASE expire /\ lapses' = lapses \cup outlived
  <2>1. doubt = {}
    BY <1>8 DEF outlived
  <2> QED
    BY <1>2, <1>8, <2>1, ExpireKeeps
<1>9. CASE abandonUnresolvedRecovery \/ \E scenario \in Scenarios, run \in minted \cup {Null} : reload(scenario, run)
  BY <1>2, <1>9, AbandonKeeps, ReloadKeeps
<1>10. CASE resumeTimer \/ serveGet \/ serveFails
  BY <1>2, <1>10, TimerKeeps, ServeGetKeeps, ServeFailsKeeps
<1>11. CASE \E p \in posts : servePost(p) \/ losePost(p)
  BY <1>2, <1>11, ServePostKeeps, LosePostKeeps
<1>12. CASE deliver
  BY <1>2, <1>12, DeliverKeeps
<1>13. CASE UNCHANGED consoleVars
  BY <1>2, <1>13 DEF consoleVars, ConsoleInv, ConsoleShape, ConsoleRuns, Named, ConsoleAnswers, ConsoleView,
                     ConsoleCall, ConsoleDoubt, Doubted, BoundTo
<1> QED
  BY <1>4, <1>5, <1>6, <1>7, <1>8, <1>9, <1>10, <1>11, <1>12, <1>13 DEF ConsoleNext

\* The page, its stored record, the request it waits for and the server
\* agree in every state of the console until the operator acts before the
\* scheduled resumption, steps back while a page opened at one run
\* recovers another, or lets a record in doubt expire
\* (resumeStoredAuthority, requireDurableReadback,
\* clearVerifiedRecoveryAuthority).
THEOREM ConsoleInvariant == ConsoleSpec => [](lapses = {} => ConsoleInv)
<1>1. ConsoleInit => (lapses = {} => ConsoleInv)
  BY ConsoleStart
<1>2. (lapses = {} => ConsoleInv) /\ [ConsoleNext]_consoleVars => (lapses = {} => ConsoleInv)'
  BY ConsoleStep
<1> QED
  BY <1>1, <1>2, PTL DEF ConsoleSpec

\* Until one of the three unguarded cases has happened, whatever the page
\* dispatched and has not learnt the outcome of is named by the record in
\* session storage (executeNext, startLocalRun: the record is written
\* before the dispatch).
THEOREM DoubtStaysRetained == ConsoleSpec => []DoubtIsRetained
<1>1. (lapses = {} => ConsoleInv) => DoubtIsRetained
  BY DEF ConsoleInv, ConsoleDoubt, Doubted, DoubtIsRetained, DoubtIsAlwaysRetained
<1> QED
  BY <1>1, ConsoleInvariant, PTL

\* Until one of the three unguarded cases has happened, the page never
\* dispatches a mutation while the outcome of another is unknown to it
\* (the guards of startLocalRun and executeNext).
THEOREM NoMutationIsBlind == ConsoleSpec => []NoBlindMutation
<1>1. ASSUME lapses = {} => ConsoleInv PROVE NoBlindMutation
  <2> SUFFICES ASSUME ConsoleInv PROVE Cardinality(doubt) <= 1
    BY <1>1 DEF NoBlindMutation, MutationIsNeverBlind
  <2>1. CASE doubt = {}
    BY <2>1, FS_EmptySet
  <2>2. CASE doubt # {}
    <3>1. PICK d \in doubt : \A e \in doubt : e = d
      BY <2>2 DEF ConsoleInv, ConsoleDoubt
    <3>2. doubt = {d}
      BY <3>1
    <3> QED
      BY <3>2, FS_Singleton
  <2> QED
    BY <2>1, <2>2
<1> QED
  BY <1>1, ConsoleInvariant, PTL

\* Until one of the three unguarded cases has happened, a page that rests
\* with an operation in doubt offers the read that settles it, under the
\* scenario the server bound the run to, so that a truthful answer is
\* accepted (requireDurableReadback, resumeLocalRun, boundScenario).
THEOREM RecoveryStaysPossible == ConsoleSpec => []RecoveryCanComplete
<1>1. ASSUME lapses = {} => ConsoleInv PROVE RecoveryCanComplete
  <2> SUFFICES ASSUME ConsoleInv, NEW d \in doubt, d.operation # "create", call = NoCall, timer = NoTimer, ~page.invalid
               PROVE  /\ page.recovery.kind = "MUTATION_PENDING" /\ page.resumeRun = d.run
                      /\ page.scenario = server[d.run].scenario
                      /\ ~activeCase \/ page.error
    BY <1>1 DEF RecoveryCanComplete
  <2>1. Doubted(d) /\ call.kind = Null
    BY NoRequest DEF ConsoleInv, ConsoleDoubt
  <2>2. storage.kind = "MUTATION_PENDING" /\ page.recovery = storage
    BY <2>1 DEF Doubted
  <2>3. page.view = NoView /\ page.mode = "local" /\ page.resumeRun = d.run /\ page.scenario = storage.scenario
    BY <2>1, <2>2 DEF Doubted, Null
  <2>4. server[d.run].scenario = storage.scenario
    BY <2>1, <2>2 DEF Doubted, BoundTo
  <2> QED
    BY <2>2, <2>3, <2>4 DEF activeCase
<1> QED
  BY <1>1, ConsoleInvariant, PTL
=============================================================================
