-------------------------- MODULE SettlementBridge --------------------------
(***************************************************************************)
(* How a governed result becomes a signed release and a case on chain: the *)
(* settlement profile store, the bridge executors and the relay script,    *)
(* composed with the adapter.  Several processes share one run directory:  *)
(* committers write the settlement profile, the FHE runtime publishes the  *)
(* result, executors prepare, simulate and sign, and any of them may crash *)
(* between two steps.  A step here is one file-system call or one round of *)
(* chain reads; the adapter's transactions interleave with all of them.    *)
(*                                                                         *)
(* The direct-participant path is modelled: one run, one result, one       *)
(* adapter deployed for it.  Wallet admission and the evidence's own       *)
(* signatures are taken as verified: ParticipantAdmission and              *)
(* EvidenceChain model them.                                               *)
(***************************************************************************)
EXTENDS RecourseAdapter

CONSTANTS
    Run, Result,     \* the run and the digest of its governed result
    Committers,      \* processes that may commit the run's settlement profile
    Executors,       \* processes that run the bridge executor and the relay
    Profiles,        \* settlement profiles that may be proposed
    Configurations,  \* canonical participant configurations that may be selected
    Admitted,        \* the wallets admitted to the run, from the bridge evidence
    None,            \* no file, no release, no plan
    Partial,         \* a profile file created and not yet written
    MaxAge           \* BRIDGE_SIMULATION_MAX_AGE_SECONDS, scaled down

(* A settlement profile's economics; "authorized" is its settlement mode.  *)
Profile ==
    [holder : [Sides -> Accounts], payout : [Sides -> Nat], authorized : BOOLEAN]

(* What the executor's release and the plan derived from a profile share.  *)
Terms == [holder : [Sides -> Accounts \cup {Zero}], payout : [Sides -> Nat]]

TermsOf(r) == [holder |-> r.holder, payout |-> r.payout]

ASSUME BridgeAssumption ==
    /\ Run \in Runs /\ Result \in Results
    /\ Profiles \subseteq Profile
    /\ Configurations \subseteq Terms
    /\ Admitted \in [Sides -> Accounts]
    /\ None \notin Releases \cup Profiles \cup Terms
    /\ Partial \notin Profiles \cup {None}
    /\ MaxAge \in Nat

VARIABLES
    profileFile,     \* settlement-profile.json of the run
    resultFile,      \* the first result-bearing artifact of the run, and its Boolean
    configuration,   \* the selected participant configuration
    committer,       \* the committing processes
    executor,        \* the executors' in-memory state
    bridgeRecord,    \* bridge/<governedResultDigest>.json
    authorized,      \* releases whose signature sign has handed out
    mempool          \* releases once broadcast, which anyone may submit again

fileVars   == <<profileFile, resultFile, configuration, committer>>
signVars   == <<executor, bridgeRecord, authorized, mempool>>
bridgeVars == <<vars, fileVars, signVars>>

CommitPhases == {"idle", "asked", "checked", "opened", "done", "refused"}

ExecutorPhases == {"idle", "prepared", "permitted", "signed", "sent", "reconciled"}

(* "blind": no result was on disk when the committer chose its profile.    *)
Idle == [phase |-> "idle", profile |-> None, blind |-> TRUE]

Unprepared == [phase |-> "idle", release |-> None, plan |-> None, simulatedAt |-> 0]

BridgeInit ==
    /\ Init
    /\ profileFile = None
    /\ resultFile = "absent"
    /\ configuration \in Configurations
    /\ committer = [c \in Committers |-> Idle]
    /\ executor = [e \in Executors |-> Unprepared]
    /\ bridgeRecord = None
    /\ authorized = {}
    /\ mempool = {}

-----------------------------------------------------------------------------
(* commitSettlementProfile: check that no result exists, create the file,  *)
(* write it.  The profile is the caller's argument, so it was chosen first. *)

(* assertWellFormedSettlementProfile *)
wellFormed(p) ==
    /\ \A s \in Sides : p.payout[s] > 0
    /\ p.holder["A"] # p.holder["B"]

proposeProfile(c, p) ==
    /\ committer[c].phase = "idle"
    /\ wellFormed(p)
    /\ committer' = [committer EXCEPT
            ![c] = [phase |-> "asked", profile |-> p, blind |-> resultFile = "absent"]]
    /\ UNCHANGED <<profileFile, resultFile, configuration, signVars, vars>>

(* Mistake: an artifact written after the result is taken for the boundary. *)
checkLateArtifact(c) ==
    /\ committer[c].phase = "asked"
    /\ committer' = [committer EXCEPT ![c].phase = "checked"]
    /\ UNCHANGED <<profileFile, resultFile, configuration, signVars, vars>>

(* existingResultArtifact *)
checkNoResult(c) ==
    /\ committer[c].phase = "asked"
    /\ committer' = [committer EXCEPT
            ![c].phase = IF resultFile = "absent" THEN "checked" ELSE "refused"]
    /\ UNCHANGED <<profileFile, resultFile, configuration, signVars, vars>>

(* Mistake: the file is opened with "w", which truncates a commitment.     *)
createTruncating(c) ==
    /\ committer[c].phase = "checked"
    /\ profileFile' = Partial
    /\ committer' = [committer EXCEPT ![c].phase = "opened"]
    /\ UNCHANGED <<resultFile, configuration, signVars, vars>>

(* openSync(path, "wx") *)
createProfile(c) ==
    /\ committer[c].phase = "checked"
    /\ profileFile' = IF profileFile = None THEN Partial ELSE profileFile
    /\ committer' = [committer EXCEPT
            ![c].phase = IF profileFile = None THEN "opened" ELSE "refused"]
    /\ UNCHANGED <<resultFile, configuration, signVars, vars>>

(* Mistake: the record written omits the settlement mode.                  *)
writeTermsOnly(c) ==
    /\ committer[c].phase = "opened"
    /\ profileFile' = TermsOf(committer[c].profile)
    /\ committer' = [committer EXCEPT ![c].phase = "done"]
    /\ UNCHANGED <<resultFile, configuration, signVars, vars>>

writeProfile(c) ==
    /\ committer[c].phase = "opened"
    /\ profileFile' = committer[c].profile
    /\ committer' = [committer EXCEPT ![c].phase = "done"]
    /\ UNCHANGED <<resultFile, configuration, signVars, vars>>

(* The process dies before it finished; a later call starts over. *)
crashCommitter(c) ==
    /\ committer[c].phase \in {"asked", "checked", "opened"}
    /\ committer' = [committer EXCEPT ![c] = Idle]
    /\ UNCHANGED <<profileFile, resultFile, configuration, signVars, vars>>

commitSettlementProfile(c) ==
    \/ \E p \in Profiles : proposeProfile(c, p)
    \/ checkNoResult(c)
    \/ createProfile(c)
    \/ writeProfile(c)

-----------------------------------------------------------------------------
(* The rest of the run directory: the FHE runtime publishes the result     *)
(* once, and an operator may select another participant configuration.     *)

publishResult(outcome) ==
    /\ resultFile = "absent"
    /\ resultFile' = outcome
    /\ UNCHANGED <<profileFile, configuration, committer, signVars, vars>>

selectConfiguration(terms) ==
    /\ configuration' = terms
    /\ UNCHANGED <<profileFile, resultFile, committer, signVars, vars>>

-----------------------------------------------------------------------------
(* The executor.                                                           *)

(* settlementAuthorityForRun: the plan, if the store yields one. *)
planAvailable ==
    /\ profileFile \in Profiles
    /\ profileFile.authorized
    /\ resultFile = "conflict"

(* checkDirectParticipantAdapter: the adapter as it must be found.  The    *)
(* token's transfer policy is folded into the holders' eligibility.        *)
adapterCompatible(r) ==
    /\ Solvent
    /\ openReserved = 0 /\ entitledUnpaid = 0
    /\ availableReserve >= Total(r)
    /\ r.holder["A"] # r.holder["B"]
    /\ \A s \in Sides : <<r.holder[s], "Holder">> \in eligible
    /\ <<Facility, "Facility">> \in eligible
    /\ r.governedResultDigest \notin resultConsumed

(* buildGovernedBridgePayload *)
payloadBuilds(r) ==
    /\ r.expiry > r.issuedAt
    /\ r.conflict = (Total(r) # 0)

(* prepareDirect builds the release from the published result, the         *)
(* selected configuration and the caller's nonce and window; the caller    *)
(* passes a plan, or none.                                                 *)
prepareDirect(e, r, withPlan) ==
    /\ executor[e].phase = "idle"
    /\ resultFile # "absent" /\ r.conflict = (resultFile = "conflict")
    /\ r.runId = Run /\ r.governedResultDigest = Result
    /\ TermsOf(r) = configuration
    /\ r.holder = Admitted                      \* assertDirectParticipantBridgeEvidence
    /\ r.pins = "match" /\ r.signer = Attestor
    /\ payloadBuilds(r)
    /\ withPlan => planAvailable
    /\ adapterCompatible(r)
    /\ executor' = [executor EXCEPT
            ![e] = [phase |-> "prepared", release |-> r, simulatedAt |-> 0,
                    plan |-> IF withPlan THEN TermsOf(profileFile) ELSE None]]
    /\ UNCHANGED <<bridgeRecord, authorized, mempool, fileVars, vars>>

(* eth_call of consumeGovernedRelease: would the adapter open the case now? *)
simulationSucceeds(r) ==
    /\ releaseAdmitted(r)
    /\ \A s \in Sides : r.holder[s] # Zero
    /\ Total(r) # 0 /\ Total(r) <= availableReserve
    /\ now + CureWindow <= MaxTimestamp

(* Mistake: a plan is demanded but not compared with the release.          *)
planPresent(plan, r) == plan # None

(* assertSettlementAuthorization *)
planCovers(plan, r) == plan = TermsOf(r)

(* A failed simulation leaves the preparation usable, so only success is a *)
(* step.                                                                   *)
simulate(e) ==
    LET x == executor[e] IN
    /\ x.phase = "prepared"
    /\ Total(x.release) > 0 => planCovers(x.plan, x.release)
    /\ simulationSucceeds(x.release)
    /\ executor' = [executor EXCEPT
            ![e].phase = "permitted", ![e].simulatedAt = now]
    /\ UNCHANGED <<bridgeRecord, authorized, mempool, fileVars, vars>>

fresh(x) == now - x.simulatedAt <= MaxAge

(* SIMULATION_STALE: the permit is destroyed. *)
refuseStale(e) ==
    /\ executor[e].phase = "permitted"
    /\ ~fresh(executor[e])
    /\ executor' = [executor EXCEPT ![e] = Unprepared]
    /\ UNCHANGED <<bridgeRecord, authorized, mempool, fileVars, vars>>

(* Mistake: the record is published with rename, which replaces.           *)
signReplacing(e) ==
    LET x == executor[e] IN
    /\ x.phase = "permitted" /\ fresh(x)
    /\ bridgeRecord' = x.release
    /\ authorized' = authorized \cup {x.release}
    /\ executor' = [executor EXCEPT ![e].phase = "signed"]
    /\ UNCHANGED <<mempool, fileVars, vars>>

(* linkSync, the create-only commit point, found no record. *)
signNew(e) ==
    LET x == executor[e] IN
    /\ x.phase = "permitted" /\ fresh(x)
    /\ bridgeRecord = None
    /\ bridgeRecord' = x.release
    /\ authorized' = authorized \cup {x.release}
    /\ executor' = [executor EXCEPT ![e].phase = "signed"]
    /\ UNCHANGED <<mempool, fileVars, vars>>

(* assertReusableBridgeRecord *)
reusable(x) == bridgeRecord = x.release

(* EEXIST: the signature on disk is handed out if it is for the same       *)
(* release, otherwise CHANGED_PAYLOAD; the permit is gone either way.      *)
signExisting(e) ==
    LET x == executor[e] IN
    /\ x.phase = "permitted" /\ fresh(x)
    /\ bridgeRecord # None
    /\ authorized' = IF reusable(x) THEN authorized \cup {bridgeRecord} ELSE authorized
    /\ executor' = [executor EXCEPT
            ![e] = IF reusable(x) THEN [x EXCEPT !.phase = "signed"] ELSE Unprepared]
    /\ UNCHANGED <<bridgeRecord, mempool, fileVars, vars>>

(* The relay script simulates once more and sends exactly once. *)
broadcast(e) ==
    LET x == executor[e] IN
    /\ x.phase = "signed"
    /\ simulationSucceeds(x.release)
    /\ mempool' = mempool \cup {x.release}
    /\ executor' = [executor EXCEPT ![e].phase = "sent"]
    /\ UNCHANGED <<bridgeRecord, authorized, fileVars, vars>>

(* A receipt reports a revert, or the one ReleaseConsumed event of this    *)
(* release.                                                                *)
receiptFor(r) == r \in attestationConsumed \/ ~simulationSucceeds(r)

reconcileReceipt(e) ==
    LET x == executor[e] IN
    /\ x.phase = "sent"
    /\ receiptFor(x.release)
    /\ executor' = [executor EXCEPT ![e].phase = "reconciled"]
    /\ UNCHANGED <<bridgeRecord, authorized, mempool, fileVars, vars>>

(* The process dies; its in-memory preparations and permits die with it. *)
crashExecutor(e) ==
    /\ executor[e].phase # "idle"
    /\ executor' = [executor EXCEPT ![e] = Unprepared]
    /\ UNCHANGED <<bridgeRecord, authorized, mempool, fileVars, vars>>

bridgeExecutor(e) ==
    \/ \E r \in Releases, withPlan \in BOOLEAN : prepareDirect(e, r, withPlan)
    \/ simulate(e)
    \/ refuseStale(e)
    \/ signNew(e)
    \/ signExisting(e)
    \/ broadcast(e)
    \/ reconcileReceipt(e)

(* A transaction of the adapter.  Only what was broadcast can be consumed: *)
(* the attestor's key signs nothing outside the executor.                  *)
adapterStep ==
    /\ Next
    /\ attestationConsumed' \subseteq attestationConsumed \cup mempool
    /\ UNCHANGED <<fileVars, signVars>>

BridgeNext ==
    \/ \E c \in Committers : commitSettlementProfile(c) \/ crashCommitter(c)
    \/ \E outcome \in {"conflict", "clear"} : publishResult(outcome)
    \/ \E terms \in Configurations : selectConfiguration(terms)
    \/ \E e \in Executors : bridgeExecutor(e) \/ crashExecutor(e)
    \/ adapterStep

BridgeSpec == BridgeInit /\ [][BridgeNext]_bridgeVars

-----------------------------------------------------------------------------
(* Correctness.                                                            *)

(* Every variable of the run directory and of the executors keeps its type. *)
BridgeTypeOK ==
    /\ profileFile \in Profiles \cup {None, Partial}
    /\ resultFile \in {"absent", "conflict", "clear"}
    /\ configuration \in Configurations
    /\ committer \in [Committers -> [phase : CommitPhases,
                                     profile : Profiles \cup {None}, blind : BOOLEAN]]
    /\ executor \in [Executors -> [phase : ExecutorPhases,
                                   release : Releases \cup {None},
                                   plan : Terms \cup {None}, simulatedAt : Nat]]
    /\ bridgeRecord \in Releases \cup {None}
    /\ authorized \subseteq Releases
    /\ mempool \subseteq Releases

(* Money is reserved, entitled or paid on chain only under a conflict      *)
(* result and only on the terms of the committed, authorized profile: not  *)
(* on a configuration selected later, not without a profile, and not after *)
(* a crash that left a partial one.                                        *)
PaidOnlyAsCommitted ==
    caseByRun[Run].state # "None" =>
        /\ resultFile = "conflict"
        /\ profileFile \in Profiles
        /\ profileFile.authorized
        /\ caseByRun[Run].holder = profileFile.holder
        /\ caseByRun[Run].payout = profileFile.payout

(* However many executors race, crash and retry, the signatures they hand  *)
(* out for one result are all for one release, the durable one.            *)
OneAuthorization ==
    authorized \subseteq {bridgeRecord} /\ mempool \subseteq authorized

(* A complete settlement profile was chosen by somebody who could not have *)
(* read a result, even if the file was created or written after one.       *)
ChosenBlind ==
    profileFile \in Profiles =>
        \E c \in Committers : /\ committer[c].phase = "done"
                              /\ committer[c].profile = profileFile
                              /\ committer[c].blind

(* A committed profile and a durable authorization are never replaced.     *)
CommitmentsAreImmutable ==
    [][/\ profileFile \in Profiles => profileFile' = profileFile
       /\ bridgeRecord # None => bridgeRecord' = bridgeRecord
       /\ authorized \subseteq authorized']_bridgeVars

(* settlement-profile-store.ts: "Committing is refused once the governed   *)
(* result artifact exists in the run."  The profile file is only ever      *)
(* created while no result-bearing artifact exists.                        *)
ProfilePrecedesResult ==
    [][profileFile = None /\ profileFile' # None => resultFile = "absent"]_bridgeVars
=============================================================================
