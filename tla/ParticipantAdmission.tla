------------------------ MODULE ParticipantAdmission ------------------------
(***************************************************************************)
(* Two wallets are admitted to the two roles of one neutral case.          *)
(*                                                                         *)
(* The admission service runs in one or more worker processes that share   *)
(* a volume.  A request awaits the engine, the signature check and the     *)
(* compliance policy, and other requests run meanwhile; the ledger of      *)
(* admissions is written file operation by file operation.  A process may  *)
(* be killed at any of these points.                                       *)
(*                                                                         *)
(* The engine is the ProtectionRun module's subject; here its operations   *)
(* take effect in one step, or are cut off by a crash that leaves what     *)
(* they have published, which the next load reconciles.                    *)
(***************************************************************************)
EXTENDS Naturals, FiniteSets

CONSTANTS
    Requests,           \* requests in flight at the same time
    Processes,          \* worker processes that share the volume
    process,            \* the process that serves a request
    Bodies,             \* the admission bodies wallets may send, less the times
    Codes,              \* case codes that may be generated
    CaseLifetime,       \* caseLifetimeSeconds
    ChallengeLifetime,  \* PARTICIPANT_CHALLENGE_LIFETIME_SECONDS
    MaxTime,            \* the last instant considered
    MaxCrashes,         \* how often a process is killed
    Denials,            \* TRUE: the compliance policy may deny a wallet
    Torn,               \* a file whose content was not written
    None

Roles == {"A", "B"}

other(role) == IF role = "A" THEN "B" ELSE "A"

(* What a wallet signs: its role, itself, a nonce, the claim window and    *)
(* the signing key it authorizes; "sent" is the window in the body beside  *)
(* the signature, "role" the role in the body, "authentic" whether the     *)
(* signature is the wallet's.                                              *)
Body ==
    [role : Roles, signedRole : Roles, wallet : {"holderA", "holderB", "outsider"},
     nonce : {"n1", "n2"}, window : {"w1", "w2"}, sent : {"w1", "w2"},
     key : {"published", "other"}, authentic : BOOLEAN]

Time == 0 .. MaxTime

(* A record of the ledger: the body and its window of validity.            *)
Authorizations == [body : Bodies, issuedAt : Time]

(* The stages of the engine, as far as two admissions take it.             *)
Stages ==
    {"CASE_CREATED", "MATCH_PREPARED", "PARTICIPANT_A_SUBMITTED",
     "PARTICIPANT_B_PUBLISHED", "PARTICIPANT_B_SUBMITTED"}

ASSUME AdmissionAssumption ==
    /\ Bodies \subseteq Body
    /\ process \in [Requests -> Processes]
    /\ CaseLifetime \in Nat /\ ChallengeLifetime \in Nat \ {0}
    /\ MaxTime \in Nat /\ MaxCrashes \in Nat /\ Denials \in BOOLEAN
    /\ None # Torn
    /\ None \notin Requests \cup Stages \cup {"w1", "w2"}
    /\ {None, Torn} \cap Authorizations = {}
    /\ {None, Torn} \cap Time = {}

VARIABLES
    now,         \* the clock, in the unit of the lifetimes
    codes,       \* the case-code files: None, Torn or "bound"
    clock,       \* the case's creation time file: None, Torn or a time
    started,     \* when recordCaseStart was first called, or None
    engine,      \* the execution record: stage, claims, published artifacts
    keys,        \* the roles whose signing-key file exists
    busy,        \* per process, the request inside an engine operation
    ledger,      \* per role: None, Torn or an authorization
    lockFile,    \* the request that created .admission.lock, or None
    req,         \* the requests
    late,        \* roles admitted while the case was past its lifetime
    crashes

vars == <<now, codes, clock, started, engine, keys, busy, ledger, lockFile,
          req, late, crashes>>

Idle == [at |-> "idle", auth |-> None, code |-> None]

Init ==
    /\ now = 0
    /\ codes = [c \in Codes |-> None]
    /\ clock = None /\ started = None
    /\ engine = [stage |-> None, claims |-> [r \in Roles |-> None],
                 artifacts |-> [r \in Roles |-> None]]
    /\ keys = {}
    /\ busy = [p \in Processes |-> None]
    /\ ledger = [r \in Roles |-> None]
    /\ lockFile = None
    /\ req = [q \in Requests |-> Idle]
    /\ late = {}
    /\ crashes = 0

-----------------------------------------------------------------------------
(* The durable files.                                                      *)

(* readJsonOrNull: an absent and a torn file read alike.                   *)
readJsonOrNull(file) == IF file = Torn THEN None ELSE file

readAdmission(role) == readJsonOrNull(ledger[role])

resolveCaseCode(code) == codes[code] = "bound"

(* readCaseStart: without a readable file the case starts now.             *)
readCaseStart == IF readJsonOrNull(clock) = None THEN now ELSE clock

bothAdmitted == \A r \in Roles : readAdmission(r) # None

admissionAbandoned == now - readCaseStart >= CaseLifetime /\ ~bothAdmitted

sameAuthorization(record, auth) == record = auth

-----------------------------------------------------------------------------
(* The engine.                                                             *)

expectedStage(role) == IF role = "A" THEN "MATCH_PREPARED" ELSE "PARTICIPANT_A_SUBMITTED"

(* The stage after a role's publication; B's is followed by finalization.  *)
stageAfter(role) == IF role = "A" THEN "PARTICIPANT_A_SUBMITTED" ELSE "PARTICIPANT_B_PUBLISHED"

(* A load takes the published artifact of an interrupted submission for    *)
(* its end (reconcileState), and removes the key it left.                  *)
interrupted(e) == {r \in Roles : e.stage = expectedStage(r) /\ e.artifacts[r] # None}

reconciled(e) ==
    [e EXCEPT !.stage = IF interrupted(e) = {} THEN @
                        ELSE stageAfter(CHOOSE r \in interrupted(e) : TRUE)]

loadState ==
    /\ engine' = reconciled(engine)
    /\ keys' = keys \ interrupted(engine)

(* rawParticipantKey after the foundation exists: a missing key is minted  *)
(* only for a role no wallet was admitted to.                              *)
hasKey(role) == role \in keys \/ readAdmission(role) = None

(* assertVerifiedDurableAdmission: the engine trusts the ledger only.      *)
assertVerifiedDurableAdmission(role, auth) ==
    readAdmission(role) # None /\ readAdmission(role) = auth

-----------------------------------------------------------------------------
(* Requests.                                                               *)

Goto(q, at) == req' = [req EXCEPT ![q].at = at]

Finish(q) == req' = [req EXCEPT ![q] = Idle]

at(q, step) == req[q].at = step

role(q) == req[q].auth.body.role

(* createParticipantCase: the run, a case code, the clock, preparation.    *)
createNeutralParticipantCase(q) ==
    /\ at(q, "idle")
    /\ engine.stage = None \/ \E c \in Codes : codes[c] = None
    /\ engine' = [engine EXCEPT !.stage = IF @ = None THEN "CASE_CREATED" ELSE @]
    /\ Goto(q, "created")
    /\ UNCHANGED <<now, codes, clock, started, keys, busy, ledger, lockFile, late, crashes>>

(* bindCaseCode with a generated code: the file exists before its content. *)
bindCaseCode(q) ==
    /\ at(q, "created")
    /\ \E c \in Codes :
        /\ codes[c] = None
        /\ codes' = [codes EXCEPT ![c] = Torn]
        /\ req' = [req EXCEPT ![q].at = "binding", ![q].code = c]
    /\ UNCHANGED <<now, clock, started, engine, keys, busy, ledger, lockFile, late, crashes>>

writeCaseCode(q) ==
    /\ at(q, "binding")
    /\ codes' = [codes EXCEPT ![req[q].code] = "bound"]
    /\ Goto(q, "bound")
    /\ UNCHANGED <<now, clock, started, engine, keys, busy, ledger, lockFile, late, crashes>>

(* recordCaseStart: create-only, so a retry keeps the first time.          *)
recordCaseStart(q) ==
    /\ at(q, "bound")
    /\ started' = IF started = None THEN now ELSE started
    /\ IF clock = None
       THEN clock' = Torn /\ Goto(q, "starting")
       ELSE UNCHANGED clock /\ Goto(q, "started")
    /\ UNCHANGED <<now, codes, engine, keys, busy, ledger, lockFile, late, crashes>>

writeCaseStart(q) ==
    /\ at(q, "starting")
    /\ clock' = started
    /\ Goto(q, "started")
    /\ UNCHANGED <<now, codes, started, engine, keys, busy, ledger, lockFile, late, crashes>>

(* preparePrivateMatch mints both keys and publishes the foundation.       *)
preparePrivateMatch(q) ==
    /\ at(q, "started")
    /\ busy[process[q]] = None
    /\ IF engine.stage = "CASE_CREATED"
       THEN /\ engine' = [engine EXCEPT !.stage = "MATCH_PREPARED"]
            /\ keys' = Roles
       ELSE UNCHANGED <<engine, keys>>
    /\ Finish(q)
    /\ UNCHANGED <<now, codes, clock, started, busy, ledger, lockFile, late, crashes>>

(* participantAdmissionChallenge: the struct the wallet is to sign, with   *)
(* the time and a nonce in it.  The service keeps no record of it, and an  *)
(* authorization is judged by what it says; only the load leaves a trace.  *)
participantAdmissionChallenge(r, code) ==
    /\ resolveCaseCode(code)
    /\ ~admissionAbandoned
    /\ readAdmission(r) = None
    /\ reconciled(engine).stage = expectedStage(r)
    /\ loadState
    /\ UNCHANGED <<now, codes, clock, started, busy, ledger, lockFile, req, late, crashes>>

(* admitParticipant up to its first await.                                 *)
admitParticipant(q, body, code) ==
    /\ at(q, "idle")
    /\ resolveCaseCode(code)
    /\ ~admissionAbandoned
    /\ \E t \in Time :
        req' = [req EXCEPT ![q].at = "context", ![q].auth = [body |-> body, issuedAt |-> t]]
    /\ UNCHANGED <<now, codes, clock, started, engine, keys, busy, ledger, lockFile, late, crashes>>

(* The wallet the canonical configuration names for a role.                *)
canonicalWallet(r) == IF r = "A" THEN "holderA" ELSE "holderB"

(* Mistake: the window is not compared with the signed one.                *)
verifyParticipantAdmissionV2_AnyWindow(auth) ==
    /\ auth.body.signedRole = auth.body.role
    /\ now >= auth.issuedAt /\ now <= auth.issuedAt + ChallengeLifetime
    /\ auth.body.key = "published"
    /\ auth.body.authentic

verifyParticipantAdmissionV2(auth) ==
    /\ auth.body.signedRole = auth.body.role
    /\ auth.body.window = auth.body.sent
    /\ now >= auth.issuedAt /\ now <= auth.issuedAt + ChallengeLifetime
    /\ auth.body.key = "published"
    /\ auth.body.authentic

(* Mistake: a role is reserved although the engine cannot accept it yet.   *)
inOrder_Always(e, r) == TRUE

(* A role is not reserved before the engine can accept it; a retry of an   *)
(* admitted role passes at any stage.                                      *)
inOrder(e, r) == readAdmission(r) = None => e.stage = expectedStage(r)

(* From the engine's answer to the signature check: the stage, the key and *)
(* the signed struct are judged.                                           *)
readParticipantAdmissionContext(q) ==
    /\ at(q, "context")
    /\ loadState
    /\ IF /\ hasKey(role(q)) /\ role(q) \notin interrupted(engine)
          /\ inOrder(reconciled(engine), role(q))
          /\ verifyParticipantAdmissionV2(req[q].auth)
          /\ req[q].auth.body.wallet = canonicalWallet(role(q))
       THEN Goto(q, "policy")
       ELSE Finish(q)
    /\ UNCHANGED <<now, codes, clock, started, busy, ledger, lockFile, late, crashes>>

(* The compliance policy answers for the verified wallet.                  *)
verifyApass(q) ==
    /\ at(q, "policy")
    /\ Goto(q, "admit") \/ (Denials /\ Finish(q))
    /\ UNCHANGED <<now, codes, clock, started, engine, keys, busy, ledger, lockFile, late, crashes>>

(* withRunAdmissionLock: a lock that exists refuses the request.           *)
withRunAdmissionLock(q) ==
    /\ at(q, "admit")
    /\ IF lockFile = None
       THEN lockFile' = q /\ Goto(q, "locked")
       ELSE UNCHANGED lockFile /\ Finish(q)
    /\ UNCHANGED <<now, codes, clock, started, engine, keys, busy, ledger, late, crashes>>

(* Mistake: a nonce may be used by both roles.                             *)
admissible_AnyNonce(auth) ==
    LET o == readAdmission(other(auth.body.role))
    IN  /\ auth.body.role = "B" => o # None
        /\ auth.body.role = "A" => o = None
        /\ o # None => o.body.wallet # auth.body.wallet

(* The rules between the two roles.                                        *)
admissible(auth) ==
    LET o == readAdmission(other(auth.body.role))
    IN  /\ auth.body.role = "B" => o # None
        /\ auth.body.role = "A" => o = None
        /\ o # None => o.body.wallet # auth.body.wallet /\ o.body.nonce # auth.body.nonce

(* The lock is removed in every case ("finally").                          *)
unlock(q, next) ==
    /\ lockFile' = None
    /\ IF next = "idle" THEN Finish(q) ELSE Goto(q, next)

(* admitParticipantRole under the lock: an exact retry is recognised, an   *)
(* occupied or inadmissible role is refused, and so is a record that       *)
(* exists but cannot be read (writeCreateOnly, "wx").                      *)
admitParticipantRole(q) ==
    LET auth == req[q].auth
        existing == readAdmission(role(q))
    IN  /\ at(q, "locked")
        /\ \/ /\ existing # None /\ sameAuthorization(existing, auth)
              /\ unlock(q, "claim") /\ UNCHANGED <<ledger, late>>
           \/ /\ \/ existing # None /\ ~sameAuthorization(existing, auth)
                 \/ existing = None /\ ~admissible(auth)
                 \/ existing = None /\ admissible(auth) /\ ledger[role(q)] = Torn
              /\ unlock(q, "idle") /\ UNCHANGED <<ledger, late>>
           \/ /\ existing = None /\ admissible(auth) /\ ledger[role(q)] = None
              /\ ledger' = [ledger EXCEPT ![role(q)] = Torn]
              /\ Goto(q, "writing") /\ UNCHANGED <<lockFile, late>>
        /\ UNCHANGED <<now, codes, clock, started, engine, keys, busy, crashes>>

(* writeCreateOnly: the content, after the file itself.                    *)
writeCreateOnly(q) ==
    /\ at(q, "writing")
    /\ ledger' = [ledger EXCEPT ![role(q)] = req[q].auth]
    /\ late' = IF admissionAbandoned THEN late \cup {role(q)} ELSE late
    /\ Goto(q, "written")
    /\ UNCHANGED <<now, codes, clock, started, engine, keys, busy, lockFile, crashes>>

releaseAdmissionLock(q) ==
    /\ at(q, "written")
    /\ unlock(q, "claim")
    /\ UNCHANGED <<now, codes, clock, started, engine, keys, busy, ledger, late, crashes>>

(* The engine's run lock is in the memory of the process: a second         *)
(* operation is refused, not queued.                                       *)
exclusive(q, step, inside) ==
    /\ at(q, step)
    /\ IF busy[process[q]] = None
       THEN busy' = [busy EXCEPT ![process[q]] = q] /\ Goto(q, inside)
       ELSE UNCHANGED busy /\ Finish(q)
    /\ UNCHANGED <<now, codes, clock, started, engine, keys, ledger, lockFile, late, crashes>>

claimExpectedStage(r) == expectedStage(r)

(* admitParticipantClaim: the claim the ledger proves, at the role's turn; *)
(* an exact retry is idempotent.                                           *)
admitParticipantClaim(q) ==
    LET e == reconciled(engine)
        r == role(q)
        ok == /\ assertVerifiedDurableAdmission(r, req[q].auth)
              /\ IF e.claims[r] # None THEN e.claims[r] = req[q].auth
                 ELSE e.stage = claimExpectedStage(r)
    IN  /\ at(q, "claiming")
        /\ engine' = IF ok THEN [e EXCEPT !.claims[r] = req[q].auth] ELSE e
        /\ keys' = keys \ interrupted(engine)
        /\ busy' = [busy EXCEPT ![process[q]] = None]
        /\ IF ok THEN Goto(q, "submit") ELSE Finish(q)
        /\ UNCHANGED <<now, codes, clock, started, ledger, lockFile, late, crashes>>

(* submitParticipantPledge: the pledge carries the window of the recorded  *)
(* claim; its publication, the removal of the key and the saved stage.     *)
(* Participant B's submission goes on to finalize the case, also when its  *)
(* publication is an earlier one.                                          *)
submitParticipantPledge(q) ==
    LET e == reconciled(engine)
        r == role(q)
        admitted == e.claims[r] # None /\ assertVerifiedDurableAdmission(r, e.claims[r])
        publishes == admitted /\ e.stage = expectedStage(r) /\ e.artifacts[r] = None /\ r \in keys
        finalizes == admitted /\ r = "B" /\ (publishes \/ e.stage = "PARTICIPANT_B_PUBLISHED")
    IN  /\ at(q, "submitting")
        /\ engine' = [e EXCEPT !.artifacts[r] = IF publishes THEN e.claims[r].body.sent ELSE @,
                               !.stage = CASE finalizes -> "PARTICIPANT_B_SUBMITTED"
                                           [] publishes /\ r = "A" -> stageAfter(r)
                                           [] OTHER -> @]
        /\ keys' = (keys \ interrupted(engine)) \ (IF publishes THEN {r} ELSE {})
        /\ busy' = [busy EXCEPT ![process[q]] = None]
        /\ Finish(q)
        /\ UNCHANGED <<now, codes, clock, started, ledger, lockFile, late, crashes>>

-----------------------------------------------------------------------------
(* Faults and time.                                                        *)

(* The process is killed: its requests are gone, its files stay.  A lock   *)
(* file of one of them is stranded; a pledge in submission may have been   *)
(* published, with or without its key removed.                             *)
Crash(p) ==
    LET gone == {q \in Requests : process[q] = p}
        r == role(busy[p])
        submitting == busy[p] # None /\ req[busy[p]].at = "submitting"
    IN  /\ crashes < MaxCrashes
        /\ crashes' = crashes + 1
        /\ \E q \in gone : req[q] # Idle
        /\ req' = [q \in Requests |-> IF q \in gone THEN Idle ELSE req[q]]
        /\ busy' = [busy EXCEPT ![p] = None]
        /\ \/ UNCHANGED <<engine, keys>>
           \/ /\ submitting
              /\ engine.stage = expectedStage(r) /\ engine.claims[r] # None /\ r \in keys
              /\ engine' = [engine EXCEPT !.artifacts[r] = engine.claims[r].body.sent]
              /\ keys' \in {keys, keys \ {r}}
        /\ UNCHANGED <<now, codes, clock, started, ledger, lockFile, late>>

Tick ==
    /\ now < MaxTime
    /\ now' = now + 1
    /\ UNCHANGED <<codes, clock, started, engine, keys, busy, ledger, lockFile, req, late, crashes>>

create(q) ==
    \/ createNeutralParticipantCase(q) \/ bindCaseCode(q) \/ writeCaseCode(q)
    \/ recordCaseStart(q) \/ writeCaseStart(q) \/ preparePrivateMatch(q)

admit(q) ==
    \/ readParticipantAdmissionContext(q) \/ verifyApass(q)
    \/ withRunAdmissionLock(q) \/ admitParticipantRole(q)
    \/ writeCreateOnly(q) \/ releaseAdmissionLock(q)
    \/ exclusive(q, "claim", "claiming") \/ admitParticipantClaim(q)
    \/ exclusive(q, "submit", "submitting") \/ submitParticipantPledge(q)

Next ==
    \/ \E q \in Requests : create(q) \/ admit(q)
    \/ \E r \in Roles, c \in Codes : participantAdmissionChallenge(r, c)
    \/ \E q \in Requests, b \in Bodies, c \in Codes : admitParticipant(q, b, c)
    \/ \E p \in Processes : Crash(p)
    \/ Tick

Spec == Init /\ [][Next]_vars

-----------------------------------------------------------------------------
TypeOK ==
    /\ now \in Time
    /\ codes \in [Codes -> {None, Torn, "bound"}]
    /\ clock \in {None, Torn} \cup Time
    /\ started \in {None} \cup Time
    /\ engine.stage \in {None} \cup Stages
    /\ engine.claims \in [Roles -> {None} \cup Authorizations]
    /\ engine.artifacts \in [Roles -> {None, "w1", "w2"}]
    /\ keys \subseteq Roles
    /\ busy \in [Processes -> {None} \cup Requests]
    /\ ledger \in [Roles -> {None, Torn} \cup Authorizations]
    /\ lockFile \in {None} \cup Requests
    /\ \A q \in Requests : req[q].auth \in {None} \cup Authorizations
    /\ late \subseteq Roles
    /\ crashes \in 0 .. MaxCrashes

(* participantLifecycle, in the order of PARTICIPANT_LIFECYCLE: what a     *)
(* read of the case reports, from the stage and the ledger together.       *)
participantLifecycle ==
    LET stage == reconciled(engine).stage
    IN  CASE stage = None -> 0
          [] stage # None /\ admissionAbandoned -> 9
          [] ~admissionAbandoned /\ stage = "CASE_CREATED" -> 1
          [] ~admissionAbandoned /\ stage = "MATCH_PREPARED" ->
                IF readAdmission("A") # None THEN 3 ELSE 2
          [] ~admissionAbandoned /\ stage = "PARTICIPANT_A_SUBMITTED" ->
                IF readAdmission("B") # None THEN 4 ELSE 3
          [] ~admissionAbandoned /\ stage = "PARTICIPANT_B_PUBLISHED" -> 4
          [] ~admissionAbandoned /\ stage = "PARTICIPANT_B_SUBMITTED" -> 5

(* The two admitted wallets, and their nonces, differ, and participant B   *)
(* was never admitted without A, whoever raced whom on the ledger files.   *)
LedgerIsSound ==
    /\ readAdmission("B") # None => readAdmission("A") # None
    /\ bothAdmitted =>
        /\ ledger["A"].body.wallet # ledger["B"].body.wallet
        /\ ledger["A"].body.nonce # ledger["B"].body.nonce

(* A published pledge carries the window, and is signed with the key, that *)
(* the admitted wallet of its role signed for.                             *)
PledgeIsAuthorized ==
    \A r \in Roles : engine.artifacts[r] # None =>
        /\ readAdmission(r) # None
        /\ ledger[r].body.wallet = canonicalWallet(r)
        /\ ledger[r].body.window = engine.artifacts[r]
        /\ ledger[r].body.key = "published"

(* No role is reassigned: a record, once its file exists, is completed by  *)
(* its own writer or stays as it is, and a recorded claim never changes.   *)
NeverReassigned ==
    [][\A r \in Roles :
        /\ ledger[r] \notin {None, Torn} => ledger'[r] = ledger[r]
        /\ engine.claims[r] # None => engine'.claims[r] = engine.claims[r]]_vars

(* What a reader is told never goes back: an admission is not withdrawn    *)
(* by a crash or by another request, short of the case being abandoned.    *)
LifecycleAdvances ==
    [][participantLifecycle # 9 => participantLifecycle' >= participantLifecycle]_vars

(* A role that is admitted but has no claim yet can still be completed by  *)
(* the engine: it is that role's turn, and its key is there.               *)
RetryCanComplete ==
    \A r \in Roles :
        readAdmission(r) # None /\ engine.claims[r] = None =>
            reconciled(engine).stage = expectedStage(r) /\ r \in keys

(* The ledger's lock belongs to a request in its critical section, unless  *)
(* a process was killed in one.                                            *)
LockHasOwner ==
    lockFile # None /\ crashes = 0 => req[lockFile].at \in {"locked", "writing", "written"}

(* A case past its lifetime without both wallets counts as abandoned, from *)
(* the first time its creation started the clock: no retry of the creation *)
(* and no restart gives it more time (recordCaseStart, readCaseStart).     *)
LifetimeIsMeasured ==
    started # None /\ (\A q \in Requests : ~at(q, "starting"))
        /\ now - started >= CaseLifetime /\ ~bothAdmitted => admissionAbandoned

(* "an abandoned case admits nobody": no record is written once the case   *)
(* is past its lifetime.                                                   *)
AbandonedAdmitsNobody == late = {}

(* An exact retry repairs a loss after the ledger write: while a role has  *)
(* its record and not yet its claim, and nobody is at work on it, its own  *)
(* authorization still passes the verification.                            *)
ExactRetryRepairs ==
    \A r \in Roles :
        readAdmission(r) # None /\ engine.claims[r] = None
        /\ (\A q \in Requests : req[q].auth # ledger[r])
            => verifyParticipantAdmissionV2(ledger[r])

(* A loss at any boundary leaves a state the next attempt can complete:    *)
(* when both wallets are admitted, the claims are recorded and nobody is   *)
(* at work on B's, the case is finalized or B's next attempt gets past the *)
(* engine's key check.                                                     *)
LossIsCompletable ==
    (engine.claims["B"] # None /\ \A q \in Requests : req[q].auth # ledger["B"]) =>
        \/ engine.stage = "PARTICIPANT_B_SUBMITTED"
        \/ hasKey("B") /\ "B" \notin interrupted(engine)

(* A client waits for the answer to a body before it sends it again.       *)
PatientNext ==
    /\ Next
    /\ \A q \in Requests : at(q, "idle") /\ req'[q].auth # None =>
        \A o \in Requests \ {q} : req[o].auth # None => req[o].auth.body # req'[q].auth.body

PatientSpec ==
    Init /\ [][PatientNext]_vars /\ \A q \in Requests : WF_vars(create(q)) /\ WF_vars(admit(q))

(* With clients that send one request after the other and no crash, an     *)
(* admitted role ends with its pledge published, although the other role's *)
(* requests meet it at the ledger's lock and at the engine's.              *)
AdmittedIsSubmitted ==
    \A r \in Roles : readAdmission(r) # None ~> engine.artifacts[r] # None

=============================================================================
