--------------------- MODULE ParticipantAdmission_proofs ---------------------
(***************************************************************************)
(* Proofs about ParticipantAdmission for any requests, processes, bodies,  *)
(* lifetimes and number of crashes.                                        *)
(***************************************************************************)
EXTENDS ParticipantAdmission, TLAPS

\* The points of a request, by what it has behind it.
Creating  == {"created", "binding", "bound", "starting", "started"}
Holding   == {"locked", "writing", "written"}
Judged    == {"policy", "admit", "claim", "claiming", "submit", "submitting"} \cup Holding
Admitting == {"policy", "admit", "locked", "writing"}
Points    == {"idle", "context"} \cup Creating \cup Judged

Claim == {None} \cup Authorizations

\* The shape of the records that the actions update field by field.
Shape ==
    /\ req \in [Requests -> [at : Points, auth : Claim, code : {None} \cup Codes]]
    /\ engine \in [stage : {None} \cup Stages, claims : [Roles -> Claim],
                   artifacts : [Roles -> {None, "w1", "w2"}]]
    /\ ledger \in [Roles -> {None, Torn} \cup Authorizations]
    /\ keys \subseteq Roles
    /\ busy \in [Processes -> {None} \cup Requests]
    /\ lockFile \in {None} \cup Requests
    /\ crashes \in Nat

\* What the signature check leaves true whatever the time: the wallet of
\* the role signed the role, the window and the published key.
genuine(auth) ==
    /\ auth.body.signedRole = auth.body.role
    /\ auth.body.window = auth.body.sent
    /\ auth.body.key = "published"
    /\ auth.body.wallet = canonicalWallet(auth.body.role)

\* A judged request carries a genuine authorization, and one that may
\* still have to write the record of its role finds the engine at that
\* role's turn, however long the compliance policy took to answer.
RequestIsJudged(q) ==
    /\ req[q].at \in Judged \cup {"context"} => req[q].auth \in Authorizations
    /\ req[q].at \in Judged => genuine(req[q].auth)
    /\ req[q].at \in Admitting /\ readAdmission(role(q)) = None =>
            engine.stage = expectedStage(role(q))

\* The lock file excludes, also when a crash has stranded it, and what its
\* owner has checked of the other role is still so when it writes.
RequestIsAlone(q) ==
    /\ req[q].at \in Holding => lockFile = q
    /\ at(q, "writing") => ledger[role(q)] = Torn /\ admissible(req[q].auth)

\* What the files say of a role agrees: a pledge has its claim, a claim
\* its record, and a record without a claim waits at its role's turn, with
\* the key that a pledge not yet published needs.
RoleIsConsistent(r) ==
    /\ readAdmission(r) # None => genuine(ledger[r]) /\ ledger[r].body.role = r
    /\ engine.claims[r] # None => engine.claims[r] = readAdmission(r)
    /\ engine.artifacts[r] # None =>
            engine.claims[r] # None /\ engine.artifacts[r] = engine.claims[r].body.sent
    /\ readAdmission(r) # None /\ engine.claims[r] = None => engine.stage = expectedStage(r)
    /\ engine.stage \in Stages \ {"CASE_CREATED"} /\ engine.artifacts[r] = None => r \in keys

AdmissionInv ==
    /\ Shape
    /\ \A q \in Requests : RequestIsJudged(q)
    /\ \A q \in Requests : RequestIsAlone(q)
    /\ \A r \in Roles : RoleIsConsistent(r)
    /\ LedgerIsSound

-----------------------------------------------------------------------------
\* What the actions do to the records.

\* The fields of an authorization.
LEMMA AuthorizationFields ==
  ASSUME NEW a \in Authorizations
  PROVE  /\ a # None /\ a # Torn
         /\ a.body.role \in Roles /\ a.body.sent \in {"w1", "w2"}
         /\ other(a.body.role) \in Roles /\ other(a.body.role) # a.body.role
<1>1. a # None /\ a # Torn /\ a.body \in Body
  BY AdmissionAssumption DEF Authorizations
<1>2. a.body.role \in Roles /\ a.body.sent \in {"w1", "w2"}
  BY <1>1 DEF Body
<1> QED
  BY <1>1, <1>2 DEF other, Roles

\* Goto changes the point of one request only.
LEMMA Moves ==
  ASSUME Shape, NEW q \in Requests, NEW to \in Points, Goto(q, to)
  PROVE  /\ req' \in [Requests -> [at : Points, auth : Claim, code : {None} \cup Codes]]
         /\ req'[q].at = to /\ req'[q].auth = req[q].auth
         /\ \A p \in Requests : p # q => req'[p] = req[p]
BY DEF Shape, Goto

\* Finish makes one request idle.
LEMMA Ends ==
  ASSUME Shape, NEW q \in Requests, Finish(q)
  PROVE  /\ req' \in [Requests -> [at : Points, auth : Claim, code : {None} \cup Codes]]
         /\ req'[q].at = "idle"
         /\ \A p \in Requests : p # q => req'[p] = req[p]
BY DEF Shape, Finish, Idle, Points, Claim

\* The requests a step leaves alone or ends keep what they rely on, if the
\* ledger and the lock change hands only as their owner does it, and no
\* role without a claim loses its turn.
LEMMA OthersKept ==
  ASSUME AdmissionInv, NEW q,
         \A p \in Requests : p # q => req'[p] = req[p] \/ req'[p].at = "idle",
         lockFile' = lockFile \/ lockFile \in {None, q},
         ledger' = ledger \/ lockFile = q,
         \A r \in Roles : readAdmission(r)' = None => readAdmission(r) = None,
         \A r \in Roles : engine.stage = expectedStage(r) /\ engine.claims[r] = None =>
                                engine'.stage = engine.stage
  PROVE  \A p \in Requests : p # q => RequestIsJudged(p)' /\ RequestIsAlone(p)'
<1> SUFFICES ASSUME NEW p \in Requests, p # q
             PROVE  RequestIsJudged(p)' /\ RequestIsAlone(p)'
  OBVIOUS
<1>0. RequestIsJudged(p) /\ RequestIsAlone(p) /\ p # None
  BY AdmissionAssumption DEF AdmissionInv
<1>1. CASE req'[p].at = "idle"
  BY <1>1 DEF RequestIsJudged, RequestIsAlone, Judged, Admitting, Holding, at
<1>2. CASE req'[p] = req[p]
  <2>1. role(p)' = role(p)
    BY <1>2 DEF role
  <2>2. req[p].at \in Judged \cup {"context"} => role(p) \in Roles
    BY <1>0, AuthorizationFields DEF RequestIsJudged, role
  <2> PICK r : r = role(p)
    OBVIOUS
  <2>3. ASSUME req[p].at \in Admitting, readAdmission(r)' = None
        PROVE  engine'.stage = expectedStage(r)
    <3>1. r \in Roles
      BY <2>2, <2>3 DEF Admitting, Judged, Holding
    <3>2. readAdmission(r) = None
      BY <2>3, <3>1
    <3>3. engine.claims[r] = None
      BY <3>1, <3>2 DEF AdmissionInv, RoleIsConsistent
    <3> QED
      BY <1>0, <2>3, <3>1, <3>2, <3>3 DEF RequestIsJudged
  <2>4. RequestIsJudged(p)'
    BY <1>0, <1>2, <2>1, <2>3 DEF RequestIsJudged, readAdmission, readJsonOrNull
  <2>5. RequestIsAlone(p)'
    <3>1. CASE req[p].at \in Holding
      <4>1. lockFile = p /\ lockFile' = p /\ ledger' = ledger
        BY <1>0, <3>1 DEF RequestIsAlone
      <4>2. admissible(req[p].auth)' = admissible(req[p].auth)
        BY <1>2, <4>1 DEF admissible, readAdmission, readJsonOrNull
      <4> QED
        BY <1>0, <1>2, <2>1, <4>1, <4>2 DEF RequestIsAlone, at
    <3>2. CASE req[p].at \notin Holding
      BY <1>2, <3>2 DEF RequestIsAlone, Holding, at
    <3> QED
      BY <3>1, <3>2
  <2> QED
    BY <2>4, <2>5
<1> QED
  BY <1>1, <1>2

\* Files that are not written stay consistent.
LEMMA FilesKept ==
  ASSUME AdmissionInv, UNCHANGED <<engine, ledger, keys>>
  PROVE  (\A r \in Roles : RoleIsConsistent(r)') /\ LedgerIsSound'
<1>1. \A r : readAdmission(r)' = readAdmission(r)
  BY DEF readAdmission
<1>2. \A r \in Roles : RoleIsConsistent(r)'
  BY <1>1 DEF AdmissionInv, RoleIsConsistent
<1> QED
  BY <1>1, <1>2 DEF AdmissionInv, LedgerIsSound, bothAdmitted

\* A step of one request that writes no file but, perhaps, the lock.
LEMMA RequestStep ==
  ASSUME AdmissionInv, NEW q \in Requests, UNCHANGED <<engine, ledger, keys>>, Shape',
         \A p \in Requests : p # q => req'[p] = req[p],
         lockFile' = lockFile \/ lockFile \in {None, q},
         RequestIsJudged(q)', RequestIsAlone(q)'
  PROVE  AdmissionInv'
<1>1. (\A r \in Roles : RoleIsConsistent(r)') /\ LedgerIsSound'
  BY FilesKept
<1>2. \A r \in Roles : readAdmission(r)' = None => readAdmission(r) = None
  BY DEF readAdmission
<1>3. \A p \in Requests : p # q => RequestIsJudged(p)' /\ RequestIsAlone(p)'
  BY <1>2, OthersKept
<1> QED
  BY <1>1, <1>3 DEF AdmissionInv

\* A load of the engine's state: the claims and the artifacts stay, a role
\* without a claim keeps its turn, and a removed key has its artifact.
LEMMA Reconciled ==
  ASSUME AdmissionInv, NEW e, e = reconciled(engine), NEW k, k = keys \ interrupted(engine)
  PROVE  /\ e \in [stage : {None} \cup Stages, claims : [Roles -> Claim],
                   artifacts : [Roles -> {None, "w1", "w2"}]]
         /\ k \subseteq Roles
         /\ e.claims = engine.claims /\ e.artifacts = engine.artifacts
         /\ \A r \in Roles : engine.stage = expectedStage(r) /\ engine.claims[r] = None =>
                                e.stage = engine.stage
         /\ \A r \in Roles : e.stage \in Stages \ {"CASE_CREATED"} /\ e.artifacts[r] = None =>
                                r \in k
<1>1. engine \in [stage : {None} \cup Stages, claims : [Roles -> Claim],
                  artifacts : [Roles -> {None, "w1", "w2"}]] /\ keys \subseteq Roles
  BY DEF AdmissionInv, Shape
<1>2. \A r \in Roles : RoleIsConsistent(r)
  BY DEF AdmissionInv
<1>3. CASE interrupted(engine) = {}
  <2>1. e = engine /\ k = keys
    BY <1>1, <1>3 DEF reconciled
  <2> QED
    BY <1>1, <1>2, <2>1 DEF RoleIsConsistent
<1>4. CASE interrupted(engine) # {}
  <2>1. PICK s \in interrupted(engine) : e = [engine EXCEPT !.stage = stageAfter(s)]
    BY <1>1, <1>4 DEF reconciled
  <2>2. s \in Roles /\ engine.stage = expectedStage(s) /\ engine.artifacts[s] # None
        /\ engine.claims[s] # None
    BY <1>2, <2>1 DEF interrupted, RoleIsConsistent
  <2>3. engine.stage \in {"MATCH_PREPARED", "PARTICIPANT_A_SUBMITTED"}
    BY <2>2 DEF expectedStage
  <2>4. \A r \in Roles : engine.stage = expectedStage(r) => r = s
    BY <2>2 DEF expectedStage, Roles
  <2>5. e.claims = engine.claims /\ e.artifacts = engine.artifacts /\ e.stage = stageAfter(s)
    BY <1>1, <2>1
  <2>6. stageAfter(s) \in Stages
    BY DEF stageAfter, Stages
  <2>7. e \in [stage : {None} \cup Stages, claims : [Roles -> Claim],
               artifacts : [Roles -> {None, "w1", "w2"}]]
    BY <1>1, <2>1, <2>6
  <2>8. \A r \in Roles : engine.artifacts[r] = None => r \in keys /\ r \notin interrupted(engine)
    BY <1>2, <2>3 DEF RoleIsConsistent, interrupted, Stages
  <2> QED
    BY <1>1, <2>2, <2>4, <2>5, <2>7, <2>8
<1> QED
  BY <1>3, <1>4

\* A load alone keeps the files consistent.
LEMMA Loaded ==
  ASSUME AdmissionInv, loadState, ledger' = ledger
  PROVE  /\ \A r \in Roles : RoleIsConsistent(r)'
         /\ LedgerIsSound'
         /\ engine' \in [stage : {None} \cup Stages, claims : [Roles -> Claim],
                         artifacts : [Roles -> {None, "w1", "w2"}]]
         /\ keys' \subseteq Roles
         /\ \A r \in Roles : readAdmission(r)' = readAdmission(r)
         /\ \A r \in Roles : engine.stage = expectedStage(r) /\ engine.claims[r] = None =>
                                engine'.stage = engine.stage
<1>1. engine' = reconciled(engine) /\ keys' = keys \ interrupted(engine)
  BY DEF loadState
<1> PICK e, k : e = engine' /\ k = keys'
  OBVIOUS
<1>2. /\ e \in [stage : {None} \cup Stages, claims : [Roles -> Claim],
                artifacts : [Roles -> {None, "w1", "w2"}]]
      /\ k \subseteq Roles
      /\ e.claims = engine.claims /\ e.artifacts = engine.artifacts
      /\ \A r \in Roles : engine.stage = expectedStage(r) /\ engine.claims[r] = None =>
                                e.stage = engine.stage
      /\ \A r \in Roles : e.stage \in Stages \ {"CASE_CREATED"} /\ e.artifacts[r] = None =>
                                r \in k
  BY <1>1, Reconciled
<1>3. \A r : readAdmission(r)' = readAdmission(r)
  BY DEF readAdmission
<1>4. \A r \in Roles : RoleIsConsistent(r)'
  BY <1>2, <1>3 DEF AdmissionInv, RoleIsConsistent
<1>5. LedgerIsSound'
  BY <1>3 DEF AdmissionInv, LedgerIsSound, bothAdmitted
<1> QED
  BY <1>2, <1>3, <1>4, <1>5

-----------------------------------------------------------------------------
\* The steps.

\* Nothing exists before the case is created.
LEMMA AdmissionInit == Init => AdmissionInv
<1> SUFFICES ASSUME Init PROVE AdmissionInv
  OBVIOUS
<1>1. Shape
  BY DEF Init, Shape, Idle, Points, Claim
<1>2. \A q \in Requests : RequestIsJudged(q) /\ RequestIsAlone(q)
  BY DEF Init, Idle, RequestIsJudged, RequestIsAlone, Judged, Admitting, Holding, at
<1>3. \A r \in Roles : readAdmission(r) = None
  BY AdmissionAssumption DEF Init, readAdmission, readJsonOrNull
<1>4. \A r \in Roles : RoleIsConsistent(r)
  BY <1>3, AdmissionAssumption DEF Init, RoleIsConsistent
<1>5. LedgerIsSound
  BY <1>3 DEF LedgerIsSound, bothAdmitted, Roles
<1> QED
  BY <1>1, <1>2, <1>4, <1>5 DEF AdmissionInv

\* The creation of the case: the engine's stage moves before any role has
\* its turn, and the preparation mints both keys.
LEMMA Created ==
  ASSUME AdmissionInv, NEW q \in Requests, create(q)
  PROVE  AdmissionInv'
<1>0. Shape /\ \A r \in Roles : RoleIsConsistent(r)
  BY DEF AdmissionInv
<1>1. /\ req' \in [Requests -> [at : Points, auth : Claim, code : {None} \cup Codes]]
      /\ \A p \in Requests : p # q => req'[p] = req[p]
      /\ req'[q].at \in Creating \cup {"idle"}
  <2>1. CASE bindCaseCode(q)
    <3>1. PICK c \in Codes : req' = [req EXCEPT ![q].at = "binding", ![q].code = c]
      BY <2>1 DEF bindCaseCode
    <3>2. req \in [Requests -> [at : Points, auth : Claim, code : {None} \cup Codes]]
      BY <1>0 DEF Shape
    <3>3. "binding" \in Points /\ "binding" \in Creating
      BY DEF Points, Creating
    <3> QED
      BY <3>1, <3>2, <3>3
  <2>2. CASE preparePrivateMatch(q)
    BY <1>0, <2>2, Ends DEF preparePrivateMatch
  <2>3. ASSUME NEW to \in Creating, Goto(q, to)
        PROVE  /\ req' \in [Requests -> [at : Points, auth : Claim, code : {None} \cup Codes]]
               /\ \A p \in Requests : p # q => req'[p] = req[p]
               /\ req'[q].at \in Creating \cup {"idle"}
    <3>1. to \in Points
      BY DEF Points
    <3> QED
      BY <1>0, <2>3, <3>1, Moves
  <2>4. CASE createNeutralParticipantCase(q) \/ writeCaseCode(q) \/ recordCaseStart(q)
             \/ writeCaseStart(q)
    <3>1. \E to \in Creating : Goto(q, to)
      BY <2>4 DEF createNeutralParticipantCase, writeCaseCode, recordCaseStart, writeCaseStart,
            Creating
    <3> QED
      BY <2>3, <3>1
  <2> QED
    BY <2>1, <2>2, <2>4 DEF create
<1>2. UNCHANGED <<ledger, lockFile, busy, crashes>>
  BY DEF create, createNeutralParticipantCase, bindCaseCode, writeCaseCode, recordCaseStart,
        writeCaseStart, preparePrivateMatch
<1>3. RequestIsJudged(q)' /\ RequestIsAlone(q)'
  <2>1. req'[q].at \notin Judged \cup Admitting \cup Holding \cup {"context", "writing"}
    BY <1>1 DEF Creating, Judged, Admitting, Holding
  <2> QED
    BY <2>1 DEF RequestIsJudged, RequestIsAlone, at
<1>4. CASE UNCHANGED <<engine, keys>>
  <2>1. Shape'
    BY <1>0, <1>1, <1>2, <1>4 DEF Shape
  <2> QED
    BY <1>1, <1>2, <1>3, <1>4, <2>1, RequestStep
<1>5. CASE \/ engine.stage = None /\ engine' = [engine EXCEPT !.stage = "CASE_CREATED"]
              /\ keys' = keys
           \/ engine.stage = "CASE_CREATED" /\ engine' = [engine EXCEPT !.stage = "MATCH_PREPARED"]
              /\ keys' = Roles
  <2>1. /\ engine'.stage \in {"CASE_CREATED", "MATCH_PREPARED"}
        /\ engine'.claims = engine.claims /\ engine'.artifacts = engine.artifacts
        /\ engine'.stage = "MATCH_PREPARED" => keys' = Roles
    BY <1>0, <1>5 DEF Shape
  <2>2. Shape'
    BY <1>0, <1>1, <1>2, <1>5 DEF Shape, Stages
  <2>3. engine.stage \notin {"MATCH_PREPARED", "PARTICIPANT_A_SUBMITTED"}
    BY <1>5, AdmissionAssumption DEF Stages
  <2>4. \A r \in Roles : readAdmission(r)' = readAdmission(r) /\ engine.stage # expectedStage(r)
    BY <1>2, <2>3 DEF readAdmission, expectedStage
  <2>5. \A r \in Roles : RoleIsConsistent(r)'
    BY <1>0, <1>2, <2>1, <2>4 DEF RoleIsConsistent
  <2>6. LedgerIsSound'
    BY <1>2 DEF AdmissionInv, LedgerIsSound, bothAdmitted, readAdmission
  <2>7. \A p \in Requests : p # q => RequestIsJudged(p)' /\ RequestIsAlone(p)'
    BY <1>1, <1>2, <2>4, OthersKept
  <2> QED
    BY <1>3, <2>2, <2>5, <2>6, <2>7 DEF AdmissionInv
<1>6. \/ UNCHANGED <<engine, keys>>
      \/ engine.stage = None /\ engine' = [engine EXCEPT !.stage = "CASE_CREATED"]
         /\ keys' = keys
      \/ engine.stage = "CASE_CREATED" /\ engine' = [engine EXCEPT !.stage = "MATCH_PREPARED"]
         /\ keys' = Roles
  <2>1. CASE createNeutralParticipantCase(q)
    BY <1>0, <2>1 DEF createNeutralParticipantCase, Shape
  <2>2. CASE ~createNeutralParticipantCase(q)
    BY <2>2 DEF create, bindCaseCode, writeCaseCode, recordCaseStart, writeCaseStart,
          preparePrivateMatch
  <2> QED
    BY <2>1, <2>2
<1> QED
  BY <1>4, <1>5, <1>6

\* A challenge reads the case; the load it makes is its only trace.
LEMMA Challenged ==
  ASSUME AdmissionInv, NEW r \in Roles, NEW c \in Codes, participantAdmissionChallenge(r, c)
  PROVE  AdmissionInv'
<1>1. loadState /\ UNCHANGED <<busy, ledger, lockFile, req, crashes>>
  BY DEF participantAdmissionChallenge
<1>2. /\ \A s \in Roles : RoleIsConsistent(s)'
      /\ LedgerIsSound'
      /\ engine' \in [stage : {None} \cup Stages, claims : [Roles -> Claim],
                      artifacts : [Roles -> {None, "w1", "w2"}]]
      /\ keys' \subseteq Roles
      /\ \A s \in Roles : readAdmission(s)' = readAdmission(s)
      /\ \A s \in Roles : engine.stage = expectedStage(s) /\ engine.claims[s] = None =>
                                engine'.stage = engine.stage
  BY <1>1, Loaded
<1>3. Shape'
  BY <1>1, <1>2 DEF AdmissionInv, Shape
<1>4. \A p \in Requests : p # None => RequestIsJudged(p)' /\ RequestIsAlone(p)'
  BY <1>1, <1>2, OthersKept
<1> QED
  BY <1>2, <1>3, <1>4, AdmissionAssumption DEF AdmissionInv

\* A request with a body arrives.
LEMMA Arrived ==
  ASSUME AdmissionInv, NEW q \in Requests, NEW b \in Bodies, NEW c \in Codes,
         admitParticipant(q, b, c)
  PROVE  AdmissionInv'
<1>1. UNCHANGED <<engine, keys, busy, ledger, lockFile, crashes>>
  BY DEF admitParticipant
<1>2. PICK auth \in Authorizations :
            req' = [req EXCEPT ![q].at = "context", ![q].auth = auth]
  BY DEF admitParticipant, Authorizations
<1>3. req \in [Requests -> [at : Points, auth : Claim, code : {None} \cup Codes]]
  BY DEF AdmissionInv, Shape
<1>4. /\ req' \in [Requests -> [at : Points, auth : Claim, code : {None} \cup Codes]]
      /\ req'[q].at = "context" /\ req'[q].auth = auth
      /\ \A p \in Requests : p # q => req'[p] = req[p]
  BY <1>2, <1>3 DEF Points, Claim
<1>5. Shape'
  BY <1>1, <1>4 DEF AdmissionInv, Shape
<1>6. RequestIsJudged(q)' /\ RequestIsAlone(q)'
  BY <1>4 DEF RequestIsJudged, RequestIsAlone, Judged, Admitting, Holding, at
<1> QED
  BY <1>1, <1>4, <1>5, <1>6, RequestStep

\* The engine's context: a request goes on only with a genuine body, at
\* its role's turn unless its role has its record.
LEMMA ContextRead ==
  ASSUME AdmissionInv, NEW q \in Requests, readParticipantAdmissionContext(q)
  PROVE  AdmissionInv'
<1>1. /\ loadState /\ UNCHANGED <<busy, ledger, lockFile, crashes>> /\ at(q, "context")
      /\ Shape /\ RequestIsJudged(q)
  BY DEF readParticipantAdmissionContext, AdmissionInv
<1>2. /\ \A r \in Roles : RoleIsConsistent(r)'
      /\ LedgerIsSound'
      /\ engine' \in [stage : {None} \cup Stages, claims : [Roles -> Claim],
                      artifacts : [Roles -> {None, "w1", "w2"}]]
      /\ keys' \subseteq Roles
      /\ \A r \in Roles : readAdmission(r)' = readAdmission(r)
      /\ \A r \in Roles : engine.stage = expectedStage(r) /\ engine.claims[r] = None =>
                                engine'.stage = engine.stage
  BY <1>1, Loaded
<1>3. req[q].auth \in Authorizations /\ role(q) \in Roles
  BY <1>1, AuthorizationFields DEF RequestIsJudged, at, role
<1>4. /\ req' \in [Requests -> [at : Points, auth : Claim, code : {None} \cup Codes]]
      /\ \A p \in Requests : p # q => req'[p] = req[p]
      /\ RequestIsJudged(q)' /\ RequestIsAlone(q)'
  <2>1. CASE Finish(q)
    <3>1. req'[q].at = "idle"
      BY <1>1, <2>1, Ends
    <3>2. RequestIsJudged(q)' /\ RequestIsAlone(q)'
      BY <3>1 DEF RequestIsJudged, RequestIsAlone, Judged, Admitting, Holding, at
    <3> QED
      BY <1>1, <2>1, <3>2, Ends
  <2>2. CASE /\ inOrder(reconciled(engine), role(q))
             /\ verifyParticipantAdmissionV2(req[q].auth)
             /\ req[q].auth.body.wallet = canonicalWallet(role(q))
             /\ Goto(q, "policy")
    <3>1. "policy" \in Points
      BY DEF Points, Judged
    <3>2. /\ req' \in [Requests -> [at : Points, auth : Claim, code : {None} \cup Codes]]
          /\ req'[q].at = "policy" /\ req'[q].auth = req[q].auth
          /\ \A p \in Requests : p # q => req'[p] = req[p]
      BY <1>1, <2>2, <3>1, Moves
    <3>3. genuine(req[q].auth)
      BY <2>2 DEF verifyParticipantAdmissionV2, genuine, role
    <3>4. engine' = reconciled(engine) /\ role(q)' = role(q)
      BY <1>1, <3>2 DEF loadState, role
    <3> PICK r \in Roles : r = role(q)
      BY <1>3
    <3>5. readAdmission(r)' = None => engine'.stage = expectedStage(r)
      BY <1>2, <2>2, <3>4 DEF inOrder
    <3>6. RequestIsJudged(q)'
      BY <1>3, <3>2, <3>3, <3>4, <3>5 DEF RequestIsJudged, readAdmission, readJsonOrNull
    <3>7. RequestIsAlone(q)'
      BY <3>2 DEF RequestIsAlone, Holding, at
    <3> QED
      BY <3>2, <3>6, <3>7
  <2> QED
    BY <2>1, <2>2 DEF readParticipantAdmissionContext
<1>5. Shape'
  BY <1>1, <1>2, <1>4 DEF Shape
<1>6. \A p \in Requests : p # q => RequestIsJudged(p)' /\ RequestIsAlone(p)'
  BY <1>1, <1>2, <1>4, OthersKept
<1> QED
  BY <1>2, <1>4, <1>5, <1>6 DEF AdmissionInv

\* The steps of an admission that write no record: the policy's answer,
\* the lock, its removal, and the engine's run lock.
LEMMA Proceeds ==
  ASSUME AdmissionInv, NEW q \in Requests,
         \/ verifyApass(q) \/ withRunAdmissionLock(q) \/ releaseAdmissionLock(q)
         \/ exclusive(q, "claim", "claiming") \/ exclusive(q, "submit", "submitting")
  PROVE  AdmissionInv'
<1>1. /\ UNCHANGED <<engine, keys, ledger, crashes>>
      /\ Shape /\ RequestIsJudged(q) /\ RequestIsAlone(q)
  BY DEF verifyApass, withRunAdmissionLock, releaseAdmissionLock, exclusive, AdmissionInv
<1>2. busy' \in [Processes -> {None} \cup Requests] /\ lockFile' \in {None} \cup Requests
  BY <1>1 DEF verifyApass, withRunAdmissionLock, releaseAdmissionLock, exclusive, unlock, Shape
<1>3. \/ Finish(q) /\ lockFile' = lockFile
      \/ at(q, "policy") /\ Goto(q, "admit") /\ lockFile' = lockFile
      \/ at(q, "admit") /\ Goto(q, "locked") /\ lockFile = None /\ lockFile' = q
      \/ at(q, "written") /\ Goto(q, "claim") /\ lockFile' = None
      \/ at(q, "claim") /\ Goto(q, "claiming") /\ lockFile' = lockFile
      \/ at(q, "submit") /\ Goto(q, "submitting") /\ lockFile' = lockFile
  BY DEF verifyApass, withRunAdmissionLock, releaseAdmissionLock, exclusive, unlock
<1>4. CASE Finish(q) /\ lockFile' = lockFile
  <2>1. /\ req' \in [Requests -> [at : Points, auth : Claim, code : {None} \cup Codes]]
        /\ req'[q].at = "idle"
        /\ \A p \in Requests : p # q => req'[p] = req[p]
    BY <1>1, <1>4, Ends
  <2>2. RequestIsJudged(q)' /\ RequestIsAlone(q)'
    BY <2>1 DEF RequestIsJudged, RequestIsAlone, Judged, Admitting, Holding, at
  <2>3. Shape'
    BY <1>1, <1>2, <2>1 DEF Shape
  <2> QED
    BY <1>1, <1>4, <2>1, <2>2, <2>3, RequestStep
<1>5. ASSUME NEW to \in Judged, Goto(q, to), to # "writing", req[q].at \in Judged,
             to \in Admitting => req[q].at \in Admitting,
             to \in Holding => lockFile' = q,
             lockFile' = lockFile \/ lockFile \in {None, q}
      PROVE  AdmissionInv'
  <2>0. to \in Points
    BY DEF Points
  <2>1. /\ req' \in [Requests -> [at : Points, auth : Claim, code : {None} \cup Codes]]
        /\ req'[q].at = to /\ req'[q].auth = req[q].auth
        /\ \A p \in Requests : p # q => req'[p] = req[p]
    BY <1>1, <1>5, <2>0, Moves
  <2>2. Shape'
    BY <1>1, <1>2, <2>1 DEF Shape
  <2>3. role(q)' = role(q) /\ readAdmission(role(q))' = readAdmission(role(q))
    BY <1>1, <2>1 DEF role, readAdmission
  <2>4. RequestIsJudged(q)'
    BY <1>1, <1>5, <2>1, <2>3 DEF RequestIsJudged
  <2>5. RequestIsAlone(q)'
    BY <1>5, <2>1 DEF RequestIsAlone, at
  <2> QED
    BY <1>1, <1>5, <2>1, <2>2, <2>4, <2>5, RequestStep
<1>6. {"policy", "admit", "locked", "written", "claim", "claiming", "submit", "submitting"}
            \subseteq Judged
  BY DEF Judged, Holding
<1>7. "claim" \notin Admitting \cup Holding /\ "claiming" \notin Admitting \cup Holding
      /\ "submitting" \notin Admitting \cup Holding /\ "admit" \notin Holding
      /\ "policy" \in Admitting /\ "admit" \in Admitting /\ "written" \in Holding
  BY DEF Admitting, Holding
<1>8. at(q, "written") => lockFile = q
  BY <1>1, <1>7 DEF RequestIsAlone, at
<1> QED
  BY <1>3, <1>4, <1>5, <1>6, <1>7, <1>8 DEF at

\* Under the lock: the record is recognised, refused or begun.
LEMMA RoleAdmitted ==
  ASSUME AdmissionInv, NEW q \in Requests, admitParticipantRole(q)
  PROVE  AdmissionInv'
<1> PICK r, auth : r = role(q) /\ auth = req[q].auth
  OBVIOUS
<1>1. /\ UNCHANGED <<engine, keys, busy, crashes>> /\ at(q, "locked")
      /\ Shape /\ RequestIsJudged(q) /\ RequestIsAlone(q)
  BY DEF admitParticipantRole, AdmissionInv
<1>2. lockFile = q /\ auth \in Authorizations /\ genuine(auth)
  BY <1>1 DEF RequestIsJudged, RequestIsAlone, Judged, Holding, at
<1>3. r \in Roles /\ r = auth.body.role /\ other(r) \in Roles /\ other(r) # r
  BY <1>2, AuthorizationFields DEF role
<1>4. ASSUME NEW next \in {"claim", "idle"}, unlock(q, next), ledger' = ledger
      PROVE  AdmissionInv'
  <2>1. lockFile' = None
    BY <1>4 DEF unlock
  <2>2. /\ req' \in [Requests -> [at : Points, auth : Claim, code : {None} \cup Codes]]
        /\ req'[q].at = next
        /\ next = "claim" => req'[q].auth = req[q].auth
        /\ \A p \in Requests : p # q => req'[p] = req[p]
    <3>1. CASE next = "idle"
      <4>1. Finish(q)
        BY <1>4, <3>1 DEF unlock
      <4> QED
        BY <1>1, <3>1, <4>1, Ends
    <3>2. CASE next = "claim"
      <4>1. Goto(q, "claim") /\ "claim" \in Points
        BY <1>4, <3>2 DEF unlock, Points, Judged
      <4> QED
        BY <1>1, <3>2, <4>1, Moves
    <3> QED
      BY <3>1, <3>2
  <2>3. Shape'
    BY <1>1, <1>4, <2>1, <2>2 DEF Shape
  <2>4. RequestIsJudged(q)' /\ RequestIsAlone(q)'
    BY <1>2, <1>4, <2>2 DEF RequestIsJudged, RequestIsAlone, Judged, Admitting, Holding, at
  <2> QED
    BY <1>1, <1>2, <1>4, <2>1, <2>2, <2>3, <2>4, RequestStep
<1>5. ASSUME readAdmission(r) = None, admissible(auth), ledger[r] = None,
             ledger' = [ledger EXCEPT ![r] = Torn], Goto(q, "writing"), lockFile' = lockFile
      PROVE  AdmissionInv'
  <2>0. "writing" \in Points
    BY DEF Points, Judged, Holding
  <2>1. /\ req' \in [Requests -> [at : Points, auth : Claim, code : {None} \cup Codes]]
        /\ req'[q].at = "writing" /\ req'[q].auth = auth
        /\ \A p \in Requests : p # q => req'[p] = req[p]
    BY <1>1, <1>5, <2>0, Moves
  <2>2. ledger' \in [Roles -> {None, Torn} \cup Authorizations] /\ ledger'[r] = Torn
        /\ \A s \in Roles : s # r => ledger'[s] = ledger[s]
    BY <1>1, <1>3, <1>5 DEF Shape
  <2>3. \A s \in Roles : readAdmission(s)' = readAdmission(s)
    BY <1>5, <2>2 DEF readAdmission, readJsonOrNull
  <2>4. \A s \in Roles : RoleIsConsistent(s)'
    <3> TAKE s \in Roles
    <3>1. RoleIsConsistent(s) /\ (readAdmission(s) # None => ledger'[s] = ledger[s])
      BY <1>5, <2>2 DEF AdmissionInv
    <3> QED
      BY <1>1, <2>3, <3>1 DEF RoleIsConsistent
  <2>5. LedgerIsSound'
    <3>1. bothAdmitted' => bothAdmitted /\ ledger' = ledger
      BY <1>3, <1>5, <2>3 DEF bothAdmitted
    <3>2. LedgerIsSound /\ {"A", "B"} \subseteq Roles
      BY DEF AdmissionInv, Roles
    <3> QED
      BY <2>3, <3>1, <3>2 DEF LedgerIsSound
  <2>6. Shape'
    BY <1>1, <1>5, <2>1, <2>2 DEF Shape
  <2>7. role(q)' = r
    BY <2>1 DEF role
  <2>8. RequestIsJudged(q)'
    <3>1. readAdmission(r) = None => engine.stage = expectedStage(r)
      BY <1>1 DEF RequestIsJudged, at, Admitting
    <3> QED
      BY <1>1, <1>2, <1>5, <2>1, <2>7, <3>1 DEF RequestIsJudged
  <2>9. RequestIsAlone(q)'
    <3>1. readAdmission(other(r))' = readAdmission(other(r))
      BY <1>3, <2>3 DEF other
    <3>2. admissible(auth)'
      BY <1>3, <1>5, <3>1 DEF admissible
    <3> QED
      BY <1>2, <1>5, <2>1, <2>2, <2>7, <3>2 DEF RequestIsAlone, at, admissible
  <2>10. \A p \in Requests : p # q => RequestIsJudged(p)' /\ RequestIsAlone(p)'
    BY <1>1, <1>2, <1>5, <2>1, <2>3, OthersKept
  <2> QED
    BY <2>4, <2>5, <2>6, <2>8, <2>9, <2>10 DEF AdmissionInv
<1> QED
  BY <1>4, <1>5 DEF admitParticipantRole

\* The record's content: the other role's record is what it was when the
\* rules between the two were checked.
LEMMA RecordWritten ==
  ASSUME AdmissionInv, NEW q \in Requests, writeCreateOnly(q)
  PROVE  AdmissionInv'
<1> PICK r, auth : r = role(q) /\ auth = req[q].auth
  OBVIOUS
<1>1. /\ UNCHANGED <<engine, keys, busy, lockFile, crashes>> /\ at(q, "writing")
      /\ ledger' = [ledger EXCEPT ![r] = auth] /\ Goto(q, "written")
      /\ Shape /\ RequestIsJudged(q) /\ RequestIsAlone(q)
  BY DEF writeCreateOnly, AdmissionInv
<1>2. /\ lockFile = q /\ auth \in Authorizations /\ genuine(auth)
      /\ ledger[r] = Torn /\ admissible(auth)
  BY <1>1 DEF RequestIsJudged, RequestIsAlone, Judged, Holding, at
<1>3. /\ r \in Roles /\ r = auth.body.role /\ other(r) \in Roles /\ other(r) # r
      /\ auth # None /\ auth # Torn
  BY <1>2, AuthorizationFields DEF role
<1>4. /\ req' \in [Requests -> [at : Points, auth : Claim, code : {None} \cup Codes]]
      /\ req'[q].at = "written" /\ req'[q].auth = auth
      /\ \A p \in Requests : p # q => req'[p] = req[p]
  <2>0. "written" \in Points
    BY DEF Points, Judged, Holding
  <2> QED
    BY <1>1, <2>0, Moves
<1>5. ledger' \in [Roles -> {None, Torn} \cup Authorizations] /\ ledger'[r] = auth
      /\ \A s \in Roles : s # r => ledger'[s] = ledger[s]
  BY <1>1, <1>2, <1>3 DEF Shape
<1>6. /\ readAdmission(r) = None /\ readAdmission(r)' = auth
      /\ \A s \in Roles : s # r => readAdmission(s)' = readAdmission(s)
  BY <1>2, <1>3, <1>5 DEF readAdmission, readJsonOrNull
<1>7. engine.stage = expectedStage(r)
  BY <1>1, <1>6 DEF RequestIsJudged, at, Admitting
<1>8. \A s \in Roles : RoleIsConsistent(s)'
  <2> TAKE s \in Roles
  <2>1. RoleIsConsistent(s)
    BY DEF AdmissionInv
  <2>2. CASE s = r
    BY <1>1, <1>2, <1>3, <1>5, <1>6, <1>7, <2>1, <2>2 DEF RoleIsConsistent
  <2>3. CASE s # r
    BY <1>1, <1>5, <1>6, <2>1, <2>3 DEF RoleIsConsistent
  <2> QED
    BY <2>2, <2>3
<1>9. LedgerIsSound'
  <2>1. LedgerIsSound
    BY DEF AdmissionInv
  <2>2. CASE r = "A"
    <3>1. readAdmission("B")' = readAdmission("B") /\ readAdmission("B") = None
      BY <1>2, <1>3, <1>6, <2>2 DEF admissible, other, Roles
    <3> QED
      BY <3>1 DEF LedgerIsSound, bothAdmitted, Roles
  <2>3. CASE r = "B"
    <3>1. /\ readAdmission("A")' = readAdmission("A") /\ readAdmission("A") # None
          /\ ledger'["A"] = ledger["A"] /\ ledger'["B"] = auth
      BY <1>2, <1>3, <1>5, <1>6, <2>3 DEF admissible, other, Roles
    <3>2. ledger["A"] = readAdmission("A")
      BY <3>1 DEF readAdmission, readJsonOrNull
    <3> QED
      BY <1>2, <1>3, <2>3, <3>1, <3>2 DEF LedgerIsSound, admissible, other
  <2> QED
    BY <1>3, <2>2, <2>3 DEF Roles
<1>10. Shape'
  BY <1>1, <1>4, <1>5 DEF Shape
<1>11. RequestIsJudged(q)' /\ RequestIsAlone(q)'
  BY <1>1, <1>2, <1>4 DEF RequestIsJudged, RequestIsAlone, Admitting, Judged, Holding, at
<1>12. \A p \in Requests : p # q => RequestIsJudged(p)' /\ RequestIsAlone(p)'
  <2>1. \A s \in Roles : readAdmission(s)' = None => readAdmission(s) = None
    BY <1>3, <1>6
  <2> QED
    BY <1>1, <1>2, <1>4, <2>1, OthersKept
<1> QED
  BY <1>8, <1>9, <1>10, <1>11, <1>12 DEF AdmissionInv

\* The engine records the claim that the ledger proves.
LEMMA ClaimAdmitted ==
  ASSUME AdmissionInv, NEW q \in Requests, admitParticipantClaim(q)
  PROVE  AdmissionInv'
<1> PICK r, auth, e, k : /\ r = role(q) /\ auth = req[q].auth
                         /\ e = reconciled(engine) /\ k = keys \ interrupted(engine)
  OBVIOUS
<1>1. /\ UNCHANGED <<ledger, lockFile, crashes>> /\ at(q, "claiming") /\ keys' = k
      /\ busy' = [busy EXCEPT ![process[q]] = None]
      /\ Shape /\ RequestIsJudged(q)
  BY DEF admitParticipantClaim, AdmissionInv
<1>2. \/ Finish(q) /\ engine' = e
      \/ Goto(q, "submit") /\ readAdmission(r) = auth /\ engine' = [e EXCEPT !.claims[r] = auth]
  BY DEF admitParticipantClaim, assertVerifiedDurableAdmission
<1>3. auth \in Authorizations /\ genuine(auth) /\ r \in Roles /\ auth # None
  BY <1>1, AuthorizationFields DEF RequestIsJudged, Judged, at, role
<1>4. /\ e \in [stage : {None} \cup Stages, claims : [Roles -> Claim],
                artifacts : [Roles -> {None, "w1", "w2"}]]
      /\ k \subseteq Roles
      /\ e.claims = engine.claims /\ e.artifacts = engine.artifacts
      /\ \A s \in Roles : engine.stage = expectedStage(s) /\ engine.claims[s] = None =>
                                e.stage = engine.stage
      /\ \A s \in Roles : e.stage \in Stages \ {"CASE_CREATED"} /\ e.artifacts[s] = None =>
                                s \in k
  BY Reconciled
<1>5. /\ req' \in [Requests -> [at : Points, auth : Claim, code : {None} \cup Codes]]
      /\ req'[q].at \in {"idle", "submit"}
      /\ req'[q].at = "submit" => req'[q].auth = auth
      /\ \A p \in Requests : p # q => req'[p] = req[p]
  <2>1. CASE Finish(q)
    BY <1>1, <2>1, Ends
  <2>2. CASE Goto(q, "submit")
    <3>1. "submit" \in Points
      BY DEF Points, Judged
    <3> QED
      BY <1>1, <2>2, <3>1, Moves
  <2> QED
    BY <1>2, <2>1, <2>2
<1>6. RequestIsJudged(q)' /\ RequestIsAlone(q)'
  BY <1>3, <1>5 DEF RequestIsJudged, RequestIsAlone, Judged, Admitting, Holding, at
<1>7. /\ engine' \in [stage : {None} \cup Stages, claims : [Roles -> Claim],
                      artifacts : [Roles -> {None, "w1", "w2"}]]
      /\ engine'.stage = e.stage /\ engine'.artifacts = e.artifacts
      /\ \A s \in Roles : s # r => engine'.claims[s] = e.claims[s]
      /\ \/ engine'.claims[r] = e.claims[r]
         \/ engine'.claims[r] = auth /\ readAdmission(r) = auth
  <2>1. CASE engine' = e
    BY <1>4, <2>1
  <2>2. CASE readAdmission(r) = auth /\ engine' = [e EXCEPT !.claims[r] = auth]
    BY <1>3, <1>4, <2>2 DEF Claim
  <2> QED
    BY <1>2, <2>1, <2>2
<1>8. \A s : readAdmission(s)' = readAdmission(s)
  BY <1>1 DEF readAdmission
<1>9. \A s \in Roles : RoleIsConsistent(s)'
  <2> TAKE s \in Roles
  <2>1. RoleIsConsistent(s)
    BY DEF AdmissionInv
  <2> QED
    BY <1>1, <1>3, <1>4, <1>7, <1>8, <2>1 DEF RoleIsConsistent
<1>10. LedgerIsSound'
  BY <1>1, <1>8 DEF AdmissionInv, LedgerIsSound, bothAdmitted
<1>11. Shape'
  BY <1>1, <1>4, <1>5, <1>7 DEF Shape
<1>12. \A p \in Requests : p # q => RequestIsJudged(p)' /\ RequestIsAlone(p)'
  <2>1. \A s \in Roles : engine.stage = expectedStage(s) /\ engine.claims[s] = None =>
                                engine'.stage = engine.stage
    BY <1>4, <1>7
  <2> QED
    BY <1>1, <1>5, <1>8, <2>1, OthersKept
<1> QED
  BY <1>6, <1>9, <1>10, <1>11, <1>12 DEF AdmissionInv

\* The pledge is published with the window of the recorded claim, and only
\* the role that submits gives up its turn and its key.
LEMMA PledgeSubmitted ==
  ASSUME AdmissionInv, NEW q \in Requests, submitParticipantPledge(q)
  PROVE  AdmissionInv'
<1> PICK r, e, k : /\ r = role(q)
                   /\ e = reconciled(engine) /\ k = keys \ interrupted(engine)
  OBVIOUS
<1>1. /\ UNCHANGED <<ledger, lockFile, crashes>> /\ at(q, "submitting") /\ Finish(q)
      /\ busy' = [busy EXCEPT ![process[q]] = None]
      /\ Shape /\ RequestIsJudged(q)
  BY DEF submitParticipantPledge, AdmissionInv
<1>2. r \in Roles
  BY <1>1, AuthorizationFields DEF RequestIsJudged, Judged, at, role
<1>3. /\ e \in [stage : {None} \cup Stages, claims : [Roles -> Claim],
                artifacts : [Roles -> {None, "w1", "w2"}]]
      /\ k \subseteq Roles
      /\ e.claims = engine.claims /\ e.artifacts = engine.artifacts
      /\ \A s \in Roles : engine.stage = expectedStage(s) /\ engine.claims[s] = None =>
                                e.stage = engine.stage
      /\ \A s \in Roles : e.stage \in Stages \ {"CASE_CREATED"} /\ e.artifacts[s] = None =>
                                s \in k
  BY Reconciled
<1>4. PICK publishes \in BOOLEAN, to \in {e.stage, stageAfter(r), "PARTICIPANT_B_SUBMITTED"} :
        /\ engine' = [e EXCEPT !.artifacts[r] = IF publishes THEN e.claims[r].body.sent ELSE @,
                               !.stage = to]
        /\ keys' = k \ (IF publishes THEN {r} ELSE {})
        /\ publishes => e.claims[r] # None /\ e.stage = expectedStage(r)
        /\ \/ to = e.stage
           \/ r = "A" /\ publishes /\ to = stageAfter(r)
           \/ /\ r = "B" /\ e.claims[r] # None /\ to = "PARTICIPANT_B_SUBMITTED"
              /\ e.stage \in {expectedStage(r), "PARTICIPANT_B_PUBLISHED"}
  <2> DEFINE admitted == e.claims[r] # None /\ assertVerifiedDurableAdmission(r, e.claims[r])
             pub == admitted /\ e.stage = expectedStage(r) /\ e.artifacts[r] = None /\ r \in keys
             finalizes == admitted /\ r = "B" /\ (pub \/ e.stage = "PARTICIPANT_B_PUBLISHED")
             stage == CASE finalizes -> "PARTICIPANT_B_SUBMITTED"
                        [] pub /\ r = "A" -> stageAfter(r)
                        [] OTHER -> e.stage
  <2>1. /\ engine' = [e EXCEPT !.artifacts[r] = IF pub THEN e.claims[r].body.sent ELSE @,
                               !.stage = stage]
        /\ keys' = k \ (IF pub THEN {r} ELSE {})
    BY <1>3 DEF submitParticipantPledge
  <2>2. pub => e.claims[r] # None /\ e.stage = expectedStage(r)
    OBVIOUS
  <2>3. \/ stage = e.stage
        \/ r = "A" /\ pub /\ stage = stageAfter(r)
        \/ /\ r = "B" /\ e.claims[r] # None /\ stage = "PARTICIPANT_B_SUBMITTED"
           /\ e.stage \in {expectedStage(r), "PARTICIPANT_B_PUBLISHED"}
    OBVIOUS
  <2>4. pub \in BOOLEAN /\ stage \in {e.stage, stageAfter(r), "PARTICIPANT_B_SUBMITTED"}
    BY <2>3
  <2> HIDE DEF pub, stage
  <2> QED
    BY <2>1, <2>2, <2>3, <2>4
<1>5. publishes => e.claims[r] \in Authorizations /\ e.claims[r].body.sent \in {"w1", "w2"}
  BY <1>2, <1>3, <1>4, AuthorizationFields DEF Claim
<1>6. /\ engine' \in [stage : {None} \cup Stages, claims : [Roles -> Claim],
                      artifacts : [Roles -> {None, "w1", "w2"}]]
      /\ engine'.stage = to /\ engine'.claims = e.claims
      /\ \A s \in Roles : s # r => engine'.artifacts[s] = e.artifacts[s]
      /\ engine'.artifacts[r] = IF publishes THEN e.claims[r].body.sent ELSE e.artifacts[r]
  <2>1. to \in {None} \cup Stages
    BY <1>3, <1>4 DEF stageAfter, Stages
  <2>2. CASE publishes
    <3>1. engine' = [e EXCEPT !.artifacts[r] = e.claims[r].body.sent, !.stage = to]
      BY <1>4, <2>2
    <3> QED
      BY <1>2, <1>3, <1>5, <2>1, <2>2, <3>1
  <2>3. CASE ~publishes
    <3>1. engine' = [e EXCEPT !.stage = to]
      BY <1>2, <1>3, <1>4, <2>3
    <3> QED
      BY <1>3, <2>1, <2>3, <3>1
  <2> QED
    BY <2>2, <2>3
<1>7. to # e.stage => /\ engine.claims[r] # None
                      /\ e.stage \in Stages \ {"CASE_CREATED"}
                      /\ \A s \in Roles : e.stage = expectedStage(s) => s = r
  BY <1>2, <1>3, <1>4 DEF expectedStage, Stages, Roles
<1>8. \A s \in Roles : engine.stage = expectedStage(s) /\ engine.claims[s] = None =>
                                engine'.stage = engine.stage
  BY <1>3, <1>6, <1>7
<1>9. \A s : readAdmission(s)' = readAdmission(s)
  BY <1>1 DEF readAdmission
<1>10. \A s \in Roles : RoleIsConsistent(s)'
  <2> TAKE s \in Roles
  <2>1. RoleIsConsistent(s)
    BY DEF AdmissionInv
  <2>2. readAdmission(s) # None /\ engine.claims[s] = None => engine'.stage = expectedStage(s)
    BY <1>8, <2>1 DEF RoleIsConsistent
  <2>3. engine'.artifacts[s] # None =>
            engine'.claims[s] # None /\ engine'.artifacts[s] = engine'.claims[s].body.sent
    BY <1>3, <1>4, <1>6, <2>1 DEF RoleIsConsistent
  <2>4. engine'.stage \in Stages \ {"CASE_CREATED"} /\ engine'.artifacts[s] = None => s \in keys'
    <3>1. publishes => engine'.artifacts[r] # None
      BY <1>5, <1>6, AdmissionAssumption
    <3> QED
      BY <1>3, <1>4, <1>6, <1>7, <3>1
  <2> QED
    BY <1>1, <1>3, <1>6, <1>9, <2>1, <2>2, <2>3, <2>4 DEF RoleIsConsistent
<1>11. LedgerIsSound'
  BY <1>1, <1>9 DEF AdmissionInv, LedgerIsSound, bothAdmitted
<1>12. /\ req' \in [Requests -> [at : Points, auth : Claim, code : {None} \cup Codes]]
       /\ req'[q].at = "idle"
       /\ \A p \in Requests : p # q => req'[p] = req[p]
  BY <1>1, Ends
<1>13. Shape'
  BY <1>1, <1>3, <1>4, <1>6, <1>12 DEF Shape
<1>14. RequestIsJudged(q)' /\ RequestIsAlone(q)'
  BY <1>12 DEF RequestIsJudged, RequestIsAlone, Judged, Admitting, Holding, at
<1>15. \A p \in Requests : p # q => RequestIsJudged(p)' /\ RequestIsAlone(p)'
  BY <1>1, <1>8, <1>9, <1>12, OthersKept
<1> QED
  BY <1>10, <1>11, <1>13, <1>14, <1>15 DEF AdmissionInv

\* A process is killed: whatever its submission has published has its
\* claim, and its lock file stays.
LEMMA Crashed ==
  ASSUME AdmissionInv, NEW p \in Processes, Crash(p)
  PROVE  AdmissionInv'
<1>1. /\ UNCHANGED <<ledger, lockFile>> /\ crashes' = crashes + 1
      /\ req' = [q \in Requests |-> IF process[q] = p THEN Idle ELSE req[q]]
      /\ busy' = [busy EXCEPT ![p] = None]
      /\ Shape
  BY DEF Crash, AdmissionInv
<1>2. /\ req' \in [Requests -> [at : Points, auth : Claim, code : {None} \cup Codes]]
      /\ \A q \in Requests : req'[q] = req[q] \/ req'[q].at = "idle"
  BY <1>1 DEF Shape, Idle, Points, Claim
<1>3. \A r : readAdmission(r)' = readAdmission(r)
  BY <1>1 DEF readAdmission
<1>4. LedgerIsSound'
  BY <1>1, <1>3 DEF AdmissionInv, LedgerIsSound, bothAdmitted
<1>5. /\ engine' \in [stage : {None} \cup Stages, claims : [Roles -> Claim],
                      artifacts : [Roles -> {None, "w1", "w2"}]]
      /\ keys' \subseteq Roles
      /\ engine'.stage = engine.stage
      /\ \A r \in Roles : RoleIsConsistent(r)'
  <2>0. engine \in [stage : {None} \cup Stages, claims : [Roles -> Claim],
                    artifacts : [Roles -> {None, "w1", "w2"}]] /\ keys \subseteq Roles
    BY <1>1 DEF Shape
  <2>1. CASE UNCHANGED <<engine, keys>>
    BY <1>1, <2>0, <2>1, FilesKept
  <2>2. CASE ~UNCHANGED <<engine, keys>>
    <3> PICK r : r = role(busy[p])
      OBVIOUS
    <3>1. /\ busy[p] # None /\ req[busy[p]].at = "submitting" /\ engine.claims[r] # None
          /\ engine' = [engine EXCEPT !.artifacts[r] = engine.claims[r].body.sent]
          /\ keys' \in {keys, keys \ {r}}
      BY <2>2 DEF Crash
    <3>2. busy[p] \in Requests
      BY <1>1, <3>1 DEF Shape
    <3>3. r \in Roles
      BY <3>1, <3>2, AuthorizationFields DEF AdmissionInv, RequestIsJudged, Judged, role
    <3>4. engine.claims[r] \in Authorizations /\ engine.claims[r].body.sent \in {"w1", "w2"}
      BY <2>0, <3>1, <3>3, AuthorizationFields DEF Claim
    <3>5. /\ engine' \in [stage : {None} \cup Stages, claims : [Roles -> Claim],
                          artifacts : [Roles -> {None, "w1", "w2"}]]
          /\ engine'.stage = engine.stage /\ engine'.claims = engine.claims
          /\ engine'.artifacts[r] = engine.claims[r].body.sent
          /\ \A s \in Roles : s # r => engine'.artifacts[s] = engine.artifacts[s]
      BY <2>0, <3>1, <3>3, <3>4
    <3>6. engine'.artifacts[r] # None
      BY <3>4, <3>5, AdmissionAssumption
    <3>7. \A s \in Roles : RoleIsConsistent(s)'
      <4> TAKE s \in Roles
      <4>1. RoleIsConsistent(s)
        BY DEF AdmissionInv
      <4> QED
        BY <1>1, <1>3, <3>1, <3>5, <3>6, <4>1 DEF RoleIsConsistent
    <3> QED
      BY <2>0, <3>1, <3>5, <3>7
  <2> QED
    BY <2>1, <2>2
<1>6. Shape'
  BY <1>1, <1>2, <1>5 DEF Shape
<1>7. \A q \in Requests : q # None => RequestIsJudged(q)' /\ RequestIsAlone(q)'
  BY <1>1, <1>2, <1>3, <1>5, OthersKept
<1> QED
  BY <1>4, <1>5, <1>6, <1>7, AdmissionAssumption DEF AdmissionInv

\* Every step keeps the invariant.
LEMMA AdmissionNext ==
  AdmissionInv /\ [Next]_vars => AdmissionInv'
<1> SUFFICES ASSUME AdmissionInv, [Next]_vars
             PROVE  AdmissionInv'
  OBVIOUS
<1>1. ASSUME NEW q \in Requests, create(q)
      PROVE  AdmissionInv'
  BY <1>1, Created
<1>2. ASSUME NEW q \in Requests, admit(q)
      PROVE  AdmissionInv'
  BY <1>2, ContextRead, Proceeds, RoleAdmitted, RecordWritten, ClaimAdmitted, PledgeSubmitted
     DEF admit
<1>3. CASE \E r \in Roles, c \in Codes : participantAdmissionChallenge(r, c)
  BY <1>3, Challenged
<1>4. CASE \E q \in Requests, b \in Bodies, c \in Codes : admitParticipant(q, b, c)
  BY <1>4, Arrived
<1>5. CASE \E p \in Processes : Crash(p)
  BY <1>5, Crashed
<1>6. CASE Tick \/ UNCHANGED vars
  <2>1. UNCHANGED <<engine, keys, busy, ledger, lockFile, req, crashes>>
    BY <1>6 DEF Tick, vars
  <2>2. Shape'
    BY <2>1 DEF AdmissionInv, Shape
  <2>3. \A r \in Roles : readAdmission(r)' = readAdmission(r)
    BY <2>1 DEF readAdmission
  <2>4. \A q \in Requests : q # None => RequestIsJudged(q)' /\ RequestIsAlone(q)'
    BY <2>1, <2>3, OthersKept
  <2> QED
    BY <2>1, <2>2, <2>4, FilesKept, AdmissionAssumption DEF AdmissionInv
<1> QED
  BY <1>1, <1>2, <1>3, <1>4, <1>5, <1>6 DEF Next

-----------------------------------------------------------------------------
\* The theorems.

\* The inductive invariant holds in every reachable state.
THEOREM AdmissionInvariant == Spec => []AdmissionInv
BY AdmissionInit, AdmissionNext, PTL DEF Spec

\* Whoever races whom on the ledger files of the volume, and whichever
\* process is killed in between, the two admitted wallets and their nonces
\* differ and B is not admitted without A.
THEOREM LedgerStaysSound == Spec => []LedgerIsSound
<1>1. AdmissionInv => LedgerIsSound
  BY DEF AdmissionInv
<1> QED
  BY <1>1, AdmissionInvariant, PTL

\* A role with its record and without its claim can still be completed:
\* the engine waits at its turn and has its key.
THEOREM RetryAlwaysCanComplete == Spec => []RetryCanComplete
<1>1. ASSUME AdmissionInv, NEW r \in Roles, readAdmission(r) # None, engine.claims[r] = None
      PROVE  reconciled(engine).stage = expectedStage(r) /\ r \in keys
  <2>1. RoleIsConsistent(r) /\ engine.stage = expectedStage(r)
    BY <1>1 DEF AdmissionInv, RoleIsConsistent
  <2>2. engine.artifacts[r] = None /\ engine.stage \in Stages \ {"CASE_CREATED"}
    BY <1>1, <2>1 DEF RoleIsConsistent, expectedStage, Stages
  <2>3. PICK e, k : e = reconciled(engine) /\ k = keys \ interrupted(engine)
    OBVIOUS
  <2>4. e.stage = engine.stage
    BY <1>1, <2>1, <2>3, Reconciled
  <2> QED
    BY <2>1, <2>2, <2>3, <2>4 DEF RoleIsConsistent
<1>2. AdmissionInv => RetryCanComplete
  BY <1>1 DEF RetryCanComplete
<1> QED
  BY <1>2, AdmissionInvariant, PTL

\* A published pledge carries the window the admitted wallet signed, for
\* the key it signed.
THEOREM PledgesAreAuthorized == Spec => []PledgeIsAuthorized
<1>1. AdmissionInv => PledgeIsAuthorized
  <2> SUFFICES ASSUME AdmissionInv, NEW r \in Roles, engine.artifacts[r] # None
               PROVE  /\ readAdmission(r) # None
                      /\ ledger[r].body.wallet = canonicalWallet(r)
                      /\ ledger[r].body.window = engine.artifacts[r]
                      /\ ledger[r].body.key = "published"
    BY DEF PledgeIsAuthorized
  <2>1. /\ engine.claims[r] # None /\ engine.artifacts[r] = engine.claims[r].body.sent
        /\ engine.claims[r] = readAdmission(r)
        /\ genuine(ledger[r]) /\ ledger[r].body.role = r
    BY DEF AdmissionInv, RoleIsConsistent
  <2>2. readAdmission(r) = ledger[r]
    BY <2>1 DEF readAdmission, readJsonOrNull
  <2> QED
    BY <2>1, <2>2 DEF genuine
<1> QED
  BY <1>1, AdmissionInvariant, PTL

\* A complete record is never written again.
LEMMA RecordsKept ==
  ASSUME AdmissionInv, [Next]_vars, NEW r \in Roles
  PROVE  ledger[r] \notin {None, Torn} => ledger'[r] = ledger[r]
<1>0. Shape
  BY DEF AdmissionInv
<1>1. CASE ledger' = ledger
  BY <1>1
<1>2. ASSUME NEW q \in Requests, admitParticipantRole(q), ledger' # ledger
      PROVE  ledger[r] \notin {None, Torn} => ledger'[r] = ledger[r]
  <2>1. ledger[role(q)] = None /\ ledger' = [ledger EXCEPT ![role(q)] = Torn]
    BY <1>2 DEF admitParticipantRole
  <2> QED
    BY <1>0, <2>1 DEF Shape
<1>3. ASSUME NEW q \in Requests, writeCreateOnly(q)
      PROVE  ledger[r] \notin {None, Torn} => ledger'[r] = ledger[r]
  <2>1. ledger[role(q)] = Torn /\ ledger' = [ledger EXCEPT ![role(q)] = req[q].auth]
    BY <1>3 DEF writeCreateOnly, AdmissionInv, RequestIsAlone
  <2> QED
    BY <1>0, <2>1 DEF Shape
<1>4. ASSUME ledger' # ledger
      PROVE  \E q \in Requests : admitParticipantRole(q) \/ writeCreateOnly(q)
  BY <1>4 DEF Next, create, admit, createNeutralParticipantCase, bindCaseCode, writeCaseCode,
        recordCaseStart, writeCaseStart, preparePrivateMatch, participantAdmissionChallenge,
        admitParticipant, readParticipantAdmissionContext, verifyApass, withRunAdmissionLock,
        releaseAdmissionLock, exclusive, admitParticipantClaim, submitParticipantPledge,
        Crash, Tick, vars
<1> QED
  BY <1>1, <1>2, <1>3, <1>4

\* A complete record and a recorded claim are never replaced.
THEOREM RolesAreNeverReassigned == Spec => NeverReassigned
<1> DEFINE Kept == \A r \in Roles :
                    /\ ledger[r] \notin {None, Torn} => ledger'[r] = ledger[r]
                    /\ engine.claims[r] # None => engine'.claims[r] = engine.claims[r]
<1>1. AdmissionInv /\ [Next]_vars => [Kept]_vars
  <2> SUFFICES ASSUME AdmissionInv, Next, NEW r \in Roles
               PROVE  /\ ledger[r] \notin {None, Torn} => ledger'[r] = ledger[r]
                      /\ engine.claims[r] # None => engine'.claims[r] = engine.claims[r]
    OBVIOUS
  <2>0. Shape /\ AdmissionInv'
    BY AdmissionNext DEF AdmissionInv
  <2>1. ledger[r] \notin {None, Torn} => ledger'[r] = ledger[r]
    BY RecordsKept
  <2>2. ASSUME engine.claims[r] # None
        PROVE  engine'.claims[r] = engine.claims[r]
    <3>1. engine.claims[r] = readAdmission(r)
      BY <2>2 DEF AdmissionInv, RoleIsConsistent
    <3>2. ledger[r] \notin {None, Torn} /\ readAdmission(r) = ledger[r]
      BY <2>2, <3>1 DEF readAdmission, readJsonOrNull
    <3>3. ledger'[r] = ledger[r]
      BY <2>1, <3>2
    <3>4. readAdmission(r)' = engine.claims[r]
      BY <3>1, <3>2, <3>3 DEF readAdmission, readJsonOrNull
    <3>5. engine'.claims[r] # None => engine'.claims[r] = readAdmission(r)'
      BY <2>0 DEF AdmissionInv, RoleIsConsistent
    <3>6. engine'.claims[r] # None
      <4>0. engine \in [stage : {None} \cup Stages, claims : [Roles -> Claim],
                        artifacts : [Roles -> {None, "w1", "w2"}]]
        BY <2>0 DEF Shape
      <4> PICK e : e = reconciled(engine)
        OBVIOUS
      <4>1. e.claims = engine.claims /\ e \in [stage : {None} \cup Stages,
                claims : [Roles -> Claim], artifacts : [Roles -> {None, "w1", "w2"}]]
        BY Reconciled
      <4>2. \/ engine'.claims = engine.claims
            \/ \E q \in Requests : req[q].auth # None /\ role(q) \in Roles
                    /\ engine' = [e EXCEPT !.claims[role(q)] = req[q].auth]
        <5>1. CASE \E q \in Requests : create(q)
          BY <4>0, <5>1 DEF create, createNeutralParticipantCase, bindCaseCode, writeCaseCode,
                recordCaseStart, writeCaseStart, preparePrivateMatch
        <5>2. ASSUME NEW q \in Requests, admitParticipantClaim(q)
              PROVE  \/ engine'.claims = engine.claims
                     \/ req[q].auth # None /\ role(q) \in Roles
                            /\ engine' = [e EXCEPT !.claims[role(q)] = req[q].auth]
          <6>1. req[q].auth \in Authorizations
            BY <5>2 DEF admitParticipantClaim, AdmissionInv, RequestIsJudged, Judged, at
          <6>2. req[q].auth # None /\ role(q) \in Roles
            BY <6>1, AuthorizationFields DEF role
          <6> QED
            BY <4>1, <5>2, <6>2 DEF admitParticipantClaim
        <5>3. ASSUME NEW q \in Requests, submitParticipantPledge(q)
              PROVE  engine'.claims = engine.claims
          <6>1. \E a, s : engine' = [e EXCEPT !.artifacts[role(q)] = a, !.stage = s]
            BY <4>1, <5>3 DEF submitParticipantPledge
          <6> QED
            BY <4>1, <6>1
        <5>4. ASSUME loadState
              PROVE  engine'.claims = engine.claims
          BY <4>1, <5>4 DEF loadState
        <5>5. CASE \E p \in Processes : Crash(p)
          BY <4>0, <5>5 DEF Crash
        <5>6. \/ \E q \in Requests : create(q) \/ admitParticipantClaim(q) \/ submitParticipantPledge(q)
              \/ loadState \/ \E p \in Processes : Crash(p)
              \/ engine' = engine
          BY DEF Next, admit, participantAdmissionChallenge,
                admitParticipant, readParticipantAdmissionContext, verifyApass, withRunAdmissionLock,
                admitParticipantRole, writeCreateOnly, releaseAdmissionLock, exclusive, Tick
        <5> QED
          BY <5>1, <5>2, <5>3, <5>4, <5>5, <5>6
      <4> QED
        BY <2>2, <4>1, <4>2
    <3> QED
      BY <3>4, <3>5, <3>6
  <2> QED
    BY <2>1, <2>2
<1> QED
  BY <1>1, AdmissionInvariant, PTL DEF Spec, NeverReassigned

\* The order of the stages.
rank(stage) ==
    CASE stage = None -> 0
      [] stage = "CASE_CREATED" -> 1
      [] stage = "MATCH_PREPARED" -> 2
      [] stage = "PARTICIPANT_A_SUBMITTED" -> 3
      [] stage = "PARTICIPANT_B_PUBLISHED" -> 4
      [] stage = "PARTICIPANT_B_SUBMITTED" -> 5

\* The ranks, as numbers.
LEMMA Ranks ==
  /\ rank(None) = 0 /\ rank("CASE_CREATED") = 1 /\ rank("MATCH_PREPARED") = 2
  /\ rank("PARTICIPANT_A_SUBMITTED") = 3 /\ rank("PARTICIPANT_B_PUBLISHED") = 4
  /\ rank("PARTICIPANT_B_SUBMITTED") = 5
  /\ \A s \in {None} \cup Stages : rank(s) \in 0..5 /\ (rank(s) = 0 <=> s = None)
<1>1. None \notin Stages
  BY AdmissionAssumption
<1>2. /\ rank(None) = 0 /\ rank("CASE_CREATED") = 1 /\ rank("MATCH_PREPARED") = 2
      /\ rank("PARTICIPANT_A_SUBMITTED") = 3 /\ rank("PARTICIPANT_B_PUBLISHED") = 4
      /\ rank("PARTICIPANT_B_SUBMITTED") = 5
  BY <1>1 DEF rank, Stages
<1> QED
  BY <1>1, <1>2 DEF Stages

\* A load never takes the engine back.
LEMMA LoadAdvances ==
  ASSUME NEW x, x \in [stage : {None} \cup Stages, claims : [Roles -> Claim],
                       artifacts : [Roles -> {None, "w1", "w2"}]]
  PROVE  /\ reconciled(x).stage \in {None} \cup Stages
         /\ rank(reconciled(x).stage) >= rank(x.stage)
<1>1. CASE interrupted(x) = {}
  <2>1. reconciled(x).stage = x.stage
    BY <1>1 DEF reconciled
  <2> QED
    BY <2>1, Ranks
<1>2. CASE interrupted(x) # {}
  <2>1. PICK s \in interrupted(x) : reconciled(x).stage = stageAfter(s)
    BY <1>2 DEF reconciled
  <2>2. s \in {"A", "B"} /\ x.stage = expectedStage(s)
    BY <2>1 DEF interrupted, Roles
  <2> QED
    BY <2>1, <2>2, Ranks DEF expectedStage, stageAfter, Stages
<1> QED
  BY <1>1, <1>2

\* No step takes back the stage that a read of the case sees.
LEMMA StageAdvances ==
  ASSUME AdmissionInv, [Next]_vars
  PROVE  /\ reconciled(engine).stage \in {None} \cup Stages
         /\ reconciled(engine)'.stage \in {None} \cup Stages
         /\ rank(reconciled(engine)'.stage) >= rank(reconciled(engine).stage)
<1> DEFINE Engine == [stage : {None} \cup Stages, claims : [Roles -> Claim],
                      artifacts : [Roles -> {None, "w1", "w2"}]]
<1>0. engine \in Engine /\ engine' \in Engine
  BY AdmissionNext DEF AdmissionInv, Shape
<1> PICK x, y, e : x = engine /\ y = engine' /\ e = reconciled(engine)
  OBVIOUS
<1>1. /\ e.stage \in {None} \cup Stages /\ reconciled(y).stage \in {None} \cup Stages
      /\ rank(reconciled(y).stage) >= rank(y.stage) /\ rank(e.stage) >= rank(x.stage)
      /\ reconciled(engine)' = reconciled(y)
      /\ rank(y.stage) \in Nat /\ rank(e.stage) \in Nat /\ rank(reconciled(y).stage) \in Nat
  <2>1. reconciled(engine)' = reconciled(y)
    BY DEF reconciled, interrupted
  <2> QED
    BY <1>0, <2>1, LoadAdvances, Ranks
<1>2. e \in Engine
  BY Reconciled
<1>3. CASE y = x
  BY <1>1, <1>3, Ranks
<1>4. CASE rank(y.stage) >= rank(e.stage)
  BY <1>1, <1>4
<1>5. CASE loadState
  <2>1. y = e
    BY <1>5 DEF loadState
  <2> QED
    BY <1>1, <1>4, <2>1
<1>6. ASSUME NEW q \in Requests, create(q)
      PROVE  y = x \/ rank(y.stage) >= rank(e.stage)
  <2>1. \/ y = x
        \/ x.stage = None /\ y.stage = "CASE_CREATED"
        \/ x.stage = "CASE_CREATED" /\ y.stage = "MATCH_PREPARED"
    BY <1>0, <1>6 DEF create, createNeutralParticipantCase, bindCaseCode, writeCaseCode,
          recordCaseStart, writeCaseStart, preparePrivateMatch
  <2>2. x.stage \in {None, "CASE_CREATED"} => e.stage = x.stage
    <3>1. x.stage \in {None, "CASE_CREATED"} => interrupted(x) = {}
      BY AdmissionAssumption DEF interrupted, expectedStage, Stages
    <3> QED
      BY <1>0, <3>1 DEF reconciled
  <2> QED
    BY <2>1, <2>2, Ranks
<1>7. ASSUME NEW q \in Requests, admitParticipantClaim(q)
      PROVE  rank(y.stage) >= rank(e.stage)
  <2>1. y.stage = e.stage
    BY <1>2, <1>7 DEF admitParticipantClaim
  <2> QED
    BY <1>1, <2>1
<1>8. ASSUME NEW q \in Requests, submitParticipantPledge(q)
      PROVE  rank(y.stage) >= rank(e.stage)
  <2> DEFINE r == role(q)
             admitted == e.claims[r] # None /\ assertVerifiedDurableAdmission(r, e.claims[r])
             pub == admitted /\ e.stage = expectedStage(r) /\ e.artifacts[r] = None /\ r \in keys
             finalizes == admitted /\ r = "B" /\ (pub \/ e.stage = "PARTICIPANT_B_PUBLISHED")
             stage == CASE finalizes -> "PARTICIPANT_B_SUBMITTED"
                        [] pub /\ r = "A" -> stageAfter(r)
                        [] OTHER -> e.stage
  <2>1. \E a : y = [e EXCEPT !.artifacts[r] = a, !.stage = stage]
    BY <1>2, <1>8 DEF submitParticipantPledge
  <2>2. y.stage = stage
    BY <1>2, <2>1
  <2>3. \/ stage = e.stage
        \/ r = "A" /\ stage = stageAfter(r) /\ e.stage = expectedStage(r)
        \/ stage = "PARTICIPANT_B_SUBMITTED"
    OBVIOUS
  <2> HIDE DEF stage, r
  <2> QED
    BY <1>1, <2>2, <2>3, Ranks DEF stageAfter, expectedStage
<1>9. ASSUME NEW p \in Processes, Crash(p)
      PROVE  rank(reconciled(y).stage) >= rank(e.stage)
  <2>1. CASE interrupted(x) = {}
    <3>1. e.stage = x.stage /\ y.stage = x.stage
      BY <1>0, <1>9, <2>1 DEF reconciled, Crash
    <3> QED
      BY <1>1, <3>1
  <2>2. CASE interrupted(x) # {}
    <3>1. PICK s \in interrupted(x) : e.stage = stageAfter(s)
      BY <1>0, <2>2 DEF reconciled
    <3>2. s \in Roles /\ x.stage = expectedStage(s) /\ x.artifacts[s] # None
      BY <3>1 DEF interrupted
    <3>3. y.stage = x.stage /\ y.artifacts[s] # None
      <4>1. CASE y = x
        BY <3>2, <4>1
      <4>2. CASE y # x
        <5>1. PICK r, a : /\ r = role(busy[p]) /\ a = engine.claims[r].body.sent
                          /\ y = [x EXCEPT !.artifacts[r] = a] /\ engine.claims[r] # None
          BY <1>9, <4>2 DEF Crash
        <5>2. r \in Roles => a # None
          BY <1>0, <5>1, AuthorizationFields, AdmissionAssumption DEF Claim
        <5> QED
          BY <1>0, <3>2, <5>1, <5>2
      <4> QED
        BY <4>1, <4>2
    <3>4. s \in interrupted(y) /\ \A r \in interrupted(y) : r = s
      BY <3>2, <3>3 DEF interrupted, expectedStage, Roles
    <3>5. reconciled(y).stage = stageAfter(s)
      BY <1>0, <3>4 DEF reconciled
    <3> QED
      BY <1>1, <3>1, <3>5
  <2> QED
    BY <2>1, <2>2
<1>10. \/ \E q \in Requests : create(q) \/ admitParticipantClaim(q) \/ submitParticipantPledge(q)
       \/ loadState \/ \E p \in Processes : Crash(p)
       \/ y = x
  BY DEF Next, vars, admit, participantAdmissionChallenge,
        admitParticipant, readParticipantAdmissionContext, verifyApass, withRunAdmissionLock,
        admitParticipantRole, writeCreateOnly, releaseAdmissionLock, exclusive, Tick
<1>11. rank(reconciled(y).stage) >= rank(e.stage)
  BY <1>1, <1>3, <1>4, <1>5, <1>6, <1>7, <1>8, <1>9, <1>10
<1> QED
  BY <1>1, <1>11

\* What participantLifecycle reports of a stage and two admissions, while
\* the case is not abandoned.
reported(s, a, b) ==
    CASE s = None -> 0
      [] s = "CASE_CREATED" -> 1
      [] s = "MATCH_PREPARED" -> IF a THEN 3 ELSE 2
      [] s = "PARTICIPANT_A_SUBMITTED" -> IF b THEN 4 ELSE 3
      [] s = "PARTICIPANT_B_PUBLISHED" -> 4
      [] s = "PARTICIPANT_B_SUBMITTED" -> 5

\* A later stage and more admissions are never reported as less.
LEMMA ReportedIsMonotone ==
  ASSUME NEW s \in {None} \cup Stages, NEW t \in {None} \cup Stages, rank(t) >= rank(s),
         NEW a \in BOOLEAN, NEW b \in BOOLEAN, NEW c \in BOOLEAN, NEW d \in BOOLEAN,
         a => c, b => d
  PROVE  reported(t, c, d) >= reported(s, a, b) /\ reported(t, c, d) \in 0..5
         /\ reported(s, a, b) \in 0..5
<1>0. None \notin Stages
  BY AdmissionAssumption
<1>1. CASE s = None
  BY <1>0, <1>1 DEF Stages, reported
<1>2. CASE s = "CASE_CREATED"
  BY <1>0, <1>2, Ranks DEF Stages, reported
<1>3. CASE s = "MATCH_PREPARED"
  BY <1>0, <1>3, Ranks DEF Stages, reported
<1>4. CASE s = "PARTICIPANT_A_SUBMITTED"
  BY <1>0, <1>4, Ranks DEF Stages, reported
<1>5. CASE s = "PARTICIPANT_B_PUBLISHED"
  BY <1>0, <1>5, Ranks DEF Stages, reported
<1>6. CASE s = "PARTICIPANT_B_SUBMITTED"
  BY <1>0, <1>6, Ranks DEF Stages, reported
<1> QED
  BY <1>1, <1>2, <1>3, <1>4, <1>5, <1>6 DEF Stages

\* participantLifecycle in terms of the stage and the two admissions.
LEMMA LifecycleIsReported ==
  AdmissionInv =>
    \/ participantLifecycle = 9
    \/ participantLifecycle = reported(reconciled(engine).stage,
                                      readAdmission("A") # None, readAdmission("B") # None)
<1> SUFFICES ASSUME AdmissionInv
             PROVE  \/ participantLifecycle = 9
                    \/ participantLifecycle = reported(reconciled(engine).stage,
                            readAdmission("A") # None, readAdmission("B") # None)
  OBVIOUS
<1>0. None \notin Stages
  BY AdmissionAssumption
<1>1. reconciled(engine).stage \in {None} \cup Stages
  BY LoadAdvances DEF AdmissionInv, Shape
<1> QED
  BY <1>0, <1>1 DEF participantLifecycle, Stages, reported

\* What a reader of the case is told never goes back, short of the case
\* being abandoned.
THEOREM LifecycleOnlyAdvances == Spec => LifecycleAdvances
<1> DEFINE Advances == participantLifecycle # 9 => participantLifecycle' >= participantLifecycle
<1>1. AdmissionInv /\ [Next]_vars => [Advances]_vars
  <2> SUFFICES ASSUME AdmissionInv, [Next]_vars, participantLifecycle # 9
               PROVE  participantLifecycle' >= participantLifecycle
    OBVIOUS
  <2>1. AdmissionInv'
    BY AdmissionNext
  <2>2. PICK s, t, a, b, c, d :
            /\ s = reconciled(engine).stage /\ t = reconciled(engine)'.stage
            /\ a = (readAdmission("A") # None) /\ b = (readAdmission("B") # None)
            /\ c = (readAdmission("A")' # None) /\ d = (readAdmission("B")' # None)
    OBVIOUS
  <2>3. s \in {None} \cup Stages /\ t \in {None} \cup Stages /\ rank(t) >= rank(s)
    BY <2>2, StageAdvances
  <2>4. ASSUME NEW r \in Roles, readAdmission(r) # None
        PROVE  readAdmission(r)' # None
    <3>1. ledger[r] \notin {None, Torn}
      BY <2>4 DEF readAdmission, readJsonOrNull
    <3>2. ledger'[r] = ledger[r]
      BY <3>1, RecordsKept
    <3> QED
      BY <3>1, <3>2 DEF readAdmission, readJsonOrNull
  <2>5. /\ a \in BOOLEAN /\ b \in BOOLEAN /\ c \in BOOLEAN /\ d \in BOOLEAN
        /\ a => c
        /\ b => d
    BY <2>2, <2>4 DEF Roles
  <2>6. participantLifecycle = reported(s, a, b)
    BY <2>2, LifecycleIsReported
  <2>7. participantLifecycle' = 9 \/ participantLifecycle' = reported(t, c, d)
    <3>1. (\/ participantLifecycle = 9
           \/ participantLifecycle = reported(reconciled(engine).stage,
                                readAdmission("A") # None, readAdmission("B") # None))'
      BY <2>1, LifecycleIsReported, PTL
    <3> QED
      BY <2>2, <3>1
  <2>8. reported(t, c, d) >= reported(s, a, b) /\ reported(t, c, d) \in 0..5
        /\ reported(s, a, b) \in 0..5
    BY <2>3, <2>5, ReportedIsMonotone
  <2> QED
    BY <2>6, <2>7, <2>8
<1> QED
  BY <1>1, AdmissionInvariant, PTL DEF Spec, LifecycleAdvances
=============================================================================
