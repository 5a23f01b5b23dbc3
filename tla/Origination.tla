---------------------------- MODULE Origination ----------------------------
(***************************************************************************)
(* The participant-originated encryption profile: each participant keeps   *)
(* its own wallet and encrypts its own claim, and signs three wallet       *)
(* messages (the registration of its signing key, the intent to encrypt    *)
(* under one client bundle, the final admission of one encrypted           *)
(* artifact).  src/lib/protection/participant-originated-authorization.ts  *)
(* verifies the chain; scripts/run-participant-originated-qualification.mjs*)
(* drives two participants, a coordinator, an evaluator and a decryptor    *)
(* through two cases and writes the evidence.                              *)
(*                                                                         *)
(* A digest of a message is the message itself.  A signature is a pair     *)
(* <<signer, message>>.  Wallets belong to their participants, who may     *)
(* sign and encrypt more than the controller asks of them, and whoever     *)
(* holds the bearer of the run may send any request made of what exists.   *)
(* The durable transport of the coordinator is module ImportCoordinator;   *)
(* here a reservation is one slot per role.                                *)
(***************************************************************************)
EXTENDS Integers, Sequences, FiniteSets

CONSTANTS Cases,      \* the expected conflict of each case, in order
          Lifetime,   \* of an authorization chain (14 minutes)
          IntentMargin, FinalMargin,  \* left when a phase starts (60 s, 30 s)
          BundleLifetime,             \* of a client bundle (4 hours)
          MaxTime,    \* bound: a case is followed this long
          MaxExtra,   \* bound: messages or artifacts beyond the script
          MaxEdits,   \* bound: changes of the checkout
          Wandering   \* the roles whose participant makes them

ASSUME WindowAssumption ==
  /\ {Lifetime, IntentMargin, FinalMargin, BundleLifetime, MaxTime, MaxExtra, MaxEdits} \subseteq Nat
  /\ FinalMargin < IntentMargin /\ IntentMargin < Lifetime

ASSUME CasesAssumption == Cases \in Seq(BOOLEAN) /\ Cases # << >>

Roles == {"A", "B"}
other(r) == IF r = "A" THEN "B" ELSE "A"
None == [kind |-> "none"]

VARIABLES now,       \* the clock, from the start of the case
          pc,        \* the controller's place in Script
          signed,    \* the signatures that exist
          made,      \* the encrypted artifacts that exist
          phase0,    \* role -> the registration retained under phase0/
          intent,    \* role -> the intent its participant returned
          ready,     \* role -> the preparation request, and when it was written
          prepared,  \* role -> [artifact, final] its participant returned
          public,    \* the public root: keys, approvals, published artifacts
          ticket,    \* role -> the coordinator's reservation and its state
          serving,   \* the coordinator process accepts requests
          result,    \* the governed result
          extra,     \* messages or artifacts beyond the script
          tree,      \* the checkout is the expected commit, unchanged
          edits,     \* how often it was changed or changed back
          manifest,  \* what the source manifest was taken of
          cases,     \* evidence of the finished cases
          outcome    \* of the qualification

wallets == <<signed, made, extra>>
session == <<tree, edits, manifest>>
material == <<phase0, intent, ready, prepared, public>>
vars == <<now, pc, wallets, material, ticket, serving, result, session, cases, outcome>>

\* The order of a case.
Script ==
  << <<"init", "A">>, <<"init", "B">>,
     <<"signRegistration", "A">>, <<"verifyRegistration", "A">>,
     <<"signRegistration", "B">>, <<"verifyRegistration", "B">>,
     <<"foundation", "A">>, <<"ceremony", "A">>, <<"ceremony", "B">>,
     <<"finalize", "A">>, <<"export", "A">>, <<"export", "B">>,
     <<"signIntent", "A">>, <<"verifyIntent", "A">>,
     <<"signIntent", "B">>, <<"verifyIntent", "B">>,
     <<"prepare", "A">>, <<"verifyFinal", "A">>,
     <<"prepare", "B">>, <<"verifyFinal", "B">>,
     <<"start", "A">>, <<"controls", "A">>,
     <<"begin", "A">>, <<"ciphertext", "A">>, <<"manifest", "A">>,
     <<"begin", "B">>, <<"ciphertext", "B">>, <<"manifest", "B">>,
     <<"stop", "A">>, <<"evaluate", "A">>, <<"decrypt", "A">>, <<"scan", "A">>, <<"record", "A">> >>

at(step, r) == outcome = "running" /\ pc <= Len(Script) /\ Script[pc] = <<step, r>>
goOn == pc' = pc + 1

nothing == [r \in Roles |-> None]
NoPublic == [keys |-> FALSE, approvals |-> {}, final |-> FALSE, bundles |-> {},
             artifact |-> nothing]

Init ==
  /\ now = 0 /\ pc = 1 /\ signed = {} /\ made = {} /\ extra = 0
  /\ phase0 = nothing /\ intent = nothing /\ ready = nothing /\ prepared = nothing
  /\ public = NoPublic /\ ticket = nothing /\ serving = FALSE /\ result = None
  /\ tree = TRUE /\ edits = 0 /\ manifest = FALSE /\ cases = <<>> /\ outcome = "checkout"

\* The case root is removed with all that is under it.
clearCase ==
  /\ now' = 0 /\ pc' = 1 /\ signed' = {} /\ made' = {} /\ extra' = 0
  /\ phase0' = nothing /\ intent' = nothing /\ ready' = nothing /\ prepared' = nothing
  /\ public' = NoPublic /\ ticket' = nothing /\ serving' = FALSE /\ result' = None

(***************************************************************************)
(* The three messages and the artifact.                                    *)
(***************************************************************************)
registrationMessage(r, t) ==
  [kind |-> "registration", role |-> r, wallet |-> r, key |-> r,
   nonce |-> "registration", issued |-> t, expires |-> Lifetime]

\* The identities and the expiry the case is founded on.
buildNeutralFoundationSpec == [key |-> [r \in Roles |-> r], expires |-> BundleLifetime]

\* What the participant's bundle says of the case.
bundleContextFrom(r) ==
  [role |-> r, wallet |-> r, bundle |-> r, expires |-> buildNeutralFoundationSpec.expires]

\* A commitment binds the claim to its case and role.
participantOriginatedClaimCommitment(r, claim) == [role |-> r, claim |-> claim]
pledge(r) == participantOriginatedClaimCommitment(r, "pledge")
otherClaim(r) == participantOriginatedClaimCommitment(r, "other")

signTypedData(r, m) == <<r, m>>

intentMessage(r, commitment, t) ==
  [kind |-> "intent", role |-> r, wallet |-> r, key |-> r,
   registration |-> phase0[r], bundle |-> bundleContextFrom(r).bundle,
   commitment |-> commitment, nonce |-> "intent", issued |-> t, expires |-> Lifetime]

participantPrepare(r, i) ==
  [kind |-> "artifact", role |-> r, key |-> r, bundle |-> r, intent |-> i,
   commitment |-> i.commitment, nonce |-> "submission", expires |-> Lifetime]

finalMessage(r, i, a, t) ==
  [kind |-> "final", role |-> r, wallet |-> r, key |-> r, registration |-> phase0[r],
   bundle |-> i.bundle, intent |-> i, commitment |-> i.commitment, artifact |-> a,
   nonce |-> a.nonce, issued |-> t, expires |-> Lifetime]

\* The compact reservation facts, and the signed chain under them.
buildTransportMetadata(registration, i, final) ==
  [role |-> final.role, wallet |-> final.wallet, key |-> final.key,
   commitment |-> final.commitment, artifact |-> final.artifact,
   nonce |-> final.nonce, issued |-> final.issued, expires |-> final.expires,
   registration |-> registration, intent |-> i, final |-> final]

(***************************************************************************)
(* Verification of the chain.                                              *)
(***************************************************************************)
assertAuthorizationWindow(m) == m.expires > m.issued /\ m.expires - m.issued <= Lifetime

\* A message issued ahead of the clock by at most the skew is fresh: no issue
\* time here is ahead, as every one is read from the same clock.
assertFresh(m, t) == m.expires > t

assertEoaSignature(m) == signTypedData(m.wallet, m) \in signed

assertParticipantSigningKeyRegistrationMessage(m) ==
  m.kind = "registration" /\ assertAuthorizationWindow(m)
assertParticipantEncryptionIntentMessage(m, ctx) ==
  m.kind = "intent" /\ assertAuthorizationWindow(m) /\ m.expires <= ctx.expires
assertParticipantFinalEncryptedAdmissionMessage(m) ==
  m.kind = "final" /\ assertAuthorizationWindow(m)

assertRegistrationContext(m, ctx) == m.role = ctx.role /\ m.wallet = ctx.wallet

verifyParticipantSigningKeyRegistration(m, ctx, t) ==
  /\ assertParticipantSigningKeyRegistrationMessage(m)
  /\ assertRegistrationContext(m, ctx) /\ assertFresh(m, t) /\ assertEoaSignature(m)

assertStoredRegistration(m, ctx, t) == verifyParticipantSigningKeyRegistration(m, ctx, t)

assertIntentMatchesBundle(i, ctx) == i.bundle = ctx.bundle

\* Mistake: the window of the registration is not compared.
verifyParticipantEncryptionIntent_OwnWindow(i, registration, ctx, t) ==
  /\ assertParticipantEncryptionIntentMessage(i, ctx)
  /\ assertStoredRegistration(registration, ctx, t)
  /\ assertIntentMatchesBundle(i, ctx)
  /\ i.role = ctx.role /\ i.wallet = ctx.wallet /\ i.key = registration.key
  /\ i.registration = registration
  /\ assertFresh(i, t) /\ assertEoaSignature(i)

verifyParticipantEncryptionIntent(i, registration, ctx, t) ==
  /\ assertParticipantEncryptionIntentMessage(i, ctx)
  /\ assertStoredRegistration(registration, ctx, t)
  /\ assertIntentMatchesBundle(i, ctx)
  /\ i.role = ctx.role /\ i.wallet = ctx.wallet /\ i.key = registration.key
  /\ i.registration = registration
  /\ i.issued >= registration.issued /\ i.expires <= registration.expires
  /\ i.nonce # registration.nonce
  /\ ctx.expires > t
  /\ assertFresh(i, t) /\ assertEoaSignature(i)

assertArtifactMatchesIntentAndBundle(c, i, ctx, t) ==
  /\ c.role = i.role /\ c.key = i.key /\ c.bundle = ctx.bundle
  /\ c.intent = i /\ c.commitment = i.commitment
  /\ c.expires > t /\ c.expires <= ctx.expires

verifyParticipantFinalEncryptedAdmission(f, i, registration, c, ctx, t) ==
  /\ assertParticipantFinalEncryptedAdmissionMessage(f)
  /\ verifyParticipantEncryptionIntent(i, registration, ctx, t)
  /\ assertArtifactMatchesIntentAndBundle(c, i, ctx, t)
  /\ f.role = ctx.role /\ f.wallet = ctx.wallet /\ f.key = registration.key
  /\ f.registration = registration /\ f.bundle = ctx.bundle
  /\ f.intent = i /\ f.commitment = i.commitment
  /\ f.artifact = c.digest /\ f.nonce = c.nonce
  /\ f.nonce \notin {i.nonce, registration.nonce}
  /\ f.issued >= i.issued /\ f.issued <= i.expires
  /\ f.expires <= i.expires /\ f.expires <= c.expires /\ f.expires <= ctx.expires
  /\ assertFresh(f, t) /\ assertEoaSignature(f)

assertMetadataAuthorizationProjection(m) ==
  /\ m.role = m.registration.role /\ m.role = m.intent.role
  /\ m.wallet = m.registration.wallet /\ m.wallet = m.intent.wallet
  /\ m.key = m.registration.key /\ m.key = m.intent.key
  /\ m.commitment = m.intent.commitment
  /\ m = buildTransportMetadata(m.registration, m.intent, m.final)

\* Before the bytes are seen the artifact is what the metadata says of it.
claimedArtifact(m) ==
  [digest |-> m.artifact, role |-> m.role, key |-> m.key, intent |-> m.intent,
   bundle |-> bundleContextFrom(m.role).bundle, commitment |-> m.commitment,
   nonce |-> m.nonce, expires |-> m.expires]

\* Afterwards it is what the Go verifier recomputed from them.
artifactContextFrom(a) ==
  [digest |-> a, role |-> a.role, key |-> a.key, intent |-> a.intent, bundle |-> a.bundle,
   commitment |-> a.commitment, nonce |-> a.nonce, expires |-> a.expires]

assertGoArtifactVerificationMatches(m, a) ==
  artifactContextFrom(a) = claimedArtifact(m)

verifyRealAuthorizationChain(m, c, t) ==
  LET ctx == bundleContextFrom(m.role) IN
  /\ assertMetadataAuthorizationProjection(m)
  /\ verifyParticipantSigningKeyRegistration(m.registration, ctx, t)
  /\ verifyParticipantEncryptionIntent(m.intent, m.registration, ctx, t)
  /\ verifyParticipantFinalEncryptedAdmission(m.final, m.intent, m.registration, c, ctx, t)

\* The caller holds the bearer; the registration is the one retained.
authenticateRequest(m, t) ==
  /\ m.registration = phase0[m.role]
  /\ verifyRealAuthorizationChain(m, claimedArtifact(m), t)

buildGoImportRequest(m) ==
  [role |-> m.role, key |-> m.key, intent |-> m.intent, commitment |-> m.commitment,
   nonce |-> m.nonce, artifact |-> m.artifact, bundle |-> m.final.bundle]

\* mordant-fhe-import verify: the artifact is one of this case, signed with the
\* key of its role, exactly what was requested, and current.
goVerify(q, a, t) ==
  /\ public.final /\ a.role = q.role /\ a.key = buildNeutralFoundationSpec.key[q.role]
  /\ a = q.artifact /\ a.key = q.key /\ a.intent = q.intent /\ a.bundle = q.bundle
  /\ a.commitment = q.commitment /\ a.nonce = q.nonce
  /\ a.expires > t /\ a.expires <= buildNeutralFoundationSpec.expires

(***************************************************************************)
(* The controller.  A failed step ends the qualification: the finally      *)
(* blocks stop the coordinator and remove the case root and all under it.  *)
(***************************************************************************)
die == outcome' = "failed" /\ clearCase /\ UNCHANGED <<session, cases>>

proceed == goOn /\ UNCHANGED <<now, session, cases, outcome>>

active == outcome \notin {"failed", "written"}

\* runCaptured: a child that exits with an error, or too much output.
childFails == active /\ die

init(r) ==
  /\ at("init", r) /\ proceed
  /\ UNCHANGED <<wallets, material, ticket, serving, result>>

signRegistration(r) ==
  /\ at("signRegistration", r) /\ proceed
  /\ signed' = signed \cup {signTypedData(r, registrationMessage(r, 0))}
  /\ UNCHANGED <<made, extra, material, ticket, serving, result>>

persistVerifiedPhase0(r) ==
  /\ at("verifyRegistration", r)
  /\ LET m == registrationMessage(r, 0) IN
     IF verifyParticipantSigningKeyRegistration(m, bundleContextFrom(r), now)
     THEN /\ phase0' = [phase0 EXCEPT ![r] = m] /\ proceed
          /\ UNCHANGED <<wallets, intent, ready, prepared, public, ticket, serving, result>>
     ELSE die

foundation(r) ==
  /\ at("foundation", r) /\ proceed
  /\ public' = [public EXCEPT !.keys = TRUE]
  /\ UNCHANGED <<wallets, phase0, intent, ready, prepared, ticket, serving, result>>

ceremony(r) ==
  /\ at("ceremony", r) /\ proceed
  /\ public' = [public EXCEPT !.approvals = @ \cup {r}]
  /\ UNCHANGED <<wallets, phase0, intent, ready, prepared, ticket, serving, result>>

finalize(r) ==
  /\ at("finalize", r)
  /\ IF public.keys /\ public.approvals = Roles
     THEN /\ public' = [public EXCEPT !.final = TRUE] /\ proceed
          /\ UNCHANGED <<wallets, phase0, intent, ready, prepared, ticket, serving, result>>
     ELSE die

bundleExport(r) ==
  /\ at("export", r) /\ proceed
  /\ public' = [public EXCEPT !.bundles = @ \cup {r}]
  /\ UNCHANGED <<wallets, phase0, intent, ready, prepared, ticket, serving, result>>

\* The issue time is read before the participant's process runs.
signIntent(r) ==
  /\ at("signIntent", r)
  /\ LET i == intentMessage(r, pledge(r), now) IN
     IF now < Lifetime - IntentMargin
     THEN /\ signed' = signed \cup {signTypedData(r, i)} /\ intent' = [intent EXCEPT ![r] = i] /\ proceed
          /\ UNCHANGED <<made, extra, phase0, ready, prepared, public, ticket, serving, result>>
     ELSE die

writePreparation(r) ==
  /\ ready' = [ready EXCEPT ![r] = [intent |-> intent[r], at |-> now]] /\ proceed
  /\ UNCHANGED <<wallets, phase0, intent, prepared, public, ticket, serving, result>>

verifyIntent(r) ==
  /\ at("verifyIntent", r)
  /\ IF verifyParticipantEncryptionIntent(intent[r], phase0[r], bundleContextFrom(r), now)
     THEN writePreparation(r)
     ELSE die

\* The Go client refuses a preparation request that has expired.
prepareAndSignFinal(r) ==
  /\ at("prepare", r)
  /\ LET a == participantPrepare(r, ready[r].intent)
         f == finalMessage(r, ready[r].intent, a, now)
     IN IF now < Lifetime - FinalMargin
        THEN /\ made' = made \cup {a} /\ signed' = signed \cup {signTypedData(r, f)}
             /\ prepared' = [prepared EXCEPT ![r] = [artifact |-> a, final |-> f]]
             /\ proceed
             /\ UNCHANGED <<extra, phase0, intent, ready, public, ticket, serving, result>>
        ELSE die

transportMetadata(r) == buildTransportMetadata(phase0[r], intent[r], prepared[r].final)

verifyFinal(r) ==
  /\ at("verifyFinal", r)
  /\ LET m == transportMetadata(r) IN
     IF verifyRealAuthorizationChain(m, claimedArtifact(m), now)
     THEN proceed /\ UNCHANGED <<wallets, material, ticket, serving, result>>
     ELSE die

startCoordinatorProcess(r) ==
  /\ at("start", r) /\ proceed /\ serving' = TRUE
  /\ UNCHANGED <<wallets, material, ticket, result>>

\* Metadata with one reservation fact changed under a genuine chain.
projectionMutations(m) ==
  {[m EXCEPT !.role = other(m.role)], [m EXCEPT !.wallet = other(m.role)],
   [m EXCEPT !.key = other(m.role)], [m EXCEPT !.commitment = otherClaim(m.role)],
   [m EXCEPT !.artifact = None], [m EXCEPT !.nonce = "other"],
   [m EXCEPT !.issued = @ + 1], [m EXCEPT !.expires = @ - 1]}

liveNegativeControls(r) ==
  /\ at("controls", r)
  /\ IF \E m \in projectionMutations(transportMetadata("A")) :
          m.expires > now /\ authenticateRequest(m, now)
     THEN die
     ELSE proceed /\ UNCHANGED <<wallets, material, ticket, serving, result>>

(***************************************************************************)
(* The coordinator: one slot per role, every request authenticated again.  *)
(***************************************************************************)
\* Mistake: a role that is taken answers with the reservation it has.
mayReserve_Again(m, t) == serving /\ m.expires > t /\ authenticateRequest(m, t)
mayReserve(m, t) ==
  /\ serving /\ m.expires > t /\ ticket[m.role] = None /\ authenticateRequest(m, t)

reserve(m, owner) ==
  ticket' = [ticket EXCEPT ![m.role] =
    IF @ # None THEN [@ EXCEPT !.owner = owner]
    ELSE [meta |-> m, owner |-> owner, state |-> "RESERVED"]]

admitted(r) ==
  /\ serving /\ ticket[r].meta.expires > now /\ authenticateRequest(ticket[r].meta, now)

inState(r, s) == ticket[r] # None /\ ticket[r].state = s
become(r, s) == ticket' = [ticket EXCEPT ![r].state = s]

coordinatorOnly == UNCHANGED <<now, pc, wallets, phase0, intent, ready, prepared, serving,
                               result, session, cases, outcome>>

uploadCiphertext(r) ==
  /\ inState(r, "RESERVED") /\ admitted(r)
  /\ become(r, IF ticket[r].meta.artifact \in made THEN "CIPHERTEXT_STAGED" ELSE "FAILED")
  /\ coordinatorOnly /\ UNCHANGED public

uploadArtifactManifest(r) ==
  /\ inState(r, "CIPHERTEXT_STAGED") /\ admitted(r) /\ become(r, "STAGED")
  /\ coordinatorOnly /\ UNCHANGED public

verifyArtifact(r) ==
  /\ inState(r, "STAGED")
  /\ LET m == ticket[r].meta
         a == m.artifact
     IN become(r, IF /\ goVerify(buildGoImportRequest(m), a, now) /\ assertGoArtifactVerificationMatches(m, a)
                     /\ verifyRealAuthorizationChain(m, artifactContextFrom(a), now)
                  THEN "VERIFIED" ELSE "FAILED")
  /\ coordinatorOnly /\ UNCHANGED public

publishArtifact(r) ==
  /\ inState(r, "VERIFIED")
  /\ LET m == ticket[r].meta IN
     IF goVerify(buildGoImportRequest(m), m.artifact, now)
     THEN /\ become(r, "PUBLISHED")
          /\ public' = [public EXCEPT !.artifact[r] = [meta |-> m, at |-> now]]
     ELSE become(r, "FAILED") /\ UNCHANGED public
  /\ coordinatorOnly

\* A request of another holder of the bearer, made of what exists.
messages(kind) == {m \in {x[2] : x \in signed} : m.kind = kind}

beginElsewhere ==
  /\ serving /\ \E r \in Roles : ticket[r] = None
  /\ \E g \in messages("registration"), i \in messages("intent"), f \in messages("final") :
       \E m \in {buildTransportMetadata(g, i, f)} \cup projectionMutations(buildTransportMetadata(g, i, f)) :
         m # transportMetadata(m.role) /\ mayReserve(m, now) /\ reserve(m, "other")
  /\ coordinatorOnly /\ UNCHANGED public

(***************************************************************************)
(* The participant's upload, and the rest of the case.                     *)
(***************************************************************************)
beginImport(r) ==
  /\ at("begin", r)
  /\ LET m == transportMetadata(r) IN
     IF mayReserve(m, now)
     THEN reserve(m, "upload") /\ proceed /\ UNCHANGED <<wallets, material, serving, result>>
     ELSE die

reached(r, states) == ticket[r].state \in states

\* put: the answer of the upload, or its refusal.
awaitUpload(r, step, states) ==
  /\ at(step, r)
  /\ \/ /\ reached(r, states) /\ proceed
        /\ UNCHANGED <<wallets, material, ticket, serving, result>>
     \/ reached(r, {"FAILED"}) /\ die
     \/ reached(r, {"RESERVED", "CIPHERTEXT_STAGED"}) /\ ~reached(r, states) /\ ~admitted(r) /\ die

stop(r) ==
  /\ at("stop", r) /\ proceed /\ serving' = FALSE
  /\ UNCHANGED <<wallets, material, ticket, result>>

evaluate(r) ==
  /\ at("evaluate", r)
  /\ IF \A x \in Roles : public.artifact[x] # None
     THEN proceed /\ UNCHANGED <<wallets, material, ticket, serving, result>>
     ELSE die

pledged == \A r \in Roles : public.artifact[r].meta.artifact.commitment = pledge(r)

\* The governed comparison of what was published: the claims the controller
\* gave out conflict as expected, others as they may.
decrypt(r) ==
  /\ at("decrypt", r)
  /\ \E conflict \in BOOLEAN :
       /\ pledged => conflict = Cases[Len(cases) + 1]
       /\ IF conflict = Cases[Len(cases) + 1]
          THEN /\ result' = [kind |-> "result", conflict |-> conflict, kept |-> {}] /\ proceed
               /\ UNCHANGED <<wallets, material, ticket, serving>>
          ELSE die

retainedForbiddenMaterial ==
  {"pledge", "salt", "walletKey", "signingKey", "ticket", "bearer", "participantPath"}
scanCoordinatorState(found) == found \cap retainedForbiddenMaterial = {}

\* What the processes left in the coordinator's root is theirs to know; the
\* scan looks for every private thing of the case in every encoding.
scan(r) ==
  /\ at("scan", r)
  /\ \E found \in {{"signature"}} \cup {{"signature", x} : x \in retainedForbiddenMaterial} :
       IF scanCoordinatorState(found)
       THEN /\ result' = [result EXCEPT !.kept = found] /\ proceed
            /\ UNCHANGED <<wallets, material, ticket, serving>>
       ELSE die

caseEvidence ==
  [conflict |-> result.conflict, kept |-> result.kept, claimed |-> pledged,
   publications |-> {r \in Roles : ticket[r].state = "PUBLISHED"},
   prepared |-> {r \in Roles : public.artifact[r].meta.artifact = prepared[r].artifact}]

\* The case root is removed and the next case starts.
record(r) ==
  /\ at("record", r)
  /\ cases' = Append(cases, caseEvidence)
  /\ IF Len(cases) + 1 < Len(Cases)
     THEN clearCase
     ELSE goOn /\ UNCHANGED <<now, wallets, material, ticket, serving, result>>
  /\ UNCHANGED <<session, outcome>>

(***************************************************************************)
(* The qualification around the cases.                                     *)
(***************************************************************************)
sessionStep(from, to) ==
  /\ outcome = from /\ outcome' = to
  /\ UNCHANGED <<now, pc, wallets, material, ticket, serving, result, tree, edits, cases>>

verifySourceCheckout ==
  sessionStep("checkout", IF tree THEN "build" ELSE "failed") /\ UNCHANGED manifest
buildGoBinaries == sessionStep("build", "manifest") /\ UNCHANGED manifest
sourceManifest == sessionStep("manifest", "qualify") /\ manifest' = tree
runQualification == sessionStep("qualify", "running") /\ UNCHANGED manifest

\* The checkout is clean again and the manifests are what they were.
unchangedSince == tree /\ manifest = tree

writeEvidence ==
  /\ pc > Len(Script)
  /\ sessionStep("running", IF unchangedSince THEN "written" ELSE "failed")
  /\ UNCHANGED manifest

(***************************************************************************)
(* Surroundings.                                                           *)
(***************************************************************************)
tick ==
  /\ outcome = "running" /\ pc > 2 /\ now < MaxTime /\ now' = now + 1
  /\ UNCHANGED <<pc, wallets, material, ticket, serving, result, session, cases, outcome>>

\* A change of the checkout, or back: it has readers before and after the cases.
edit ==
  /\ active /\ (outcome # "running" \/ pc > Len(Script))
  /\ edits < MaxEdits /\ edits' = edits + 1 /\ tree' = ~tree
  /\ UNCHANGED <<now, pc, wallets, material, ticket, serving, result, manifest, cases, outcome>>

variations(m) ==
  CASE m.kind = "intent" ->
         {[m EXCEPT !.commitment = otherClaim(m.role)], [m EXCEPT !.bundle = other(m.role)],
          [m EXCEPT !.nonce = m.registration.nonce], [m EXCEPT !.expires = @ + 1]}
    [] m.kind = "final" ->
         {[m EXCEPT !.intent = i, !.commitment = i.commitment, !.artifact = a] :
            i \in messages("intent"), a \in made}
         \cup {[m EXCEPT !.expires = @ + 1], [m EXCEPT !.role = other(m.role), !.wallet = other(m.role)]}
    [] m.kind = "registration" -> {[m EXCEPT !.expires = @ + 1]}

\* Under an intent of its own making a participant also encrypts.
more(r) ==
  \/ \E m \in {x[2] : x \in {y \in signed : y[1] = r}} : \E v \in variations(m) :
       /\ signed' = signed \cup {signTypedData(r, v)}
       /\ made' = IF v.kind = "intent" THEN made \cup {participantPrepare(r, v)} ELSE made
  \/ /\ UNCHANGED signed
     /\ \E i \in messages("intent") : made' = made \cup {[participantPrepare(r, i) EXCEPT !.commitment = otherClaim(r)]}

\* What a participant makes unasked has no reader before the uploads, and is
\* there for all of them when it is made now.  The cases do not look at the
\* checkout: runs with a changed one are not followed here again.
wander(r) ==
  /\ at("controls", "A") /\ edits = 0 /\ r \in Wandering /\ extra < MaxExtra /\ extra' = extra + 1
  /\ more(r)
  /\ UNCHANGED <<now, pc, material, ticket, serving, result, session, cases, outcome>>

Next ==
  \/ verifySourceCheckout \/ buildGoBinaries \/ sourceManifest \/ runQualification
  \/ childFails \/ tick \/ edit \/ writeEvidence \/ beginElsewhere
  \/ \E r \in Roles :
       \/ init(r) \/ signRegistration(r) \/ persistVerifiedPhase0(r)
       \/ foundation(r) \/ ceremony(r) \/ finalize(r) \/ bundleExport(r)
       \/ signIntent(r) \/ verifyIntent(r) \/ prepareAndSignFinal(r) \/ verifyFinal(r)
       \/ startCoordinatorProcess(r) \/ liveNegativeControls(r) \/ beginImport(r)
       \/ awaitUpload(r, "ciphertext", {"CIPHERTEXT_STAGED", "STAGED", "VERIFIED", "PUBLISHED"})
       \/ awaitUpload(r, "manifest", {"PUBLISHED"})
       \/ stop(r) \/ evaluate(r) \/ decrypt(r) \/ scan(r) \/ record(r) \/ wander(r)
       \/ uploadCiphertext(r) \/ uploadArtifactManifest(r) \/ verifyArtifact(r) \/ publishArtifact(r)

Spec == Init /\ [][Next]_vars

-----------------------------------------------------------------------------
(***************************************************************************)
(* Properties.                                                             *)
(***************************************************************************)
TypeOK ==
  /\ now \in 0..MaxTime /\ pc \in 1..(Len(Script) + 1) /\ extra \in 0..MaxExtra
  /\ \A x \in signed : x[1] \in Roles /\ x[2].kind \in {"registration", "intent", "final"}
  /\ \A a \in made : a.kind = "artifact"
  /\ {serving, tree, manifest} \subseteq BOOLEAN /\ edits \in 0..MaxEdits
  /\ outcome \in {"checkout", "build", "manifest", "qualify", "running", "failed", "written"}
  /\ \A r \in Roles : ticket[r] # None => ticket[r].state \in
       {"RESERVED", "CIPHERTEXT_STAGED", "STAGED", "VERIFIED", "PUBLISHED", "FAILED"}

(* Whatever the participants sign besides, whoever sends the requests and  *)
(* however long they take, what is published for a role was authorized by  *)
(* the wallet of that role: it signed the retained registration, an intent *)
(* under it and a final admission under that, each inside the window of    *)
(* the one before, for exactly the published artifact, and none of them    *)
(* had expired when the publication began (verifyRealAuthorizationChain,   *)
(* repeated at every step of the upload).                                  *)
PublishedIsAuthorized ==
  \A r \in Roles : public.artifact[r] # None =>
    LET p == public.artifact[r]
        g == p.meta.registration
        i == p.meta.intent
        f == p.meta.final
        a == p.meta.artifact
    IN /\ {<<r, g>>, <<r, i>>, <<r, f>>} \subseteq signed /\ g = phase0[r]
       /\ i.registration = g /\ f.registration = g /\ f.intent = i
       /\ a.intent = i /\ f.artifact = a /\ a.role = r /\ a.key = g.key
       /\ a.commitment = i.commitment /\ f.commitment = i.commitment
       /\ i.bundle = r /\ Cardinality({g.nonce, i.nonce, f.nonce}) = 3
       /\ f.issued >= i.issued /\ i.issued >= g.issued
       /\ f.expires <= i.expires /\ i.expires <= g.expires /\ p.at < f.expires

(* No key material before both wallets are registered, and no ciphertext   *)
(* without a current consent: the foundation runs once both registrations  *)
(* were verified and retained, and a participant encrypts only under an    *)
(* intent of its own that was verified before it expired, although time    *)
(* passes between signing, verifying and encrypting.                       *)
NothingBeforeConsent ==
  /\ public.keys => \A r \in Roles : phase0[r] # None /\ <<r, phase0[r]>> \in signed
  /\ \A r \in Roles : prepared[r] # None =>
       /\ <<r, prepared[r].artifact.intent>> \in signed
       /\ ready[r].intent = prepared[r].artifact.intent
       /\ ready[r].at < ready[r].intent.expires

(* Evidence of a case is about the case that was run: each artifact that   *)
(* was published, evaluated and decrypted is the one its participant       *)
(* prepared from the pledge it was given, although other holders of the    *)
(* bearer may have taken the role first, and the conflict it reports is    *)
(* the one of those pledges.  Nothing private was found in what is kept,   *)
(* and the sources it names are those of the expected commit.              *)
EvidenceIsOfTheCase ==
  /\ \A k \in 1..Len(cases) :
       /\ cases[k].claimed /\ cases[k].conflict = Cases[k]
       /\ cases[k].kept \cap retainedForbiddenMaterial = {}
       /\ cases[k].publications = Roles /\ cases[k].prepared = Roles
  /\ outcome = "written" => Len(cases) = Len(Cases) /\ manifest
=============================================================================
