---------------------------- MODULE EvidenceChain ---------------------------
(***************************************************************************)
(* The documents in which Mordant says what happened in a case, and the    *)
(* verifiers that read them back (src/lib/protection):                     *)
(*                                                                         *)
(*   - the public protection evidence, schema 4, of a product run          *)
(*     (protection-evidence.ts, protection-evidence-metadata.ts);          *)
(*   - the bridge evidence of a direct-participant run, assembled from the *)
(*     files of the run and read by the bridge executor                    *)
(*     (direct-participant-evidence-assembly.ts, bridge-executor.ts);      *)
(*   - the chain from the selected recourse policy to the recorded         *)
(*     operation, kept in the run's state (governed-recourse-policy.ts).   *)
(*                                                                         *)
(* Cases really happen, on a clock.  A document is then put together with  *)
(* each part taken from the case it is about or from another one, or with  *)
(* one member of a part written wrongly; and it is read.                   *)
(*                                                                         *)
(* A digest is the value it is the digest of.  A signature is the pair of  *)
(* the key and the value signed.  "terms" stands for everything that is    *)
(* the same in every case: asset, policy, circuit, parameters, release     *)
(* mode, amounts, classifications and schema literals.                     *)
(***************************************************************************)
EXTENDS Naturals, Sequences, FiniteSets

CONSTANTS
  EvidenceCases,   \* the cases, 1..n, created in this order
  RetainedCases,   \* cases whose manifest is pinned in the source
  CaseLifetime,    \* from creation to expiry (four hours)
  CureLength,      \* the cure window (24 hours)
  LastTime,        \* the bound of the clock
  Nothing,         \* null
  ZeroDigest,      \* the digest of zeros
  Other            \* a value that is in no genuine document

ASSUME EvidenceAssumption ==
  /\ EvidenceCases = 1..Cardinality(EvidenceCases)
  /\ RetainedCases \subseteq EvidenceCases /\ Nothing \notin EvidenceCases
  /\ CaseLifetime \in Nat /\ LastTime \in Nat
  /\ CureLength \in Nat /\ CureLength > CaseLifetime

VARIABLES
  today,    \* the clock
  life      \* per case, what happened and when

evidenceVars == <<today, life>>

Stages == {"absent", "created", "released", "bound", "attested", "exported", "refused"}

(***************************************************************************)
(* What a case says: the values that its files and documents are made of.  *)
(***************************************************************************)
canonicalTerms == "canonical"

(* The record date is a minute before creation.                            *)
recordDateOf(created) == created - 1

holderAllocationDigest(recordDate) == <<"holders", recordDate>>

protectionFheCaseId(scenario, nonce, holders) == <<scenario, nonce, holders>>

protectionBinding(k) ==
  LET date == recordDateOf(life[k].created)
      holders == holderAllocationDigest(date) IN
  [terms |-> canonicalTerms, scenario |-> life[k].conflict, recordDate |-> date, holders |-> holders,
   nonce |-> k, case |-> protectionFheCaseId(life[k].conflict, k, holders)]

caseIdOf(k) == protectionBinding(k).case

caseBinding(k) ==
  [terms |-> canonicalTerms, case |-> caseIdOf(k), nonce |-> k, keys |-> <<"keys", k>>,
   participants |-> <<"participants", k>>, authority |-> <<"authority", k>>,
   created |-> life[k].created, expires |-> life[k].created + CaseLifetime]

(* The members of two records, the first one's where both have them.       *)
joined(a, b) == [m \in DOMAIN a \cup DOMAIN b |-> IF m \in DOMAIN a THEN a[m] ELSE b[m]]

Signed(body, key) == joined(body, [signature |-> <<key, body>>])

governedResult(k) ==
  Signed([terms |-> canonicalTerms, case |-> caseIdOf(k), binding |-> caseBinding(k),
          artifacts |-> <<"artifacts", k>>, evaluated |-> <<"evaluated", k>>,
          ciphertext |-> <<"ciphertext", k>>, conflict |-> life[k].conflict,
          authority |-> <<"authority", k>>, released |-> life[k].released,
          provenance |-> "decryptor"],
         <<"authority", k>>)

recourseRecord(k) ==
  [terms |-> canonicalTerms, case |-> caseIdOf(k), binding |-> caseBinding(k), result |-> governedResult(k),
   authority |-> <<"authority", k>>, recordDate |-> protectionBinding(k).recordDate,
   holders |-> protectionBinding(k).holders, bound |-> life[k].bound,
   deadline |-> life[k].bound + CureLength]

recourse(k) ==
  IF life[k].conflict
  THEN [opened |-> TRUE, refused |-> Nothing, digest |-> recourseRecord(k), record |-> recourseRecord(k)]
  ELSE [opened |-> FALSE, refused |-> "SIGNED_RESULT_FALSE", digest |-> Nothing, record |-> Nothing]

clockOf(conflict) == IF conflict THEN "SIMULATED" ELSE "REAL"

(* The chronology the release authority derives and signs.                 *)
canonicalProductChronology(k) ==
  LET conflict == life[k].conflict
      deadline == recourseRecord(k).deadline
      simulation == IF conflict THEN deadline + 1 ELSE Nothing IN
  [clock |-> clockOf(conflict), signedAt |-> life[k].signed, simulation |-> simulation,
   recordDate |-> protectionBinding(k).recordDate, holders |-> protectionBinding(k).holders,
   deadline |-> IF conflict THEN deadline ELSE Nothing,
   incident |-> IF conflict THEN "CONFLICT_CONFIRMED" ELSE "CLEARED",
   recourse |-> IF conflict THEN "SIMULATED_AVAILABLE" ELSE "REFUSED",
   events |->
     <<<<"SNAPSHOT", protectionBinding(k).recordDate, protectionBinding(k)>>,
       <<"CREATED", life[k].created, caseBinding(k)>>,
       <<"ARTIFACTS", Nothing, <<<<"artifacts", k>>, <<"evaluated", k>>>>>>,
       <<"RELEASED", life[k].released, governedResult(k)>>>>
     \o IF conflict
        THEN <<<<"BOUND", life[k].bound, recourseRecord(k)>>,
               <<"SIMULATED_COMPLETED", simulation, recourseRecord(k)>>>>
        ELSE <<<<"REFUSED", life[k].released, governedResult(k)>>>>]

recourseAttestation(k) ==
  LET h == canonicalProductChronology(k) IN
  Signed([terms |-> canonicalTerms, protection |-> protectionBinding(k), result |-> governedResult(k),
          case |-> caseIdOf(k), boolean |-> life[k].conflict,
          record |-> IF life[k].conflict THEN recourseRecord(k) ELSE ZeroDigest,
          refusal |-> IF life[k].conflict THEN "NONE" ELSE "SIGNED_RESULT_FALSE",
          holders |-> h.holders, recordDate |-> h.recordDate, deadline |-> h.deadline,
          recourse |-> h.recourse, incident |-> h.incident, clock |-> h.clock,
          signedAt |-> h.signedAt, simulation |-> h.simulation, chronology |-> h,
          claim |-> h.clock, authority |-> <<"authority", k>>],
         <<"authority", k>>)

(* The size of the published files depends on whether a record is there.   *)
publicBytes(scenario) == IF scenario THEN "with record" ELSE "without record"

governedFheEvidence(k, generated) ==
  [terms |-> canonicalTerms, case |-> caseIdOf(k), binding |-> caseBinding(k), manifest |-> <<"manifest", k>>,
   artifacts |-> <<"artifacts", k>>, evaluated |-> <<"evaluated", k>>,
   ciphertext |-> <<"ciphertext", k>>, evaluator |-> "evaluator", decryptor |-> "decryptor",
   pins |-> <<<<"artifacts", k>>, <<"evaluated", k>>, <<"ciphertext", k>>, "decryptor", <<"authority", k>>>>,
   result |-> governedResult(k), protection |-> protectionBinding(k),
   attestation |-> recourseAttestation(k),
   record |-> IF life[k].conflict THEN recourseRecord(k) ELSE ZeroDigest,
   authority |-> <<"authority", k>>, conflict |-> life[k].conflict,
   bytes |-> publicBytes(life[k].conflict), durations |-> k, generated |-> generated]

(***************************************************************************)
(* The three documents of a case, part by part.                            *)
(***************************************************************************)
agreed(body, key) == joined([digest |-> body, signature |-> <<key, body>>], body)

(* Times are whole seconds, but for the time of the document itself, which *)
(* is counted in half seconds.                                             *)
buildProtectionEvidence(k, generated, late) ==
  [authorization |-> agreed(protectionBinding(k), <<"participants", k>>),
   caseAuthorization |-> agreed(caseBinding(k), <<"participants", k>>),
   result |-> joined([digest |-> governedResult(k)], governedResult(k)),
   recourse |-> recourse(k),
   attestation |-> joined([digest |-> recourseAttestation(k)], recourseAttestation(k)),
   chronology |-> canonicalProductChronology(k),
   projection |-> protectionBinding(k),
   fhe |-> [terms |-> canonicalTerms, case |-> caseIdOf(k), binding |-> caseBinding(k), keys |-> <<"keys", k>>,
            artifacts |-> <<"artifacts", k>>, evaluated |-> <<"evaluated", k>>,
            ciphertext |-> <<"ciphertext", k>>, evaluator |-> "evaluator"],
   proof |-> governedFheEvidence(k, generated),
   envelope |-> [terms |-> canonicalTerms, commit |-> "build", run |-> k, scenario |-> life[k].conflict,
                 participants |-> <<"participants", k>>, generatedAt |-> 2 * generated + (IF late THEN 1 ELSE 0)]]

roles == {"A", "B"}

admission(k, role) ==
  LET message == [run |-> k, case |-> caseIdOf(k), protection |-> protectionBinding(k), role |-> role,
                  wallet |-> <<"holder", role>>, nonce |-> <<role, k>>] IN
  [role |-> role, wallet |-> <<"holder", role>>, digest |-> message, commitment |-> <<"claim", role, k>>,
   nonce |-> <<role, k>>, terms |-> canonicalTerms, block |-> <<"block", role, k>>,
   authorization |-> message, signature |-> <<<<"holder", role>>, message>>]

(* The files of a direct run; the admissions are read twice.               *)
runFiles(k) ==
  [execution |-> [case |-> caseIdOf(k), binding |-> caseBinding(k), protection |-> protectionBinding(k),
                  artifacts |-> <<"artifacts", k>>, evaluated |-> <<"evaluated", k>>, receipt |-> <<"receipt", k>>],
   bindingFile |-> caseBinding(k),
   resultFile |-> governedResult(k),
   admissionA |-> admission(k, "A"), admissionB |-> admission(k, "B"),
   ledgerA |-> admission(k, "A"), ledgerB |-> admission(k, "B")]

hashed(body) == joined(body, [hash |-> body])

POLICY_BODY(conflict) ==
  IF conflict THEN [action |-> "OPEN_LOCAL_CURE_PATH", window |-> CureLength]
              ELSE [action |-> "RECORD_AND_CLOSE", window |-> Nothing]

selectManagedDemoGovernedRecoursePolicy(k) ==
  hashed([terms |-> canonicalTerms, case |-> caseIdOf(k), selectedAt |-> life[k].created])

(* The policy was selected before the result could be known.               *)
precedesExposure(k) == life[k].created < life[k].released

evaluateManagedDemoGovernedRecoursePolicy(k) ==
  hashed([terms |-> canonicalTerms, selection |-> selectManagedDemoGovernedRecoursePolicy(k).hash,
          result |-> governedResult(k), conflict |-> life[k].conflict,
          action |-> POLICY_BODY(life[k].conflict).action, window |-> POLICY_BODY(life[k].conflict).window])

authorizeOperation(selection, plan) ==
  hashed([case |-> selection.case, selection |-> selection.hash, plan |-> plan.hash,
          result |-> plan.result, action |-> plan.action, window |-> plan.window])

(* Whether the outcome is one that the authorized action may have had.     *)
outcomeFits(z, outcome) ==
  IF z.action = "OPEN_LOCAL_CURE_PATH"
  THEN /\ outcome.opened = TRUE /\ outcome.record \notin {Nothing, Other}
       /\ outcome.record.case = z.case /\ outcome.record.result = z.result
       /\ outcome.record.deadline = outcome.record.bound + z.window
  ELSE outcome.opened = FALSE /\ outcome.record = Nothing

recordOperation(z, id, parameters, outcome) ==
  hashed([id |-> id, parameters |-> parameters, authorization |-> z.hash, selection |-> z.selection,
          plan |-> z.plan, result |-> z.result, action |-> z.action, outcome |-> outcome,
          window |-> z.window])

(* The digest of what the journal was told when the operation began.       *)
parametersDigest(z) == <<"parameters", z>>

runState(k) ==
  LET selection == selectManagedDemoGovernedRecoursePolicy(k)
      plan == evaluateManagedDemoGovernedRecoursePolicy(k)
      z == authorizeOperation(selection, plan)
      outcome == [opened |-> recourse(k).opened, record |-> recourse(k).record] IN
  [selection |-> selection, plan |-> plan,
   release |-> [result |-> governedResult(k), conflict |-> life[k].conflict],
   outcome |-> outcome, operation |-> recordOperation(z, <<"op", k>>, parametersDigest(z), outcome),
   journal |-> [id |-> <<"op", k>>, parameters |-> parametersDigest(z), authorization |-> z]]

exhibit(kind, k) ==
  CASE kind = "bundle" -> buildProtectionEvidence(k, life[k].generated, life[k].late)
    [] kind = "bridge" -> runFiles(k)
    [] kind = "action" -> runState(k)

(***************************************************************************)
(* Reading the public protection evidence.                                 *)
(***************************************************************************)
bodyOf(part) == [f \in DOMAIN part \ {"digest", "signature", "hash"} |-> part[f]]
digestOf(part) == [f \in DOMAIN part \ {"digest"} |-> part[f]]

signatureHolds(part, key) == part.signature = <<key, bodyOf(part)>>

(* The members a bundle has, part by part; none may be missing or added.   *)
exactFields ==
  [authorization |-> {"terms", "scenario", "recordDate", "holders", "nonce", "case", "digest", "signature"},
   caseAuthorization |-> {"terms", "case", "nonce", "keys", "participants", "authority", "created", "expires",
                          "digest", "signature"},
   result |-> {"terms", "case", "binding", "artifacts", "evaluated", "ciphertext", "conflict", "authority",
               "released", "provenance", "digest", "signature"},
   recourse |-> {"opened", "refused", "digest", "record"},
   attestation |-> {"terms", "protection", "result", "case", "boolean", "record", "refusal", "holders", "recordDate",
                    "deadline", "recourse", "incident", "clock", "signedAt", "simulation", "chronology", "claim",
                    "authority", "digest", "signature"},
   chronology |-> {"clock", "signedAt", "simulation", "recordDate", "holders", "deadline", "incident", "recourse",
                   "events"},
   projection |-> {"terms", "scenario", "recordDate", "holders", "nonce", "case"},
   fhe |-> {"terms", "case", "binding", "keys", "artifacts", "evaluated", "ciphertext", "evaluator"},
   proof |-> {"terms", "case", "binding", "manifest", "artifacts", "evaluated", "ciphertext", "evaluator", "decryptor",
              "pins", "result", "protection", "attestation", "record", "authority", "conflict", "bytes", "durations",
              "generated"},
   envelope |-> {"terms", "commit", "run", "scenario", "participants", "generatedAt"}]

assertExactPublicEvidenceShape(d) ==
  [p \in DOMAIN d |-> DOMAIN d[p]] = exactFields

assertParticipantAuthorization(d) ==
  LET c == d.caseAuthorization IN
  /\ c.digest = bodyOf(c) /\ c.digest = d.fhe.binding
  /\ d.envelope.participants = c.participants
  /\ signatureHolds(c, c.participants)

assertSignedProtectionBinding(d) ==
  LET p == d.authorization  c == d.caseAuthorization IN
  /\ p.terms = canonicalTerms
  /\ p.holders = holderAllocationDigest(p.recordDate)
  /\ p.case = protectionFheCaseId(p.scenario, p.nonce, p.holders)
  /\ p.digest = bodyOf(p)
  /\ d.projection = bodyOf(p)
  /\ signatureHolds(p, c.participants)
  /\ p.terms = c.terms /\ p.case = c.case /\ p.nonce = c.nonce
  /\ d.proof.protection = p.digest

(* Every cross-reference between the signed roots, the FHE section and the *)
(* governed proof.                                                         *)
crossReferencesHold(d) ==
  LET p == d.authorization  c == d.caseAuthorization  g == d.result  e == d.proof  x == d.fhe IN
  /\ d.envelope.scenario = p.scenario /\ g.conflict = p.scenario /\ e.conflict = p.scenario
  /\ {x.case, c.case, g.case, e.case} = {p.case}
  /\ {x.terms, c.terms, g.terms, e.terms, d.envelope.terms} = {canonicalTerms}
  /\ c.keys = x.keys
  /\ g.binding = x.binding /\ e.binding = x.binding
  /\ g.artifacts = x.artifacts /\ e.artifacts = x.artifacts
  /\ g.evaluated = x.evaluated /\ e.evaluated = x.evaluated
  /\ g.ciphertext = x.ciphertext /\ e.ciphertext = g.ciphertext
  /\ e.evaluator = x.evaluator /\ e.decryptor = g.provenance
  /\ e.pins = <<x.artifacts, x.evaluated, g.ciphertext, g.provenance, g.authority>>
  /\ c.authority = g.authority /\ e.authority = g.authority
  /\ g.digest = digestOf(g) /\ e.result = g.digest
  /\ signatureHolds(digestOf(g), g.authority)

recourseHolds(d) ==
  LET c == d.caseAuthorization  g == d.result  r == d.recourse IN
  IF g.conflict
  THEN /\ r.opened = TRUE /\ r.refused = Nothing /\ r.record # Nothing /\ r.digest # Nothing
       /\ r.digest = r.record /\ r.digest = d.proof.record
       /\ r.record.case = d.authorization.case /\ r.record.terms = g.terms
       /\ r.record.binding = g.binding /\ r.record.result = g.digest
       /\ r.record.authority = g.authority
       /\ r.record.holders = d.projection.holders /\ r.record.recordDate = d.projection.recordDate
       /\ r.record.bound >= g.released /\ r.record.bound <= c.expires
       /\ r.record.deadline = r.record.bound + CureLength
  ELSE /\ r.opened = FALSE /\ r.refused = "SIGNED_RESULT_FALSE"
       /\ r.record = Nothing /\ r.digest = Nothing /\ d.proof.record = ZeroDigest

(* A conflict on the real clock may complete only after its deadline.      *)
realClockInTime(d) ==
  d.result.conflict /\ d.chronology.clock = "REAL" => d.chronology.signedAt > d.recourse.record.deadline

expectedCanonicalChronology(d) ==
  LET p == d.authorization  c == d.caseAuthorization  g == d.result  h == d.chronology
      simulated == h.clock = "SIMULATED"
      completed == IF simulated THEN d.recourse.record.deadline + 1 ELSE h.signedAt IN
  [clock |-> h.clock, signedAt |-> h.signedAt,
   simulation |-> IF g.conflict /\ simulated THEN completed ELSE Nothing,
   recordDate |-> p.recordDate, holders |-> p.holders,
   deadline |-> IF g.conflict THEN d.recourse.record.deadline ELSE Nothing,
   incident |-> IF g.conflict THEN "CONFLICT_CONFIRMED" ELSE "CLEARED",
   recourse |-> IF ~g.conflict THEN "REFUSED" ELSE IF simulated THEN "SIMULATED_AVAILABLE" ELSE "AVAILABLE",
   events |->
     <<<<"SNAPSHOT", p.recordDate, p.digest>>, <<"CREATED", c.created, c.digest>>,
       <<"ARTIFACTS", Nothing, <<g.artifacts, g.evaluated>>>>, <<"RELEASED", g.released, g.digest>>>>
     \o IF g.conflict
        THEN <<<<"BOUND", d.recourse.record.bound, d.recourse.digest>>,
               <<IF simulated THEN "SIMULATED_COMPLETED" ELSE "COMPLETED", completed, d.recourse.digest>>>>
        ELSE <<<<"REFUSED", g.released, g.digest>>>>]

chronologyHolds(d) ==
  /\ d.chronology.signedAt >= d.result.released
  /\ d.chronology.signedAt <= d.caseAuthorization.expires
  /\ realClockInTime(d)
  /\ d.chronology = expectedCanonicalChronology(d)

(* Mistake: the attestation is only compared with the signed roots, and    *)
(* not with the chronology that the bundle shows.                          *)
attestationBinds_RootsOnly(d) ==
  LET t == d.attestation IN
  /\ t.protection = d.authorization.digest /\ t.result = d.result.digest
  /\ t.case = d.authorization.case /\ t.terms = canonicalTerms /\ t.boolean = d.result.conflict
  /\ t.authority = d.result.authority

attestationBinds(d) ==
  LET t == d.attestation  h == d.chronology IN
  /\ t.protection = d.authorization.digest /\ t.result = d.result.digest
  /\ t.case = d.authorization.case /\ t.terms = canonicalTerms /\ t.boolean = d.result.conflict
  /\ t.record = (IF d.recourse.digest = Nothing THEN ZeroDigest ELSE d.recourse.digest)
  /\ t.holders = d.authorization.holders /\ t.recordDate = d.authorization.recordDate
  /\ t.deadline = h.deadline /\ t.clock = h.clock /\ t.signedAt = h.signedAt
  /\ t.simulation = h.simulation /\ t.incident = h.incident /\ t.recourse = h.recourse
  /\ t.chronology = h
  /\ t.authority = d.result.authority

assertSignedRecourseAttestation(d) ==
  LET t == d.attestation IN
  /\ d.proof.attestation = t.digest
  /\ t.digest = digestOf(t)
  /\ signatureHolds(digestOf(t), d.result.authority)
  /\ attestationBinds(d)
  /\ IF t.boolean
     THEN /\ t.refusal = "NONE" /\ t.incident = "CONFLICT_CONFIRMED" /\ t.claim = t.clock
          /\ t.recourse = (IF t.clock = "SIMULATED" THEN "SIMULATED_AVAILABLE" ELSE "AVAILABLE")
     ELSE /\ t.refusal = "SIGNED_RESULT_FALSE" /\ t.recourse = "REFUSED" /\ t.incident = "CLEARED"
          /\ t.deadline = Nothing /\ t.clock = "REAL" /\ t.simulation = Nothing /\ t.claim = "REAL"

(* The manifest the caller expects, or the one pinned for the case shown.  *)
manifestPinned(d, asked) ==
  IF asked # Nothing
  THEN d.proof.manifest = <<"manifest", asked>>
  ELSE \E k \in RetainedCases :
         life[k].stage = "exported" /\ d.fhe.case = caseIdOf(k) /\ d.proof.manifest = <<"manifest", k>>

(* Mistake: a signature of the second of the release is refused.           *)
terminalTimesHold_Strict(d) ==
  LET c == d.caseAuthorization  g == d.result  h == d.chronology IN
  /\ c.expires = c.created + CaseLifetime
  /\ d.projection.recordDate = recordDateOf(c.created)
  /\ g.released >= c.created /\ g.released <= c.expires
  /\ h.signedAt > g.released /\ h.signedAt <= c.expires
  /\ d.proof.generated >= h.signedAt /\ d.proof.generated <= c.expires
  /\ d.envelope.generatedAt >= 2 * c.created /\ d.envelope.generatedAt <= 2 * c.expires
  /\ d.envelope.generatedAt + 1 >= 2 * d.proof.generated

terminalTimesHold(d) ==
  LET c == d.caseAuthorization  g == d.result  h == d.chronology IN
  /\ c.expires = c.created + CaseLifetime
  /\ d.projection.recordDate = recordDateOf(c.created)
  /\ g.released >= c.created /\ g.released <= c.expires
  /\ h.signedAt >= g.released /\ h.signedAt <= c.expires
  /\ d.proof.generated >= h.signedAt /\ d.proof.generated <= c.expires
  /\ d.envelope.generatedAt >= 2 * c.created /\ d.envelope.generatedAt <= 2 * c.expires
  /\ d.envelope.generatedAt + 1 >= 2 * d.proof.generated

assertPublicProtectionEvidence(d, asked) ==
  /\ assertExactPublicEvidenceShape(d)
  /\ d.proof.bytes = publicBytes(d.envelope.scenario)
  /\ d.envelope.commit = "build"
  /\ assertParticipantAuthorization(d)
  /\ assertSignedProtectionBinding(d)
  /\ crossReferencesHold(d)
  /\ recourseHolds(d)
  /\ chronologyHolds(d)
  /\ assertSignedRecourseAttestation(d)
  /\ manifestPinned(d, asked)
  /\ terminalTimesHold(d)

(* What the page shows of a verified bundle.                               *)
projectVerifiedEvidence(d) ==
  LET h == d.chronology  t == d.attestation IN
  [run |-> d.envelope.run, commit |-> d.envelope.commit, scenario |-> d.envelope.scenario,
   terms |-> d.envelope.terms, case |-> d.projection,
   authorization |-> <<d.authorization.digest, d.authorization.signature>>,
   fhe |-> <<d.fhe.case, d.fhe.binding, d.fhe.artifacts, d.fhe.evaluated, d.fhe.ciphertext>>,
   result |-> <<d.result.conflict, d.result.digest, d.result.signature, d.result.authority>>,
   times |-> <<h.clock, h.signedAt, h.simulation, h.deadline>>, states |-> <<h.incident, h.recourse>>,
   events |-> [i \in DOMAIN h.events |-> SubSeq(h.events[i], 1, 2)],
   recourse |-> <<d.recourse.opened, d.recourse.refused, d.recourse.digest>>,
   attestation |-> <<t.digest, t.signature, t.chronology, t.incident, t.recourse, t.clock, t.simulation>>]

(***************************************************************************)
(* Reading the evidence of a direct run.  It is first assembled from the   *)
(* run's files, and refused there when they disagree; the executor then    *)
(* verifies it for the run it was asked to settle, and against the         *)
(* admissions of that run, read again.                                     *)
(***************************************************************************)
admissionFact(record) ==
  [f \in {"role", "wallet", "digest", "commitment", "nonce", "terms", "block"} |-> record[f]]

runFilesAgree(f) ==
  LET b == f.bindingFile  g == f.resultFile  x == f.execution IN
  /\ signatureHolds(g, g.authority)
  /\ g.authority = b.authority /\ g.case = b.case /\ g.terms = b.terms
  /\ g.binding = x.binding /\ g.evaluated = x.evaluated /\ g.case = x.case
  /\ g.artifacts = x.artifacts
  /\ f.admissionA.role = "A" /\ f.admissionB.role = "B"

assembleDirectParticipantBridgeEvidence(f, run) ==
  LET b == f.bindingFile  g == f.resultFile  x == f.execution IN
  [commit |-> "build", run |-> run, case |-> x.case, protection |-> x.protection, binding |-> x.binding,
   bindingCase |-> b.case, bindingTerms |-> b.terms, bindingAuthority |-> b.authority,
   participants |-> [A |-> admissionFact(f.admissionA), B |-> admissionFact(f.admissionB)],
   artifacts |-> x.artifacts, evaluated |-> x.evaluated, resultDigest |-> g, result |-> g,
   receipt |-> x.receipt]

(* The two admitted wallets are the ones the adapter will pay.             *)
participantsAreHolders(e) ==
  \A role \in roles :
    LET a == e.participants[role] IN
    a.role = role /\ a.terms = canonicalTerms /\ a.wallet = <<"holder", role>>

assertDirectParticipantBridgeEvidence(e, run) ==
  LET g == e.result IN
  /\ e.commit = "build" /\ e.run = run
  /\ signatureHolds(g, g.authority) /\ e.resultDigest = g
  /\ g.case = e.case /\ g.case = e.bindingCase /\ g.binding = e.binding
  /\ g.terms = e.bindingTerms /\ g.terms = canonicalTerms
  /\ g.authority = e.bindingAuthority
  /\ g.artifacts = e.artifacts /\ g.evaluated = e.evaluated
  /\ participantsAreHolders(e)

(* The signed message of one admission is of this run, case and binding.   *)
assertParticipantAdmissionProof(fact, record, e) ==
  LET m == record.authorization IN
  /\ m # Other
  /\ m.role = fact.role /\ m.wallet = fact.wallet /\ m.nonce = fact.nonce
  /\ m.run = e.run /\ m.case = e.case /\ m.protection = e.protection
  /\ fact.digest = m
  /\ record.signature = <<fact.wallet, m>>

buildPreparedDirect(f, run) ==
  LET e == assembleDirectParticipantBridgeEvidence(f, run)
      ledger == [A |-> f.ledgerA, B |-> f.ledgerB] IN
  /\ runFilesAgree(f)
  /\ assertDirectParticipantBridgeEvidence(e, run)
  /\ \A role \in roles :
       LET fact == e.participants[role] IN
       /\ ledger[role].role = role
       /\ \A m \in {"wallet", "digest", "nonce", "commitment", "terms", "block"} :
            ledger[role][m] = fact[m]
       /\ assertParticipantAdmissionProof(fact, ledger[role], e)

(***************************************************************************)
(* Reading the policy chain of a run's state.                              *)
(***************************************************************************)
hashHolds(part) == part.hash = bodyOf(part)

verifySelection(s, case) == hashHolds(s) /\ s.terms = canonicalTerms /\ s.case = case

verifyPlan(s) ==
  /\ hashHolds(s.plan) /\ s.plan.terms = canonicalTerms
  /\ s.plan.action = POLICY_BODY(s.plan.conflict).action
  /\ s.plan.window = POLICY_BODY(s.plan.conflict).window
  /\ s.plan.selection = s.selection.hash
  /\ s.plan.result = s.release.result /\ s.plan.conflict = s.release.conflict

(* The record is recomputed from the chain above it and the outcome.       *)
verifyOperation(s) ==
  LET z == authorizeOperation(s.selection, s.plan) IN
  /\ hashHolds(s.operation)
  /\ outcomeFits(z, s.outcome)
  /\ s.operation = recordOperation(z, s.operation.id, s.operation.parameters, s.outcome)
  /\ s.journal.id = s.operation.id /\ s.journal.parameters = s.operation.parameters
  /\ s.journal.parameters = parametersDigest(s.journal.authorization)
  /\ s.journal.authorization = z

loadStateRaw(s, case) ==
  verifySelection(s.selection, case) /\ verifyPlan(s) /\ verifyOperation(s)

(***************************************************************************)
(* The documents.  A reader is given a document of a case some parts of    *)
(* which are another case's, or a member of which was written wrongly.     *)
(***************************************************************************)
Kinds == {"bundle", "bridge", "action"}

(* The cases that have such a document.                                    *)
Authors(kind) ==
  {k \in EvidenceCases :
     CASE kind = "bundle" -> life[k].stage = "exported"
       [] kind = "bridge" -> life[k].stage \in {"attested", "exported", "refused"}
       [] kind = "action" -> /\ life[k].stage \in {"bound", "attested", "exported", "refused"}
                             /\ precedesExposure(k)}

TimeMembers == {"generated", "generatedAt", "signedAt", "recordDate", "created", "expires", "released", "selectedAt"}
FlagMembers == {"conflict", "scenario", "opened", "boolean"}

(* What may stand where v belongs.                                         *)
wrongValues(member, v) ==
  IF member \in TimeMembers THEN 0..(2 * LastTime + 1) \ {v}
  ELSE IF member \in FlagMembers THEN {~v}
  ELSE {Other}

(* A member with a wrong value; who rewrites a hashed part hashes it again. *)
rewritten(part, member, v) ==
  LET changed == [part EXCEPT ![member] = v] IN
  IF "hash" \in DOMAIN part /\ member # "hash" THEN [changed EXCEPT !.hash = bodyOf(changed)] ELSE changed

(* A part with a member too many, or without one of its members.           *)
reshaped(part) ==
  {joined(part, [added |-> Other])} \cup {[m \in DOMAIN part \ {gone} |-> part[m]] : gone \in DOMAIN part}

(* A document with some parts of another.                                  *)
mixed(mine, theirs, parts) == [p \in DOMAIN mine |-> IF p \in parts THEN theirs[p] ELSE mine[p]]

accepts(kind, d, asked) ==
  CASE kind = "bundle" -> assertPublicProtectionEvidence(d, asked)
    [] kind = "bridge" -> buildPreparedDirect(d, asked)
    [] kind = "action" -> loadStateRaw(d, caseIdOf(asked))

(* A bundle may be read without saying which case is expected.             *)
Asked(kind) == Authors(kind) \cup (IF kind = "bundle" THEN {Nothing} ELSE {})

(***************************************************************************)
(* The cases happen.                                                       *)
(***************************************************************************)
EvidenceInit ==
  /\ today = 1
  /\ life = [k \in EvidenceCases |->
              [stage |-> "absent", conflict |-> FALSE, created |-> 0, released |-> 0, bound |-> 0,
               signed |-> 0, generated |-> 0, late |-> FALSE]]

expired(k) == today > life[k].created + CaseLifetime

Tick ==
  /\ today < LastTime
  /\ today' = today + 1
  /\ UNCHANGED life

Create(k, conflict) ==
  /\ life[k].stage = "absent"
  /\ \A j \in 1..(k - 1) : life[j].stage # "absent"
  /\ life' = [life EXCEPT ![k] = [@ EXCEPT !.stage = "created", !.conflict = conflict, !.created = today]]
  /\ UNCHANGED today

Release(k) ==
  /\ life[k].stage = "created" /\ ~expired(k)
  /\ life' = [life EXCEPT ![k] = [@ EXCEPT !.stage = "released", !.released = today]]
  /\ UNCHANGED today

Bind(k) ==
  /\ life[k].stage = "released" /\ ~expired(k)
  /\ life' = [life EXCEPT ![k] = [@ EXCEPT !.stage = "bound", !.bound = today]]
  /\ UNCHANGED today

Attest(k) ==
  /\ life[k].stage = "bound" /\ ~expired(k)
  /\ life' = [life EXCEPT ![k] = [@ EXCEPT !.stage = "attested", !.signed = today]]
  /\ UNCHANGED today

(* The exporter reads its own document before it is written.               *)
Export(k, late) ==
  LET ok == assertPublicProtectionEvidence(buildProtectionEvidence(k, today, late), k) IN
  /\ life[k].stage = "attested"
  /\ life' = [life EXCEPT ![k] =
                [@ EXCEPT !.stage = IF ok THEN "exported" ELSE "refused", !.generated = today, !.late = late]]
  /\ UNCHANGED today

EvidenceNext ==
  \/ Tick
  \/ \E k \in EvidenceCases :
       \/ \E conflict \in BOOLEAN : Create(k, conflict)
       \/ Release(k) \/ Bind(k) \/ Attest(k)
       \/ \E late \in BOOLEAN : Export(k, late)

EvidenceSpec == EvidenceInit /\ [][EvidenceNext]_evidenceVars

EvidenceTypeOK ==
  /\ today \in 1..LastTime
  /\ life \in [EvidenceCases ->
               [stage : Stages, conflict : BOOLEAN, created : 0..LastTime, released : 0..LastTime,
                bound : 0..LastTime, signed : 0..LastTime, generated : 0..LastTime, late : BOOLEAN]]

(***************************************************************************)
(* Properties.                                                             *)
(***************************************************************************)

(* What no signature and no comparison covers: the run's identifier, the   *)
(* measured durations and the times at which the document was written.     *)
Unbound ==
  {<<"envelope", "run">>, <<"envelope", "generatedAt">>, <<"proof", "generated">>, <<"proof", "durations">>,
   <<"view", "run">>}

(* What a reader takes from an accepted document: the bundle and what the  *)
(* page shows of it, or the evidence but for the digest of the receipt,    *)
(* which is compared with nothing.                                         *)
taken(kind, d, asked) ==
  CASE kind = "bundle" -> joined(d, [view |-> projectVerifiedEvidence(d)])
    [] kind = "bridge" ->
         LET e == assembleDirectParticipantBridgeEvidence(d, asked) IN
         [evidence |-> [m \in DOMAIN e \ {"receipt"} |-> e[m]]]
    [] kind = "action" -> d

(* The documents of all the cases.                                         *)
Archive == [kind \in Kinds |-> [k \in Authors(kind) |-> exhibit(kind, k)]]

(* What is said is what the document of the case says.                     *)
saysOnly(said, genuine) ==
  \A p \in DOMAIN said :
    /\ DOMAIN said[p] = DOMAIN genuine[p]
    /\ \A m \in DOMAIN said[p] : <<p, m>> \in Unbound \/ said[p][m] = genuine[p][m]

isOfOneCase(kind, d, asked, documents) ==
  \E k \in DOMAIN documents :
    asked \in {k, Nothing} /\ saysOnly(taken(kind, d, asked), taken(kind, documents[k], k))

(* Every document a verifier accepts is, in all that it says, the document *)
(* of one case that really happened, the case that was asked for if one    *)
(* was: however the parts of two genuine documents are combined, whichever *)
(* member is written wrongly, and whichever member of a bundle is left out *)
(* or added.  (assertPublicProtectionEvidence, buildPreparedDirect,        *)
(* loadStateRaw)                                                           *)
AcceptedIsOfOneCase ==
  \A archive \in {Archive} : \A kind \in Kinds : \A k \in Authors(kind) :
    LET mine == archive[kind][k]
        sound(d, asked) == accepts(kind, d, asked) => isOfOneCase(kind, d, asked, archive[kind]) IN
    /\ \A p \in DOMAIN mine : \A member \in DOMAIN mine[p] :
         \A d \in {[mine EXCEPT ![p] = rewritten(mine[p], member, v)] : v \in wrongValues(member, mine[p][member])} :
           sound(d, k)
    /\ kind = "bundle" =>
         \A p \in DOMAIN mine : \A part \in reshaped(mine[p]) : ~accepts(kind, [mine EXCEPT ![p] = part], k)
    /\ \A j \in Authors(kind) : j > k =>
         \A parts \in SUBSET DOMAIN mine : \A d \in {mixed(mine, archive[kind][j], parts)} :
           \A asked \in Asked(kind) : sound(d, asked)

(* An honest export is refused by its own verifier only when the second in *)
(* which the case expires has begun: no order of the release, the binding  *)
(* and the attestation, in one second or in several, makes a document that *)
(* its readers would not accept.  (exportProtectionEvidence reads what it  *)
(* built with assertPublicProtectionEvidence.)                             *)
HonestIsAccepted ==
  \A k \in EvidenceCases :
    life[k].stage = "refused" => life[k].generated >= life[k].created + CaseLifetime
=============================================================================
