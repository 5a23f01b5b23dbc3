----------------------------- MODULE Origination_proofs -----------------------------
(***************************************************************************)
(* Proofs about Origination, for any list of cases, any validity windows,  *)
(* any number of ticks and any number of messages that the participants    *)
(* sign besides: what is published is authorized, and the evidence is of   *)
(* the case that was run.  And about EvidenceChain, for any number of      *)
(* cases: the document of a case that went its way is accepted.            *)
(***************************************************************************)
EXTENDS Origination, EvidenceChain, FiniteSetTheorems, TLAPS

-----------------------------------------------------------------------------
(***************************************************************************)
(* What was published is authorized.                                       *)
(***************************************************************************)

\* A chain of three signed messages for one artifact, by the wallet of the
\* role.  It rests on nothing that a later step takes back.
Chained(m, r) ==
  LET g == m.registration
      i == m.intent
      f == m.final
      a == m.artifact
  IN /\ <<r, g>> \in signed /\ <<r, i>> \in signed /\ <<r, f>> \in signed
     /\ i.registration = g /\ f.registration = g /\ f.intent = i
     /\ a.intent = i /\ f.artifact = a /\ a.role = r /\ a.key = g.key
     /\ a.commitment = i.commitment /\ f.commitment = i.commitment
     /\ i.bundle = r
     /\ i.nonce # g.nonce /\ f.nonce # i.nonce /\ f.nonce # g.nonce
     /\ f.issued >= i.issued /\ i.issued >= g.issued
     /\ f.expires <= i.expires /\ i.expires <= g.expires /\ a.expires = f.expires

\* A reservation is in the slot of its role and under the retained
\* registration; once the bytes were verified the chain holds, and a
\* published one is what the public root has.
TicketOK(r) ==
  ticket[r] # None =>
    /\ DOMAIN ticket[r] = {"meta", "owner", "state"}
    /\ ticket[r].meta.role = r /\ ticket[r].meta.registration = phase0[r]
    /\ ticket[r].state \in {"VERIFIED", "PUBLISHED"} => Chained(ticket[r].meta, r)
    /\ ticket[r].state = "PUBLISHED" => public.artifact[r].meta = ticket[r].meta

PublicOK(r) ==
  public.artifact[r] # None =>
    /\ Chained(public.artifact[r].meta, r)
    /\ public.artifact[r].meta.registration = phase0[r]
    /\ public.artifact[r].at < public.artifact[r].meta.final.expires

Shape ==
  /\ pc \in 1..34 /\ serving \in BOOLEAN
  /\ DOMAIN ticket = Roles
  /\ DOMAIN public = {"keys", "approvals", "final", "bundles", "artifact"}
  /\ DOMAIN public.artifact = Roles

\* Nothing is reserved or published before the coordinator was started,
\* which is when the last registration has long been retained.
Early == pc <= 21 => ~serving /\ \A r \in Roles : ticket[r] = None /\ public.artifact[r] = None

\* Only the two participants' wallets have signed.
Signers == \A x \in signed : x[1] \in Roles

\* At most one message more is signed, by one of them.
MoreSigned == signed' = signed \/ \E q \in Roles : \E m : signed' = signed \cup {<<q, m>>}

AuthInv == Shape /\ Signers /\ Early /\ \A r \in Roles : TicketOK(r) /\ PublicOK(r)

(***************************************************************************)
(* The evidence is of the case.                                            *)
(***************************************************************************)

\* The controller is past a place, which each role has of its own.
past(r, a, b) == pc > IF r = "A" THEN a ELSE b

\* What was pledged is what is intended, prepared, reserved and published.
Followed(r) ==
  /\ past(r, 13, 15) => intent[r].commitment = pledge(r)
  /\ past(r, 14, 16) => ready[r].intent = intent[r]
  /\ past(r, 17, 19) =>
       /\ prepared[r].artifact.commitment = ready[r].intent.commitment
       /\ prepared[r].final.artifact = prepared[r].artifact /\ prepared[r].final.role = r
  /\ past(r, 23, 26) => ticket[r] # None /\ ticket[r].meta.artifact = prepared[r].artifact
  /\ past(r, 25, 28) => ticket[r].state = "PUBLISHED"

Filled == DOMAIN intent = Roles /\ DOMAIN ready = Roles /\ DOMAIN prepared = Roles

\* The result is the expected one, and the scan found nothing private.
ResultOK ==
  /\ pc \in {32, 33} => /\ DOMAIN result = {"kind", "conflict", "kept"}
                        /\ result.conflict = Cases[Len(cases) + 1]
  /\ pc = 33 => result.kept = {"signature"}

Evidence == [conflict : BOOLEAN, kept : {{"signature"}}, claimed : {TRUE},
             publications : {Roles}, prepared : {Roles}]

\* There is a case to run until the last one is recorded.
Counted ==
  /\ cases \in Seq(Evidence)
  /\ \A k \in 1..Len(cases) : cases[k].conflict = Cases[k]
  /\ Len(cases) <= Len(Cases)
  /\ outcome \notin {"failed", "written"} => (pc <= 33 <=> Len(cases) < Len(Cases))
  /\ outcome = "written" => Len(cases) = Len(Cases) /\ manifest

FollowInv == Filled /\ \A r \in Roles : Followed(r)

CaseInv == AuthInv /\ FollowInv /\ ResultOK /\ Counted

\* The places at which the controller learns something of a role.
Critical(r) == IF r = "A" THEN {13, 14, 17, 23, 25} ELSE {15, 16, 19, 26, 28}

\* A reservation is never moved, and a publication never taken back.
TicketStays(r) ==
  ticket[r] # None =>
    /\ ticket'[r] # None /\ ticket'[r].meta = ticket[r].meta
    /\ ticket[r].state = "PUBLISHED" => ticket'[r].state = "PUBLISHED"

-----------------------------------------------------------------------------
\* Where the controller is when it takes a step of the script.
LEMMA Places ==
  ASSUME NEW r \in Roles, NEW s, pc \in 1..34, at(s, r)
  PROVE  /\ pc \in 1..33 /\ Script[pc][1] = s /\ Script[pc][2] = r /\ outcome = "running"
  BY DEF at, Script

\* Conversely, the steps that use the controller's own state are at one
\* place each.
LEMMA PlaceOf ==
  ASSUME NEW p \in 1..33
  PROVE  /\ Script[p][1] \in {"verifyRegistration", "signRegistration", "init"} => p <= 6
         /\ Script[p][1] \in {"foundation", "ceremony", "finalize", "export"} => p \in 7..12
         /\ Script[p][1] = "signIntent" => p = IF Script[p][2] = "A" THEN 13 ELSE 15
         /\ Script[p][1] = "verifyIntent" => p = IF Script[p][2] = "A" THEN 14 ELSE 16
         /\ Script[p][1] = "prepare" => p = IF Script[p][2] = "A" THEN 17 ELSE 19
         /\ Script[p][1] = "verifyFinal" => p \in {18, 20}
         /\ Script[p][1] = "start" => p = 21
         /\ Script[p][1] = "controls" => p = 22
         /\ Script[p][1] = "begin" => p = IF Script[p][2] = "A" THEN 23 ELSE 26
         /\ Script[p][1] = "ciphertext" => p = IF Script[p][2] = "A" THEN 24 ELSE 27
         /\ Script[p][1] = "manifest" => p = IF Script[p][2] = "A" THEN 25 ELSE 28
         /\ Script[p][1] = "stop" => p = 29
         /\ Script[p][1] = "evaluate" => p = 30
         /\ Script[p][1] = "decrypt" => p = 31
         /\ Script[p][1] = "scan" => p = 32
         /\ Script[p][1] = "record" => p = 33
  BY DEF Script

\* The script of a case.
LEMMA ScriptLength == Len(Script) = 33
  BY DEF Script

\* A signature that exists is kept as long as the case is.
LEMMA ChainedStays ==
  ASSUME NEW m, NEW r, Chained(m, r), signed \subseteq signed'
  PROVE  Chained(m, r)'
  BY DEF Chained

\* Removing the case root removes what would have to be authorized.
LEMMA ClearedIsAuthorized ==
  ASSUME clearCase
  PROVE  AuthInv'
<1>1. /\ pc' = 1 /\ serving' = FALSE /\ ticket' = [r \in Roles |-> None]
      /\ public' = [keys |-> FALSE, approvals |-> {}, final |-> FALSE, bundles |-> {},
                    artifact |-> [r \in Roles |-> None]]
  BY DEF clearCase, nothing, NoPublic
<1>2. /\ DOMAIN ticket' = Roles /\ public'.artifact = [r \in Roles |-> None]
      /\ DOMAIN public' = {"keys", "approvals", "final", "bundles", "artifact"}
  BY <1>1
<1>3. DOMAIN public'.artifact = Roles /\ \A r \in Roles : ticket'[r] = None /\ public'.artifact[r] = None
  BY <1>1, <1>2
<1>4. Signers'
  BY DEF clearCase, Signers
<1>5. Shape'
  <2>1. pc' = 1 /\ serving' = FALSE
    BY DEF clearCase
  <2>2. pc' \in 1..34
    BY <2>1
  <2>3. serving' \in BOOLEAN
    BY <2>1, Zenon
  <2> QED
    BY <2>2, <2>3, <1>2, <1>3 DEF Shape
<1>6. Early'
  BY <1>1, <1>3 DEF Early
<1>7. ASSUME NEW r \in Roles
      PROVE  TicketOK(r)' /\ PublicOK(r)'
  BY <1>3, <1>7 DEF TicketOK, PublicOK
<1> QED
  BY <1>5, <1>6, <1>7, <1>4 DEF AuthInv

\* A step that leaves reservations and publications alone, and changes the
\* registrations only before there are any.
LEMMA QuietKeeps ==
  ASSUME AuthInv, MoreSigned, pc' \in 1..34, pc <= pc',
         serving' \in BOOLEAN, pc' <= 21 => ~serving',
         phase0' = phase0 \/ pc <= 21, ticket' = ticket,
         DOMAIN public' = DOMAIN public, public'.artifact = public.artifact
  PROVE  AuthInv'
<1>1. Shape' /\ Early'
  BY DEF AuthInv, Shape, Early
<1>2. signed \subseteq signed'
  BY DEF MoreSigned
<1>3. Signers'
  BY DEF AuthInv, Signers, MoreSigned
<1>4. ASSUME NEW r \in Roles
      PROVE  TicketOK(r)' /\ PublicOK(r)'
  <2>1. CASE pc <= 21
    <3>1. ticket'[r] = None /\ public'.artifact[r] = None
      BY <2>1, <1>4 DEF AuthInv, Early
    <3> QED
      BY <3>1 DEF TicketOK, PublicOK
  <2>2. CASE ~(pc <= 21)
    <3>1. phase0' = phase0
      BY <2>2
    <3>2. TicketOK(r) /\ PublicOK(r)
      BY <1>4 DEF AuthInv
    <3>3. ticket[r] # None /\ ticket[r].state \in {"VERIFIED", "PUBLISHED"} => Chained(ticket[r].meta, r)'
      BY <1>2, <3>2, ChainedStays DEF TicketOK
    <3>4. public.artifact[r] # None => Chained(public.artifact[r].meta, r)'
      BY <1>2, <3>2, ChainedStays DEF PublicOK
    <3>5. TicketOK(r)'
      BY <3>1, <3>2, <3>3 DEF TicketOK
    <3>6. PublicOK(r)'
      BY <3>1, <3>2, <3>4 DEF PublicOK
    <3> QED
      BY <3>5, <3>6
  <2> QED
    BY <2>1, <2>2
<1> QED
  BY <1>1, <1>4, <1>3 DEF AuthInv

\* What the import service has verified after it saw the bytes.
LEMMA VerifiedIsChained ==
  ASSUME NEW m, NEW r, m.role = r, NEW t,
         assertGoArtifactVerificationMatches(m, m.artifact),
         verifyRealAuthorizationChain(m, artifactContextFrom(m.artifact), t)
  PROVE  Chained(m, r)
<1>1. PICK g, i, f, a, c, ctx :
        /\ g = m.registration /\ i = m.intent /\ f = m.final /\ a = m.artifact
        /\ c = artifactContextFrom(a) /\ ctx = bundleContextFrom(r)
  OBVIOUS
<1>2. /\ ctx.role = r /\ ctx.wallet = r /\ ctx.bundle = r
  BY <1>1 DEF bundleContextFrom
<1>3. /\ c.digest = a /\ c.role = a.role /\ c.key = a.key /\ c.intent = a.intent
      /\ c.commitment = a.commitment /\ c.nonce = a.nonce /\ c.expires = a.expires
  BY <1>1 DEF artifactContextFrom
<1>4. c.expires = m.expires
  BY <1>1 DEF assertGoArtifactVerificationMatches, claimedArtifact
<1>5. m.artifact = f.artifact /\ m.expires = f.expires /\ m.role = g.role /\ m.role = i.role
  <2>1. assertMetadataAuthorizationProjection(m)
    BY DEF verifyRealAuthorizationChain
  <2>2. m = buildTransportMetadata(g, i, f) /\ m.role = g.role /\ m.role = i.role
    BY <2>1, <1>1 DEF assertMetadataAuthorizationProjection
  <2>3. buildTransportMetadata(g, i, f).artifact = f.artifact /\ buildTransportMetadata(g, i, f).expires = f.expires
    BY DEF buildTransportMetadata
  <2> QED
    BY <2>2, <2>3
<1>6. /\ verifyParticipantSigningKeyRegistration(g, ctx, t)
      /\ verifyParticipantEncryptionIntent(i, g, ctx, t)
      /\ verifyParticipantFinalEncryptedAdmission(f, i, g, c, ctx, t)
  BY <1>1 DEF verifyRealAuthorizationChain
<1>7. <<r, g>> \in signed
  BY <1>6, <1>2 DEF verifyParticipantSigningKeyRegistration, assertRegistrationContext,
       assertEoaSignature, signTypedData
<1>8. /\ <<r, i>> \in signed /\ i.registration = g /\ i.bundle = r /\ i.key = g.key
      /\ i.nonce # g.nonce /\ i.issued >= g.issued /\ i.expires <= g.expires
  BY <1>6, <1>2 DEF verifyParticipantEncryptionIntent, assertIntentMatchesBundle,
       assertEoaSignature, signTypedData
<1>9. /\ <<r, f>> \in signed /\ f.registration = g /\ f.intent = i /\ f.commitment = i.commitment
      /\ f.artifact = c.digest /\ f.nonce # i.nonce /\ f.nonce # g.nonce
      /\ f.issued >= i.issued /\ f.expires <= i.expires
  BY <1>6, <1>2 DEF verifyParticipantFinalEncryptedAdmission, assertEoaSignature, signTypedData
<1>10. c.role = i.role /\ c.key = i.key /\ c.intent = i /\ c.commitment = i.commitment
  BY <1>6 DEF verifyParticipantFinalEncryptedAdmission, assertArtifactMatchesIntentAndBundle
<1>11. /\ a.intent = i /\ f.artifact = a /\ a.role = r /\ a.key = g.key
       /\ a.commitment = i.commitment /\ a.expires = f.expires
  BY <1>3, <1>4, <1>5, <1>8, <1>9, <1>10
<1> QED
  BY <1>1, <1>7, <1>8, <1>9, <1>11 DEF Chained

\* A reservation that advances short of publication.
LEMMA BecomeKeeps ==
  ASSUME AuthInv, NEW r \in Roles, NEW s, ticket[r] # None, become(r, s),
         s # "PUBLISHED", s = "VERIFIED" => Chained(ticket[r].meta, r),
         UNCHANGED <<pc, signed, phase0, serving, public>>
  PROVE  AuthInv'
<1>1. ticket' = [ticket EXCEPT ![r] = [ticket[r] EXCEPT !.state = s]]
  BY DEF become
<1>2. DOMAIN ticket = Roles /\ DOMAIN ticket[r] = {"meta", "owner", "state"}
  BY DEF AuthInv, Shape, TicketOK
<1>3. /\ DOMAIN ticket' = Roles /\ DOMAIN ticket'[r] = {"meta", "owner", "state"}
      /\ ticket'[r].meta = ticket[r].meta /\ ticket'[r].state = s
      /\ \A q \in Roles : q # r => ticket'[q] = ticket[q]
  BY <1>1, <1>2
<1>4. Shape'
  BY <1>3 DEF AuthInv, Shape
<1>5. pc > 21
  BY DEF AuthInv, Shape, Early
<1>6. Early'
  BY <1>4, <1>5 DEF Early, Shape
<1>7. ASSUME NEW q \in Roles
      PROVE  TicketOK(q)' /\ PublicOK(q)'
  <2>1. TicketOK(q) /\ PublicOK(q)
    BY <1>7 DEF AuthInv
  <2>2. \A m : Chained(m, q) => Chained(m, q)'
    BY ChainedStays
  <2>3. PublicOK(q)'
    BY <2>1, <2>2 DEF PublicOK
  <2>4. CASE q = r
    <3>1. TicketOK(r)
      BY <2>1, <2>4
    <3>2. s = "VERIFIED" => Chained(ticket[r].meta, r)'
      BY <1>3, <2>2, <2>4
    <3> QED
      BY <1>3, <2>3, <2>4, <3>1, <3>2 DEF TicketOK
  <2>5. CASE q # r
    <3>1. ticket'[q] = ticket[q]
      BY <1>3, <1>7, <2>5
    <3>2. ticket[q] # None /\ ticket[q].state \in {"VERIFIED", "PUBLISHED"} => Chained(ticket[q].meta, q)'
      BY <2>1, <2>2, <3>1 DEF TicketOK
    <3> QED
      BY <2>1, <2>3, <3>1, <3>2 DEF TicketOK
  <2> QED
    BY <2>4, <2>5
<1>8. Signers'
  BY DEF AuthInv, Signers
<1> QED
  BY <1>4, <1>6, <1>7, <1>8 DEF AuthInv

\* A new reservation.
LEMMA ReserveKeeps ==
  ASSUME AuthInv, NEW m, NEW o, m.role \in Roles, mayReserve(m, now), reserve(m, o),
         pc <= pc', pc' \in 1..34, UNCHANGED <<signed, phase0, serving, public>>
  PROVE  /\ AuthInv'
         /\ ticket'[m.role].meta = m /\ ticket'[m.role].state = "RESERVED" /\ ticket'[m.role] # None
         /\ \A q \in Roles : q # m.role => ticket'[q] = ticket[q]
<1>1. PICK r \in Roles : r = m.role
  OBVIOUS
<1>2. ticket[r] = None /\ serving /\ m.registration = phase0[r]
  BY <1>1 DEF mayReserve, authenticateRequest
<1>3. ticket' = [ticket EXCEPT ![r] = [meta |-> m, owner |-> o, state |-> "RESERVED"]]
  BY <1>1, <1>2 DEF reserve
<1>4. DOMAIN ticket = Roles
  BY DEF AuthInv, Shape
<1>5. /\ DOMAIN ticket' = Roles /\ DOMAIN ticket'[r] = {"meta", "owner", "state"}
      /\ ticket'[r].meta = m /\ ticket'[r].state = "RESERVED"
      /\ \A q \in Roles : q # r => ticket'[q] = ticket[q]
  BY <1>3, <1>4
<1>6. ticket'[r] # None
  BY <1>5 DEF None
<1>7. Shape'
  BY <1>5 DEF AuthInv, Shape
<1>8. pc > 21
  BY <1>2 DEF AuthInv, Shape, Early
<1>9. Early'
  BY <1>7, <1>8 DEF Early, Shape, AuthInv
<1>10. ASSUME NEW q \in Roles
       PROVE  TicketOK(q)' /\ PublicOK(q)'
  <2>1. TicketOK(q) /\ PublicOK(q)
    BY <1>10 DEF AuthInv
  <2>2. \A n : Chained(n, q) => Chained(n, q)'
    BY ChainedStays
  <2>3. PublicOK(q)'
    BY <2>1, <2>2 DEF PublicOK
  <2>4. CASE q = r
    BY <1>1, <1>2, <1>5, <2>3, <2>4 DEF TicketOK
  <2>5. CASE q # r
    <3>1. ticket'[q] = ticket[q]
      BY <1>5, <1>10, <2>5
    <3>2. ticket[q] # None /\ ticket[q].state \in {"VERIFIED", "PUBLISHED"} => Chained(ticket[q].meta, q)'
      BY <2>1, <2>2, <3>1 DEF TicketOK
    <3> QED
      BY <2>1, <2>3, <3>1, <3>2 DEF TicketOK
  <2> QED
    BY <2>4, <2>5
<1>11. Signers'
  BY DEF AuthInv, Signers
<1> QED
  BY <1>1, <1>5, <1>6, <1>7, <1>9, <1>10, <1>11 DEF AuthInv

\* Publication.
LEMMA PublishKeeps ==
  ASSUME AuthInv, NEW r \in Roles, publishArtifact(r)
  PROVE  AuthInv'
<1>1. PICK m : m = ticket[r].meta
  OBVIOUS
<1>2. ticket[r] # None /\ ticket[r].state = "VERIFIED" /\ UNCHANGED <<pc, signed, phase0, serving>>
  BY DEF publishArtifact, inState, coordinatorOnly, wallets
<1>3. DOMAIN ticket = Roles /\ DOMAIN ticket[r] = {"meta", "owner", "state"} /\ Chained(m, r)
  BY <1>1, <1>2 DEF AuthInv, Shape, TicketOK
<1>4. CASE goVerify(buildGoImportRequest(m), m.artifact, now)
  <2>1. /\ become(r, "PUBLISHED")
        /\ public' = [public EXCEPT !.artifact = [public.artifact EXCEPT ![r] = [meta |-> m, at |-> now]]]
    BY <1>1, <1>4 DEF publishArtifact
  <2>2. ticket' = [ticket EXCEPT ![r] = [ticket[r] EXCEPT !.state = "PUBLISHED"]]
    BY <2>1 DEF become
  <2>3. /\ DOMAIN ticket' = Roles /\ DOMAIN ticket'[r] = {"meta", "owner", "state"}
        /\ ticket'[r].meta = m /\ ticket'[r].state = "PUBLISHED"
        /\ \A q \in Roles : q # r => ticket'[q] = ticket[q]
    BY <1>1, <1>3, <2>2
  <2>4. /\ DOMAIN public = {"keys", "approvals", "final", "bundles", "artifact"}
        /\ DOMAIN public.artifact = Roles
    BY DEF AuthInv, Shape
  <2>5. /\ DOMAIN public' = {"keys", "approvals", "final", "bundles", "artifact"}
        /\ public'.artifact = [public.artifact EXCEPT ![r] = [meta |-> m, at |-> now]]
    BY <2>1, <2>4
  <2>6. /\ DOMAIN public'.artifact = Roles
        /\ public'.artifact[r].meta = m /\ public'.artifact[r].at = now
        /\ \A q \in Roles : q # r => public'.artifact[q] = public.artifact[q]
    BY <2>4, <2>5
  <2>7. Shape'
    BY <1>2, <2>3, <2>5, <2>6 DEF AuthInv, Shape
  <2>8. Early'
    BY <1>2 DEF AuthInv, Shape, Early
  <2>9. now < m.final.expires
    <3>1. m.artifact.expires > now
      BY <1>4 DEF goVerify
    <3>2. m.artifact.expires = m.final.expires
      BY <1>3 DEF Chained
    <3> QED
      BY <3>1, <3>2
  <2>10. ASSUME NEW q \in Roles
         PROVE  TicketOK(q)' /\ PublicOK(q)'
    <3>1. TicketOK(q) /\ PublicOK(q)
      BY <2>10 DEF AuthInv
    <3>2. \A n : Chained(n, q) => Chained(n, q)'
      BY <1>2, ChainedStays
    <3>3. CASE q = r
      <4>1. Chained(m, r)' /\ m.role = r /\ m.registration = phase0'[r]
        BY <1>1, <1>2, <1>3, <3>1, <3>2, <3>3 DEF TicketOK
      <4> QED
        BY <2>3, <2>6, <2>9, <3>3, <4>1 DEF TicketOK, PublicOK
    <3>4. CASE q # r
      <4>1. ticket'[q] = ticket[q] /\ public'.artifact[q] = public.artifact[q]
        BY <2>3, <2>6, <2>10, <3>4
      <4>2. ticket[q] # None /\ ticket[q].state \in {"VERIFIED", "PUBLISHED"} => Chained(ticket[q].meta, q)'
        BY <3>1, <3>2, <4>1 DEF TicketOK
      <4>3. public.artifact[q] # None => Chained(public.artifact[q].meta, q)'
        BY <3>1, <3>2, <4>1 DEF PublicOK
      <4>4. TicketOK(q)'
        BY <1>2, <3>1, <4>1, <4>2 DEF TicketOK
      <4>5. PublicOK(q)'
        BY <1>2, <3>1, <4>1, <4>3 DEF PublicOK
      <4> QED
        BY <4>4, <4>5
    <3> QED
      BY <3>3, <3>4
  <2>11. Signers'
    BY <1>2 DEF AuthInv, Signers
  <2> QED
    BY <2>7, <2>8, <2>10, <2>11 DEF AuthInv
<1>5. CASE ~goVerify(buildGoImportRequest(m), m.artifact, now)
  <2>1. become(r, "FAILED") /\ UNCHANGED public
    BY <1>1, <1>5 DEF publishArtifact
  <2> QED
    BY <1>2, <2>1, BecomeKeeps
<1> QED
  BY <1>4, <1>5

\* The steps of the controller that leave the reservations alone.
LEMMA ControllerKeepsAuth ==
  ASSUME AuthInv, NEW r \in Roles,
         \/ init(r) \/ signRegistration(r) \/ persistVerifiedPhase0(r)
         \/ foundation(r) \/ ceremony(r) \/ finalize(r) \/ bundleExport(r)
         \/ signIntent(r) \/ verifyIntent(r) \/ prepareAndSignFinal(r) \/ verifyFinal(r)
         \/ startCoordinatorProcess(r) \/ liveNegativeControls(r) \/ stop(r) \/ evaluate(r)
         \/ decrypt(r) \/ scan(r)
  PROVE  AuthInv'
<1> USE DEF proceed, goOn, wallets, material
<1>1. pc \in 1..34 /\ serving \in BOOLEAN /\ (pc <= 21 => ~serving)
  BY DEF AuthInv, Shape, Early
<1>2. DOMAIN public = {"keys", "approvals", "final", "bundles", "artifact"}
  BY DEF AuthInv, Shape
<1>3. die => AuthInv'
  BY ClearedIsAuthorized DEF die
<1>4. \A s : at(s, r) => pc \in 1..33 /\ Script[pc][1] = s
  BY <1>1, Places
<1>5. signed' = signed => MoreSigned
  BY DEF MoreSigned
<1>6. CASE init(r)
  BY <1>5, <1>1, <1>4, <1>6, PlaceOf, QuietKeeps DEF init
<1>7. CASE signRegistration(r)
  <2>1. MoreSigned
    BY <1>7 DEF signRegistration, signTypedData, MoreSigned
  <2> QED
    BY <1>5, <1>1, <1>4, <1>7, <2>1, PlaceOf, QuietKeeps DEF signRegistration
<1>8. CASE persistVerifiedPhase0(r)
  BY <1>5, <1>1, <1>3, <1>4, <1>8, PlaceOf, QuietKeeps DEF persistVerifiedPhase0
<1>9. CASE foundation(r)
  BY <1>5, <1>1, <1>2, <1>4, <1>9, PlaceOf, QuietKeeps DEF foundation
<1>10. CASE ceremony(r)
  BY <1>5, <1>1, <1>2, <1>4, <1>10, PlaceOf, QuietKeeps DEF ceremony
<1>11. CASE finalize(r)
  BY <1>5, <1>1, <1>2, <1>3, <1>4, <1>11, PlaceOf, QuietKeeps DEF finalize
<1>12. CASE bundleExport(r)
  BY <1>5, <1>1, <1>2, <1>4, <1>12, PlaceOf, QuietKeeps DEF bundleExport
<1>13. CASE signIntent(r)
  <2>1. CASE die
    BY <1>3, <2>1
  <2>2. CASE ~die
    <3>1. MoreSigned
      BY <1>13, <2>2 DEF signIntent, signTypedData, MoreSigned
    <3>2. at("signIntent", r) /\ proceed /\ UNCHANGED <<phase0, public, ticket, serving>>
      BY <1>13, <2>2 DEF signIntent
    <3> QED
      BY <1>5, <1>1, <1>4, <3>1, <3>2, PlaceOf, QuietKeeps
  <2> QED
    BY <2>1, <2>2
<1>14. CASE verifyIntent(r)
  BY <1>5, <1>1, <1>3, <1>4, <1>14, PlaceOf, QuietKeeps DEF verifyIntent, writePreparation
<1>15. CASE prepareAndSignFinal(r)
  <2>1. CASE die
    BY <1>3, <2>1
  <2>2. CASE ~die
    <3>1. MoreSigned
      BY <1>15, <2>2 DEF prepareAndSignFinal, signTypedData, MoreSigned
    <3>2. at("prepare", r) /\ proceed /\ UNCHANGED <<phase0, public, ticket, serving>>
      BY <1>15, <2>2 DEF prepareAndSignFinal
    <3> QED
      BY <1>5, <1>1, <1>4, <3>1, <3>2, PlaceOf, QuietKeeps
  <2> QED
    BY <2>1, <2>2
<1>16. CASE verifyFinal(r)
  BY <1>5, <1>1, <1>3, <1>4, <1>16, PlaceOf, QuietKeeps DEF verifyFinal
<1>17. CASE startCoordinatorProcess(r)
  <2>1. pc = 21 /\ pc' = 22
    BY <1>4, <1>17, PlaceOf DEF startCoordinatorProcess
  <2>2. serving' \in BOOLEAN
    BY <1>17, Zenon DEF startCoordinatorProcess
  <2> QED
    BY <1>5, <2>1, <2>2, <1>17, QuietKeeps DEF startCoordinatorProcess
<1>18. CASE liveNegativeControls(r)
  BY <1>5, <1>1, <1>3, <1>4, <1>18, PlaceOf, QuietKeeps DEF liveNegativeControls
<1>19. CASE stop(r)
  <2>1. pc = 29 /\ pc' = 30
    BY <1>4, <1>19, PlaceOf DEF stop
  <2>2. serving' \in BOOLEAN
    BY <1>19, Zenon DEF stop
  <2> QED
    BY <1>5, <2>1, <2>2, <1>19, QuietKeeps DEF stop
<1>20. CASE evaluate(r)
  BY <1>5, <1>1, <1>3, <1>4, <1>20, PlaceOf, QuietKeeps DEF evaluate
<1>21. CASE decrypt(r)
  <2>1. CASE die
    BY <1>3, <2>1
  <2>2. CASE ~die
    <3>1. proceed /\ UNCHANGED <<wallets, material, ticket, serving>>
      BY <1>21, <2>2, Zenon DEF decrypt
    <3>2. at("decrypt", r)
      BY <1>21 DEF decrypt
    <3> QED
      BY <1>5, <3>1, <3>2, <1>1, <1>4, PlaceOf, QuietKeeps
  <2> QED
    BY <2>1, <2>2
<1>22. CASE scan(r)
  BY <1>5, <1>1, <1>3, <1>4, <1>22, PlaceOf, QuietKeeps DEF scan
<1> QED
  BY <1>6, <1>7, <1>8, <1>9, <1>10, <1>11, <1>12, <1>13, <1>14, <1>15, <1>16, <1>17, <1>18,
     <1>19, <1>20, <1>21, <1>22

\* The uploads.
LEMMA UploadKeepsAuth ==
  ASSUME AuthInv, NEW r \in Roles,
         \/ uploadCiphertext(r) \/ uploadArtifactManifest(r) \/ verifyArtifact(r) \/ publishArtifact(r)
  PROVE  AuthInv'
<1> USE DEF coordinatorOnly, wallets, inState
<1>1. CASE uploadCiphertext(r)
  <2>1. PICK s : s \in {"CIPHERTEXT_STAGED", "FAILED"} /\ become(r, s)
    BY <1>1 DEF uploadCiphertext
  <2> QED
    BY <1>1, <2>1, BecomeKeeps DEF uploadCiphertext
<1>2. CASE uploadArtifactManifest(r)
  BY <1>2, BecomeKeeps DEF uploadArtifactManifest
<1>3. CASE verifyArtifact(r)
  <2>1. PICK m : m = ticket[r].meta
    OBVIOUS
  <2>2. ticket[r] # None /\ UNCHANGED <<pc, signed, phase0, serving, public>>
    BY <1>3 DEF verifyArtifact
  <2>3. m.role = r
    BY <2>1, <2>2 DEF AuthInv, TicketOK
  <2>4. CASE /\ assertGoArtifactVerificationMatches(m, m.artifact)
             /\ verifyRealAuthorizationChain(m, artifactContextFrom(m.artifact), now)
    <3>1. Chained(m, r)
      BY <2>3, <2>4, VerifiedIsChained
    <3>2. \E s \in {"VERIFIED", "FAILED"} : become(r, s)
      BY <1>3 DEF verifyArtifact
    <3> QED
      BY <2>1, <2>2, <3>1, <3>2, BecomeKeeps
  <2>5. CASE ~ /\ assertGoArtifactVerificationMatches(m, m.artifact)
               /\ verifyRealAuthorizationChain(m, artifactContextFrom(m.artifact), now)
    <3>1. become(r, "FAILED")
      BY <1>3, <2>1, <2>5 DEF verifyArtifact
    <3> QED
      BY <2>2, <3>1, BecomeKeeps
  <2> QED
    BY <2>4, <2>5
<1>4. CASE publishArtifact(r)
  BY <1>4, PublishKeeps
<1> QED
  BY <1>1, <1>2, <1>3, <1>4

\* A reservation is for one of the two roles, whoever asks for it: its
\* registration is signed by the wallet of the role.
LEMMA ReservedRole ==
  ASSUME AuthInv, NEW m, mayReserve(m, now)
  PROVE  m.role \in Roles
<1>1. verifyRealAuthorizationChain(m, claimedArtifact(m), now)
  BY DEF mayReserve, authenticateRequest
<1>2. verifyParticipantSigningKeyRegistration(m.registration, bundleContextFrom(m.role), now)
  BY <1>1 DEF verifyRealAuthorizationChain
<1>3. m.registration.wallet = m.role
  BY <1>2 DEF verifyParticipantSigningKeyRegistration, assertRegistrationContext, bundleContextFrom
<1>4. <<m.role, m.registration>> \in signed
  BY <1>2, <1>3 DEF verifyParticipantSigningKeyRegistration, assertEoaSignature, signTypedData
<1> QED
  BY <1>4 DEF AuthInv, Signers

\* The steps outside the case and around it.
LEMMA NextKeepsAuth ==
  ASSUME AuthInv, [Next]_vars
  PROVE  AuthInv'
<1> USE DEF wallets, material, session
<1>1. pc \in 1..34 /\ serving \in BOOLEAN /\ (pc <= 21 => ~serving)
  BY DEF AuthInv, Shape, Early
<1>2. die => AuthInv'
  BY ClearedIsAuthorized DEF die
<1>3. signed' = signed => MoreSigned
  BY DEF MoreSigned
<1>4. UNCHANGED <<pc, signed, phase0, ticket, serving, public>> => AuthInv'
  BY <1>3, <1>1, QuietKeeps
<1>5. CASE UNCHANGED vars
  BY <1>4, <1>5 DEF vars
<1>6. CASE verifySourceCheckout \/ buildGoBinaries \/ sourceManifest \/ runQualification \/ writeEvidence
  BY <1>4, <1>6 DEF verifySourceCheckout, buildGoBinaries, sourceManifest, runQualification,
       writeEvidence, sessionStep
<1>7. CASE tick \/ edit
  BY <1>4, <1>7 DEF tick, edit
<1>8. CASE childFails
  BY <1>2, <1>8 DEF childFails
<1>9. CASE beginElsewhere
  <2>1. UNCHANGED <<pc, signed, phase0, serving, public>>
    BY <1>9 DEF beginElsewhere, coordinatorOnly
  <2>2. PICK m : mayReserve(m, now) /\ reserve(m, "other")
    BY <1>9, Zenon DEF beginElsewhere
  <2> QED
    BY <1>1, <2>1, <2>2, ReservedRole, ReserveKeeps
<1>10. ASSUME NEW r \in Roles, beginImport(r)
      PROVE  AuthInv'
  <2>1. PICK m : m = transportMetadata(r)
    OBVIOUS
  <2>2. CASE mayReserve(m, now)
    <3>1. /\ at("begin", r) /\ reserve(m, "upload") /\ pc' = pc + 1
          /\ UNCHANGED <<signed, phase0, serving, public>>
      BY <1>10, <2>1, <2>2 DEF beginImport, proceed, goOn
    <3>2. pc \in 1..33
      BY <1>1, <3>1, Places
    <3>3. m.role \in Roles
      BY <2>2, ReservedRole
    <3> QED
      BY <2>2, <3>1, <3>2, <3>3, ReserveKeeps
  <2>3. CASE ~mayReserve(m, now)
    BY <1>2, <1>10, <2>1, <2>3 DEF beginImport
  <2> QED
    BY <2>2, <2>3
<1>11. ASSUME NEW r \in Roles, NEW s, NEW S, awaitUpload(r, s, S)
       PROVE  AuthInv'
  BY <1>3, <1>1, <1>2, <1>11, Places, PlaceOf, QuietKeeps DEF awaitUpload, proceed, goOn
<1>12. ASSUME NEW r \in Roles, record(r)
       PROVE  AuthInv'
  <2>1. CASE clearCase
    BY <2>1, ClearedIsAuthorized
  <2>2. CASE ~clearCase
    <3>1. at("record", r) /\ pc' = pc + 1 /\ UNCHANGED <<signed, phase0, serving, public, ticket>>
      BY <1>12, <2>2 DEF record, goOn
    <3>2. pc = 33
      BY <1>1, <3>1, Places, PlaceOf
    <3> QED
      BY <1>3, <1>1, <3>1, <3>2, QuietKeeps
  <2> QED
    BY <2>1, <2>2
<1>13. ASSUME NEW r \in Roles, wander(r)
       PROVE  AuthInv'
  <2>1. UNCHANGED <<pc, phase0, ticket, serving, public>>
    BY <1>13 DEF wander
  <2>2. signed' = signed \/ \E m : signed' = signed \cup {<<r, m>>}
    BY <1>13 DEF wander, more, signTypedData
  <2>3. MoreSigned
    BY <1>13, <2>2 DEF MoreSigned
  <2> QED
    BY <1>3, <1>1, <2>1, <2>3, QuietKeeps
<1> QED
  BY <1>5, <1>6, <1>7, <1>8, <1>9, <1>10, <1>11, <1>12, <1>13, ControllerKeepsAuth, UploadKeepsAuth
     DEF Next

\* Nothing is published yet.
LEMMA InitIsAuthorized == ASSUME Init PROVE AuthInv
<1>1. /\ pc = 1 /\ signed = {} /\ ticket = [r \in Roles |-> None]
      /\ public = [keys |-> FALSE, approvals |-> {}, final |-> FALSE, bundles |-> {},
                   artifact |-> [r \in Roles |-> None]]
  BY DEF Init, nothing, NoPublic
<1>2. serving = FALSE
  BY DEF Init
<1>3. /\ DOMAIN ticket = Roles /\ public.artifact = [r \in Roles |-> None]
      /\ DOMAIN public = {"keys", "approvals", "final", "bundles", "artifact"}
  BY <1>1
<1>4. DOMAIN public.artifact = Roles /\ \A r \in Roles : ticket[r] = None /\ public.artifact[r] = None
  BY <1>1, <1>3
<1>5. serving \in BOOLEAN
  BY <1>2, Zenon
<1>6. pc \in 1..34
  BY <1>1
<1>7. Shape
  BY <1>3, <1>4, <1>5, <1>6 DEF Shape
<1>8. Signers /\ Early
  BY <1>1, <1>2, <1>4 DEF Signers, Early
<1>9. \A r \in Roles : TicketOK(r) /\ PublicOK(r)
  BY <1>4 DEF TicketOK, PublicOK
<1> QED
  BY <1>7, <1>8, <1>9 DEF AuthInv

\* The inductive invariant of the authorizations.
THEOREM AuthorizationInvariant == Spec => []AuthInv
<1>1. Init => AuthInv
  BY InitIsAuthorized
<1>2. AuthInv /\ [Next]_vars => AuthInv'
  BY NextKeepsAuth
<1> QED
  BY <1>1, <1>2, PTL DEF Spec

\* Whatever the participants sign besides, whoever holds the bearer and
\* however long the requests take: what is published for a role was
\* authorized by its wallet, by an unexpired chain of three messages for
\* exactly that artifact (verifyRealAuthorizationChain).
THEOREM PublishedStaysAuthorized == Spec => []PublishedIsAuthorized
<1>1. AuthInv => PublishedIsAuthorized
  <2> SUFFICES ASSUME AuthInv, NEW r \in Roles, public.artifact[r] # None
               PROVE  LET p == public.artifact[r]
                          g == p.meta.registration
                          i == p.meta.intent
                          f == p.meta.final
                          a == p.meta.artifact
                      IN /\ {<<r, g>>, <<r, i>>, <<r, f>>} \subseteq signed /\ g = phase0[r]
                         /\ i.registration = g /\ f.registration = g /\ f.intent = i
                         /\ a.intent = i /\ f.artifact = a /\ a.role = r /\ a.key = g.key
                         /\ a.commitment = i.commitment /\ f.commitment = i.commitment
                         /\ i.bundle = r /\ Cardinality({g.nonce, i.nonce, f.nonce}) = 3
                         /\ f.issued >= i.issued /\ i.issued >= g.issued
                         /\ f.expires <= i.expires /\ i.expires <= g.expires /\ p.at < f.expires
    BY DEF PublishedIsAuthorized
  <2>1. PICK p, m : p = public.artifact[r] /\ m = p.meta
    OBVIOUS
  <2>2. Chained(m, r) /\ m.registration = phase0[r] /\ p.at < m.final.expires
    BY <2>1 DEF AuthInv, PublicOK
  <2>3. ASSUME NEW x, NEW y, NEW z, x # y, z # y, z # x
        PROVE  Cardinality({x, y, z}) = 3
    <3>1. IsFiniteSet({x}) /\ Cardinality({x}) = 1
      BY FS_Singleton
    <3>2. y \notin {x} /\ z \notin {x} \cup {y}
      BY <2>3
    <3>3. ASSUME NEW S, NEW e, IsFiniteSet(S), e \notin S
          PROVE  IsFiniteSet(S \cup {e}) /\ Cardinality(S \cup {e}) = Cardinality(S) + 1
      BY <3>3, FS_AddElement
    <3>4. IsFiniteSet({x} \cup {y}) /\ Cardinality({x} \cup {y}) = 2
      BY <3>1, <3>2, <3>3
    <3>5. Cardinality(({x} \cup {y}) \cup {z}) = 3
      BY <3>2, <3>3, <3>4
    <3>6. ({x} \cup {y}) \cup {z} = {x, y, z}
      OBVIOUS
    <3> QED
      BY <3>5, <3>6
  <2>4. Cardinality({m.registration.nonce, m.intent.nonce, m.final.nonce}) = 3
    <3>1. PICK x, y, z : x = m.registration.nonce /\ y = m.intent.nonce /\ z = m.final.nonce
      OBVIOUS
    <3>2. x # y /\ z # y /\ z # x
      BY <2>2, <3>1 DEF Chained
    <3> QED
      BY <2>3, <3>1, <3>2
  <2> QED
    BY <2>1, <2>2, <2>4 DEF Chained
<1> QED
  BY <1>1, AuthorizationInvariant, PTL

(***************************************************************************)
(* From the pledge to the evidence.                                        *)
(***************************************************************************)

\* A step that teaches the controller nothing of a role.
LEMMA FollowedStays ==
  ASSUME NEW q \in Roles, Followed(q), pc \in 1..34,
         pc' = pc \/ (pc' = pc + 1 /\ pc \notin Critical(q)),
         intent'[q] = intent[q], ready'[q] = ready[q], prepared'[q] = prepared[q], TicketStays(q)
  PROVE  Followed(q)'
<1>1. /\ past(q, 13, 15)' => past(q, 13, 15)
      /\ past(q, 14, 16)' => past(q, 14, 16)
      /\ past(q, 17, 19)' => past(q, 17, 19)
      /\ past(q, 23, 26)' => past(q, 23, 26)
      /\ past(q, 25, 28)' => past(q, 25, 28)
  BY DEF past, Critical, Roles
<1>2. past(q, 25, 28) => past(q, 23, 26)
  BY DEF past
<1> QED
  BY <1>1, <1>2 DEF Followed, TicketStays

\* A step of the controller at a place that is nobody's.
LEMMA PlainKeeps ==
  ASSUME FollowInv, pc \in 1..34,
         pc' = pc \/ (pc' = pc + 1 /\ pc \notin Critical("A") \cup Critical("B")),
         UNCHANGED <<intent, ready, prepared>>, \A q \in Roles : TicketStays(q)
  PROVE  FollowInv'
<1>1. ASSUME NEW q \in Roles
      PROVE  Followed(q)'
  <2>1. pc' = pc \/ (pc' = pc + 1 /\ pc \notin Critical(q))
    BY <1>1 DEF Roles
  <2> QED
    BY <1>1, <2>1, FollowedStays DEF FollowInv
<1> QED
  BY <1>1 DEF FollowInv, Filled

\* A new case follows nothing yet.
LEMMA ClearedIsFollowed ==
  ASSUME clearCase
  PROVE  FollowInv' /\ ResultOK'
<1>1. /\ pc' = 1 /\ intent' = [r \in Roles |-> None] /\ ready' = [r \in Roles |-> None]
      /\ prepared' = [r \in Roles |-> None]
  BY DEF clearCase, nothing
<1>2. Filled' /\ ResultOK'
  BY <1>1 DEF Filled, ResultOK
<1>3. \A r \in Roles : Followed(r)'
  BY <1>1 DEF Followed, past
<1> QED
  BY <1>2, <1>3 DEF FollowInv

\* The intent is for the pledge.
LEMMA SignIntentFollows ==
  ASSUME CaseInv, NEW r \in Roles, signIntent(r)
  PROVE  FollowInv'
<1>1. CASE die
  BY <1>1, ClearedIsFollowed DEF die
<1>2. CASE ~die
  <2>1. PICK i : i = intentMessage(r, pledge(r), now)
    OBVIOUS
  <2>2. /\ at("signIntent", r) /\ intent' = [intent EXCEPT ![r] = i] /\ pc' = pc + 1
        /\ UNCHANGED <<ready, prepared, ticket>>
    BY <1>2, <2>1 DEF signIntent, proceed, goOn
  <2>3. pc \in 1..34 /\ pc = IF r = "A" THEN 13 ELSE 15
    BY <2>2, Places, PlaceOf DEF CaseInv, AuthInv, Shape
  <2>4. i.commitment = pledge(r)
    BY <2>1 DEF intentMessage
  <2>5. Filled /\ \A q \in Roles : Followed(q)
    BY DEF CaseInv, FollowInv
  <2>6. intent'[r] = i /\ \A q \in Roles : q # r => intent'[q] = intent[q]
    BY <2>2, <2>5 DEF Filled
  <2>7. Filled'
    BY <2>2, <2>5 DEF Filled
  <2>8. Followed(r)'
    BY <2>2, <2>3, <2>4, <2>6 DEF Followed, past
  <2>9. ASSUME NEW q \in Roles, q # r
        PROVE  Followed(q)'
    <3>1. pc \notin Critical(q)
      BY <2>3, <2>9 DEF Critical, Roles
    <3>2. intent'[q] = intent[q] /\ ready'[q] = ready[q] /\ prepared'[q] = prepared[q] /\ TicketStays(q)
      BY <2>2, <2>6, <2>9 DEF TicketStays
    <3> QED
      BY <2>2, <2>3, <2>5, <2>9, <3>1, <3>2, FollowedStays
  <2> QED
    BY <2>7, <2>8, <2>9 DEF FollowInv
<1> QED
  BY <1>1, <1>2

\* What is prepared for is that intent.
LEMMA VerifyIntentFollows ==
  ASSUME CaseInv, NEW r \in Roles, verifyIntent(r)
  PROVE  FollowInv'
<1>1. CASE die
  BY <1>1, ClearedIsFollowed DEF die
<1>2. CASE ~die
  <2>1. /\ at("verifyIntent", r) /\ ready' = [ready EXCEPT ![r] = [intent |-> intent[r], at |-> now]]
        /\ pc' = pc + 1 /\ UNCHANGED <<intent, prepared, ticket>>
    BY <1>2 DEF verifyIntent, writePreparation, proceed, goOn
  <2>2. pc \in 1..34 /\ pc = IF r = "A" THEN 14 ELSE 16
    BY <2>1, Places, PlaceOf DEF CaseInv, AuthInv, Shape
  <2>3. Filled /\ \A q \in Roles : Followed(q)
    BY DEF CaseInv, FollowInv
  <2>4. ready'[r].intent = intent[r] /\ \A q \in Roles : q # r => ready'[q] = ready[q]
    BY <2>1, <2>3 DEF Filled
  <2>5. Filled'
    BY <2>1, <2>3 DEF Filled
  <2>6. Followed(r)'
    <3>1. Followed(r)
      BY <2>3
    <3> QED
      BY <2>1, <2>2, <2>4, <3>1 DEF Followed, past
  <2>7. ASSUME NEW q \in Roles, q # r
        PROVE  Followed(q)'
    <3>1. pc \notin Critical(q)
      BY <2>2, <2>7 DEF Critical, Roles
    <3>2. intent'[q] = intent[q] /\ ready'[q] = ready[q] /\ prepared'[q] = prepared[q] /\ TicketStays(q)
      BY <2>1, <2>4, <2>7 DEF TicketStays
    <3> QED
      BY <2>1, <2>2, <2>3, <2>7, <3>1, <3>2, FollowedStays
  <2> QED
    BY <2>5, <2>6, <2>7 DEF FollowInv
<1> QED
  BY <1>1, <1>2

\* What is encrypted and finally admitted is what was intended.
LEMMA PrepareFollows ==
  ASSUME CaseInv, NEW r \in Roles, prepareAndSignFinal(r)
  PROVE  FollowInv'
<1>1. CASE die
  BY <1>1, ClearedIsFollowed DEF die
<1>2. CASE ~die
  <2>1. PICK a, f : a = participantPrepare(r, ready[r].intent) /\ f = finalMessage(r, ready[r].intent, a, now)
    OBVIOUS
  <2>2. /\ at("prepare", r) /\ prepared' = [prepared EXCEPT ![r] = [artifact |-> a, final |-> f]]
        /\ pc' = pc + 1 /\ UNCHANGED <<intent, ready, ticket>>
    BY <1>2, <2>1 DEF prepareAndSignFinal, proceed, goOn
  <2>3. pc \in 1..34 /\ pc = IF r = "A" THEN 17 ELSE 19
    BY <2>2, Places, PlaceOf DEF CaseInv, AuthInv, Shape
  <2>4. a.commitment = ready[r].intent.commitment /\ f.artifact = a /\ f.role = r
    BY <2>1 DEF participantPrepare, finalMessage
  <2>5. Filled /\ \A q \in Roles : Followed(q)
    BY DEF CaseInv, FollowInv
  <2>6. /\ prepared'[r].artifact = a /\ prepared'[r].final = f
        /\ \A q \in Roles : q # r => prepared'[q] = prepared[q]
    BY <2>2, <2>5 DEF Filled
  <2>7. Filled'
    BY <2>2, <2>5 DEF Filled
  <2>8. Followed(r)'
    <3>1. Followed(r)
      BY <2>5
    <3> QED
      BY <2>2, <2>3, <2>4, <2>6, <3>1 DEF Followed, past
  <2>9. ASSUME NEW q \in Roles, q # r
        PROVE  Followed(q)'
    <3>1. pc \notin Critical(q)
      BY <2>3, <2>9 DEF Critical, Roles
    <3>2. intent'[q] = intent[q] /\ ready'[q] = ready[q] /\ prepared'[q] = prepared[q] /\ TicketStays(q)
      BY <2>2, <2>6, <2>9 DEF TicketStays
    <3> QED
      BY <2>2, <2>3, <2>5, <2>9, <3>1, <3>2, FollowedStays
  <2> QED
    BY <2>7, <2>8, <2>9 DEF FollowInv
<1> QED
  BY <1>1, <1>2

\* The participant's own reservation is of what it prepared; one that was
\* taken by somebody else ends the case.
LEMMA BeginFollows ==
  ASSUME CaseInv, NEW r \in Roles, beginImport(r)
  PROVE  FollowInv'
<1>1. CASE die
  BY <1>1, ClearedIsFollowed DEF die
<1>2. CASE ~die
  <2>1. PICK m : m = transportMetadata(r)
    OBVIOUS
  <2>2. /\ at("begin", r) /\ mayReserve(m, now) /\ reserve(m, "upload")
        /\ pc' = pc + 1 /\ UNCHANGED <<intent, ready, prepared, signed, phase0, serving, public>>
    BY <1>2, <2>1 DEF beginImport, proceed, goOn, wallets, material
  <2>3. pc \in 1..33 /\ pc = IF r = "A" THEN 23 ELSE 26
    BY <2>2, Places, PlaceOf DEF CaseInv, AuthInv, Shape
  <2>4. Filled /\ \A q \in Roles : Followed(q)
    BY DEF CaseInv, FollowInv
  <2>5. m.role = r /\ m.artifact = prepared[r].artifact
    <3>1. m.role = prepared[r].final.role /\ m.artifact = prepared[r].final.artifact
      BY <2>1 DEF transportMetadata, buildTransportMetadata
    <3>2. Followed(r)
      BY <2>4
    <3> QED
      BY <2>3, <3>1, <3>2 DEF Followed, past
  <2>6. /\ ticket'[r] # None /\ ticket'[r].meta = m
        /\ \A q \in Roles : q # r => ticket'[q] = ticket[q]
    BY <2>2, <2>3, <2>5, ReserveKeeps DEF CaseInv
  <2>7. Filled'
    BY <2>2, <2>4 DEF Filled
  <2>8. Followed(r)'
    <3>1. Followed(r)
      BY <2>4
    <3> QED
      BY <2>2, <2>3, <2>5, <2>6, <3>1 DEF Followed, past
  <2>9. ASSUME NEW q \in Roles, q # r
        PROVE  Followed(q)'
    <3>1. pc \notin Critical(q)
      BY <2>3, <2>9 DEF Critical, Roles
    <3>2. intent'[q] = intent[q] /\ ready'[q] = ready[q] /\ prepared'[q] = prepared[q] /\ TicketStays(q)
      BY <2>2, <2>6, <2>9 DEF TicketStays
    <3> QED
      BY <2>2, <2>3, <2>4, <2>9, <3>1, <3>2, FollowedStays
  <2> QED
    BY <2>7, <2>8, <2>9 DEF FollowInv
<1> QED
  BY <1>1, <1>2

\* The controller goes on when the upload has answered.
LEMMA AwaitFollows ==
  ASSUME CaseInv, NEW r \in Roles,
         \/ awaitUpload(r, "ciphertext", {"CIPHERTEXT_STAGED", "STAGED", "VERIFIED", "PUBLISHED"})
         \/ awaitUpload(r, "manifest", {"PUBLISHED"})
  PROVE  FollowInv'
<1>1. CASE die
  BY <1>1, ClearedIsFollowed DEF die
<1>2. CASE ~die
  <2>1. pc' = pc + 1 /\ UNCHANGED <<intent, ready, prepared, ticket>>
    BY <1>2 DEF awaitUpload, proceed, goOn, material
  <2>2. \A q \in Roles : TicketStays(q)
    BY <2>1 DEF TicketStays
  <2>3. pc \in 1..34 /\ FollowInv
    BY DEF CaseInv, AuthInv, Shape
  <2>4. CASE at("ciphertext", r)
    <3>1. pc = IF r = "A" THEN 24 ELSE 27
      BY <2>3, <2>4, Places, PlaceOf
    <3>2. pc \notin Critical("A") \cup Critical("B")
      BY <3>1 DEF Critical
    <3> QED
      BY <2>1, <2>2, <2>3, <3>2, PlainKeeps
  <2>5. CASE ~at("ciphertext", r)
    <3>1. at("manifest", r) /\ ticket[r].state = "PUBLISHED"
      BY <1>2, <2>5 DEF awaitUpload, reached
    <3>2. pc = IF r = "A" THEN 25 ELSE 28
      BY <2>3, <3>1, Places, PlaceOf
    <3>3. Followed(r)'
      <4>1. Followed(r)
        BY <2>3 DEF FollowInv
      <4> QED
        BY <2>1, <3>1, <3>2, <4>1 DEF Followed, past
    <3>4. ASSUME NEW q \in Roles, q # r
          PROVE  Followed(q)'
      <4>1. pc \notin Critical(q)
        BY <3>2, <3>4 DEF Critical, Roles
      <4>2. Followed(q)
        BY <2>3, <3>4 DEF FollowInv
      <4> QED
        BY <2>1, <2>2, <2>3, <3>4, <4>1, <4>2, FollowedStays
    <3> QED
      BY <2>1, <2>3, <3>3, <3>4 DEF FollowInv, Filled
  <2> QED
    BY <2>4, <2>5
<1> QED
  BY <1>1, <1>2

\* The coordinator does not move or take back what it holds.
LEMMA UploadFollows ==
  ASSUME CaseInv, NEW r \in Roles,
         \/ uploadCiphertext(r) \/ uploadArtifactManifest(r) \/ verifyArtifact(r) \/ publishArtifact(r)
  PROVE  FollowInv'
<1>1. /\ ticket[r] # None /\ ticket[r].state # "PUBLISHED"
      /\ UNCHANGED <<pc, intent, ready, prepared>>
  BY DEF uploadCiphertext, uploadArtifactManifest, verifyArtifact, publishArtifact, inState, coordinatorOnly
<1>2. PICK s : become(r, s)
  BY DEF uploadCiphertext, uploadArtifactManifest, verifyArtifact, publishArtifact
<1>3. DOMAIN ticket = Roles /\ DOMAIN ticket[r] = {"meta", "owner", "state"} /\ pc \in 1..34
  BY <1>1 DEF CaseInv, AuthInv, Shape, TicketOK
<1>4. ticket' = [ticket EXCEPT ![r] = [ticket[r] EXCEPT !.state = s]]
  BY <1>2 DEF become
<1>5. /\ DOMAIN ticket'[r] = {"meta", "owner", "state"} /\ ticket'[r].meta = ticket[r].meta
      /\ \A q \in Roles : q # r => ticket'[q] = ticket[q]
  BY <1>3, <1>4
<1>6. ticket'[r] # None
  BY <1>5 DEF None
<1>7. \A q \in Roles : TicketStays(q)
  BY <1>1, <1>5, <1>6 DEF TicketStays
<1> QED
  BY <1>1, <1>3, <1>7, PlainKeeps DEF CaseInv

\* Somebody else can only take a slot that is free.
LEMMA ElsewhereFollows ==
  ASSUME CaseInv, beginElsewhere
  PROVE  FollowInv'
<1>1. UNCHANGED <<pc, signed, phase0, serving, public, intent, ready, prepared>>
  BY DEF beginElsewhere, coordinatorOnly, wallets
<1>2. PICK m : mayReserve(m, now) /\ reserve(m, "other")
  BY Zenon DEF beginElsewhere
<1>3. pc \in 1..34 /\ AuthInv /\ m.role \in Roles
  BY <1>2, ReservedRole DEF CaseInv, AuthInv, Shape
<1>4. ticket[m.role] = None /\ \A q \in Roles : q # m.role => ticket'[q] = ticket[q]
  BY <1>1, <1>2, <1>3, ReserveKeeps DEF mayReserve
<1>5. \A q \in Roles : TicketStays(q)
  BY <1>4 DEF TicketStays
<1> QED
  BY <1>1, <1>3, <1>5, PlainKeeps DEF CaseInv

\* The other steps of the controller.
LEMMA ControllerFollows ==
  ASSUME CaseInv, NEW r \in Roles,
         \/ init(r) \/ signRegistration(r) \/ persistVerifiedPhase0(r)
         \/ foundation(r) \/ ceremony(r) \/ finalize(r) \/ bundleExport(r) \/ verifyFinal(r)
         \/ startCoordinatorProcess(r) \/ liveNegativeControls(r) \/ stop(r) \/ evaluate(r)
         \/ decrypt(r) \/ scan(r)
  PROVE  FollowInv'
<1> USE DEF proceed, goOn, material
<1>1. CASE die
  BY <1>1, ClearedIsFollowed DEF die
<1>2. CASE ~die
  <2>1. /\ pc' = pc + 1 /\ UNCHANGED <<intent, ready, prepared, ticket>>
        /\ \E s \in {"init", "signRegistration", "verifyRegistration", "foundation", "ceremony", "finalize",
                     "export", "verifyFinal", "start", "controls", "stop", "evaluate", "decrypt", "scan"} : at(s, r)
    <3>1. CASE init(r) \/ signRegistration(r) \/ persistVerifiedPhase0(r) \/ foundation(r) \/ ceremony(r)
      BY <1>2, <3>1 DEF init, signRegistration, persistVerifiedPhase0, foundation, ceremony
    <3>2. CASE finalize(r) \/ bundleExport(r) \/ verifyFinal(r) \/ startCoordinatorProcess(r)
      BY <1>2, <3>2 DEF finalize, bundleExport, verifyFinal, startCoordinatorProcess
    <3>3. CASE liveNegativeControls(r) \/ stop(r) \/ evaluate(r)
      BY <1>2, <3>3 DEF liveNegativeControls, stop, evaluate
    <3>4. CASE decrypt(r)
      <4>1. at("decrypt", r) /\ pc' = pc + 1 /\ UNCHANGED <<intent, ready, prepared, ticket>>
        BY <1>2, <3>4, Zenon DEF decrypt
      <4> QED
        BY <4>1
    <3>5. CASE scan(r)
      <4>1. at("scan", r) /\ pc' = pc + 1 /\ UNCHANGED <<intent, ready, prepared, ticket>>
        BY <1>2, <3>5, Zenon DEF scan
      <4> QED
        BY <4>1
    <3> QED
      BY <3>1, <3>2, <3>3, <3>4, <3>5
  <2>2. \A q \in Roles : TicketStays(q)
    BY <2>1 DEF TicketStays
  <2>3. pc \in 1..34 /\ FollowInv
    BY DEF CaseInv, AuthInv, Shape
  <2>4. pc <= 12 \/ pc \in {18, 20, 21, 22, 29, 30, 31, 32}
    BY <2>1, <2>3, Places, PlaceOf
  <2>5. pc \notin Critical("A") \cup Critical("B")
    BY <2>3, <2>4 DEF Critical
  <2> QED
    BY <2>1, <2>2, <2>3, <2>5, PlainKeeps
<1> QED
  BY <1>1, <1>2

\* Nothing is lost between the pledge and the publication.
LEMMA NextFollows ==
  ASSUME CaseInv, [Next]_vars
  PROVE  FollowInv'
<1> USE DEF wallets, material, session
<1>1. UNCHANGED <<pc, intent, ready, prepared, ticket>> => FollowInv'
  <2> SUFFICES ASSUME UNCHANGED <<pc, intent, ready, prepared, ticket>>
               PROVE  FollowInv'
    OBVIOUS
  <2>1. pc \in 1..34 /\ FollowInv
    BY DEF CaseInv, AuthInv, Shape
  <2>2. \A q \in Roles : TicketStays(q)
    BY DEF TicketStays
  <2> QED
    BY <2>1, <2>2, PlainKeeps
<1>2. CASE UNCHANGED vars
  BY <1>1, <1>2 DEF vars
<1>3. CASE verifySourceCheckout \/ buildGoBinaries \/ sourceManifest \/ runQualification \/ writeEvidence
  BY <1>1, <1>3 DEF verifySourceCheckout, buildGoBinaries, sourceManifest, runQualification,
       writeEvidence, sessionStep
<1>4. CASE tick \/ edit
  BY <1>1, <1>4 DEF tick, edit
<1>5. CASE childFails
  BY <1>5, ClearedIsFollowed DEF childFails, die
<1>6. ASSUME NEW r \in Roles, wander(r)
      PROVE  FollowInv'
  BY <1>1, <1>6 DEF wander
<1>7. ASSUME NEW r \in Roles, record(r)
      PROVE  FollowInv'
  <2>1. CASE clearCase
    BY <2>1, ClearedIsFollowed
  <2>2. CASE ~clearCase
    <3>1. at("record", r) /\ pc' = pc + 1 /\ UNCHANGED <<intent, ready, prepared, ticket>>
      BY <1>7, <2>2 DEF record, goOn
    <3>2. pc \in 1..34 /\ FollowInv
      BY DEF CaseInv, AuthInv, Shape
    <3>3. pc = 33
      BY <1>7, <3>1, <3>2, Places, PlaceOf
    <3>4. pc \notin Critical("A") \cup Critical("B")
      BY <3>3 DEF Critical
    <3>5. \A q \in Roles : TicketStays(q)
      BY <3>1 DEF TicketStays
    <3> QED
      BY <3>1, <3>2, <3>4, <3>5, PlainKeeps
  <2> QED
    BY <2>1, <2>2
<1> QED
  BY <1>2, <1>3, <1>4, <1>5, <1>6, <1>7, SignIntentFollows, VerifyIntentFollows, PrepareFollows,
     BeginFollows, AwaitFollows, UploadFollows, ElsewhereFollows, ControllerFollows DEF Next

\* What is recorded of a case is about its pledges.
LEMMA RecordedIsTrue ==
  ASSUME CaseInv, pc = 33, outcome = "running"
  PROVE  caseEvidence \in Evidence /\ caseEvidence.conflict = Cases[Len(cases) + 1]
<1>1. /\ result.conflict = Cases[Len(cases) + 1] /\ result.kept = {"signature"}
  BY DEF CaseInv, ResultOK
<1>2. result.conflict \in BOOLEAN
  <2>1. Len(cases) \in Nat /\ Len(cases) < Len(Cases)
    BY DEF CaseInv, Counted
  <2>2. Len(cases) + 1 \in 1..Len(Cases)
    BY <2>1, CasesAssumption
  <2> QED
    BY <1>1, <2>2, CasesAssumption
<1>3. ASSUME NEW r \in Roles
      PROVE  /\ ticket[r].state = "PUBLISHED"
             /\ public.artifact[r].meta.artifact = prepared[r].artifact
             /\ prepared[r].artifact.commitment = pledge(r)
  <2>1. Followed(r) /\ TicketOK(r)
    BY <1>3 DEF CaseInv, FollowInv, AuthInv
  <2>2. /\ intent[r].commitment = pledge(r) /\ ready[r].intent = intent[r]
        /\ prepared[r].artifact.commitment = ready[r].intent.commitment
        /\ ticket[r] # None /\ ticket[r].meta.artifact = prepared[r].artifact
        /\ ticket[r].state = "PUBLISHED"
    BY <2>1 DEF Followed, past
  <2> QED
    BY <2>1, <2>2 DEF TicketOK
<1>4. pledged
  BY <1>3 DEF pledged
<1>5. {r \in Roles : ticket[r].state = "PUBLISHED"} = Roles
  BY <1>3
<1>6. {r \in Roles : public.artifact[r].meta.artifact = prepared[r].artifact} = Roles
  BY <1>3
<1>7. caseEvidence = [conflict |-> result.conflict, kept |-> {"signature"}, claimed |-> TRUE,
                      publications |-> Roles, prepared |-> Roles]
  BY <1>1, <1>4, <1>5, <1>6 DEF caseEvidence
<1> QED
  BY <1>1, <1>2, <1>7 DEF Evidence

\* A step that leaves the result and the evidence alone.
LEMMA PlainCounts ==
  ASSUME CaseInv, pc \in 1..34, UNCHANGED <<cases, manifest>>,
         \/ pc' = pc /\ result' = result
         \/ pc' = pc + 1 /\ pc < 31
         \/ pc' = pc + 1 /\ pc \in {31, 32} /\ ResultOK',
         outcome' = outcome
  PROVE  ResultOK' /\ Counted'
<1>1. ResultOK /\ Counted
  BY DEF CaseInv
<1>2. ResultOK'
  <2>1. CASE pc' = pc /\ result' = result
    BY <1>1, <2>1 DEF ResultOK
  <2>2. CASE pc' = pc + 1 /\ pc < 31
    <3>1. pc' # 32 /\ pc' # 33
      BY <2>2
    <3> QED
      BY <3>1 DEF ResultOK
  <2> QED
    BY <2>1, <2>2
<1>3. Counted'
  <2>1. pc' <= 33 <=> pc <= 33
    OBVIOUS
  <2> QED
    BY <1>1, <2>1 DEF Counted
<1> QED
  BY <1>2, <1>3

\* A case that ends early adds nothing.
LEMMA DieCounts ==
  ASSUME CaseInv, die
  PROVE  ResultOK' /\ Counted'
<1>1. ResultOK'
  BY ClearedIsFollowed DEF die
<1>2. outcome' = "failed" /\ cases' = cases
  BY DEF die
<1>3. Counted'
  BY <1>2 DEF CaseInv, Counted
<1> QED
  BY <1>1, <1>3

\* A step of the controller before the result.
LEMMA ControllerCounts ==
  ASSUME CaseInv, NEW r \in Roles,
         \/ init(r) \/ signRegistration(r) \/ persistVerifiedPhase0(r)
         \/ foundation(r) \/ ceremony(r) \/ finalize(r) \/ bundleExport(r)
         \/ signIntent(r) \/ verifyIntent(r) \/ prepareAndSignFinal(r) \/ verifyFinal(r)
         \/ startCoordinatorProcess(r) \/ liveNegativeControls(r) \/ beginImport(r)
         \/ awaitUpload(r, "ciphertext", {"CIPHERTEXT_STAGED", "STAGED", "VERIFIED", "PUBLISHED"})
         \/ awaitUpload(r, "manifest", {"PUBLISHED"})
         \/ stop(r) \/ evaluate(r)
  PROVE  ResultOK' /\ Counted'
<1>1. CASE die
  BY <1>1, DieCounts
<1>2. CASE ~die
  <2> DEFINE Before == {"init", "signRegistration", "verifyRegistration", "foundation", "ceremony", "finalize",
                        "export", "signIntent", "verifyIntent", "prepare", "verifyFinal", "start", "controls",
                        "begin", "ciphertext", "manifest", "stop", "evaluate"}
  <2>1. proceed /\ \E s \in Before : at(s, r)
    <3>1. CASE init(r) \/ signRegistration(r) \/ persistVerifiedPhase0(r) \/ foundation(r) \/ ceremony(r)
      BY <1>2, <3>1 DEF init, signRegistration, persistVerifiedPhase0, foundation, ceremony
    <3>2. CASE finalize(r) \/ bundleExport(r) \/ verifyFinal(r) \/ startCoordinatorProcess(r)
      BY <1>2, <3>2 DEF finalize, bundleExport, verifyFinal, startCoordinatorProcess
    <3>3. CASE liveNegativeControls(r) \/ stop(r) \/ evaluate(r) \/ beginImport(r)
      BY <1>2, <3>3 DEF liveNegativeControls, stop, evaluate, beginImport
    <3>4. CASE signIntent(r) \/ verifyIntent(r) \/ prepareAndSignFinal(r)
      BY <1>2, <3>4 DEF signIntent, verifyIntent, prepareAndSignFinal, writePreparation
    <3>5. CASE \/ awaitUpload(r, "ciphertext", {"CIPHERTEXT_STAGED", "STAGED", "VERIFIED", "PUBLISHED"})
               \/ awaitUpload(r, "manifest", {"PUBLISHED"})
      BY <1>2, <3>5 DEF awaitUpload
    <3> QED
      BY <3>1, <3>2, <3>3, <3>4, <3>5
  <2>2. pc \in 1..34
    BY DEF CaseInv, AuthInv, Shape
  <2>3. pc < 31
    BY <2>1, <2>2, Places, PlaceOf
  <2>4. pc' = pc + 1 /\ UNCHANGED <<cases, manifest>> /\ outcome' = outcome
    BY <2>1 DEF proceed, goOn, session
  <2> QED
    BY <2>2, <2>3, <2>4, PlainCounts
<1> QED
  BY <1>1, <1>2

\* The result is compared with the expected one before it is kept, and
\* the scan passes on nothing private.
LEMMA ResultCounts ==
  ASSUME CaseInv, NEW r \in Roles, decrypt(r) \/ scan(r)
  PROVE  ResultOK' /\ Counted'
<1>1. CASE die
  BY <1>1, DieCounts
<1>2. pc \in 1..34
  BY DEF CaseInv, AuthInv, Shape
<1>3. CASE ~die /\ decrypt(r)
  <2>1. PICK c \in BOOLEAN :
          /\ c = Cases[Len(cases) + 1] /\ proceed
          /\ result' = [kind |-> "result", conflict |-> c, kept |-> {}]
    BY <1>3, Zenon DEF decrypt
  <2>2. at("decrypt", r)
    BY <1>3 DEF decrypt
  <2>3. pc = 31
    BY <1>2, <2>2, Places, PlaceOf
  <2>4. pc' = pc + 1 /\ UNCHANGED <<cases, manifest>> /\ outcome' = outcome
    BY <2>1 DEF proceed, goOn, session
  <2>5. DOMAIN result' = {"kind", "conflict", "kept"} /\ result'.conflict = Cases[Len(cases) + 1]
    BY <2>1
  <2>6. ResultOK'
    BY <2>3, <2>4, <2>5 DEF ResultOK
  <2> QED
    BY <1>2, <2>3, <2>4, <2>6, PlainCounts
<1>4. CASE ~die /\ scan(r)
  <2>1. PICK found \in {{"signature"}} \cup {{"signature", x} : x \in retainedForbiddenMaterial} :
          /\ scanCoordinatorState(found) /\ proceed /\ result' = [result EXCEPT !.kept = found]
    BY <1>4, Zenon DEF scan
  <2>2. at("scan", r)
    BY <1>4 DEF scan
  <2>3. pc = 32
    BY <1>2, <2>2, Places, PlaceOf
  <2>4. pc' = pc + 1 /\ UNCHANGED <<cases, manifest>> /\ outcome' = outcome
    BY <2>1 DEF proceed, goOn, session
  <2>5. found = {"signature"}
    BY <2>1 DEF scanCoordinatorState
  <2>6. DOMAIN result = {"kind", "conflict", "kept"} /\ result.conflict = Cases[Len(cases) + 1]
    BY <2>3 DEF CaseInv, ResultOK
  <2>7. /\ DOMAIN result' = {"kind", "conflict", "kept"} /\ result'.kept = {"signature"}
        /\ result'.conflict = Cases[Len(cases) + 1]
    BY <2>1, <2>5, <2>6
  <2>8. ResultOK'
    BY <2>4, <2>7 DEF ResultOK
  <2> QED
    BY <1>2, <2>3, <2>4, <2>8, PlainCounts
<1> QED
  BY <1>1, <1>3, <1>4

\* The evidence of a case is added once, and there is one case less to go.
LEMMA RecordCounts ==
  ASSUME CaseInv, NEW r \in Roles, record(r)
  PROVE  ResultOK' /\ Counted'
<1>1. pc \in 1..34 /\ at("record", r)
  BY DEF CaseInv, AuthInv, Shape, record
<1>2. pc = 33 /\ outcome = "running"
  BY <1>1, Places, PlaceOf
<1>3. PICK e, E : e = caseEvidence /\ E = Evidence
  OBVIOUS
<1>4. e \in E /\ e.conflict = Cases[Len(cases) + 1]
  BY <1>2, <1>3, RecordedIsTrue
<1>5. cases' = Append(cases, e) /\ outcome' = outcome
  BY <1>3 DEF record
<1>6. /\ cases \in Seq(E) /\ Len(cases) < Len(Cases) /\ Len(Cases) \in Nat
      /\ \A k \in 1..Len(cases) : cases[k].conflict = Cases[k]
  BY <1>2, <1>3, CasesAssumption DEF CaseInv, Counted
<1>7. /\ cases' \in Seq(E) /\ Len(cases') = Len(cases) + 1
      /\ \A k \in 1..Len(cases) : cases'[k] = cases[k]
      /\ cases'[Len(cases) + 1] = e
  BY <1>4, <1>5, <1>6
<1>8. \A k \in 1..Len(cases') : cases'[k].conflict = Cases[k]
  <2> SUFFICES ASSUME NEW k \in 1..Len(cases')
               PROVE  cases'[k].conflict = Cases[k]
    OBVIOUS
  <2>1. Len(cases) \in Nat
    BY <1>6
  <2>2. k \in 1..Len(cases) \/ k = Len(cases) + 1
    BY <1>7, <2>1
  <2> QED
    BY <1>4, <1>6, <1>7, <2>2
<1>9. CASE Len(cases) + 1 < Len(Cases)
  <2>1. clearCase
    BY <1>9 DEF record
  <2>2. ResultOK' /\ pc' = 1
    BY <2>1, ClearedIsFollowed DEF clearCase
  <2>3. Counted'
    BY <1>2, <1>3, <1>5, <1>6, <1>7, <1>8, <1>9, <2>2 DEF Counted
  <2> QED
    BY <2>2, <2>3
<1>10. CASE ~(Len(cases) + 1 < Len(Cases))
  <2>1. pc' = 34
    BY <1>2, <1>10 DEF record, goOn
  <2>2. ResultOK'
    BY <2>1 DEF ResultOK
  <2>3. Counted'
    BY <1>2, <1>3, <1>5, <1>6, <1>7, <1>8, <1>10, <2>1 DEF Counted
  <2> QED
    BY <2>2, <2>3
<1> QED
  BY <1>9, <1>10

\* The qualification around the cases: it is written after the last one,
\* from the sources it was started from.
LEMMA SessionCounts ==
  ASSUME CaseInv,
         \/ verifySourceCheckout \/ buildGoBinaries \/ sourceManifest \/ runQualification
         \/ writeEvidence \/ edit \/ tick
  PROVE  ResultOK' /\ Counted'
<1> USE DEF session
<1>1. pc \in 1..34 /\ ResultOK /\ Counted
  BY DEF CaseInv, AuthInv, Shape
<1>2. pc' = pc /\ result' = result /\ cases' = cases
  BY DEF verifySourceCheckout, buildGoBinaries, sourceManifest, runQualification, writeEvidence,
       edit, tick, sessionStep
<1>3. ResultOK'
  BY <1>1, <1>2 DEF ResultOK
<1>4. CASE verifySourceCheckout \/ buildGoBinaries \/ sourceManifest \/ runQualification
  <2>1. outcome \notin {"failed", "written"} /\ outcome' # "written"
    BY <1>4 DEF verifySourceCheckout, buildGoBinaries, sourceManifest, runQualification, sessionStep
  <2> QED
    BY <1>1, <1>2, <1>3, <2>1 DEF Counted
<1>5. CASE edit \/ tick
  <2>1. UNCHANGED <<outcome, manifest>>
    BY <1>5 DEF edit, tick
  <2> QED
    BY <1>1, <1>2, <1>3, <2>1 DEF Counted
<1>6. CASE writeEvidence
  <2>1. /\ pc > 33 /\ outcome = "running" /\ manifest' = manifest
        /\ outcome' = IF unchangedSince THEN "written" ELSE "failed"
    BY <1>6, ScriptLength DEF writeEvidence, sessionStep
  <2>2. Len(cases) = Len(Cases)
    <3>1. Len(cases) \in Nat /\ Len(Cases) \in Nat
      BY <1>1, CasesAssumption DEF Counted
    <3>2. Len(cases) <= Len(Cases) /\ ~(Len(cases) < Len(Cases))
      BY <1>1, <2>1 DEF Counted
    <3> QED
      BY <3>1, <3>2
  <2>3. unchangedSince => manifest
    BY DEF unchangedSince
  <2>4. /\ outcome' \in {"written", "failed"}
        /\ outcome' = "written" => manifest'
    BY <2>1, <2>3
  <2> QED
    BY <1>1, <1>2, <1>3, <2>2, <2>4 DEF Counted
<1> QED
  BY <1>4, <1>5, <1>6

\* No step records a result other than the expected one, or a case twice.
LEMMA NextCounts ==
  ASSUME CaseInv, [Next]_vars
  PROVE  ResultOK' /\ Counted'
<1> USE DEF wallets, material, session
<1>1. UNCHANGED <<pc, result, cases, manifest, outcome>> => ResultOK' /\ Counted'
  BY PlainCounts DEF CaseInv, AuthInv, Shape
<1>2. CASE UNCHANGED vars
  BY <1>1, <1>2 DEF vars
<1>3. CASE childFails
  BY <1>3, DieCounts DEF childFails
<1>4. CASE beginElsewhere
  BY <1>1, <1>4 DEF beginElsewhere, coordinatorOnly
<1>5. ASSUME NEW r \in Roles,
             \/ uploadCiphertext(r) \/ uploadArtifactManifest(r) \/ verifyArtifact(r) \/ publishArtifact(r)
      PROVE  ResultOK' /\ Counted'
  BY <1>1, <1>5 DEF uploadCiphertext, uploadArtifactManifest, verifyArtifact, publishArtifact, coordinatorOnly
<1>6. ASSUME NEW r \in Roles, wander(r)
      PROVE  ResultOK' /\ Counted'
  BY <1>1, <1>6 DEF wander
<1> QED
  BY <1>2, <1>3, <1>4, <1>5, <1>6, ControllerCounts, ResultCounts, RecordCounts, SessionCounts DEF Next

\* The inductive invariant of the cases.
THEOREM CaseInvariant == Spec => []CaseInv
<1>1. Init => CaseInv
  <2> SUFFICES ASSUME Init PROVE CaseInv
    OBVIOUS
  <2>1. AuthInv
    BY InitIsAuthorized
  <2>2. /\ pc = 1 /\ intent = [r \in Roles |-> None] /\ ready = [r \in Roles |-> None]
        /\ prepared = [r \in Roles |-> None] /\ cases = << >> /\ outcome = "checkout"
    BY DEF Init, nothing
  <2>3. FollowInv
    BY <2>2 DEF FollowInv, Filled, Followed, past
  <2>4. ResultOK
    BY <2>2 DEF ResultOK
  <2>5. Len(Cases) \in Nat /\ 0 < Len(Cases)
    BY CasesAssumption
  <2>6. cases \in Seq(Evidence) /\ Len(cases) = 0
    BY <2>2
  <2>7. Counted
    BY <2>2, <2>5, <2>6 DEF Counted
  <2> QED
    BY <2>1, <2>3, <2>4, <2>7 DEF CaseInv
<1>2. CaseInv /\ [Next]_vars => CaseInv'
  BY NextKeepsAuth, NextFollows, NextCounts DEF CaseInv
<1> QED
  BY <1>1, <1>2, PTL DEF Spec

\* Evidence is about the case that was run: what was published, compared
\* and decrypted is what each participant prepared from its pledge,
\* although others may take a role first, nothing private was kept, and
\* it is written after every case and from the expected sources
\* (run-participant-originated-qualification.mjs).
THEOREM EvidenceStaysOfTheCase == Spec => []EvidenceIsOfTheCase
<1>1. CaseInv => EvidenceIsOfTheCase
  <2> SUFFICES ASSUME CaseInv PROVE EvidenceIsOfTheCase
    OBVIOUS
  <2>1. Counted
    BY DEF CaseInv
  <2>2. ASSUME NEW k \in 1..Len(cases)
        PROVE  /\ cases[k].claimed /\ cases[k].conflict = Cases[k]
               /\ cases[k].kept \cap retainedForbiddenMaterial = {}
               /\ cases[k].publications = Roles /\ cases[k].prepared = Roles
    <3>1. PICK E : E = Evidence
      OBVIOUS
    <3>2. cases \in Seq(E)
      BY <2>1, <3>1 DEF Counted
    <3>3. cases[k] \in Evidence
      BY <2>2, <3>1, <3>2
    <3>4. /\ cases[k].claimed = TRUE /\ cases[k].kept = {"signature"}
          /\ cases[k].publications = Roles /\ cases[k].prepared = Roles
      BY <3>3 DEF Evidence
    <3>5. {"signature"} \cap retainedForbiddenMaterial = {}
      BY DEF retainedForbiddenMaterial
    <3> QED
      BY <2>1, <2>2, <3>4, <3>5 DEF Counted
  <2> QED
    BY <2>1, <2>2 DEF EvidenceIsOfTheCase, Counted
<1> QED
  BY <1>1, CaseInvariant, PTL

-----------------------------------------------------------------------------
(***************************************************************************)
(* An honest document is accepted (EvidenceChain).                         *)
(***************************************************************************)

\* A record whose members are what it is.
IsRecord(r) == r = [m \in DOMAIN r |-> r[m]]

\* The members that say what the others amount to.
Seals == {"digest", "signature", "hash"}

\* What is left of a sealed record without its seals is its body.
LEMMA BodyOfJoined ==
  ASSUME NEW a, NEW b, IsRecord(b), DOMAIN a \subseteq Seals, DOMAIN b \cap Seals = {}, NEW c,
         c = joined(a, b) \/ c = joined(b, a)
  PROVE  bodyOf(c) = b
<1>1. DOMAIN c = DOMAIN a \cup DOMAIN b /\ \A m \in DOMAIN b : c[m] = b[m]
  BY DEF joined
<1>2. DOMAIN c \ Seals = DOMAIN b
  BY <1>1
<1>3. bodyOf(c) = [m \in DOMAIN b |-> c[m]]
  BY <1>2 DEF bodyOf, Seals
<1> QED
  BY <1>1, <1>3 DEF IsRecord

\* What a record with its digest was before it had one.
LEMMA DigestOfJoined ==
  ASSUME NEW b, IsRecord(b), "digest" \notin DOMAIN b, NEW c, c = joined([digest |-> b], b)
  PROVE  digestOf(c) = b
<1>1. DOMAIN c = {"digest"} \cup DOMAIN b /\ \A m \in DOMAIN b : c[m] = b[m]
  BY DEF joined
<1>2. DOMAIN c \ {"digest"} = DOMAIN b
  BY <1>1
<1>3. digestOf(c) = [m \in DOMAIN b |-> c[m]]
  BY <1>2 DEF digestOf
<1> QED
  BY <1>1, <1>3 DEF IsRecord

\* A record that has no seal yet.
Unsealed(b) == IsRecord(b) /\ DOMAIN b \cap Seals = {}

\* A body with the digest of it and a signature of it.
IsAgreed(c, b, key) ==
  /\ DOMAIN c = DOMAIN b \cup {"digest", "signature"} /\ c.digest = b /\ \A m \in DOMAIN b : c[m] = b[m]
  /\ bodyOf(c) = b /\ signatureHolds(c, key)

\* A body that both participants agreed to.
LEMMA AgreedBody ==
  ASSUME NEW b, Unsealed(b), NEW key
  PROVE  IsAgreed(agreed(b, key), b, key)
<1> DEFINE c == agreed(b, key)
<1> USE DEF Unsealed
<1>1. PICK a : a = [digest |-> b, signature |-> <<key, b>>]
  OBVIOUS
<1>2. c = joined(a, b)
  BY <1>1 DEF agreed
<1>3. DOMAIN a = {"digest", "signature"} /\ a.digest = b /\ a.signature = <<key, b>>
  BY <1>1
<1>4. DOMAIN a \subseteq Seals /\ DOMAIN a \cap DOMAIN b = {}
  BY <1>3 DEF Seals
<1>5. DOMAIN c = DOMAIN a \cup DOMAIN b /\ (\A m \in DOMAIN a : c[m] = a[m]) /\ (\A m \in DOMAIN b : c[m] = b[m])
  BY <1>2, <1>4 DEF joined, IsRecord
<1>6. bodyOf(c) = b
  BY <1>2, <1>4, BodyOfJoined
<1>7. c.digest = b /\ c.signature = <<key, b>>
  BY <1>3, <1>5
<1> QED
  BY <1>3, <1>5, <1>6, <1>7 DEF signatureHolds, IsAgreed

\* A body that was signed, as it is shown with its digest.
LEMMA SignedBody ==
  ASSUME NEW b, IsRecord(b), DOMAIN b \cap Seals = {}, NEW key, NEW g, g = Signed(b, key),
         NEW c, c = joined([digest |-> g], g)
  PROVE  /\ DOMAIN c = DOMAIN b \cup {"digest", "signature"} /\ c.digest = g /\ \A m \in DOMAIN b : c[m] = b[m]
         /\ digestOf(c) = g /\ signatureHolds(g, key) /\ IsRecord(g)
<1>1. PICK a : a = [signature |-> <<key, b>>]
  OBVIOUS
<1>2. g = joined(b, a)
  BY <1>1 DEF Signed
<1>3. DOMAIN a = {"signature"} /\ a.signature = <<key, b>>
  BY <1>1
<1>4. DOMAIN a \subseteq Seals /\ DOMAIN b \cap DOMAIN a = {}
  BY <1>3 DEF Seals
<1>5. /\ DOMAIN g = DOMAIN b \cup DOMAIN a /\ (\A m \in DOMAIN a : g[m] = a[m]) /\ (\A m \in DOMAIN b : g[m] = b[m])
      /\ IsRecord(g)
  BY <1>2, <1>4 DEF joined, IsRecord
<1>6. bodyOf(g) = b
  BY <1>2, <1>4, BodyOfJoined
<1>7. g.signature = <<key, b>>
  BY <1>3, <1>5
<1>8. "digest" \notin DOMAIN g
  BY <1>3, <1>5 DEF Seals
<1>9. digestOf(c) = g
  BY <1>5, <1>8, DigestOfJoined
<1>10. PICK s : s = [digest |-> g]
  OBVIOUS
<1>11. DOMAIN s = {"digest"} /\ s.digest = g /\ c = joined(s, g) /\ DOMAIN s \cap DOMAIN g = {}
  BY <1>8, <1>10
<1>12. DOMAIN c = DOMAIN s \cup DOMAIN g /\ (\A m \in DOMAIN s : c[m] = s[m]) /\ (\A m \in DOMAIN g : c[m] = g[m])
  BY <1>11 DEF joined
<1>13. DOMAIN c = DOMAIN b \cup {"digest", "signature"}
  BY <1>3, <1>5, <1>11, <1>12
<1>14. c.digest = g /\ \A m \in DOMAIN b : c[m] = b[m]
  BY <1>5, <1>11, <1>12
<1> QED
  BY <1>5, <1>6, <1>7, <1>9, <1>13, <1>14 DEF signatureHolds

\* Null is no record: it has no member.
NullIsNoRecord == "case" \notin DOMAIN Nothing

\* The times of a case are in the order in which it went its way.
Timely(k, time) ==
  /\ life[k].conflict \in BOOLEAN
  /\ life[k].created \in Nat /\ life[k].released \in Nat /\ life[k].bound \in Nat /\ life[k].signed \in Nat /\ time \in Nat
  /\ life[k].created <= life[k].released /\ life[k].released <= life[k].bound /\ life[k].bound <= life[k].signed
  /\ life[k].signed <= time

\* An honest document that is written before the second in which its case
\* expires is accepted.
LEMMA HonestDocument ==
  ASSUME NullIsNoRecord, NEW k \in EvidenceCases, NEW time, NEW late \in BOOLEAN, Timely(k, time),
         time < life[k].created + CaseLifetime, NEW d, d = buildProtectionEvidence(k, time, late)
  PROVE  assertPublicProtectionEvidence(d, k)
<1>1. PICK conflict, created, released, bound, attested, ps, au, art, eva, cip, keys, man :
        /\ conflict = life[k].conflict /\ created = life[k].created /\ released = life[k].released
        /\ bound = life[k].bound /\ attested = life[k].signed
        /\ ps = <<"participants", k>> /\ au = <<"authority", k>> /\ art = <<"artifacts", k>> /\ eva = <<"evaluated", k>>
        /\ cip = <<"ciphertext", k>> /\ keys = <<"keys", k>> /\ man = <<"manifest", k>>
  OBVIOUS
<1>2. PICK pb, cb, gr, rr, h, t, e : /\ pb = protectionBinding(k) /\ cb = caseBinding(k) /\ gr = governedResult(k) /\ rr = recourseRecord(k)
                               /\ h = canonicalProductChronology(k) /\ t = recourseAttestation(k) /\ e = governedFheEvidence(k, time)
  OBVIOUS
<1>3. PICK date, holders, id, ex, dl :
        /\ date = recordDateOf(created) /\ holders = holderAllocationDigest(date)
        /\ id = protectionFheCaseId(conflict, k, holders)
        /\ ex = created + CaseLifetime /\ dl = bound + CureLength
  OBVIOUS
<1>4. /\ DOMAIN pb = {"terms", "scenario", "recordDate", "holders", "nonce", "case"} /\ IsRecord(pb)
      /\ pb.terms = canonicalTerms /\ pb.scenario = conflict /\ pb.recordDate = date /\ pb.holders = holders
      /\ pb.nonce = k /\ pb.case = id
  <2>1. pb = [terms |-> canonicalTerms, scenario |-> conflict, recordDate |-> date, holders |-> holders, nonce |-> k, case |-> id]
    BY <1>1, <1>2, <1>3 DEF protectionBinding
  <2> QED
    BY <2>1 DEF IsRecord
<1>5. caseIdOf(k) = id
  BY <1>2, <1>4 DEF caseIdOf
<1>6. /\ DOMAIN cb = {"terms", "case", "nonce", "keys", "participants", "authority", "created", "expires"} /\ IsRecord(cb)
      /\ cb.terms = canonicalTerms /\ cb.case = id /\ cb.nonce = k /\ cb.keys = keys /\ cb.participants = ps
      /\ cb.authority = au /\ cb.created = created /\ cb.expires = ex
  <2>1. cb = [terms |-> canonicalTerms, case |-> id, nonce |-> k, keys |-> keys, participants |-> ps, authority |-> au,
              created |-> created, expires |-> ex]
    BY <1>1, <1>2, <1>3, <1>5 DEF caseBinding
  <2> QED
    BY <2>1 DEF IsRecord
<1>7. PICK bg : /\ gr = Signed(bg, au)
                /\ bg = [terms |-> canonicalTerms, case |-> id, binding |-> cb, artifacts |-> art, evaluated |-> eva,
                         ciphertext |-> cip, conflict |-> conflict, authority |-> au, released |-> released,
                         provenance |-> "decryptor"]
  BY <1>1, <1>2, <1>5 DEF governedResult
<1>8. /\ DOMAIN bg = {"terms", "case", "binding", "artifacts", "evaluated", "ciphertext", "conflict", "authority", "released",
                      "provenance"}
      /\ IsRecord(bg)
      /\ bg.terms = canonicalTerms /\ bg.case = id /\ bg.binding = cb /\ bg.artifacts = art /\ bg.evaluated = eva
      /\ bg.ciphertext = cip /\ bg.conflict = conflict /\ bg.authority = au /\ bg.released = released
      /\ bg.provenance = "decryptor"
  BY <1>7 DEF IsRecord
<1>9. /\ rr.terms = canonicalTerms /\ rr.case = id /\ rr.binding = cb /\ rr.result = gr /\ rr.authority = au
      /\ rr.recordDate = date /\ rr.holders = holders /\ rr.bound = bound /\ rr.deadline = dl /\ rr # Nothing
  <2>1. rr = [terms |-> canonicalTerms, case |-> id, binding |-> cb, result |-> gr, authority |-> au, recordDate |-> date,
              holders |-> holders, bound |-> bound, deadline |-> dl]
    BY <1>1, <1>2, <1>3, <1>4, <1>5 DEF recourseRecord
  <2>2. "case" \in DOMAIN rr
    BY <2>1
  <2> QED
    BY <2>1, <2>2 DEF NullIsNoRecord
<1>10. PICK clock, sim, due, incident, rec, tail, events :
         /\ clock = clockOf(conflict) /\ sim = (IF conflict THEN dl + 1 ELSE Nothing) /\ due = (IF conflict THEN dl ELSE Nothing)
         /\ incident = (IF conflict THEN "CONFLICT_CONFIRMED" ELSE "CLEARED")
         /\ rec = (IF conflict THEN "SIMULATED_AVAILABLE" ELSE "REFUSED")
         /\ tail = (IF conflict THEN <<<<"BOUND", bound, rr>>, <<"SIMULATED_COMPLETED", dl + 1, rr>>>>
                    ELSE <<<<"REFUSED", released, gr>>>>)
         /\ events = <<<<"SNAPSHOT", date, pb>>, <<"CREATED", created, cb>>, <<"ARTIFACTS", Nothing, <<art, eva>>>>,
                       <<"RELEASED", released, gr>>>> \o tail
  OBVIOUS
<1>11. h = [clock |-> clock, signedAt |-> attested, simulation |-> sim, recordDate |-> date, holders |-> holders,
            deadline |-> due, incident |-> incident, recourse |-> rec, events |-> events]
  <2>1. CASE conflict
    BY <1>1, <1>2, <1>4, <1>9, <1>10, <2>1 DEF canonicalProductChronology
  <2>2. CASE ~conflict
    BY <1>1, <1>2, <1>4, <1>9, <1>10, <2>2 DEF canonicalProductChronology
  <2> QED
    BY <2>1, <2>2
<1>12. /\ DOMAIN h = {"clock", "signedAt", "simulation", "recordDate", "holders", "deadline", "incident", "recourse", "events"}
       /\ h.clock = clock /\ h.signedAt = attested /\ h.simulation = sim /\ h.recordDate = date /\ h.holders = holders
       /\ h.deadline = due /\ h.incident = incident /\ h.recourse = rec
  BY <1>11
<1>13. PICK held, refusal : /\ held = (IF conflict THEN rr ELSE ZeroDigest)
                            /\ refusal = (IF conflict THEN "NONE" ELSE "SIGNED_RESULT_FALSE")
  OBVIOUS
<1>14. PICK bt : /\ t = Signed(bt, au)
                 /\ bt = [terms |-> canonicalTerms, protection |-> pb, result |-> gr, case |-> id, boolean |-> conflict,
                          record |-> held, refusal |-> refusal, holders |-> holders, recordDate |-> date, deadline |-> due,
                          recourse |-> rec, incident |-> incident, clock |-> clock, signedAt |-> attested, simulation |-> sim,
                          chronology |-> h, claim |-> clock, authority |-> au]
  BY <1>1, <1>2, <1>5, <1>12, <1>13 DEF recourseAttestation
<1>15. /\ DOMAIN bt = {"terms", "protection", "result", "case", "boolean", "record", "refusal", "holders", "recordDate",
                       "deadline", "recourse", "incident", "clock", "signedAt", "simulation", "chronology", "claim", "authority"}
       /\ IsRecord(bt)
       /\ bt.terms = canonicalTerms /\ bt.protection = pb /\ bt.result = gr /\ bt.case = id /\ bt.boolean = conflict
       /\ bt.record = held /\ bt.refusal = refusal /\ bt.holders = holders /\ bt.recordDate = date /\ bt.deadline = due
       /\ bt.recourse = rec /\ bt.incident = incident /\ bt.clock = clock /\ bt.signedAt = attested /\ bt.simulation = sim
       /\ bt.chronology = h /\ bt.claim = clock /\ bt.authority = au
  BY <1>14 DEF IsRecord
<1>16. /\ DOMAIN e = {"terms", "case", "binding", "manifest", "artifacts", "evaluated", "ciphertext", "evaluator", "decryptor",
                      "pins", "result", "protection", "attestation", "record", "authority", "conflict", "bytes", "durations",
                      "generated"}
       /\ e.terms = canonicalTerms /\ e.case = id /\ e.binding = cb /\ e.manifest = man /\ e.artifacts = art
       /\ e.evaluated = eva /\ e.ciphertext = cip /\ e.evaluator = "evaluator" /\ e.decryptor = "decryptor"
       /\ e.pins = <<art, eva, cip, "decryptor", au>> /\ e.result = gr /\ e.protection = pb /\ e.attestation = t
       /\ e.record = held /\ e.authority = au /\ e.conflict = conflict /\ e.bytes = publicBytes(conflict) /\ e.generated = time
  <2>1. e = [terms |-> canonicalTerms, case |-> id, binding |-> cb, manifest |-> man,
             artifacts |-> art, evaluated |-> eva, ciphertext |-> cip, evaluator |-> "evaluator", decryptor |-> "decryptor",
             pins |-> <<art, eva, cip, "decryptor", au>>, result |-> gr, protection |-> pb,
             attestation |-> t, record |-> held, authority |-> au, conflict |-> conflict,
             bytes |-> publicBytes(conflict), durations |-> k, generated |-> time]
    BY <1>1, <1>2, <1>5, <1>13 DEF governedFheEvidence
  <2> QED
    BY <2>1
<1>17. PICK x, env, r, a, c, g, s, when :
         /\ x = [terms |-> canonicalTerms, case |-> id, binding |-> cb, keys |-> keys, artifacts |-> art, evaluated |-> eva,
                 ciphertext |-> cip, evaluator |-> "evaluator"]
         /\ when = 2 * time + (IF late THEN 1 ELSE 0)
         /\ env = [terms |-> canonicalTerms, commit |-> "build", run |-> k, scenario |-> conflict, participants |-> ps,
                   generatedAt |-> when]
         /\ r = recourse(k) /\ a = agreed(pb, ps) /\ c = agreed(cb, ps) /\ g = joined([digest |-> gr], gr)
         /\ s = joined([digest |-> t], t)
  OBVIOUS
<1>18. d = [authorization |-> a, caseAuthorization |-> c, result |-> g, recourse |-> r, attestation |-> s, chronology |-> h,
            projection |-> pb, fhe |-> x, proof |-> e, envelope |-> env]
  BY <1>1, <1>2, <1>5, <1>17 DEF buildProtectionEvidence
<1>19. /\ DOMAIN d = {"authorization", "caseAuthorization", "result", "recourse", "attestation", "chronology", "projection",
                      "fhe", "proof", "envelope"}
       /\ d.authorization = a /\ d.caseAuthorization = c /\ d.result = g /\ d.recourse = r /\ d.attestation = s
       /\ d.chronology = h /\ d.projection = pb /\ d.fhe = x /\ d.proof = e /\ d.envelope = env
  BY <1>18
<1>20. /\ DOMAIN x = {"terms", "case", "binding", "keys", "artifacts", "evaluated", "ciphertext", "evaluator"}
       /\ x.terms = canonicalTerms /\ x.case = id /\ x.binding = cb /\ x.keys = keys /\ x.artifacts = art
       /\ x.evaluated = eva /\ x.ciphertext = cip /\ x.evaluator = "evaluator"
  BY <1>17
<1>21. /\ DOMAIN env = {"terms", "commit", "run", "scenario", "participants", "generatedAt"}
       /\ env.terms = canonicalTerms /\ env.commit = "build" /\ env.run = k /\ env.scenario = conflict
       /\ env.participants = ps /\ env.generatedAt = when
  BY <1>17
<1>22. /\ DOMAIN a = DOMAIN pb \cup {"digest", "signature"} /\ a.digest = pb /\ bodyOf(a) = pb /\ signatureHolds(a, ps)
       /\ a.terms = canonicalTerms /\ a.scenario = conflict /\ a.recordDate = date /\ a.holders = holders
       /\ a.nonce = k /\ a.case = id
  <2>1. Unsealed(pb) /\ a = agreed(pb, ps)
    BY <1>4, <1>17 DEF Seals, Unsealed
  <2>2. IsAgreed(a, pb, ps)
    BY <2>1, AgreedBody
  <2> QED
    BY <1>4, <2>2 DEF IsAgreed
<1>23. /\ DOMAIN c = DOMAIN cb \cup {"digest", "signature"} /\ c.digest = cb /\ bodyOf(c) = cb /\ signatureHolds(c, ps)
       /\ c.terms = canonicalTerms /\ c.case = id /\ c.nonce = k /\ c.keys = keys /\ c.participants = ps
       /\ c.authority = au /\ c.created = created /\ c.expires = ex
  <2>1. Unsealed(cb) /\ c = agreed(cb, ps)
    BY <1>6, <1>17 DEF Seals, Unsealed
  <2>2. IsAgreed(c, cb, ps)
    BY <2>1, AgreedBody
  <2> QED
    BY <1>6, <2>2 DEF IsAgreed
<1>24. /\ DOMAIN g = DOMAIN bg \cup {"digest", "signature"} /\ g.digest = gr /\ digestOf(g) = gr /\ signatureHolds(gr, au)
       /\ g.terms = canonicalTerms /\ g.case = id /\ g.binding = cb /\ g.artifacts = art /\ g.evaluated = eva
       /\ g.ciphertext = cip /\ g.conflict = conflict /\ g.authority = au /\ g.released = released
       /\ g.provenance = "decryptor"
  <2>1. DOMAIN bg \cap Seals = {}
    BY <1>8 DEF Seals
  <2>2. /\ DOMAIN g = DOMAIN bg \cup {"digest", "signature"} /\ g.digest = gr /\ \A m \in DOMAIN bg : g[m] = bg[m]
        /\ digestOf(g) = gr /\ signatureHolds(gr, au)
    <3>1. IsRecord(bg) /\ DOMAIN bg \cap Seals = {} /\ gr = Signed(bg, au) /\ g = joined([digest |-> gr], gr)
      BY <1>7, <1>8, <1>17, <2>1
    <3> QED
      BY <3>1, SignedBody
  <2> QED
    BY <1>8, <2>2
<1>25. /\ DOMAIN s = DOMAIN bt \cup {"digest", "signature"} /\ s.digest = t /\ digestOf(s) = t /\ signatureHolds(t, au)
       /\ s.terms = canonicalTerms /\ s.protection = pb /\ s.result = gr /\ s.case = id /\ s.boolean = conflict
       /\ s.record = held /\ s.refusal = refusal /\ s.holders = holders /\ s.recordDate = date /\ s.deadline = due
       /\ s.recourse = rec /\ s.incident = incident /\ s.clock = clock /\ s.signedAt = attested /\ s.simulation = sim
       /\ s.chronology = h /\ s.claim = clock /\ s.authority = au
  <2>1. DOMAIN bt \cap Seals = {}
    BY <1>15 DEF Seals
  <2>2. /\ DOMAIN s = DOMAIN bt \cup {"digest", "signature"} /\ s.digest = t /\ \A m \in DOMAIN bt : s[m] = bt[m]
        /\ digestOf(s) = t /\ signatureHolds(t, au)
    <3>1. IsRecord(bt) /\ DOMAIN bt \cap Seals = {} /\ t = Signed(bt, au) /\ s = joined([digest |-> t], t)
      BY <1>14, <1>15, <1>17, <2>1
    <3> QED
      BY <3>1, SignedBody
  <2> QED
    BY <1>15, <2>2
<1>26. /\ DOMAIN r = {"opened", "refused", "digest", "record"}
       /\ r.opened = conflict /\ r.refused = (IF conflict THEN Nothing ELSE "SIGNED_RESULT_FALSE")
       /\ r.digest = (IF conflict THEN rr ELSE Nothing) /\ r.record = r.digest
  BY <1>1, <1>2, <1>17 DEF recourse, Timely
<1>27. /\ conflict \in BOOLEAN /\ created \in Nat /\ released \in Nat /\ bound \in Nat /\ attested \in Nat /\ time \in Nat
       /\ created <= released /\ released <= bound /\ bound <= attested /\ attested <= time /\ time < ex
       /\ CaseLifetime \in Nat /\ CureLength \in Nat /\ ex \in Nat /\ dl \in Nat
  BY <1>1, <1>3, EvidenceAssumption DEF Timely
<1>28. assertExactPublicEvidenceShape(d)
  <2>1. PICK f : f = [p \in DOMAIN d |-> DOMAIN d[p]]
    OBVIOUS
  <2>2. DOMAIN f = DOMAIN d /\ DOMAIN exactFields = DOMAIN d
    BY <1>19, <2>1 DEF exactFields
  <2>3. /\ f["authorization"] = exactFields["authorization"] /\ f["caseAuthorization"] = exactFields["caseAuthorization"]
        /\ f["result"] = exactFields["result"] /\ f["recourse"] = exactFields["recourse"]
    BY <1>4, <1>6, <1>8, <1>19, <1>22, <1>23, <1>24, <1>26, <2>1 DEF exactFields
  <2>4. /\ f["attestation"] = exactFields["attestation"] /\ f["chronology"] = exactFields["chronology"]
        /\ f["projection"] = exactFields["projection"]
    BY <1>4, <1>12, <1>15, <1>19, <1>25, <2>1 DEF exactFields
  <2>5. f["fhe"] = exactFields["fhe"] /\ f["proof"] = exactFields["proof"] /\ f["envelope"] = exactFields["envelope"]
    BY <1>16, <1>19, <1>20, <1>21, <2>1 DEF exactFields
  <2>6. \A p \in DOMAIN d : f[p] = exactFields[p]
    BY <1>19, <2>3, <2>4, <2>5
  <2>7. f = [p \in DOMAIN d |-> exactFields[p]] /\ exactFields = [p \in DOMAIN d |-> exactFields[p]]
    <3>1. exactFields = [p \in DOMAIN exactFields |-> exactFields[p]]
      BY DEF exactFields
    <3> QED
      BY <2>1, <2>2, <2>6, <3>1
  <2> QED
    BY <2>1, <2>7 DEF assertExactPublicEvidenceShape
<1>29. d.proof.bytes = publicBytes(d.envelope.scenario) /\ d.envelope.commit = "build"
  BY <1>16, <1>19, <1>21
<1>30. assertParticipantAuthorization(d)
  BY <1>19, <1>20, <1>21, <1>23 DEF assertParticipantAuthorization
<1>31. assertSignedProtectionBinding(d)
  BY <1>3, <1>16, <1>19, <1>22, <1>23 DEF assertSignedProtectionBinding
<1>32. crossReferencesHold(d)
  BY <1>16, <1>19, <1>20, <1>21, <1>22, <1>23, <1>24 DEF crossReferencesHold
<1>33. recourseHolds(d)
  <2>1. CASE conflict
    <3>1. r.opened = TRUE /\ r.refused = Nothing /\ r.digest = rr /\ r.record = rr /\ held = rr
      BY <1>13, <1>26, <1>27, <2>1
    <3>2. bound >= released /\ bound <= ex
      BY <1>27
    <3> QED
      <4>1. /\ d.result.conflict /\ d.recourse.opened = TRUE /\ d.recourse.refused = Nothing /\ d.recourse.digest = rr
            /\ d.recourse.record = rr /\ rr # Nothing /\ d.proof.record = rr
        BY <1>9, <1>16, <1>19, <1>24, <2>1, <3>1
      <4>2. /\ rr.case = d.authorization.case /\ rr.terms = d.result.terms /\ rr.binding = d.result.binding
            /\ rr.result = d.result.digest /\ rr.authority = d.result.authority
        BY <1>9, <1>19, <1>22, <1>24
      <4>3. /\ rr.holders = d.projection.holders /\ rr.recordDate = d.projection.recordDate
            /\ rr.bound >= d.result.released /\ rr.bound <= d.caseAuthorization.expires
            /\ rr.deadline = rr.bound + CureLength
        BY <1>3, <1>4, <1>9, <1>19, <1>23, <1>24, <3>2
      <4> QED
        BY <4>1, <4>2, <4>3 DEF recourseHolds
  <2>2. CASE ~conflict
    <3>1. r.opened = FALSE /\ r.refused = "SIGNED_RESULT_FALSE" /\ r.digest = Nothing /\ r.record = Nothing /\ held = ZeroDigest
      BY <1>13, <1>26, <1>27, <2>2
    <3> QED
      BY <1>16, <1>19, <1>24, <2>2, <3>1 DEF recourseHolds
  <2> QED
    BY <2>1, <2>2
<1>34. chronologyHolds(d)
  <2>1. attested >= released /\ attested <= ex
    BY <1>27
  <2>2. realClockInTime(d)
    <3>1. conflict => clock # "REAL"
      BY <1>10 DEF clockOf
    <3> QED
      BY <1>12, <1>19, <1>24, <3>1 DEF realClockInTime
  <2>3. d.chronology = expectedCanonicalChronology(d)
    <3>1. CASE conflict
      <4>1. /\ clock = "SIMULATED" /\ sim = dl + 1 /\ due = dl /\ incident = "CONFLICT_CONFIRMED" /\ rec = "SIMULATED_AVAILABLE"
            /\ r.record = rr /\ r.digest = rr
            /\ events = <<<<"SNAPSHOT", date, pb>>, <<"CREATED", created, cb>>, <<"ARTIFACTS", Nothing, <<art, eva>>>>,
                          <<"RELEASED", released, gr>>>> \o <<<<"BOUND", bound, rr>>, <<"SIMULATED_COMPLETED", dl + 1, rr>>>>
        BY <1>10, <1>26, <3>1 DEF clockOf
      <4>2. /\ d.result.conflict /\ d.chronology.clock = "SIMULATED" /\ d.chronology.signedAt = attested
            /\ d.recourse.record.deadline = dl /\ d.recourse.record.bound = bound /\ d.recourse.digest = rr
        BY <1>9, <1>12, <1>19, <1>24, <3>1, <4>1
      <4>3. /\ d.authorization.recordDate = date /\ d.authorization.holders = holders /\ d.authorization.digest = pb
            /\ d.caseAuthorization.created = created /\ d.caseAuthorization.digest = cb
            /\ d.result.artifacts = art /\ d.result.evaluated = eva /\ d.result.released = released /\ d.result.digest = gr
        BY <1>19, <1>22, <1>23, <1>24
      <4>4. expectedCanonicalChronology(d) =
              [clock |-> "SIMULATED", signedAt |-> attested, simulation |-> dl + 1, recordDate |-> date, holders |-> holders,
               deadline |-> dl, incident |-> "CONFLICT_CONFIRMED", recourse |-> "SIMULATED_AVAILABLE", events |-> events]
        BY <4>1, <4>2, <4>3 DEF expectedCanonicalChronology
      <4> QED
        BY <1>11, <1>19, <4>1, <4>4
    <3>2. CASE ~conflict
      <4>1. /\ clock = "REAL" /\ clock # "SIMULATED" /\ sim = Nothing /\ due = Nothing /\ incident = "CLEARED" /\ rec = "REFUSED"
            /\ events = <<<<"SNAPSHOT", date, pb>>, <<"CREATED", created, cb>>, <<"ARTIFACTS", Nothing, <<art, eva>>>>,
                          <<"RELEASED", released, gr>>>> \o <<<<"REFUSED", released, gr>>>>
        BY <1>10, <3>2 DEF clockOf
      <4> QED
        BY <1>11, <1>12, <1>19, <1>22, <1>23, <1>24, <3>2, <4>1 DEF expectedCanonicalChronology
    <3> QED
      BY <3>1, <3>2
  <2> QED
    BY <1>12, <1>19, <1>23, <1>24, <2>1, <2>2, <2>3 DEF chronologyHolds
<1>35. assertSignedRecourseAttestation(d)
  <2>1. attestationBinds(d)
    <3>1. held = (IF r.digest = Nothing THEN ZeroDigest ELSE r.digest)
      BY <1>9, <1>13, <1>26
    <3> QED
      BY <1>12, <1>19, <1>22, <1>24, <1>25, <3>1 DEF attestationBinds
  <2>2. IF s.boolean
        THEN /\ s.refusal = "NONE" /\ s.incident = "CONFLICT_CONFIRMED" /\ s.claim = s.clock
             /\ s.recourse = (IF s.clock = "SIMULATED" THEN "SIMULATED_AVAILABLE" ELSE "AVAILABLE")
        ELSE /\ s.refusal = "SIGNED_RESULT_FALSE" /\ s.recourse = "REFUSED" /\ s.incident = "CLEARED"
             /\ s.deadline = Nothing /\ s.clock = "REAL" /\ s.simulation = Nothing /\ s.claim = "REAL"
    BY <1>10, <1>13, <1>25 DEF clockOf
  <2> QED
    BY <1>16, <1>19, <1>24, <1>25, <2>1, <2>2 DEF assertSignedRecourseAttestation
<1>36. manifestPinned(d, k)
  BY <1>1, <1>16, <1>19, EvidenceAssumption DEF manifestPinned
<1>37. terminalTimesHold(d)
  <2>1. /\ released >= created /\ released <= ex /\ attested >= released /\ attested <= ex /\ time >= attested /\ time <= ex
        /\ when >= 2 * created /\ when <= 2 * ex /\ when + 1 >= 2 * time
    <3>1. when \in {2 * time, 2 * time + 1}
      BY <1>17, <1>27
    <3> QED
      BY <1>27, <3>1
  <2> QED
    BY <1>3, <1>4, <1>12, <1>16, <1>19, <1>21, <1>23, <1>24, <2>1 DEF terminalTimesHold
<1> QED
  BY <1>28, <1>29, <1>30, <1>31, <1>32, <1>33, <1>34, <1>35, <1>36, <1>37 DEF assertPublicProtectionEvidence

\* What is kept of a case.
CaseRecords ==
  [stage : Stages, conflict : BOOLEAN, created : Nat, released : Nat, bound : Nat, signed : Nat, generated : Nat,
   late : BOOLEAN]

\* The times of a case are in the order of its stages, and past; a refused
\* document was written in the second in which its case expires, or later.
InOrder(l, time) ==
  /\ l.stage # "absent" => l.created <= time
  /\ l.stage \in {"released", "bound", "attested"} => l.created <= l.released /\ l.released <= time
  /\ l.stage \in {"bound", "attested"} => l.released <= l.bound /\ l.bound <= time
  /\ l.stage = "attested" => l.bound <= l.signed /\ l.signed <= time
  /\ l.stage = "refused" => l.generated >= l.created + CaseLifetime

\* The inductive invariant of the cases.
EvidenceInv ==
  /\ today \in Nat
  /\ life \in [EvidenceCases -> CaseRecords]
  /\ \A k \in EvidenceCases : InOrder(life[k], today)

\* A step of one case leaves the other cases as they are.
LEMMA OneCaseMoves ==
  ASSUME EvidenceInv, NEW k \in EvidenceCases, NEW l \in CaseRecords, InOrder(l, today),
         life' = [life EXCEPT ![k] = l], today' = today
  PROVE  EvidenceInv'
<1>1. today \in Nat /\ life \in [EvidenceCases -> CaseRecords] /\ \A j \in EvidenceCases : InOrder(life[j], today)
  BY DEF EvidenceInv
<1>2. today' \in Nat /\ life' \in [EvidenceCases -> CaseRecords]
  BY <1>1
<1>3. ASSUME NEW j \in EvidenceCases PROVE InOrder(life'[j], today')
  <2>1. life'[j] = IF j = k THEN l ELSE life[j]
    BY <1>1
  <2> QED
    BY <1>1, <2>1
<1> QED
  BY <1>2, <1>3 DEF EvidenceInv

\* At first no case exists.
LEMMA EvidenceInvInit == EvidenceInit => EvidenceInv
<1> SUFFICES ASSUME EvidenceInit PROVE EvidenceInv
  OBVIOUS
<1>1. PICK l : l = [stage |-> "absent", conflict |-> FALSE, created |-> 0, released |-> 0, bound |-> 0,
                    signed |-> 0, generated |-> 0, late |-> FALSE]
  OBVIOUS
<1>2. today = 1 /\ life = [k \in EvidenceCases |-> l]
  BY <1>1 DEF EvidenceInit
<1>3. l \in CaseRecords /\ InOrder(l, today)
  BY <1>1 DEF CaseRecords, Stages, InOrder
<1> QED
  BY <1>2, <1>3 DEF EvidenceInv

\* Time passes.
LEMMA TickKeepsOrder == EvidenceInv /\ Tick => EvidenceInv'
<1> SUFFICES ASSUME EvidenceInv, Tick PROVE EvidenceInv'
  OBVIOUS
<1>1. today \in Nat /\ life \in [EvidenceCases -> CaseRecords] /\ today' = today + 1 /\ life' = life
  BY DEF EvidenceInv, Tick
<1>2. ASSUME NEW k \in EvidenceCases PROVE InOrder(life'[k], today')
  <2>1. InOrder(life[k], today) /\ life[k] \in CaseRecords
    BY <1>1 DEF EvidenceInv
  <2>2. PICK l : l = life[k] /\ l \in CaseRecords
    BY <2>1
  <2>3. InOrder(l, today) /\ l.created \in Nat /\ l.released \in Nat /\ l.bound \in Nat /\ l.signed \in Nat
    BY <2>1, <2>2 DEF CaseRecords
  <2>4. InOrder(l, today + 1)
    BY <1>1, <2>3 DEF InOrder
  <2> QED
    BY <1>1, <2>2, <2>4
<1> QED
  BY <1>1, <1>2 DEF EvidenceInv

\* What a case is, before it moves.
LEMMA CaseAt ==
  ASSUME EvidenceInv, NEW k \in EvidenceCases
  PROVE  /\ life[k] \in CaseRecords /\ InOrder(life[k], today) /\ today \in Nat
  BY DEF EvidenceInv

\* A case is created.
LEMMA CreateKeepsOrder ==
  ASSUME EvidenceInv, NEW k \in EvidenceCases, NEW conflict \in BOOLEAN, Create(k, conflict)
  PROVE  EvidenceInv'
<1>1. life[k] \in CaseRecords /\ today \in Nat
  BY CaseAt
<1>2. PICK l : l = [life[k] EXCEPT !.stage = "created", !.conflict = conflict, !.created = today]
  OBVIOUS
<1>3. life' = [life EXCEPT ![k] = l] /\ today' = today
  BY <1>2 DEF Create
<1>4. l \in CaseRecords /\ l.stage = "created" /\ l.created = today
  BY <1>1, <1>2 DEF CaseRecords, Stages
<1>5. InOrder(l, today)
  BY <1>1, <1>4 DEF InOrder
<1> QED
  BY <1>3, <1>4, <1>5, OneCaseMoves

\* Its result is released.
LEMMA ReleaseKeepsOrder ==
  ASSUME EvidenceInv, NEW k \in EvidenceCases, Release(k)
  PROVE  EvidenceInv'
<1>1. life[k] \in CaseRecords /\ InOrder(life[k], today) /\ today \in Nat
  BY CaseAt
<1>2. PICK l : l = [life[k] EXCEPT !.stage = "released", !.released = today]
  OBVIOUS
<1>3. life' = [life EXCEPT ![k] = l] /\ today' = today /\ life[k].stage = "created"
  BY <1>2 DEF Release
<1>4. l \in CaseRecords /\ l.stage = "released" /\ l.released = today /\ l.created = life[k].created
  BY <1>1, <1>2 DEF CaseRecords, Stages
<1>5. l.created <= today
  BY <1>1, <1>3, <1>4 DEF InOrder
<1>6. InOrder(l, today)
  BY <1>1, <1>4, <1>5 DEF InOrder
<1> QED
  BY <1>3, <1>4, <1>6, OneCaseMoves

\* Its recourse is bound.
LEMMA BindKeepsOrder ==
  ASSUME EvidenceInv, NEW k \in EvidenceCases, Bind(k)
  PROVE  EvidenceInv'
<1>1. life[k] \in CaseRecords /\ InOrder(life[k], today) /\ today \in Nat
  BY CaseAt
<1>2. PICK l : l = [life[k] EXCEPT !.stage = "bound", !.bound = today]
  OBVIOUS
<1>3. life' = [life EXCEPT ![k] = l] /\ today' = today /\ life[k].stage = "released"
  BY <1>2 DEF Bind
<1>4. /\ l \in CaseRecords /\ l.stage = "bound" /\ l.bound = today /\ l.created = life[k].created
      /\ l.released = life[k].released
  BY <1>1, <1>2 DEF CaseRecords, Stages
<1>5. l.created <= today /\ l.created <= l.released /\ l.released <= today
  BY <1>1, <1>3, <1>4 DEF InOrder
<1>6. InOrder(l, today)
  BY <1>1, <1>4, <1>5 DEF InOrder
<1> QED
  BY <1>3, <1>4, <1>6, OneCaseMoves

\* Its chronology is signed.
LEMMA AttestKeepsOrder ==
  ASSUME EvidenceInv, NEW k \in EvidenceCases, Attest(k)
  PROVE  EvidenceInv'
<1>1. life[k] \in CaseRecords /\ InOrder(life[k], today) /\ today \in Nat
  BY CaseAt
<1>2. PICK l : l = [life[k] EXCEPT !.stage = "attested", !.signed = today]
  OBVIOUS
<1>3. life' = [life EXCEPT ![k] = l] /\ today' = today /\ life[k].stage = "bound"
  BY <1>2 DEF Attest
<1>4. /\ l \in CaseRecords /\ l.stage = "attested" /\ l.signed = today /\ l.created = life[k].created
      /\ l.released = life[k].released /\ l.bound = life[k].bound
  BY <1>1, <1>2 DEF CaseRecords, Stages
<1>5. l.created <= today /\ l.created <= l.released /\ l.released <= today /\ l.released <= l.bound /\ l.bound <= today
  BY <1>1, <1>3, <1>4 DEF InOrder
<1>6. InOrder(l, today)
  BY <1>1, <1>4, <1>5 DEF InOrder
<1> QED
  BY <1>3, <1>4, <1>6, OneCaseMoves

\* Its document is written, and read by the exporter: refused only when
\* the second in which the case expires has begun.
LEMMA ExportKeepsOrder ==
  ASSUME NullIsNoRecord, EvidenceInv, NEW k \in EvidenceCases, NEW late \in BOOLEAN, Export(k, late)
  PROVE  EvidenceInv'
<1>1. life[k] \in CaseRecords /\ InOrder(life[k], today) /\ today \in Nat
  BY CaseAt
<1>2. PICK d : d = buildProtectionEvidence(k, today, late)
  OBVIOUS
<1>3. PICK end : end = IF assertPublicProtectionEvidence(d, k) THEN "exported" ELSE "refused"
  OBVIOUS
<1>4. PICK l : l = [life[k] EXCEPT !.stage = end, !.generated = today, !.late = late]
  OBVIOUS
<1>5. life' = [life EXCEPT ![k] = l] /\ today' = today /\ life[k].stage = "attested"
  BY <1>2, <1>3, <1>4 DEF Export
<1>6. end \in {"exported", "refused"}
  BY <1>3
<1>7. l \in CaseRecords /\ l.stage = end /\ l.generated = today /\ l.created = life[k].created
  BY <1>1, <1>4, <1>6 DEF CaseRecords, Stages
<1>8. /\ life[k].conflict \in BOOLEAN /\ life[k].created \in Nat /\ life[k].released \in Nat /\ life[k].bound \in Nat
      /\ life[k].signed \in Nat
  BY <1>1 DEF CaseRecords
<1>9. Timely(k, today)
  BY <1>1, <1>5, <1>8 DEF InOrder, Timely
<1>10. l.created <= today
  BY <1>1, <1>5, <1>7 DEF InOrder
<1>11. end = "refused" => today >= l.created + CaseLifetime
  <2> SUFFICES ASSUME today < life[k].created + CaseLifetime PROVE end # "refused"
    BY <1>1, <1>7, <1>8, EvidenceAssumption
  <2>1. assertPublicProtectionEvidence(d, k)
    BY <1>2, <1>9, HonestDocument
  <2> QED
    BY <1>3, <2>1
<1>12. InOrder(l, today)
  BY <1>6, <1>7, <1>10, <1>11 DEF InOrder
<1> QED
  BY <1>5, <1>7, <1>12, OneCaseMoves

\* The honest exporter is never refused by its own verifier before its
\* case expires: for every number of cases, every lifetime and cure window
\* and every clock.  (exportProtectionEvidence)
THEOREM HonestStaysAccepted ==
  ASSUME NullIsNoRecord
  PROVE  EvidenceSpec => []HonestIsAccepted
<1>1. EvidenceInit => EvidenceInv
  BY EvidenceInvInit
<1>2. EvidenceInv /\ [EvidenceNext]_evidenceVars => EvidenceInv'
  <2> SUFFICES ASSUME EvidenceInv, [EvidenceNext]_evidenceVars PROVE EvidenceInv'
    OBVIOUS
  <2>1. CASE Tick
    BY <2>1, TickKeepsOrder
  <2>2. ASSUME NEW k \in EvidenceCases, NEW conflict \in BOOLEAN, Create(k, conflict) PROVE EvidenceInv'
    BY <2>2, CreateKeepsOrder
  <2>3. ASSUME NEW k \in EvidenceCases, Release(k) PROVE EvidenceInv'
    BY <2>3, ReleaseKeepsOrder
  <2>4. ASSUME NEW k \in EvidenceCases, Bind(k) PROVE EvidenceInv'
    BY <2>4, BindKeepsOrder
  <2>5. ASSUME NEW k \in EvidenceCases, Attest(k) PROVE EvidenceInv'
    BY <2>5, AttestKeepsOrder
  <2>6. ASSUME NEW k \in EvidenceCases, NEW late \in BOOLEAN, Export(k, late) PROVE EvidenceInv'
    BY <2>6, ExportKeepsOrder
  <2>7. CASE UNCHANGED evidenceVars
    BY <2>7 DEF evidenceVars, EvidenceInv
  <2> QED
    BY <2>1, <2>2, <2>3, <2>4, <2>5, <2>6, <2>7 DEF EvidenceNext
<1>3. EvidenceInv => HonestIsAccepted
  BY DEF EvidenceInv, InOrder, HonestIsAccepted
<1> QED
  BY <1>1, <1>2, <1>3, PTL DEF EvidenceSpec
=============================================================================
