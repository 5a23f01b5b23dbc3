------------------------ MODULE PrivateMatch_proofs ------------------------
(***************************************************************************)
(* Proofs about PrivateMatch, for any sessions, results, expiries and      *)
(* number of interruptions: a recorded transaction is never sent again,    *)
(* and the evidence file never says more than the chain.                   *)
(***************************************************************************)
EXTENDS PrivateMatch, FiniteSetTheorems, TLAPS

Tx == [key : Keys, result : Results \cup {None}, until : Nat,
       status : {"pending", "success", "reverted"}, noted : BOOLEAN]

Memory == [anchor : {"none", "created", "resumed"}, session : Sessions \cup {None},
           result : Results \cup {None}, until : Nat, tx : Nat]

global(kind) == [kind |-> kind, session |-> None]
commitOf(s) == [kind |-> "commit", session |-> s]
bindOf(s) == [kind |-> "bind", session |-> s]

\* The phases behind each of the steps the evidence file speaks of, and
\* those that work on a session.
AfterBind     == {"readback", "replay", "finish", "done"}
AfterCommit   == {"audit", "ceremony", "quorum", "consent", "bind"} \cup AfterBind
WithSession   == {"agree", "preimage", "commit"} \cup AfterCommit
AfterRegister == {"lookup", "intent"} \cup WithSession
AfterActivate == {"register"} \cup AfterRegister

Sending == ChainPhases \cup {"commit", "bind"}

\* Nobody was asked to publish the commitment of the session yet.
unsent(s) == s \notin relays /\ \A i \in DOMAIN txs : txs[i].key # commitOf(s)

\* What holds when a phase begins, or is still running, with a memory.
Ready(phase, m) ==
  /\ phase \in AfterActivate => applied(global("activate"))
  /\ phase \in AfterRegister => applied(global("register"))
  /\ phase \in WithSession => m.session \in Sessions
  /\ phase \in AfterCommit => committed(m.session)
  /\ phase \in AfterBind => boundAs(m.session, m.result)

\* A session that is about to be committed was settled before, or was
\* never published.
Fresh(phase, m) ==
  phase \in {"agree", "preimage", "commit"} =>
    journal.steps[commitOf(m.session)].status = "success" \/ unsent(m.session)

\* A commitment is published once; a binding has its commitment.
Chain ==
  /\ txs \in Seq(Tx)
  /\ \A i, j \in DOMAIN txs : txs[i].key.kind = "commit" /\ txs[j].key = txs[i].key => i = j
  /\ \A s \in relays : \A i \in DOMAIN txs : txs[i].key # commitOf(s)
  /\ \A i \in bindings : committed(txs[i].key.session)

\* What the journal names is on the chain, and what is noted is named.
Named ==
  /\ \A k \in Keys :
       LET n == journal.steps[k] IN
         n.status # "none" =>
           /\ n.tx \in DOMAIN txs /\ txs[n.tx].key = k
           /\ n.status = "success" => txs[n.tx].status = "success"
  /\ \A i \in DOMAIN txs : txs[i].noted => journal.steps[txs[i].key].status # "none"

\* The transaction a phase has sent is the last one of its key.
InFlight ==
  /\ pc.stage # "step" => pc.phase \in Sending
  /\ pc.stage # "step" /\ (pc.stage = "wait" \/ pc.phase # "commit") =>
       /\ mem.tx \in DOMAIN txs /\ txs[mem.tx].key = keyOf(pc.phase)
       /\ pc.phase = "bind" => txs[mem.tx].result = mem.result
       /\ \A j \in DOMAIN txs : txs[j].key = keyOf(pc.phase) => j <= mem.tx
  /\ pc.stage = "wait" => journal.steps[keyOf(pc.phase)] = [tx |-> mem.tx, status |-> "null"]

MatchInv ==
  /\ TypeOK
  /\ Chain
  /\ Named
  /\ Ready(pc.phase, mem)
  /\ pc.stage = "step" => Fresh(pc.phase, mem)
  /\ InFlight
  /\ RecordedIsNotResent
  /\ EvidenceIsTrue

-----------------------------------------------------------------------------
\* The list of phases.

\* The names in the list.
LEMMA PhaseList ==
  /\ DOMAIN Phases = 1..25
  /\ Phases[1].name = "preflight" /\ Phases[2].name = "provision" /\ Phases[3].name = "deploy"
  /\ Phases[4].name = "issuer" /\ Phases[5].name = "configure" /\ Phases[6].name = "authorize"
  /\ Phases[7].name = "serve" /\ Phases[8].name = "create" /\ Phases[9].name = "mint"
  /\ Phases[10].name = "credit" /\ Phases[11].name = "activate" /\ Phases[12].name = "register"
  /\ Phases[13].name = "lookup" /\ Phases[14].name = "intent" /\ Phases[15].name = "agree"
  /\ Phases[16].name = "preimage" /\ Phases[17].name = "commit" /\ Phases[18].name = "audit"
  /\ Phases[19].name = "ceremony" /\ Phases[20].name = "quorum" /\ Phases[21].name = "consent"
  /\ Phases[22].name = "bind" /\ Phases[23].name = "readback" /\ Phases[24].name = "replay"
  /\ Phases[25].name = "finish"
BY DEF Phases

\* The states in the list.
LEMMA ReportList ==
  /\ Phases[1].reports = "PREFLIGHT" /\ Phases[2].reports = "IDENTITIES_PROVISIONED" /\ Phases[3].reports = "none"
  /\ Phases[4].reports = "none" /\ Phases[5].reports = "DEPLOYED" /\ Phases[6].reports = "GOVERNED"
  /\ Phases[7].reports = "PARTIES_SERVING" /\ Phases[8].reports = "none" /\ Phases[9].reports = "none"
  /\ Phases[10].reports = "none" /\ Phases[11].reports = "ANCHORED" /\ Phases[12].reports = "SOURCE_REGISTERED"
  /\ Phases[13].reports = "none" /\ Phases[14].reports = "INTENT_SIGNED" /\ Phases[15].reports = "PREFLIGHT_AGREED"
  /\ Phases[16].reports = "none" /\ Phases[17].reports = "COMMITTED" /\ Phases[18].reports = "METADATA_AUDITED"
  /\ Phases[19].reports = "CEREMONY_PROVEN" /\ Phases[20].reports = "QUORUM_SIGNED" /\ Phases[21].reports = "CONSENTED"
  /\ Phases[22].reports = "BOUND" /\ Phases[23].reports = "READBACKS_CONFIRMED" /\ Phases[24].reports = "REPLAY_REJECTED"
  /\ Phases[25].reports = "COMPLETE"
BY DEF Phases

\* The places of the list.
LEMMA Places ==
  \A i \in 1..25 : \/ i = 1 \/ i = 2 \/ i = 3 \/ i = 4 \/ i = 5 \/ i = 6 \/ i = 7 \/ i = 8
                   \/ i = 9 \/ i = 10 \/ i = 11 \/ i = 12 \/ i = 13 \/ i = 14 \/ i = 15 \/ i = 16
                   \/ i = 17 \/ i = 18 \/ i = 19 \/ i = 20 \/ i = 21 \/ i = 22 \/ i = 23 \/ i = 24
                   \/ i = 25
OBVIOUS

\* The place of every phase.
LEMMA PhaseIndices ==
  /\ phaseIndex("preflight") = 1 /\ phaseIndex("provision") = 2 /\ phaseIndex("deploy") = 3
  /\ phaseIndex("issuer") = 4 /\ phaseIndex("configure") = 5 /\ phaseIndex("authorize") = 6
  /\ phaseIndex("serve") = 7 /\ phaseIndex("create") = 8 /\ phaseIndex("mint") = 9
  /\ phaseIndex("credit") = 10 /\ phaseIndex("activate") = 11 /\ phaseIndex("register") = 12
  /\ phaseIndex("lookup") = 13 /\ phaseIndex("intent") = 14 /\ phaseIndex("agree") = 15
  /\ phaseIndex("preimage") = 16 /\ phaseIndex("commit") = 17 /\ phaseIndex("audit") = 18
  /\ phaseIndex("ceremony") = 19 /\ phaseIndex("quorum") = 20 /\ phaseIndex("consent") = 21
  /\ phaseIndex("bind") = 22 /\ phaseIndex("readback") = 23 /\ phaseIndex("replay") = 24
  /\ phaseIndex("finish") = 25
<1>1. ASSUME NEW n \in 1..25, NEW s, Phases[n].name = s, \A i \in 1..25 : Phases[i].name = s => i = n
      PROVE  phaseIndex(s) = n
  BY <1>1, PhaseList DEF phaseIndex
<1>2. phaseIndex("preflight") = 1 /\ phaseIndex("provision") = 2
  BY <1>1, PhaseList, Places
<1>3. phaseIndex("deploy") = 3 /\ phaseIndex("issuer") = 4
  BY <1>1, PhaseList, Places
<1>4. phaseIndex("configure") = 5 /\ phaseIndex("authorize") = 6
  BY <1>1, PhaseList, Places
<1>5. phaseIndex("serve") = 7 /\ phaseIndex("create") = 8
  BY <1>1, PhaseList, Places
<1>6. phaseIndex("mint") = 9 /\ phaseIndex("credit") = 10
  BY <1>1, PhaseList, Places
<1>7. phaseIndex("activate") = 11 /\ phaseIndex("register") = 12
  BY <1>1, PhaseList, Places
<1>8. phaseIndex("lookup") = 13 /\ phaseIndex("intent") = 14
  BY <1>1, PhaseList, Places
<1>9. phaseIndex("agree") = 15 /\ phaseIndex("preimage") = 16
  BY <1>1, PhaseList, Places
<1>10. phaseIndex("commit") = 17 /\ phaseIndex("audit") = 18
  BY <1>1, PhaseList, Places
<1>11. phaseIndex("ceremony") = 19 /\ phaseIndex("quorum") = 20
  BY <1>1, PhaseList, Places
<1>12. phaseIndex("consent") = 21 /\ phaseIndex("bind") = 22
  BY <1>1, PhaseList, Places
<1>13. phaseIndex("readback") = 23 /\ phaseIndex("replay") = 24
  BY <1>1, PhaseList, Places
<1>14. phaseIndex("finish") = 25
  BY <1>1, PhaseList, Places
<1> QED
  BY <1>2, <1>3, <1>4, <1>5, <1>6, <1>7, <1>8, <1>9, <1>10, <1>11, <1>12, <1>13, <1>14

\* The place of every reported state.
LEMMA ReportRanks ==
  /\ rank("PREFLIGHT") = 1 /\ rank("IDENTITIES_PROVISIONED") = 2 /\ rank("DEPLOYED") = 5
  /\ rank("GOVERNED") = 6 /\ rank("PARTIES_SERVING") = 7 /\ rank("ANCHORED") = 11
  /\ rank("SOURCE_REGISTERED") = 12 /\ rank("INTENT_SIGNED") = 14 /\ rank("PREFLIGHT_AGREED") = 15
  /\ rank("COMMITTED") = 17 /\ rank("METADATA_AUDITED") = 18 /\ rank("CEREMONY_PROVEN") = 19
  /\ rank("QUORUM_SIGNED") = 20 /\ rank("CONSENTED") = 21 /\ rank("BOUND") = 22
  /\ rank("READBACKS_CONFIRMED") = 23 /\ rank("REPLAY_REJECTED") = 24 /\ rank("COMPLETE") = 25
  /\ rank("none") = 0
<1>1. ASSUME NEW n \in 1..25, NEW s, s # "none", Phases[n].reports = s,
             \A i \in 1..25 : Phases[i].reports = s => i = n
      PROVE  rank(s) = n
  BY <1>1, PhaseList DEF rank
<1>2. rank("PREFLIGHT") = 1 /\ rank("IDENTITIES_PROVISIONED") = 2 /\ rank("DEPLOYED") = 5
  BY <1>1, ReportList, Places
<1>3. rank("GOVERNED") = 6 /\ rank("PARTIES_SERVING") = 7 /\ rank("ANCHORED") = 11
  BY <1>1, ReportList, Places
<1>4. rank("SOURCE_REGISTERED") = 12 /\ rank("INTENT_SIGNED") = 14 /\ rank("PREFLIGHT_AGREED") = 15
  BY <1>1, ReportList, Places
<1>5. rank("COMMITTED") = 17 /\ rank("METADATA_AUDITED") = 18 /\ rank("CEREMONY_PROVEN") = 19
  BY <1>1, ReportList, Places
<1>6. rank("QUORUM_SIGNED") = 20 /\ rank("CONSENTED") = 21 /\ rank("BOUND") = 22
  BY <1>1, ReportList, Places
<1>7. rank("READBACKS_CONFIRMED") = 23 /\ rank("REPLAY_REJECTED") = 24 /\ rank("COMPLETE") = 25
  BY <1>1, ReportList, Places
<1>8. rank("none") = 0
  BY DEF rank
<1> QED
  BY <1>2, <1>3, <1>4, <1>5, <1>6, <1>7, <1>8

nextPhase(p) == IF p = "finish" THEN "done" ELSE Phases[phaseIndex(p) + 1].name

stateOf(p) == Phases[phaseIndex(p)].reports

\* The phase after each one.
LEMMA PhaseOrder ==
  /\ nextPhase("preflight") = "provision" /\ nextPhase("provision") = "deploy"
  /\ nextPhase("deploy") = "issuer" /\ nextPhase("issuer") = "configure"
  /\ nextPhase("configure") = "authorize" /\ nextPhase("authorize") = "serve"
  /\ nextPhase("serve") = "create" /\ nextPhase("create") = "mint"
  /\ nextPhase("mint") = "credit" /\ nextPhase("credit") = "activate"
  /\ nextPhase("activate") = "register" /\ nextPhase("register") = "lookup"
  /\ nextPhase("lookup") = "intent" /\ nextPhase("intent") = "agree"
  /\ nextPhase("agree") = "preimage" /\ nextPhase("preimage") = "commit"
  /\ nextPhase("commit") = "audit" /\ nextPhase("audit") = "ceremony"
  /\ nextPhase("ceremony") = "quorum" /\ nextPhase("quorum") = "consent"
  /\ nextPhase("consent") = "bind" /\ nextPhase("bind") = "readback"
  /\ nextPhase("readback") = "replay" /\ nextPhase("replay") = "finish"
  /\ nextPhase("finish") = "done"
BY PhaseList, PhaseIndices DEF nextPhase

\* The phases, by name.
LEMMA PhaseSet ==
  PhaseNames = {"preflight", "provision", "deploy", "issuer", "configure", "authorize",
                "serve", "create", "mint", "credit", "activate", "register",
                "lookup", "intent", "agree", "preimage", "commit", "audit",
                "ceremony", "quorum", "consent", "bind", "readback", "replay",
                "finish"}
<1>1. PhaseNames = {Phases[i].name : i \in 1..25}
  BY PhaseList DEF PhaseNames
<1> QED
  BY <1>1, PhaseList, Places

\* A state is reported when the phases behind it are over.
LEMMA Reported ==
  ASSUME NEW p \in PhaseNames
  PROVE  /\ nextPhase(p) \in PhaseNames \cup {"done"}
         /\ stateOf(p) # "none" =>
              LET n == rank(stateOf(p)) IN
                /\ n >= rank("ANCHORED") => nextPhase(p) \in AfterActivate
                /\ n >= rank("SOURCE_REGISTERED") => nextPhase(p) \in AfterRegister
                /\ n >= rank("COMMITTED") => nextPhase(p) \in AfterCommit
                /\ n >= rank("BOUND") => nextPhase(p) \in AfterBind
<1>1. nextPhase(p) \in PhaseNames \cup {"done"}
  BY PhaseSet, PhaseOrder
<1>2. CASE p \in {"preflight", "provision", "deploy", "issuer", "configure", "authorize", "serve", "create", "mint", "credit"}
  BY <1>1, <1>2, PhaseIndices, ReportList, ReportRanks DEF stateOf
<1>3. CASE p \in {"activate", "register", "lookup", "intent", "agree", "preimage"}
  BY <1>1, <1>3, PhaseIndices, ReportList, ReportRanks, PhaseOrder
     DEF stateOf, AfterActivate, AfterRegister, WithSession
<1>4. CASE p \in {"commit", "audit", "ceremony", "quorum", "consent"}
  BY <1>1, <1>4, PhaseIndices, ReportList, ReportRanks, PhaseOrder
     DEF stateOf, AfterActivate, AfterRegister, WithSession, AfterCommit
<1>5. CASE p \in {"bind", "readback", "replay", "finish"}
  BY <1>1, <1>5, PhaseIndices, ReportList, ReportRanks, PhaseOrder
     DEF stateOf, AfterActivate, AfterRegister, WithSession, AfterCommit, AfterBind
<1> QED
  BY <1>2, <1>3, <1>4, <1>5, PhaseSet

-----------------------------------------------------------------------------
\* The chain only grows.

\* No transaction is lost, and none that succeeded changes.
Grows ==
  /\ DOMAIN txs \subseteq DOMAIN txs'
  /\ \A i \in DOMAIN txs :
       /\ txs'[i].key = txs[i].key /\ txs'[i].result = txs[i].result
       /\ txs[i].status = "success" => txs'[i].status = "success"

\* What is on the chain stays there.
LEMMA Stays ==
  ASSUME Grows
  PROVE  /\ \A k : applied(k) => applied(k)'
         /\ \A s : committed(s) => committed(s)'
         /\ \A s, r : boundAs(s, r) => boundAs(s, r)'
<1>1. \A k : applied(k) => applied(k)'
  BY DEF Grows, applied
<1>2. \A s : committed(s) => committed(s)'
  BY DEF Grows, applied, committed
<1>3. bindings \subseteq bindings'
  BY DEF Grows, bindings
<1>4. \A s, r : boundAs(s, r) => boundAs(s, r)'
  <2> SUFFICES ASSUME NEW s, NEW r, boundAs(s, r)
               PROVE  boundAs(s, r)'
    OBVIOUS
  <2>1. PICK i \in bindings : txs[i].key.session = s /\ txs[i].result = r
    BY DEF boundAs
  <2>2. i \in DOMAIN txs
    BY <2>1 DEF bindings
  <2>3. i \in bindings' /\ txs'[i].key.session = s /\ txs'[i].result = r
    BY <1>3, <2>1, <2>2 DEF Grows
  <2> QED
    BY <2>3 DEF boundAs
<1> QED
  BY <1>1, <1>2, <1>4

\* A phase that could begin still can.
LEMMA StaysReady ==
  ASSUME Grows, NEW p, NEW m, Ready(p, m)
  PROVE  Ready(p, m)'
BY Stays DEF Ready

\* An evidence file that was true still is.
LEMMA StaysTrue ==
  ASSUME Grows, EvidenceIsTrue, evidence' = evidence
  PROVE  EvidenceIsTrue'
BY Stays DEF EvidenceIsTrue

-----------------------------------------------------------------------------
\* How a phase ends.

\* The types of what outlives the runner.
DiskOK ==
  /\ now \in 0..MaxTime
  /\ born \in [Sessions -> 0..MaxTime]
  /\ journal \in [steps : [Keys -> Entry], sessions : SUBSET Sessions]
  /\ identity \in {"none", "torn", "whole"}
  /\ ceremonyFile \in [Sessions -> Results \cup {None}]
  /\ faults \in 0..MaxFaults

\* A step that leaves chain and disk alone keeps what is said of them.
LEMMA SameDisk ==
  ASSUME MatchInv, UNCHANGED <<now, txs, born, journal, identity, ceremonyFile, faults>>
  PROVE  DiskOK' /\ Named'
BY DEF MatchInv, TypeOK, DiskOK, Named

\* The facts about the chain are about its transactions and the relayer.
LEMMA SameChain ==
  ASSUME MatchInv, txs' = txs, relays' = relays
  PROVE  /\ Chain' /\ RecordedIsNotResent' /\ Grows
         /\ \A i \in DOMAIN txs' : txs'[i] \in Tx
<1>1. Chain'
  BY DEF MatchInv, Chain, bindings, committed, applied
<1>2. RecordedIsNotResent'
  BY DEF MatchInv, RecordedIsNotResent
<1>3. Grows
  BY DEF Grows
<1>4. \A i \in DOMAIN txs' : txs'[i] \in Tx
  BY DEF MatchInv, TypeOK, Tx
<1> QED
  BY <1>1, <1>2, <1>3, <1>4

\* A phase that ends with what the next one needs keeps the invariant.
LEMMA GoesOn ==
  ASSUME MatchInv, NEW p \in PhaseNames, NEW m \in Memory, goOn(p, m),
         txs' = txs, relays' = relays, DiskOK', Named',
         Ready(nextPhase(p), m), Fresh(nextPhase(p), m)'
  PROVE  MatchInv'
<1>1. pc' = [phase |-> nextPhase(p), stage |-> "step"]
  BY DEF goOn, nextPhase
<1>2. mem' = [m EXCEPT !.tx = None]
  BY DEF goOn
<1>3. mem' \in Memory /\ mem'.session = m.session /\ mem'.result = m.result
  BY <1>2 DEF Memory, None
<1>4. evidence' = IF stateOf(p) = "none" THEN evidence
                  ELSE [state |-> stateOf(p), session |-> m.session, result |-> m.result]
  BY DEF goOn, reached, stateOf
<1>5. phaseIndex(p) \in DOMAIN Phases
  BY PhaseSet, PhaseIndices, PhaseList
<1>6. evidence' \in [state : {"none"} \cup {Phases[i].reports : i \in DOMAIN Phases},
                     session : Sessions \cup {None}, result : Results \cup {None}]
  <2>1. CASE stateOf(p) = "none"
    BY <1>4, <2>1 DEF MatchInv, TypeOK
  <2>2. CASE stateOf(p) # "none"
    <3>1. stateOf(p) \in {Phases[i].reports : i \in DOMAIN Phases}
      BY <1>5 DEF stateOf
    <3>2. m.session \in Sessions \cup {None} /\ m.result \in Results \cup {None}
      BY DEF Memory
    <3> QED
      BY <1>4, <2>2, <3>1, <3>2
  <2> QED
    BY <2>1, <2>2
<1>7. TypeOK'
  <2>1. pc' \in [phase : PhaseNames \cup {"down", "done"}, stage : {"step", "sent", "wait"}]
    BY <1>1, Reported
  <2>2. relays' \subseteq Sessions
    BY DEF MatchInv, TypeOK
  <2> QED
    BY <1>3, <1>6, <2>1, <2>2, SameChain DEF DiskOK, TypeOK, Tx, Memory
<1>8. Ready(nextPhase(p), m)'
  BY SameChain, StaysReady
<1>9. Ready(pc.phase, mem)' /\ (pc'.stage = "step" => Fresh(pc.phase, mem)')
  BY <1>1, <1>3, <1>8 DEF Ready, Fresh, committed, boundAs, unsent
<1>10. InFlight'
  BY <1>1 DEF InFlight
<1>11. EvidenceIsTrue'
  <2>1. CASE stateOf(p) = "none"
    BY <1>4, <2>1, SameChain, StaysTrue DEF MatchInv
  <2>2. CASE stateOf(p) # "none"
    <3> DEFINE n == rank(stateOf(p))
    <3>1. /\ n >= rank("ANCHORED") => nextPhase(p) \in AfterActivate
          /\ n >= rank("SOURCE_REGISTERED") => nextPhase(p) \in AfterRegister
          /\ n >= rank("COMMITTED") => nextPhase(p) \in AfterCommit
          /\ n >= rank("BOUND") => nextPhase(p) \in AfterBind
      BY <2>2, Reported
    <3>2. evidence'.state = stateOf(p) /\ evidence'.session = m.session /\ evidence'.result = m.result
      BY <1>4, <2>2
    <3>3. /\ nextPhase(p) \in AfterActivate => applied(global("activate"))'
          /\ nextPhase(p) \in AfterRegister => applied(global("register"))'
          /\ nextPhase(p) \in AfterCommit => committed(m.session)'
          /\ nextPhase(p) \in AfterBind => boundAs(m.session, m.result)'
      BY <1>8 DEF Ready
    <3> HIDE DEF n
    <3>4. rank(evidence'.state) = n
      BY <3>2 DEF n
    <3>5. rank(evidence.state)' = rank(evidence'.state)
      BY DEF rank
    <3> QED
      BY <3>1, <3>2, <3>3, <3>4, <3>5 DEF EvidenceIsTrue, global, committed, boundAs
  <2> QED
    BY <2>1, <2>2
<1> QED
  BY <1>7, <1>9, <1>10, <1>11, SameChain DEF MatchInv

\* An error keeps the invariant.
LEMMA Fails ==
  ASSUME MatchInv, fail, txs' = txs, relays' = relays, DiskOK', Named'
  PROVE  MatchInv'
<1>1. pc' = [phase |-> "down", stage |-> "step"] /\ mem' = NoMem /\ evidence' = evidence
  BY DEF fail
<1>2. mem' \in Memory
  BY <1>1 DEF NoMem, Memory, None
<1>3. TypeOK'
  BY <1>1, <1>2, SameChain DEF MatchInv, TypeOK, DiskOK, Tx, Memory
<1>4. Ready(pc.phase, mem)' /\ Fresh(pc.phase, mem)' /\ InFlight'
  BY <1>1 DEF Ready, Fresh, InFlight, AfterActivate, AfterRegister, WithSession, AfterCommit, AfterBind
<1>5. EvidenceIsTrue'
  BY <1>1, SameChain, StaysTrue DEF MatchInv
<1> QED
  BY <1>3, <1>4, <1>5, SameChain DEF MatchInv

-----------------------------------------------------------------------------
\* The phases that send nothing.

\* A phase that only reads keeps the invariant when the next one is ready.
LEMMA Quiet ==
  ASSUME MatchInv, NEW p \in PhaseNames, NEW m \in Memory, goOn(p, m),
         KeepDisk, KeepChain, KeepRest,
         Ready(nextPhase(p), m), Fresh(nextPhase(p), m)
  PROVE  MatchInv'
<1>1. txs' = txs /\ relays' = relays /\ journal' = journal
  BY DEF KeepDisk, KeepChain, KeepRest
<1>2. DiskOK' /\ Named'
  BY SameDisk DEF KeepDisk, KeepChain, KeepRest
<1>3. Fresh(nextPhase(p), m)'
  BY <1>1 DEF Fresh, unsent
<1> QED
  BY <1>1, <1>2, <1>3, GoesOn

\* An error of a phase that only reads keeps the invariant.
LEMMA QuietFailure ==
  ASSUME MatchInv, fail, KeepDisk, KeepChain, KeepRest
  PROVE  MatchInv'
<1>1. txs' = txs /\ relays' = relays
  BY DEF KeepChain, KeepRest
<1>2. DiskOK' /\ Named'
  BY SameDisk DEF KeepDisk, KeepChain, KeepRest
<1> QED
  BY <1>1, <1>2, Fails

\* What a phase that starts knows.
LEMMA AtPhase ==
  ASSUME MatchInv, NEW p, at(p), NEW m, m = mem
  PROVE  Ready(p, m) /\ Fresh(p, m) /\ m \in Memory
<1>1. pc.phase = p /\ pc.stage = "step"
  BY DEF at
<1> QED
  BY <1>1 DEF MatchInv, TypeOK, Memory, Ready, Fresh

\* The phases that need no more than the one before.
LEMMA PlainPhases ==
  ASSUME MatchInv,
         preflight \/ serve \/ lookup \/ agreeOnCommitment \/ auditPublicMetadata \/ complete
  PROVE  MatchInv'
<1> PICK m : m = mem
  OBVIOUS
<1> USE DEF AfterActivate, AfterRegister, WithSession, AfterCommit, AfterBind
<1>1. CASE preflight
  <2>1. at("preflight") /\ goOn("preflight", m) /\ KeepDisk /\ KeepChain /\ KeepRest
    BY <1>1 DEF preflight, goOn, reached
  <2>2. m \in Memory /\ "preflight" \in PhaseNames
    BY <2>1, AtPhase, PhaseSet
  <2>3. Ready(nextPhase("preflight"), m) /\ Fresh(nextPhase("preflight"), m)
    BY PhaseOrder DEF Ready, Fresh
  <2> QED
    BY <2>1, <2>2, <2>3, Quiet
<1>2. CASE serve
  <2>1. at("serve") /\ goOn("serve", m) /\ KeepDisk /\ KeepChain /\ KeepRest
    BY <1>2 DEF serve, goOn, reached
  <2>2. m \in Memory /\ "serve" \in PhaseNames
    BY <2>1, AtPhase, PhaseSet
  <2>3. Ready(nextPhase("serve"), m) /\ Fresh(nextPhase("serve"), m)
    BY PhaseOrder DEF Ready, Fresh
  <2> QED
    BY <2>1, <2>2, <2>3, Quiet
<1>3. CASE lookup
  <2>1. at("lookup") /\ goOn("lookup", m) /\ KeepDisk /\ KeepChain /\ KeepRest
    BY <1>3 DEF lookup, goOn, reached
  <2>2. m \in Memory /\ "lookup" \in PhaseNames /\ Ready("lookup", m)
    BY <2>1, AtPhase, PhaseSet
  <2>3. Ready(nextPhase("lookup"), m) /\ Fresh(nextPhase("lookup"), m)
    BY <2>2, PhaseOrder DEF Ready, Fresh
  <2> QED
    BY <2>1, <2>2, <2>3, Quiet
<1>4. CASE agreeOnCommitment
  <2>1. at("agree") /\ goOn("agree", m) /\ KeepDisk /\ KeepChain /\ KeepRest
    BY <1>4 DEF agreeOnCommitment, goOn, reached
  <2>2. m \in Memory /\ "agree" \in PhaseNames /\ Ready("agree", m) /\ Fresh("agree", m)
    BY <2>1, AtPhase, PhaseSet
  <2>3. Ready(nextPhase("agree"), m) /\ Fresh(nextPhase("agree"), m)
    BY <2>2, PhaseOrder DEF Ready, Fresh
  <2> QED
    BY <2>1, <2>2, <2>3, Quiet
<1>5. CASE auditPublicMetadata
  <2>1. at("audit") /\ goOn("audit", m) /\ KeepDisk /\ KeepChain /\ KeepRest
    BY <1>5 DEF auditPublicMetadata, goOn, reached
  <2>2. m \in Memory /\ "audit" \in PhaseNames /\ Ready("audit", m)
    BY <2>1, AtPhase, PhaseSet
  <2>3. Ready(nextPhase("audit"), m) /\ Fresh(nextPhase("audit"), m)
    BY <2>2, PhaseOrder DEF Ready, Fresh
  <2> QED
    BY <2>1, <2>2, <2>3, Quiet
<1>6. CASE complete
  <2>1. at("finish") /\ goOn("finish", m) /\ KeepDisk /\ KeepChain /\ KeepRest
    BY <1>6 DEF complete, goOn, reached
  <2>2. m \in Memory /\ "finish" \in PhaseNames /\ Ready("finish", m)
    BY <2>1, AtPhase, PhaseSet
  <2>3. Ready(nextPhase("finish"), m) /\ Fresh(nextPhase("finish"), m)
    BY <2>2, PhaseOrder DEF Ready, Fresh
  <2> QED
    BY <2>1, <2>2, <2>3, Quiet
<1> QED
  BY <1>1, <1>2, <1>3, <1>4, <1>5, <1>6

\* The phases that check something, and may fail.
LEMMA CheckingPhases ==
  ASSUME MatchInv, signQuorum \/ signConsents \/ performReadbacks \/ runReplays
  PROVE  MatchInv'
<1>1. CASE signQuorum
  <2>1. CASE review(mem.session, now + ResultTtl)
    <3> PICK o : o = mem
      OBVIOUS
    <3> PICK m : m = [mem EXCEPT !.until = now + ResultTtl]
      OBVIOUS
    <3>1. at("quorum") /\ goOn("quorum", m) /\ KeepDisk /\ KeepChain /\ KeepRest
      BY <1>1, <2>1 DEF signQuorum, goOn, reached
    <3>2. o \in Memory /\ "quorum" \in PhaseNames /\ Ready("quorum", o)
      BY <3>1, AtPhase, PhaseSet
    <3>3. now + ResultTtl \in Nat
      BY TtlAssumption DEF MatchInv, TypeOK
    <3>4. m \in Memory /\ m.session = o.session /\ m.result = o.result
      BY <3>2, <3>3 DEF Memory
    <3>5. Ready(nextPhase("quorum"), m) /\ Fresh(nextPhase("quorum"), m)
      BY <3>2, <3>4, PhaseOrder
         DEF Ready, Fresh, AfterActivate, AfterRegister, WithSession, AfterCommit, AfterBind
    <3> QED
      BY <3>1, <3>2, <3>4, <3>5, Quiet
  <2>2. CASE ~review(mem.session, now + ResultTtl)
    BY <1>1, <2>2, QuietFailure DEF signQuorum
  <2> QED
    BY <2>1, <2>2
<1>2. CASE signConsents
  <2>1. CASE reviewConsent
    <3> PICK m : m = mem
      OBVIOUS
    <3>1. at("consent") /\ goOn("consent", m) /\ KeepDisk /\ KeepChain /\ KeepRest
      BY <1>2, <2>1 DEF signConsents, goOn, reached
    <3>2. m \in Memory /\ "consent" \in PhaseNames /\ Ready("consent", m)
      BY <3>1, AtPhase, PhaseSet
    <3>3. Ready(nextPhase("consent"), m) /\ Fresh(nextPhase("consent"), m)
      BY <3>2, PhaseOrder
         DEF Ready, Fresh, AfterActivate, AfterRegister, WithSession, AfterCommit, AfterBind
    <3> QED
      BY <3>1, <3>2, <3>3, Quiet
  <2>2. CASE ~reviewConsent
    BY <1>2, <2>2, QuietFailure DEF signConsents
  <2> QED
    BY <2>1, <2>2
<1>3. CASE performReadbacks
  <2>1. CASE boundAs(mem.session, mem.result)
    <3> PICK m : m = mem
      OBVIOUS
    <3>1. at("readback") /\ goOn("readback", m) /\ KeepDisk /\ KeepChain /\ KeepRest
      BY <1>3, <2>1 DEF performReadbacks, goOn, reached
    <3>2. m \in Memory /\ "readback" \in PhaseNames /\ Ready("readback", m)
      BY <3>1, AtPhase, PhaseSet
    <3>3. Ready(nextPhase("readback"), m) /\ Fresh(nextPhase("readback"), m)
      BY <3>2, PhaseOrder
         DEF Ready, Fresh, AfterActivate, AfterRegister, WithSession, AfterCommit, AfterBind
    <3> QED
      BY <3>1, <3>2, <3>3, Quiet
  <2>2. CASE ~boundAs(mem.session, mem.result)
    BY <1>3, <2>2, QuietFailure DEF performReadbacks
  <2> QED
    BY <2>1, <2>2
<1>4. CASE runReplays
  <2>1. CASE bindings # {}
    <3> PICK m : m = mem
      OBVIOUS
    <3>1. at("replay") /\ goOn("replay", m) /\ KeepDisk /\ KeepChain /\ KeepRest
      BY <1>4, <2>1 DEF runReplays, goOn, reached
    <3>2. m \in Memory /\ "replay" \in PhaseNames /\ Ready("replay", m)
      BY <3>1, AtPhase, PhaseSet
    <3>3. Ready(nextPhase("replay"), m) /\ Fresh(nextPhase("replay"), m)
      BY <3>2, PhaseOrder
         DEF Ready, Fresh, AfterActivate, AfterRegister, WithSession, AfterCommit, AfterBind
    <3> QED
      BY <3>1, <3>2, <3>3, Quiet
  <2>2. CASE bindings = {}
    BY <1>4, <2>2, QuietFailure DEF runReplays
  <2> QED
    BY <2>1, <2>2
<1> QED
  BY <1>1, <1>2, <1>3, <1>4

-----------------------------------------------------------------------------
\* The session a run goes on with.

\* Every non-empty set of naturals has a least element.
LEMMA LeastNat ==
  ASSUME NEW T \in SUBSET Nat, T # {}
  PROVE  \E x \in T : \A y \in T : x <= y
<1> DEFINE D == {1..n : n \in T}
<1>1. \A n \in T : IsFiniteSet(1..n) /\ 1..n \in SUBSET Nat
  <2> TAKE n \in T
  <2>1. n \in Int /\ 1 \in Int
    OBVIOUS
  <2>2. IsFiniteSet(1..n)
    BY <2>1, FS_Interval
  <2> QED
    BY <2>1, <2>2
<1>2. D \subseteq FiniteSubsetsOf(Nat) /\ D # {}
  BY <1>1 DEF FiniteSubsetsOf
<1>3. PICK d \in D : \A e \in D : ~(<<e, d>> \in StrictSubsetOrdering(Nat))
  <2>1. IsWellFoundedOn(StrictSubsetOrdering(Nat), FiniteSubsetsOf(Nat))
    BY FS_StrictSubsetOrderingWellFounded
  <2> HIDE DEF D
  <2> QED
    BY <1>2, <2>1, WFMin
<1>4. PICK x \in T : d = 1..x
  OBVIOUS
<1>5. ASSUME NEW y \in T, y < x
      PROVE  FALSE
  <2>1. 1..y \in SUBSET Nat /\ 1..x \in SUBSET Nat
    BY <1>1
  <2>2. 1..y \subseteq 1..x /\ x \in 1..x /\ x \notin 1..y
    BY <1>5
  <2>3. <<1..y, 1..x>> \in StrictSubsetOrdering(Nat)
    BY <2>1, <2>2 DEF StrictSubsetOrdering
  <2> QED
    BY <1>3, <1>4, <2>3
<1>6. x \in Nat /\ \A y \in T : y \in Nat /\ ~(y < x)
  BY <1>5
<1>7. \A y \in T : x <= y
  BY <1>6
<1> QED
  BY <1>7

\* The least member of a set is one of its members.
LEMMA LeastIsMember ==
  ASSUME NEW S, S \subseteq Nat, S # {}
  PROVE  least(S) \in S
BY LeastNat DEF least

\* A transaction the journal has as settled took effect.
LEMMA SettledApplied ==
  ASSUME MatchInv, NEW k \in Keys, journal.steps[k].status = "success"
  PROVE  applied(k)
BY DEF MatchInv, Named, applied

\* The key of a phase, for the memory the runner has.
LEMMA KeyOfPhase ==
  ASSUME NEW p \in Sending, NEW m \in Memory, m = mem, p \in {"commit", "bind"} => m.session \in Sessions
  PROVE  /\ keyOf(p) \in Keys
         /\ keyOf(p).kind = p
         /\ p \in ChainPhases => keyOf(p) = global(p)
         /\ p = "commit" => keyOf(p) = commitOf(m.session)
         /\ p = "bind" => keyOf(p) = bindOf(m.session)
BY DEF Sending, ChainPhases, keyOf, Keys, global, commitOf, bindOf

\* A session is resumed or signed for the first time.
LEMMA SignIntentStep ==
  ASSUME MatchInv, signIntent
  PROVE  MatchInv'
<1> PICK o : o = mem
  OBVIOUS
<1>1. at("intent") /\ KeepDisk /\ now' = now /\ txs' = txs /\ KeepRest
  BY DEF signIntent
<1>2. o \in Memory /\ "intent" \in PhaseNames /\ Ready("intent", o)
  BY <1>1, AtPhase, PhaseSet
<1>3. Sessions \subseteq Nat /\ journal.sessions \subseteq Sessions
  BY TtlAssumption DEF MatchInv, TypeOK
<1>4. ASSUME NEW s \in Sessions, NEW m, m = [o EXCEPT !.session = s], goOn("intent", m), DiskOK',
             journal.steps[commitOf(s)].status = "success" \/ unsent(s)
      PROVE  MatchInv'
  <2>1. m \in Memory /\ m.session = s
    BY <1>2, <1>4 DEF Memory
  <2>2. Ready(nextPhase("intent"), m)
    BY <1>2, <2>1, PhaseOrder
       DEF Ready, AfterActivate, AfterRegister, WithSession, AfterCommit, AfterBind
  <2>3. Fresh(nextPhase("intent"), m)'
    BY <1>1, <1>4, <2>1 DEF Fresh, unsent, KeepDisk, KeepRest
  <2>4. Named' /\ relays' = relays
    BY <1>1 DEF MatchInv, Named, KeepDisk, KeepRest
  <2> QED
    BY <1>1, <1>2, <1>4, <2>1, <2>2, <2>3, <2>4, GoesOn
<1>5. CASE findResumableSession # {}
  <2>1. PICK s : s = least(findResumableSession)
    OBVIOUS
  <2>2. findResumableSession \subseteq journal.sessions
    BY DEF findResumableSession
  <2>3. s \in findResumableSession
    BY <1>3, <1>5, <2>1, <2>2, LeastIsMember
  <2>4. s \in Sessions /\ journal.steps[commitOf(s)].status = "success"
    BY <1>3, <2>3 DEF findResumableSession, commitOf
  <2>5. PICK m : m = [o EXCEPT !.session = s]
    OBVIOUS
  <2>6. goOn("intent", m) /\ born' = born
    BY <1>5, <2>1, <2>5 DEF signIntent, goOn, reached
  <2>7. DiskOK'
    BY <1>1, <2>6, SameDisk DEF KeepDisk, KeepRest
  <2> QED
    BY <1>4, <2>4, <2>5, <2>6, <2>7
<1>6. CASE findResumableSession = {}
  <2>1. PICK s : s = least(freshSessions)
    OBVIOUS
  <2>2. freshSessions \subseteq Sessions /\ freshSessions # {}
    BY <1>6 DEF freshSessions, signIntent
  <2>3. s \in freshSessions
    BY <1>3, <2>1, <2>2, LeastIsMember
  <2>4. s \in Sessions /\ unsent(s)
    BY <2>3 DEF freshSessions, unsent, commitOf
  <2>5. PICK m : m = [o EXCEPT !.session = s]
    OBVIOUS
  <2>6. goOn("intent", m) /\ born' = [born EXCEPT ![s] = now]
    BY <1>6, <2>1, <2>5 DEF signIntent, goOn, reached
  <2>7. DiskOK'
    BY <1>1, <2>4, <2>6 DEF MatchInv, TypeOK, DiskOK, KeepDisk, KeepRest
  <2> QED
    BY <1>4, <2>4, <2>5, <2>6, <2>7
<1> QED
  BY <1>5, <1>6

\* The preimage is written down.
LEMMA RecordPreimageStep ==
  ASSUME MatchInv, recordPreimage
  PROVE  MatchInv'
<1> PICK m : m = mem
  OBVIOUS
<1>1. at("preimage") /\ goOn("preimage", m) /\ KeepChain /\ KeepRest
      /\ journal' = [journal EXCEPT !.sessions = @ \cup {m.session}]
      /\ UNCHANGED <<identity, ceremonyFile>>
  BY DEF recordPreimage, goOn, reached
<1>2. m \in Memory /\ "preimage" \in PhaseNames /\ Ready("preimage", m) /\ Fresh("preimage", m)
  BY <1>1, AtPhase, PhaseSet
<1>3. m.session \in Sessions
  BY <1>2 DEF Ready, WithSession
<1>4. journal'.steps = journal.steps /\ journal' \in [steps : [Keys -> Entry], sessions : SUBSET Sessions]
  BY <1>1, <1>3 DEF MatchInv, TypeOK
<1>5. DiskOK'
  BY <1>1, <1>4 DEF MatchInv, TypeOK, DiskOK, KeepChain, KeepRest
<1>6. Named' /\ txs' = txs /\ relays' = relays
  BY <1>1, <1>4 DEF MatchInv, Named, KeepChain, KeepRest
<1>7. Ready(nextPhase("preimage"), m)
  BY <1>2, PhaseOrder DEF Ready, AfterActivate, AfterRegister, WithSession, AfterCommit, AfterBind
<1>8. Fresh(nextPhase("preimage"), m)'
  BY <1>2, <1>4, <1>6 DEF Fresh, unsent
<1> QED
  BY <1>1, <1>2, <1>5, <1>6, <1>7, <1>8, GoesOn

\* A ceremony gives the session its result.
LEMMA RunCeremonyStep ==
  ASSUME MatchInv, runCeremony
  PROVE  MatchInv'
<1> PICK o : o = mem
  OBVIOUS
<1>1. PICK r : r = least(freshResults)
  OBVIOUS
<1>2. PICK m : m = [o EXCEPT !.result = r]
  OBVIOUS
<1>3. at("ceremony") /\ goOn("ceremony", m) /\ KeepChain /\ KeepRest
      /\ ceremonyFile' = [ceremonyFile EXCEPT ![o.session] = r]
      /\ UNCHANGED <<journal, identity>>
  BY <1>1, <1>2 DEF runCeremony, goOn, reached
<1>4. o \in Memory /\ "ceremony" \in PhaseNames /\ Ready("ceremony", o)
  BY <1>3, AtPhase, PhaseSet
<1>5. r \in Results
  <2>1. freshResults \subseteq Results /\ freshResults # {}
    BY DEF freshResults, runCeremony
  <2>2. freshResults \subseteq Nat
    BY <2>1, TtlAssumption
  <2> QED
    BY <1>1, <2>1, <2>2, LeastIsMember
<1>6. m \in Memory /\ m.session = o.session
  BY <1>2, <1>4, <1>5 DEF Memory
<1>7. DiskOK'
  BY <1>3, <1>5 DEF MatchInv, TypeOK, DiskOK, KeepChain, KeepRest
<1>8. Named' /\ txs' = txs /\ relays' = relays
  BY <1>3 DEF MatchInv, Named, KeepChain, KeepRest
<1>9. Ready(nextPhase("ceremony"), m) /\ Fresh(nextPhase("ceremony"), m)'
  BY <1>4, <1>6, PhaseOrder
     DEF Ready, Fresh, AfterActivate, AfterRegister, WithSession, AfterCommit, AfterBind
<1> QED
  BY <1>3, <1>4, <1>6, <1>7, <1>8, <1>9, GoesOn

\* A bound session is observed from what its binding says.
LEMMA FinishFromBindingStep ==
  ASSUME MatchInv, finishFromBinding
  PROVE  MatchInv'
<1> PICK o : o = mem
  OBVIOUS
<1>1. PICK s : s = least(findBoundSession)
  OBVIOUS
<1>2. PICK r : r = recoverBoundSession(s)
  OBVIOUS
<1>3. at("lookup") /\ KeepDisk /\ KeepChain /\ KeepRest
  BY DEF finishFromBinding
<1>4. CASE ceremonyFile[s] = r
  <2>1. PICK m : m = [o EXCEPT !.session = s, !.result = r]
    OBVIOUS
  <2>2. goOn("bind", m)
    BY <1>1, <1>2, <1>4, <2>1 DEF finishFromBinding, goOn, reached
  <2>3. o \in Memory /\ "bind" \in PhaseNames /\ Ready("lookup", o)
    BY <1>3, AtPhase, PhaseSet
  <2>4. s \in Sessions /\ journal.steps[bindOf(s)].status = "success"
    <3>1. findBoundSession \subseteq Sessions /\ findBoundSession # {}
      BY DEF finishFromBinding, findBoundSession
    <3>2. findBoundSession \subseteq Nat
      BY <3>1, TtlAssumption
    <3>3. s \in findBoundSession
      BY <1>1, <3>1, <3>2, LeastIsMember
    <3> QED
      BY <3>3 DEF findBoundSession, bindOf
  <2>5. PICK i : i = journal.steps[bindOf(s)].tx
    OBVIOUS
  <2>6. bindOf(s) \in Keys
    BY <2>4 DEF bindOf, Keys
  <2>7. i \in DOMAIN txs /\ txs[i].key = bindOf(s) /\ txs[i].status = "success" /\ txs[i].result = r
    BY <1>2, <2>4, <2>5, <2>6 DEF MatchInv, Named, recoverBoundSession, bindOf
  <2>8. i \in bindings /\ txs[i].key.session = s
    BY <2>7 DEF bindings, bindOf
  <2>9. committed(s) /\ boundAs(s, r)
    BY <2>7, <2>8 DEF MatchInv, Chain, boundAs
  <2>10. r \in Results \cup {None}
    BY <2>7 DEF MatchInv, TypeOK
  <2>11. m \in Memory /\ m.session = s /\ m.result = r
    BY <2>1, <2>3, <2>4, <2>10 DEF Memory
  <2>12. Ready(nextPhase("bind"), m) /\ Fresh(nextPhase("bind"), m)
    BY <2>3, <2>4, <2>9, <2>11, PhaseOrder
       DEF Ready, Fresh, AfterActivate, AfterRegister, WithSession, AfterCommit, AfterBind
  <2> QED
    BY <1>3, <2>2, <2>3, <2>11, <2>12, Quiet
<1>5. CASE ceremonyFile[s] # r
  <2>1. fail
    BY <1>1, <1>2, <1>5 DEF finishFromBinding
  <2> QED
    BY <1>3, <2>1, QuietFailure
<1> QED
  BY <1>4, <1>5

-----------------------------------------------------------------------------
\* The phases that send a transaction.

\* A phase whose transaction took effect leaves the next one ready.
LEMMA NextReady ==
  ASSUME NEW p \in Sending, NEW m, Ready(p, m),
         p = "activate" => applied(global("activate")),
         p = "register" => applied(global("register")),
         p = "commit" => committed(m.session),
         p = "bind" => boundAs(m.session, m.result)
  PROVE  /\ Ready(nextPhase(p), m)
         /\ nextPhase(p) \notin {"agree", "preimage", "commit"}
         /\ p \in PhaseNames
<1> USE DEF AfterActivate, AfterRegister, WithSession, AfterCommit, AfterBind
<1>1. CASE p \in {"deploy", "issuer", "configure", "authorize", "create", "mint", "credit"}
  BY <1>1, PhaseOrder, PhaseSet DEF Ready
<1>2. CASE p \in {"activate", "register"}
  BY <1>2, PhaseOrder, PhaseSet DEF Ready
<1>3. CASE p = "commit"
  BY <1>3, PhaseOrder, PhaseSet DEF Ready
<1>4. CASE p = "bind"
  BY <1>4, PhaseOrder, PhaseSet DEF Ready
<1> QED
  BY <1>1, <1>2, <1>3, <1>4 DEF Sending, ChainPhases

\* A settled transaction is not sent again, and the phase ends.
LEMMA ReplayStep ==
  ASSUME MatchInv, NEW p \in Sending \ {"bind"}, NEW m \in Memory,
         m.session = mem.session, m.result = mem.result, replay(p, m),
         p = "activate" => applied(global("activate")),
         p = "register" => applied(global("register")),
         p = "commit" => committed(m.session)
  PROVE  MatchInv'
<1>1. at(p) /\ goOn(p, m) /\ KeepDisk /\ KeepChain /\ KeepRest
  BY DEF replay
<1>2. Ready(p, m)
  <2> PICK o : o = mem
    OBVIOUS
  <2>1. Ready(p, o)
    BY <1>1, AtPhase
  <2> QED
    BY <2>1 DEF Ready
<1>3. Ready(nextPhase(p), m) /\ nextPhase(p) \notin {"agree", "preimage", "commit"} /\ p \in PhaseNames
  BY <1>2, NextReady
<1>4. Fresh(nextPhase(p), m)
  BY <1>3 DEF Fresh
<1> QED
  BY <1>1, <1>3, <1>4, Quiet

\* A transaction under a key without a hash joins the chain.
LEMMA Appended ==
  ASSUME MatchInv, NEW t \in Tx, txs' = Append(txs, t), journal' = journal,
         t.status = "pending", t.noted = FALSE, journal.steps[t.key].status = "none"
  PROVE  /\ DOMAIN txs' = DOMAIN txs \cup {Len(txs) + 1}
         /\ DOMAIN txs = 1..Len(txs) /\ Len(txs) \in Nat
         /\ txs'[Len(txs) + 1] = t
         /\ \A i \in DOMAIN txs : txs'[i] = txs[i]
         /\ txs' \in Seq(Tx)
         /\ Grows /\ Named' /\ RecordedIsNotResent'
         /\ (\A i \in bindings : committed(txs[i].key.session))'
<1>1. txs \in Seq(Tx)
  BY DEF MatchInv, Chain
<1>2. /\ DOMAIN txs' = DOMAIN txs \cup {Len(txs) + 1}
      /\ DOMAIN txs = 1..Len(txs) /\ Len(txs) \in Nat
      /\ txs'[Len(txs) + 1] = t
      /\ \A i \in DOMAIN txs : txs'[i] = txs[i]
      /\ txs' \in Seq(Tx)
  BY <1>1
<1>3. PICK n : n = Len(txs) + 1
  OBVIOUS
<1>4. /\ DOMAIN txs' = DOMAIN txs \cup {n} /\ txs'[n] = t
      /\ \A i \in DOMAIN txs : txs'[i] = txs[i] /\ i < n /\ i \in Nat
      /\ n \in Nat
  BY <1>2, <1>3
<1>5. Grows
  BY <1>4 DEF Grows
<1>6. Named'
  <2>1. ASSUME NEW k \in Keys, journal.steps[k].status # "none"
        PROVE  /\ journal.steps[k].tx \in DOMAIN txs' /\ txs'[journal.steps[k].tx].key = k
               /\ journal.steps[k].status = "success" => txs'[journal.steps[k].tx].status = "success"
    BY <1>4, <2>1 DEF MatchInv, Named
  <2>2. ASSUME NEW i \in DOMAIN txs', txs'[i].noted
        PROVE  journal.steps[txs'[i].key].status # "none"
    BY <1>4, <2>2 DEF MatchInv, Named
  <2> QED
    BY <2>1, <2>2 DEF Named
<1>7. RecordedIsNotResent'
  <2> SUFFICES ASSUME NEW i \in DOMAIN txs', NEW j \in DOMAIN txs', i < j, txs'[i].key = txs'[j].key
               PROVE  ~txs'[i].noted
    BY DEF RecordedIsNotResent
  <2>1. CASE j = n
    <3>1. i \in DOMAIN txs /\ txs[i].key = t.key
      BY <1>4, <2>1
    <3> QED
      BY <1>4, <3>1 DEF MatchInv, Named
  <2>2. CASE j # n
    BY <1>4, <2>2 DEF MatchInv, RecordedIsNotResent
  <2> QED
    BY <2>1, <2>2
<1>8. (\A i \in bindings : committed(txs[i].key.session))'
  <2> SUFFICES ASSUME NEW i \in bindings'
               PROVE  committed(txs[i].key.session)'
    OBVIOUS
  <2>1. i \in DOMAIN txs /\ i \in bindings /\ txs'[i] = txs[i]
    BY <1>4 DEF bindings
  <2>2. PICK s : s = txs[i].key.session
    OBVIOUS
  <2>3. committed(s)
    BY <2>1, <2>2 DEF MatchInv, Chain
  <2>4. committed(s)'
    BY <1>5, <2>3, Stays
  <2> QED
    BY <2>1, <2>2, <2>4 DEF committed
<1> QED
  BY <1>2, <1>5, <1>6, <1>7, <1>8

\* A phase sends its transaction, or fails.
LEMMA SendStep ==
  ASSUME MatchInv, NEW p \in Sending \ {"commit"}, send(p)
  PROVE  MatchInv'
<1> PICK o : o = mem
  OBVIOUS
<1> PICK t : t = newTx(p)
  OBVIOUS
<1>1. at(p) /\ KeepDisk /\ UNCHANGED <<now, born>> /\ KeepRest
  BY DEF send
<1>2. o \in Memory /\ Ready(p, o) /\ pc.phase = p /\ pc.stage = "step"
  BY <1>1, AtPhase DEF at
<1>3. p \in {"commit", "bind"} => o.session \in Sessions
  BY <1>2 DEF Ready, WithSession, AfterCommit
<1>4. PICK k : k = keyOf(p)
  OBVIOUS
<1>5. k \in Keys /\ k.kind = p
  BY <1>2, <1>3, <1>4, KeyOfPhase
<1>6. /\ t \in Tx /\ t.key = k /\ t.status = "pending" /\ t.noted = FALSE
      /\ p = "bind" => t.result = o.result
  <2>1. t = [key |-> k, result |-> IF p = "bind" THEN o.result ELSE None,
             until |-> IF p = "bind" THEN o.until ELSE 0, status |-> "pending", noted |-> FALSE]
    BY <1>4 DEF newTx
  <2>2. o.result \in Results \cup {None} /\ o.until \in Nat
    BY <1>2 DEF Memory
  <2> QED
    BY <1>5, <2>1, <2>2 DEF Tx
<1>7. CASE mayStep(keyOf(p)) /\ accepts(newTx(p))
  <2>1. /\ txs' = Append(txs, t) /\ mem' = [o EXCEPT !.tx = Len(txs) + 1]
        /\ pc' = [pc EXCEPT !.stage = "sent"] /\ evidence' = evidence
        /\ journal.steps[t.key].status = "none"
    BY <1>4, <1>6, <1>7 DEF send, mayStep
  <2>2. journal' = journal /\ relays' = relays
    BY <1>1 DEF KeepDisk, KeepRest
  <2>3. /\ DOMAIN txs' = DOMAIN txs \cup {Len(txs) + 1}
        /\ DOMAIN txs = 1..Len(txs) /\ Len(txs) \in Nat
        /\ txs'[Len(txs) + 1] = t
        /\ \A i \in DOMAIN txs : txs'[i] = txs[i]
        /\ txs' \in Seq(Tx)
        /\ Grows /\ Named' /\ RecordedIsNotResent'
        /\ (\A i \in bindings : committed(txs[i].key.session))'
    BY <1>6, <2>1, <2>2, Appended
  <2>4. mem' \in Memory /\ mem'.session = o.session /\ mem'.result = o.result /\ mem'.tx = Len(txs) + 1
    BY <1>2, <2>1, <2>3 DEF Memory
  <2>5. pc' = [phase |-> p, stage |-> "sent"]
    BY <1>1, <2>1 DEF at
  <2>6. TypeOK'
    <3>1. \A i \in DOMAIN txs' : txs'[i] \in Tx
      BY <2>3
    <3>2. p \in PhaseNames
      BY PhaseSet DEF Sending, ChainPhases
    <3>3. pc' \in [phase : PhaseNames \cup {"down", "done"}, stage : {"step", "sent", "wait"}]
      BY <2>5, <3>2
    <3> QED
      BY <1>1, <2>1, <2>2, <2>4, <3>1, <3>3 DEF MatchInv, TypeOK, Tx, Memory, KeepDisk, KeepRest
  <2>7. Chain'
    <3>1. k.kind # "commit" /\ \A s : k # commitOf(s)
      BY <1>5 DEF commitOf
    <3>2. \A i, j \in DOMAIN txs' : txs'[i].key.kind = "commit" /\ txs'[j].key = txs'[i].key => i = j
      BY <1>6, <2>3, <3>1 DEF MatchInv, Chain
    <3>3. \A s \in relays' : \A i \in DOMAIN txs' : txs'[i].key # commitOf(s)
      BY <1>6, <2>2, <2>3, <3>1 DEF MatchInv, Chain
    <3>4. txs' \in Seq(Tx) /\ (\A i \in bindings : committed(txs[i].key.session))'
      BY <2>3
    <3> QED
      BY <3>2, <3>3, <3>4 DEF Chain
  <2>8. Ready(pc.phase, mem)'
    <3>1. Ready(p, o)'
      BY <1>2, <2>3, StaysReady
    <3> QED
      BY <2>4, <2>5, <3>1 DEF Ready
  <2>9. keyOf(pc.phase)' = k
    BY <1>4, <2>4, <2>5 DEF keyOf
  <2>10. InFlight'
    <3>1. pc'.phase = p /\ pc'.stage = "sent" /\ p \in Sending
      BY <2>5
    <3>2. /\ mem'.tx \in DOMAIN txs' /\ txs'[mem'.tx].key = k
          /\ p = "bind" => txs'[mem'.tx].result = mem'.result
          /\ \A j \in DOMAIN txs' : txs'[j].key = k => j <= mem'.tx
      BY <1>6, <2>3, <2>4
    <3> QED
      BY <2>9, <3>1, <3>2 DEF InFlight
  <2>11. EvidenceIsTrue'
    BY <2>1, <2>3, StaysTrue DEF MatchInv
  <2> QED
    BY <2>3, <2>5, <2>6, <2>7, <2>8, <2>10, <2>11 DEF MatchInv
<1>8. CASE ~(mayStep(keyOf(p)) /\ accepts(newTx(p)))
  <2>1. fail /\ txs' = txs
    BY <1>8 DEF send
  <2> QED
    BY <1>1, <2>1, QuietFailure DEF KeepChain
<1> QED
  BY <1>7, <1>8

\* The phases before the receivable's session, and its binding.
LEMMA SendingPhases ==
  ASSUME MatchInv,
         \/ deployStack \/ registerIssuer \/ deployUnits \/ authorizeScopes
         \/ deployAnchor \/ mintUnits \/ creditAnchor
         \/ activateAnchor \/ registerSource \/ bindRecourse
  PROVE  MatchInv'
<1> PICK m : m = mem
  OBVIOUS
<1>1. m \in Memory
  BY DEF MatchInv, TypeOK, Memory
<1>2. \A p \in Sending \ {"commit"} : send(p) => MatchInv'
  BY SendStep
<1>3. {"deploy", "issuer", "configure", "authorize", "create", "mint", "credit", "activate", "register", "bind"} \subseteq Sending \ {"commit"}
  BY DEF Sending, ChainPhases
<1>4. {"deploy", "issuer", "configure", "authorize", "create", "mint", "credit", "activate", "register"} \subseteq Sending \ {"bind"}
  BY DEF Sending, ChainPhases
<1>5. CASE deployStack
  <2>1. CASE replay("deploy", mem)
    <3>1. replay("deploy", m)
      BY <2>1 DEF replay, goOn, reached
    <3> QED
      BY <1>1, <1>4, <3>1, ReplayStep
  <2> QED
    BY <1>2, <1>3, <1>5, <2>1 DEF deployStack
<1>6. CASE authorizeScopes
  <2>1. CASE replay("authorize", mem)
    <3>1. replay("authorize", m)
      BY <2>1 DEF replay, goOn, reached
    <3> QED
      BY <1>1, <1>4, <3>1, ReplayStep
  <2> QED
    BY <1>2, <1>3, <1>6, <2>1 DEF authorizeScopes
<1>7. CASE deployAnchor
  <2>1. CASE replay("create", anchorFromChain)
    <3>1. PICK o : o = [m EXCEPT !.anchor = "resumed"]
      OBVIOUS
    <3>2. o \in Memory /\ o.session = mem.session /\ o.result = mem.result
      BY <1>1, <3>1 DEF Memory
    <3>3. replay("create", o)
      BY <2>1, <3>1 DEF replay, goOn, reached, anchorFromChain
    <3> QED
      BY <1>4, <3>2, <3>3, ReplayStep
  <2> QED
    BY <1>2, <1>3, <1>7, <2>1 DEF deployAnchor
<1>8. CASE creditAnchor
  <2>1. CASE replay("credit", mem)
    <3>1. replay("credit", m)
      BY <2>1 DEF replay, goOn, reached
    <3> QED
      BY <1>1, <1>4, <3>1, ReplayStep
  <2> QED
    BY <1>2, <1>3, <1>8, <2>1 DEF creditAnchor
<1>9. ASSUME NEW p \in {"activate", "register"}, isSettled(p)
      PROVE  applied(global(p))
  <2>1. keyOf(p) = global(p) /\ global(p) \in Keys
    BY DEF keyOf, global, Keys, ChainPhases
  <2> QED
    BY <1>9, <2>1, SettledApplied DEF isSettled
<1>10. CASE activateAnchor
  <2>1. CASE isSettled("activate") /\ replay("activate", mem)
    <3>1. replay("activate", m)
      BY <2>1 DEF replay, goOn, reached
    <3>2. applied(global("activate"))
      BY <1>9, <2>1
    <3> QED
      BY <1>1, <1>4, <3>1, <3>2, ReplayStep
  <2>2. CASE fail /\ KeepDisk /\ KeepChain /\ KeepRest
    BY <2>2, QuietFailure
  <2> QED
    BY <1>2, <1>3, <1>10, <2>1, <2>2 DEF activateAnchor
<1>11. CASE registerSource
  <2>1. CASE isSettled("register") /\ replay("register", mem)
    <3>1. replay("register", m)
      BY <2>1 DEF replay, goOn, reached
    <3>2. applied(global("register"))
      BY <1>9, <2>1
    <3> QED
      BY <1>1, <1>4, <3>1, <3>2, ReplayStep
  <2> QED
    BY <1>2, <1>3, <1>11, <2>1 DEF registerSource
<1>12. CASE bindRecourse
  BY <1>2, <1>3, <1>12 DEF bindRecourse
<1>13. CASE registerIssuer
  <2>1. CASE replay("issuer", mem)
    <3>1. replay("issuer", m)
      BY <2>1 DEF replay, goOn, reached
    <3> QED
      BY <1>1, <1>4, <3>1, ReplayStep
  <2> QED
    BY <1>2, <1>3, <1>13, <2>1 DEF registerIssuer
<1>14. CASE deployUnits
  <2>1. CASE replay("configure", mem)
    <3>1. replay("configure", m)
      BY <2>1 DEF replay, goOn, reached
    <3> QED
      BY <1>1, <1>4, <3>1, ReplayStep
  <2> QED
    BY <1>2, <1>3, <1>14, <2>1 DEF deployUnits
<1>15. CASE mintUnits
  <2>1. CASE replay("mint", mem)
    <3>1. replay("mint", m)
      BY <2>1 DEF replay, goOn, reached
    <3> QED
      BY <1>1, <1>4, <3>1, ReplayStep
  <2> QED
    BY <1>2, <1>3, <1>15, <2>1 DEF mintUnits
<1> QED
  BY <1>5, <1>6, <1>7, <1>8, <1>10, <1>11, <1>12, <1>13, <1>14, <1>15

\* The relayer is asked for a commitment that was never published.
LEMMA RelayStep ==
  ASSUME MatchInv, relayCommitment
  PROVE  MatchInv'
<1> PICK m : m = mem
  OBVIOUS
<1>1. at("commit")
  BY DEF relayCommitment, replay
<1>2. m \in Memory /\ Ready("commit", m) /\ Fresh("commit", m) /\ m.session \in Sessions
  BY <1>1, AtPhase DEF Ready, WithSession
<1>3. keyOf("commit") = commitOf(m.session) /\ commitOf(m.session) \in Keys
  BY <1>2 DEF keyOf, commitOf, Keys
<1>4. CASE isSettled("commit") /\ replay("commit", mem)
  <2>1. replay("commit", m)
    BY <1>4 DEF replay, goOn, reached
  <2>2. committed(m.session)
    BY <1>3, <1>4, SettledApplied DEF isSettled, committed, commitOf
  <2> QED
    BY <1>2, <2>1, <2>2, ReplayStep DEF Sending
<1>5. CASE ~(isSettled("commit") /\ replay("commit", mem))
  <2>1. /\ mayStep(keyOf("commit"))
        /\ relays' = relays \cup {m.session}
        /\ pc' = [pc EXCEPT !.stage = "sent"]
        /\ KeepDisk /\ KeepChain /\ UNCHANGED <<evidence, mem, faults>>
    BY <1>5 DEF relayCommitment
  <2>2. unsent(m.session)
    BY <1>2, <1>3, <2>1 DEF Fresh, mayStep
  <2>3. pc.phase = "commit" /\ pc' = [phase |-> "commit", stage |-> "sent"]
    BY <1>1, <2>1 DEF at
  <2>4. txs' = txs /\ mem' = m /\ evidence' = evidence /\ journal' = journal
    BY <2>1 DEF KeepChain, KeepDisk
  <2>5. TypeOK'
    <3>1. pc' \in [phase : PhaseNames \cup {"down", "done"}, stage : {"step", "sent", "wait"}]
      BY <2>3, PhaseSet
    <3> QED
      BY <1>2, <2>1, <3>1 DEF MatchInv, TypeOK, KeepDisk, KeepChain
  <2>6. Grows
    BY <2>4 DEF Grows
  <2>7. Chain'
    BY <2>1, <2>2, <2>4 DEF MatchInv, Chain, bindings, committed, applied, unsent
  <2>8. Named' /\ RecordedIsNotResent'
    BY <2>4 DEF MatchInv, Named, RecordedIsNotResent
  <2>9. Ready(pc.phase, mem)'
    <3>1. Ready("commit", m)'
      BY <1>2, <2>6, StaysReady
    <3> QED
      BY <2>3, <2>4, <3>1 DEF Ready
  <2>10. InFlight'
    BY <2>3 DEF InFlight, Sending
  <2>11. EvidenceIsTrue'
    BY <2>4, <2>6, StaysTrue DEF MatchInv
  <2> QED
    BY <2>3, <2>5, <2>7, <2>8, <2>9, <2>10, <2>11 DEF MatchInv
<1> QED
  BY <1>4, <1>5

\* A relayer publishes a commitment, whatever became of the runner.
LEMMA PublishStep ==
  ASSUME MatchInv, publish
  PROVE  MatchInv'
<1>1. PICK s \in relays :
        LET k == [kind |-> "commit", session |-> s] IN
          /\ relays' = relays \ {s}
          /\ txs' = IF applied(k) THEN txs
                    ELSE Append(txs, [key |-> k, result |-> None, until |-> 0,
                                      status |-> "pending", noted |-> FALSE])
          /\ KeepDisk /\ UNCHANGED <<now, born, evidence, pc, mem, faults>>
  BY DEF publish
<1> PICK p : p = pc.phase
  OBVIOUS
<1> PICK m : m = mem
  OBVIOUS
<1>2. PICK t : t = [key |-> commitOf(s), result |-> None, until |-> 0, status |-> "pending", noted |-> FALSE]
  OBVIOUS
<1>3. s \in Sessions /\ \A i \in DOMAIN txs : txs[i].key # commitOf(s)
  BY DEF MatchInv, TypeOK, Chain
<1>4. relays' = relays \ {s} /\ txs' = Append(txs, t)
  <2>1. ~applied(commitOf(s))
    BY <1>3 DEF applied
  <2> QED
    BY <1>1, <1>2, <2>1 DEF commitOf
<1>5. journal' = journal /\ pc' = pc /\ mem' = m /\ evidence' = evidence
  BY <1>1 DEF KeepDisk
<1>6. t \in Tx /\ t.key = commitOf(s) /\ t.status = "pending" /\ t.noted = FALSE /\ commitOf(s) \in Keys
  <2>1. commitOf(s) \in Keys
    BY <1>3 DEF commitOf, Keys
  <2> QED
    BY <1>2, <2>1 DEF Tx
<1>7. journal.steps[t.key].status = "none"
  BY <1>3, <1>6 DEF MatchInv, Named
<1>8. /\ DOMAIN txs' = DOMAIN txs \cup {Len(txs) + 1}
      /\ DOMAIN txs = 1..Len(txs) /\ Len(txs) \in Nat
      /\ txs'[Len(txs) + 1] = t
      /\ \A i \in DOMAIN txs : txs'[i] = txs[i]
      /\ txs' \in Seq(Tx)
      /\ Grows /\ Named' /\ RecordedIsNotResent'
      /\ (\A i \in bindings : committed(txs[i].key.session))'
  BY <1>4, <1>5, <1>6, <1>7, Appended
<1>9. TypeOK'
  <2>1. \A i \in DOMAIN txs' : txs'[i] \in Tx
    <3>1. \A i \in DOMAIN txs : txs[i] \in Tx
      BY DEF MatchInv, TypeOK, Tx
    <3> QED
      BY <1>6, <1>8, <3>1
  <2>2. relays' \subseteq Sessions
    BY <1>4 DEF MatchInv, TypeOK
  <2> QED
    BY <1>1, <2>1, <2>2 DEF MatchInv, TypeOK, Tx, KeepDisk
<1>10. \A r : commitOf(r) = commitOf(s) => r = s
  <2>1. \A r : commitOf(r).session = r
    BY DEF commitOf
  <2> QED
    BY <2>1
<1>11. Chain'
  <2>1. \A i, j \in DOMAIN txs' : txs'[i].key.kind = "commit" /\ txs'[j].key = txs'[i].key => i = j
    <3> SUFFICES ASSUME NEW i \in DOMAIN txs', NEW j \in DOMAIN txs',
                        txs'[i].key.kind = "commit", txs'[j].key = txs'[i].key
                 PROVE  i = j
      OBVIOUS
    <3>1. CASE i \in DOMAIN txs /\ j \in DOMAIN txs
      BY <1>8, <3>1 DEF MatchInv, Chain
    <3>2. CASE i \notin DOMAIN txs \/ j \notin DOMAIN txs
      BY <1>3, <1>6, <1>8, <3>2
    <3> QED
      BY <3>1, <3>2
  <2>2. \A r \in relays' : \A i \in DOMAIN txs' : txs'[i].key # commitOf(r)
    BY <1>4, <1>6, <1>8, <1>10 DEF MatchInv, Chain
  <2>3. txs' \in Seq(Tx) /\ (\A i \in bindings : committed(txs[i].key.session))'
    BY <1>8
  <2> QED
    BY <2>1, <2>2, <2>3 DEF Chain
<1>12. Ready(pc.phase, mem)'
  <2>1. Ready(p, m)
    BY DEF MatchInv
  <2>2. Ready(p, m)'
    BY <1>8, <2>1, StaysReady
  <2> QED
    BY <1>5, <2>2 DEF Ready
<1>13. ASSUME pc.stage = "step"
       PROVE  Fresh(pc.phase, mem)'
  <2>1. Fresh(p, m)
    BY <1>13 DEF MatchInv
  <2>2. unsent(m.session) => m.session # s
    BY DEF unsent
  <2>3. unsent(m.session) => unsent(m.session)'
    BY <1>4, <1>6, <1>8, <1>10, <2>2 DEF unsent
  <2>4. Fresh(p, m)'
    BY <1>5, <2>1, <2>3 DEF Fresh
  <2> QED
    BY <1>5, <2>4 DEF Fresh, unsent
<1>14. InFlight'
  <2>1. keyOf(pc.phase)' = keyOf(pc.phase)
    BY <1>5 DEF keyOf
  <2>2. ASSUME pc.stage # "step", pc.stage = "wait" \/ pc.phase # "commit"
        PROVE  /\ mem.tx \in DOMAIN txs' /\ txs'[mem.tx].key = keyOf(pc.phase)
               /\ pc.phase = "bind" => txs'[mem.tx].result = mem.result
               /\ \A j \in DOMAIN txs' : txs'[j].key = keyOf(pc.phase) => j <= mem.tx
    <3>1. /\ mem.tx \in DOMAIN txs /\ txs[mem.tx].key = keyOf(pc.phase)
          /\ pc.phase = "bind" => txs[mem.tx].result = mem.result
          /\ \A j \in DOMAIN txs : txs[j].key = keyOf(pc.phase) => j <= mem.tx
      BY <2>2 DEF MatchInv, InFlight
    <3>2. t.key # keyOf(pc.phase)
      BY <1>3, <1>6, <3>1
    <3> QED
      BY <1>8, <3>1, <3>2
  <2> QED
    BY <1>5, <2>1, <2>2 DEF MatchInv, InFlight
<1>15. EvidenceIsTrue'
  BY <1>5, <1>8, StaysTrue DEF MatchInv
<1> QED
  BY <1>5, <1>8, <1>9, <1>11, <1>12, <1>13, <1>14, <1>15 DEF MatchInv

\* A pending transaction is mined.
LEMMA MineStep ==
  ASSUME MatchInv, mine
  PROVE  MatchInv'
<1>1. PICK n \in DOMAIN txs :
        /\ txs[n].status = "pending"
        /\ txs' = [txs EXCEPT ![n].status = IF accepts(txs[n]) THEN "success" ELSE "reverted"]
        /\ UNCHANGED <<now, born, journal, identity, ceremonyFile, evidence, pc, mem, relays, faults>>
  BY DEF mine
<1> PICK p : p = pc.phase
  OBVIOUS
<1> PICK m : m = mem
  OBVIOUS
<1>2. UNCHANGED <<now, born, journal, identity, ceremonyFile, evidence, pc, mem, relays, faults>>
  BY <1>1
<1>3. txs \in Seq(Tx) /\ n \in 1..Len(txs) /\ txs[n] \in Tx
  BY DEF MatchInv, Chain
<1>4. PICK st : st = IF accepts(txs[n]) THEN "success" ELSE "reverted"
  OBVIOUS
<1>5. txs' = [txs EXCEPT ![n] = [txs[n] EXCEPT !.status = st]]
  BY <1>1, <1>3, <1>4
<1>6. [txs[n] EXCEPT !.status = st] \in Tx
  BY <1>3, <1>4 DEF Tx
<1>7. /\ txs' \in Seq(Tx) /\ DOMAIN txs' = DOMAIN txs
      /\ \A i \in DOMAIN txs : i # n => txs'[i] = txs[i]
      /\ txs'[n] = [txs[n] EXCEPT !.status = st]
  BY <1>3, <1>5, <1>6
<1>8. /\ txs'[n].key = txs[n].key /\ txs'[n].result = txs[n].result
      /\ txs'[n].noted = txs[n].noted /\ txs'[n].status = st
  BY <1>3, <1>7 DEF Tx
<1>9. \A i \in DOMAIN txs : /\ txs'[i].key = txs[i].key /\ txs'[i].result = txs[i].result
                            /\ txs'[i].noted = txs[i].noted
                            /\ txs[i].status = "success" => txs'[i].status = "success"
                            /\ txs'[i].status = "success" /\ txs[i].status # "success" => i = n /\ accepts(txs[n])
  BY <1>1, <1>4, <1>7, <1>8
<1>10. Grows
  BY <1>7, <1>9 DEF Grows
<1>11. TypeOK'
  <2>1. \A i \in DOMAIN txs' : txs'[i] \in Tx
    BY <1>7
  <2> QED
    BY <1>2, <2>1 DEF MatchInv, TypeOK, Tx
<1>12. (\A i \in bindings : committed(txs[i].key.session))'
  <2> SUFFICES ASSUME NEW i \in bindings'
               PROVE  committed(txs[i].key.session)'
    OBVIOUS
  <2>1. i \in DOMAIN txs /\ txs'[i].key = txs[i].key /\ txs[i].key.kind = "bind" /\ txs'[i].status = "success"
    BY <1>7, <1>9 DEF bindings
  <2>2. PICK s : s = txs[i].key.session
    OBVIOUS
  <2>3. committed(s)
    <3>1. CASE txs[i].status = "success"
      BY <2>1, <2>2, <3>1 DEF MatchInv, Chain, bindings
    <3>2. CASE txs[i].status # "success"
      <4>1. i = n /\ accepts(txs[n])
        BY <1>9, <2>1, <3>2
      <4> QED
        BY <2>1, <2>2, <4>1 DEF accepts, Repeatable
    <3> QED
      BY <3>1, <3>2
  <2>4. committed(s)'
    BY <1>10, <2>3, Stays
  <2> QED
    BY <2>1, <2>2, <2>4 DEF committed
<1>13. Chain'
  <2>1. \A i, j \in DOMAIN txs' : txs'[i].key.kind = "commit" /\ txs'[j].key = txs'[i].key => i = j
    BY <1>7, <1>9 DEF MatchInv, Chain
  <2>2. \A s \in relays' : \A i \in DOMAIN txs' : txs'[i].key # commitOf(s)
    BY <1>2, <1>7, <1>9 DEF MatchInv, Chain
  <2> QED
    BY <1>7, <1>12, <2>1, <2>2 DEF Chain
<1>14. Named'
  <2>1. ASSUME NEW k \in Keys, journal.steps[k].status # "none"
        PROVE  /\ journal.steps[k].tx \in DOMAIN txs' /\ txs'[journal.steps[k].tx].key = k
               /\ journal.steps[k].status = "success" => txs'[journal.steps[k].tx].status = "success"
    BY <1>7, <1>9, <2>1 DEF MatchInv, Named
  <2>2. ASSUME NEW i \in DOMAIN txs', txs'[i].noted
        PROVE  journal.steps[txs'[i].key].status # "none"
    BY <1>7, <1>9, <2>2 DEF MatchInv, Named
  <2> QED
    BY <1>2, <2>1, <2>2 DEF Named
<1>15. Ready(pc.phase, mem)'
  <2>1. Ready(p, m)
    BY DEF MatchInv
  <2>2. Ready(p, m)'
    BY <1>10, <2>1, StaysReady
  <2> QED
    BY <1>2, <2>2 DEF Ready
<1>16. ASSUME pc.stage = "step"
       PROVE  Fresh(pc.phase, mem)'
  <2>1. Fresh(pc.phase, mem)
    BY <1>16 DEF MatchInv
  <2> QED
    BY <1>2, <1>7, <1>9, <2>1 DEF Fresh, unsent
<1>17. InFlight'
  <2>1. keyOf(pc.phase)' = keyOf(pc.phase)
    BY <1>2 DEF keyOf
  <2> QED
    BY <1>2, <1>7, <1>9, <2>1 DEF MatchInv, InFlight
<1>18. RecordedIsNotResent'
  BY <1>7, <1>9 DEF MatchInv, RecordedIsNotResent
<1>19. EvidenceIsTrue'
  BY <1>2, <1>10, StaysTrue DEF MatchInv
<1> QED
  BY <1>2, <1>11, <1>13, <1>14, <1>15, <1>16, <1>17, <1>18, <1>19 DEF MatchInv

\* The hash of what was sent is written down.
LEMMA WriteHashStep ==
  ASSUME MatchInv, writeHash
  PROVE  MatchInv'
<1> PICK p : p = pc.phase
  OBVIOUS
<1> PICK m : m = mem
  OBVIOUS
<1>1. PICK k : k = keyOf(pc.phase)
  OBVIOUS
<1>2. PICK n \in outcome :
        /\ journal' = [journal EXCEPT !.steps[keyOf(pc.phase)] = [tx |-> n, status |-> "null"]]
        /\ txs' = [txs EXCEPT ![n].noted = TRUE]
        /\ mem' = [mem EXCEPT !.tx = n]
  BY DEF writeHash
<1>3. /\ pc.stage = "sent" /\ pc' = [pc EXCEPT !.stage = "wait"]
      /\ UNCHANGED <<now, born, identity, ceremonyFile, evidence, relays, faults>>
  BY DEF writeHash, KeepRest
<1>4. m \in Memory /\ p \in Sending /\ Ready(p, m)
  BY <1>3 DEF MatchInv, TypeOK, Memory, InFlight
<1>5. p \in {"commit", "bind"} => m.session \in Sessions
  BY <1>4 DEF Ready, WithSession, AfterCommit
<1>6. k \in Keys /\ k.kind = p
  BY <1>1, <1>4, <1>5, KeyOfPhase
<1>7. /\ n \in DOMAIN txs /\ txs[n].key = k
      /\ p = "bind" => txs[n].result = m.result
      /\ \A j \in DOMAIN txs : txs[j].key = k => j <= n
  <2>1. CASE p # "commit"
    <3>1. n = mem.tx
      BY <1>2, <2>1 DEF outcome
    <3> QED
      BY <1>1, <1>3, <2>1, <3>1 DEF MatchInv, InFlight
  <2>2. CASE p = "commit"
    <3>1. n \in DOMAIN txs /\ txs[n].key = k
      BY <1>1, <1>2, <2>2 DEF outcome
    <3>2. \A j \in DOMAIN txs : txs[j].key = k => j = n
      BY <1>6, <2>2, <3>1 DEF MatchInv, Chain
    <3>3. n \in Nat
      BY <3>1 DEF MatchInv, Chain
    <3> QED
      BY <2>2, <3>1, <3>2, <3>3
  <2> QED
    BY <2>1, <2>2
<1>8. txs \in Seq(Tx) /\ n \in 1..Len(txs) /\ txs[n] \in Tx
  BY <1>7 DEF MatchInv, Chain
<1>9. [txs[n] EXCEPT !.noted = TRUE] \in Tx
  BY <1>8 DEF Tx
<1>10. /\ txs' \in Seq(Tx) /\ DOMAIN txs' = DOMAIN txs
       /\ \A i \in DOMAIN txs : i # n => txs'[i] = txs[i]
       /\ txs'[n] = [txs[n] EXCEPT !.noted = TRUE]
  <2>1. PICK w : w = [txs[n] EXCEPT !.noted = TRUE]
    OBVIOUS
  <2>2. txs' = [txs EXCEPT ![n] = w] /\ w \in Tx
    BY <1>2, <1>8, <1>9, <2>1
  <2>3. txs' \in Seq(Tx) /\ DOMAIN txs' = DOMAIN txs /\ txs'[n] = w
        /\ \A i \in DOMAIN txs : i # n => txs'[i] = txs[i]
    BY <1>8, <2>2
  <2> QED
    BY <2>1, <2>3
<1>11. /\ txs'[n].key = txs[n].key /\ txs'[n].result = txs[n].result
       /\ txs'[n].status = txs[n].status
  BY <1>8, <1>10 DEF Tx
<1>12. \A i \in DOMAIN txs : /\ txs'[i].key = txs[i].key /\ txs'[i].result = txs[i].result
                             /\ txs'[i].status = txs[i].status
                             /\ i # n => txs'[i].noted = txs[i].noted
  BY <1>10, <1>11
<1>13. n \in Nat
  BY <1>8
<1>14. /\ journal' \in [steps : [Keys -> Entry], sessions : SUBSET Sessions]
       /\ journal'.steps[k] = [tx |-> n, status |-> "null"]
       /\ \A l \in Keys : l # k => journal'.steps[l] = journal.steps[l]
  BY <1>1, <1>2, <1>6, <1>13 DEF MatchInv, TypeOK, Entry
<1>15. mem' \in Memory /\ mem'.session = m.session /\ mem'.result = m.result /\ mem'.tx = n
  BY <1>2, <1>4, <1>13 DEF Memory
<1>16. pc' = [phase |-> p, stage |-> "wait"] /\ p \in PhaseNames
  <2>1. pc \in [phase : PhaseNames \cup {"down", "done"}, stage : {"step", "sent", "wait"}]
    BY DEF MatchInv, TypeOK
  <2>2. p \in PhaseNames
    BY <1>4, PhaseSet DEF Sending, ChainPhases
  <2> QED
    BY <1>3, <2>1, <2>2
<1>17. Grows
  BY <1>10, <1>12 DEF Grows
<1>18. TypeOK'
  <2>1. \A i \in DOMAIN txs' : txs'[i] \in Tx
    BY <1>10
  <2>2. pc' \in [phase : PhaseNames \cup {"down", "done"}, stage : {"step", "sent", "wait"}]
    BY <1>16
  <2> QED
    BY <1>3, <1>14, <1>15, <2>1, <2>2 DEF MatchInv, TypeOK, Tx, Memory
<1>19. Chain'
  <2>1. \A i, j \in DOMAIN txs' : txs'[i].key.kind = "commit" /\ txs'[j].key = txs'[i].key => i = j
    BY <1>10, <1>12 DEF MatchInv, Chain
  <2>2. \A s \in relays' : \A i \in DOMAIN txs' : txs'[i].key # commitOf(s)
    BY <1>3, <1>10, <1>12 DEF MatchInv, Chain
  <2>3. (\A i \in bindings : committed(txs[i].key.session))'
    <3> SUFFICES ASSUME NEW i \in bindings'
                 PROVE  committed(txs[i].key.session)'
      OBVIOUS
    <3>1. i \in bindings /\ txs'[i].key = txs[i].key
      BY <1>10, <1>12 DEF bindings
    <3>2. PICK s : s = txs[i].key.session
      OBVIOUS
    <3>3. committed(s)
      BY <3>1, <3>2 DEF MatchInv, Chain
    <3>4. committed(s)'
      BY <1>17, <3>3, Stays
    <3> QED
      BY <3>1, <3>2, <3>4 DEF committed
  <2> QED
    BY <1>10, <2>1, <2>2, <2>3 DEF Chain
<1>20. Named'
  <2>1. ASSUME NEW l \in Keys, journal'.steps[l].status # "none"
        PROVE  /\ journal'.steps[l].tx \in DOMAIN txs' /\ txs'[journal'.steps[l].tx].key = l
               /\ journal'.steps[l].status = "success" => txs'[journal'.steps[l].tx].status = "success"
    <3>1. CASE l = k
      BY <1>7, <1>10, <1>12, <1>14, <3>1
    <3>2. CASE l # k
      BY <1>10, <1>12, <1>14, <2>1, <3>2 DEF MatchInv, Named
    <3> QED
      BY <3>1, <3>2
  <2>2. ASSUME NEW i \in DOMAIN txs', txs'[i].noted
        PROVE  journal'.steps[txs'[i].key].status # "none"
    <3>1. CASE txs[i].key = k
      BY <1>10, <1>12, <1>14, <3>1
    <3>2. CASE txs[i].key # k
      <4>1. i \in DOMAIN txs /\ i # n /\ txs[i].noted /\ txs[i].key \in Keys
        BY <1>7, <1>10, <1>12, <2>2, <3>2 DEF MatchInv, TypeOK
      <4> QED
        BY <1>12, <1>14, <3>2, <4>1 DEF MatchInv, Named
    <3> QED
      BY <3>1, <3>2
  <2> QED
    BY <2>1, <2>2 DEF Named
<1>21. Ready(pc.phase, mem)'
  <2>1. Ready(p, m)'
    BY <1>4, <1>17, StaysReady
  <2> QED
    BY <1>15, <1>16, <2>1 DEF Ready
<1>22. InFlight'
  <2>1. keyOf(pc.phase)' = k
    BY <1>1, <1>15, <1>16 DEF keyOf
  <2>2. /\ mem'.tx \in DOMAIN txs' /\ txs'[mem'.tx].key = k
        /\ p = "bind" => txs'[mem'.tx].result = mem'.result
        /\ \A j \in DOMAIN txs' : txs'[j].key = k => j <= mem'.tx
        /\ journal'.steps[k] = [tx |-> mem'.tx, status |-> "null"]
    BY <1>7, <1>10, <1>12, <1>14, <1>15
  <2> QED
    BY <1>4, <1>16, <2>1, <2>2 DEF InFlight
<1>23. RecordedIsNotResent'
  <2> SUFFICES ASSUME NEW i \in DOMAIN txs', NEW j \in DOMAIN txs', i < j, txs'[i].key = txs'[j].key
               PROVE  ~txs'[i].noted
    BY DEF RecordedIsNotResent
  <2>1. i \in DOMAIN txs /\ j \in DOMAIN txs /\ txs[i].key = txs[j].key
    BY <1>10, <1>12
  <2>2. i # n
    <3>1. i \in Nat /\ j \in Nat
      BY <2>1 DEF MatchInv, Chain
    <3> QED
      BY <1>7, <2>1, <3>1
  <2> QED
    BY <1>12, <2>1, <2>2 DEF MatchInv, RecordedIsNotResent
<1>24. EvidenceIsTrue'
  BY <1>3, <1>17, StaysTrue DEF MatchInv
<1> QED
  BY <1>16, <1>18, <1>19, <1>20, <1>21, <1>22, <1>23, <1>24 DEF MatchInv

\* The receipt of what was sent is a success: it is written down, and the
\* phase ends.
LEMMA SettleStep ==
  ASSUME MatchInv, settle
  PROVE  MatchInv'
<1> PICK p : p = pc.phase
  OBVIOUS
<1> PICK o : o = mem
  OBVIOUS
<1>1. PICK k : k = keyOf(pc.phase)
  OBVIOUS
<1>2. PICK m : m = IF p = "create" THEN [o EXCEPT !.anchor = "created"] ELSE o
  OBVIOUS
<1>3. /\ pc.stage = "wait" /\ txs[o.tx].status = "success" /\ goOn(p, m)
      /\ journal' = [journal EXCEPT !.steps[k].status = "success"]
      /\ UNCHANGED <<identity, ceremonyFile>> /\ KeepChain /\ KeepRest
  BY <1>1, <1>2 DEF settle, settled, goOn, reached
<1>4. o \in Memory /\ p \in Sending /\ Ready(p, o)
  BY <1>3 DEF MatchInv, TypeOK, Memory, InFlight
<1>5. p \in {"commit", "bind"} => o.session \in Sessions
  BY <1>4 DEF Ready, WithSession, AfterCommit
<1>6. /\ k \in Keys /\ k.kind = p
      /\ p \in ChainPhases => k = global(p)
      /\ p = "commit" => k = commitOf(o.session)
      /\ p = "bind" => k = bindOf(o.session)
  BY <1>1, <1>4, <1>5, KeyOfPhase
<1>7. /\ o.tx \in DOMAIN txs /\ txs[o.tx].key = k
      /\ p = "bind" => txs[o.tx].result = o.result
      /\ journal.steps[k] = [tx |-> o.tx, status |-> "null"]
  BY <1>1, <1>3 DEF MatchInv, InFlight
<1>8. m \in Memory /\ m.session = o.session /\ m.result = o.result
  BY <1>2, <1>4 DEF Memory
<1>9. /\ journal' \in [steps : [Keys -> Entry], sessions : SUBSET Sessions]
      /\ journal'.steps[k].tx = o.tx
      /\ \A l \in Keys : l # k => journal'.steps[l] = journal.steps[l]
      /\ journal'.steps[k].status = "success"
  <2>1. journal \in [steps : [Keys -> Entry], sessions : SUBSET Sessions] /\ o.tx \in Nat
    BY <1>4 DEF MatchInv, TypeOK, Memory
  <2>2. PICK e : e = [tx |-> o.tx, status |-> "success"]
    OBVIOUS
  <2>3. journal' = [journal EXCEPT !.steps = [journal.steps EXCEPT ![k] = e]]
    BY <1>3, <1>6, <1>7, <2>1, <2>2
  <2>4. e \in Entry /\ e.tx = o.tx /\ e.status = "success"
    BY <2>1, <2>2 DEF Entry
  <2> QED
    BY <1>6, <2>1, <2>3, <2>4
<1>10. txs' = txs /\ relays' = relays
  BY <1>3 DEF KeepChain, KeepRest
<1>11. DiskOK'
  BY <1>3, <1>9 DEF MatchInv, TypeOK, DiskOK, KeepChain, KeepRest
<1>12. Named'
  <2>1. ASSUME NEW l \in Keys, journal'.steps[l].status # "none"
        PROVE  /\ journal'.steps[l].tx \in DOMAIN txs /\ txs[journal'.steps[l].tx].key = l
               /\ journal'.steps[l].status = "success" => txs[journal'.steps[l].tx].status = "success"
    <3>1. CASE l = k
      BY <1>3, <1>7, <1>9, <3>1
    <3>2. CASE l # k
      BY <1>9, <2>1, <3>2 DEF MatchInv, Named
    <3> QED
      BY <3>1, <3>2
  <2>2. ASSUME NEW i \in DOMAIN txs, txs[i].noted
        PROVE  journal'.steps[txs[i].key].status # "none"
    <3>1. txs[i].key \in Keys /\ journal.steps[txs[i].key].status # "none"
      BY <2>2 DEF MatchInv, TypeOK, Named
    <3> QED
      BY <1>9, <3>1
  <2> QED
    BY <1>10, <2>1, <2>2 DEF Named
<1>13. applied(k)
  BY <1>3, <1>7 DEF applied
<1>14. p = "bind" => boundAs(m.session, m.result)
  <2>1. ASSUME p = "bind"
        PROVE  o.tx \in bindings /\ txs[o.tx].key.session = o.session /\ txs[o.tx].result = o.result
    BY <1>3, <1>6, <1>7, <2>1 DEF bindings, bindOf
  <2> QED
    BY <1>8, <2>1 DEF boundAs
<1>15. /\ p = "activate" => applied(global("activate"))
       /\ p = "register" => applied(global("register"))
       /\ p = "commit" => committed(m.session)
  BY <1>6, <1>8, <1>13 DEF ChainPhases, committed, commitOf
<1>16. Ready(p, m)
  BY <1>4, <1>8 DEF Ready
<1>17. Ready(nextPhase(p), m) /\ nextPhase(p) \notin {"agree", "preimage", "commit"} /\ p \in PhaseNames
  BY <1>4, <1>14, <1>15, <1>16, NextReady
<1>18. Fresh(nextPhase(p), m)'
  BY <1>17 DEF Fresh
<1> QED
  BY <1>3, <1>8, <1>10, <1>11, <1>12, <1>17, <1>18, GoesOn

-----------------------------------------------------------------------------
\* The rest of the runner, and the world around it.

\* The keys are made, or are refused.
LEMMA ProvisionStep ==
  ASSUME MatchInv, provision
  PROVE  MatchInv'
<1> PICK m : m = mem
  OBVIOUS
<1>1. /\ at("provision") /\ identity' = generateIdentity
      /\ UNCHANGED <<journal, ceremonyFile>> /\ KeepChain /\ KeepRest
  BY DEF provision
<1>2. DiskOK'
  BY <1>1 DEF MatchInv, TypeOK, DiskOK, KeepChain, KeepRest, generateIdentity
<1>3. Named' /\ txs' = txs /\ relays' = relays
  BY <1>1 DEF MatchInv, Named, KeepChain, KeepRest
<1>4. CASE generateIdentity = "whole"
  <2>1. goOn("provision", m)
    BY <1>4 DEF provision, goOn, reached
  <2>2. m \in Memory /\ "provision" \in PhaseNames
    BY <1>1, AtPhase, PhaseSet
  <2>3. Ready(nextPhase("provision"), m) /\ Fresh(nextPhase("provision"), m)'
    BY PhaseOrder DEF Ready, Fresh, AfterActivate, AfterRegister, WithSession, AfterCommit, AfterBind
  <2> QED
    BY <1>2, <1>3, <2>1, <2>2, <2>3, GoesOn
<1>5. CASE generateIdentity # "whole"
  <2>1. fail
    BY <1>5 DEF provision
  <2> QED
    BY <1>2, <1>3, <2>1, Fails
<1> QED
  BY <1>4, <1>5

\* An interruption keeps the invariant, and so does a new start.
LEMMA InterruptionSteps ==
  ASSUME MatchInv, interrupt \/ restart \/ settleFails
  PROVE  MatchInv'
<1>1. CASE interrupt
  <2>1. /\ fail /\ faults < MaxFaults /\ faults' = faults + 1
        /\ UNCHANGED <<journal, ceremonyFile, relays>> /\ KeepChain
        /\ identity' \in IF pc.phase = "provision" /\ identity = "none" THEN {"none", "torn"} ELSE {identity}
    BY <1>1 DEF interrupt
  <2>2. faults' \in 0..MaxFaults
    BY <2>1, TtlAssumption DEF MatchInv, TypeOK
  <2>3. DiskOK'
    BY <2>1, <2>2 DEF MatchInv, TypeOK, DiskOK, KeepChain
  <2>4. Named' /\ txs' = txs /\ relays' = relays
    BY <2>1 DEF MatchInv, Named, KeepChain
  <2> QED
    BY <2>1, <2>3, <2>4, Fails
<1>2. CASE restart
  <2>1. /\ pc' = [phase |-> "preflight", stage |-> "step"]
        /\ evidence' = evidence /\ mem' = mem /\ KeepDisk /\ KeepChain /\ KeepRest
    BY <1>2 DEF restart
  <2>2. txs' = txs /\ relays' = relays
    BY <2>1 DEF KeepChain, KeepRest
  <2>3. DiskOK' /\ Named'
    BY <2>1, SameDisk DEF KeepDisk, KeepChain, KeepRest
  <2>4. TypeOK'
    BY <2>1, <2>2, <2>3, PhaseSet DEF MatchInv, TypeOK, DiskOK
  <2>5. Ready(pc.phase, mem)' /\ Fresh(pc.phase, mem)' /\ InFlight'
    BY <2>1 DEF Ready, Fresh, InFlight, AfterActivate, AfterRegister, WithSession, AfterCommit, AfterBind
  <2>6. EvidenceIsTrue'
    BY <2>1, <2>2, SameChain, StaysTrue DEF MatchInv
  <2> QED
    BY <2>2, <2>3, <2>4, <2>5, <2>6, SameChain DEF MatchInv
<1>3. CASE settleFails
  BY <1>3, QuietFailure DEF settleFails
<1> QED
  BY <1>1, <1>2, <1>3

\* Nothing but the clock changes.
LEMMA IdleSteps ==
  ASSUME MatchInv, now' \in 0..MaxTime,
         UNCHANGED <<txs, born, journal, identity, ceremonyFile, evidence, pc, mem, relays, faults>>
  PROVE  MatchInv'
<1>1. TypeOK'
  BY DEF MatchInv, TypeOK
<1>2. Chain' /\ RecordedIsNotResent' /\ Grows
  BY SameChain
<1>3. Named'
  BY DEF MatchInv, Named
<1>4. Ready(pc.phase, mem)'
  BY DEF MatchInv, Ready, applied, committed, boundAs, bindings
<1>5. pc'.stage = "step" => Fresh(pc.phase, mem)'
  BY DEF MatchInv, Fresh, unsent
<1>6. InFlight'
  BY DEF MatchInv, InFlight, keyOf
<1>7. EvidenceIsTrue'
  BY <1>2, StaysTrue DEF MatchInv
<1> QED
  BY <1>1, <1>2, <1>3, <1>4, <1>5, <1>6, <1>7 DEF MatchInv

\* Every step keeps the invariant.
LEMMA MatchStep ==
  ASSUME MatchInv, [Next]_vars
  PROVE  MatchInv'
<1>1. CASE preflight \/ serve \/ lookup \/ agreeOnCommitment \/ auditPublicMetadata \/ complete
  BY <1>1, PlainPhases
<1>2. CASE signQuorum \/ signConsents \/ performReadbacks \/ runReplays
  BY <1>2, CheckingPhases
<1>3. CASE signIntent \/ recordPreimage \/ runCeremony \/ finishFromBinding
  BY <1>3, SignIntentStep, RecordPreimageStep, RunCeremonyStep, FinishFromBindingStep
<1>4. CASE \/ deployStack \/ registerIssuer \/ deployUnits \/ authorizeScopes
           \/ deployAnchor \/ mintUnits \/ creditAnchor
           \/ activateAnchor \/ registerSource \/ bindRecourse
  BY <1>4, SendingPhases
<1>5. CASE relayCommitment \/ publish \/ mine \/ writeHash \/ settle
  BY <1>5, RelayStep, PublishStep, MineStep, WriteHashStep, SettleStep
<1>6. CASE provision \/ interrupt \/ restart \/ settleFails
  BY <1>6, ProvisionStep, InterruptionSteps
<1>7. CASE tick
  <2>1. now' \in 0..MaxTime
    BY <1>7, TtlAssumption DEF tick, MatchInv, TypeOK
  <2> QED
    BY <1>7, <2>1, IdleSteps DEF tick
<1>8. CASE UNCHANGED vars
  <2>1. now' \in 0..MaxTime
    BY <1>8 DEF vars, MatchInv, TypeOK
  <2> QED
    BY <1>8, <2>1, IdleSteps DEF vars
<1> QED
  BY <1>1, <1>2, <1>3, <1>4, <1>5, <1>6, <1>7, <1>8 DEF Next, Runner

\* A run begins with nothing sent, written or known.
LEMMA MatchInit ==
  ASSUME Init
  PROVE  MatchInv
<1>1. txs = << >> /\ relays = {} /\ pc = [phase |-> "preflight", stage |-> "step"]
  BY DEF Init
<1>2. DOMAIN txs = {} /\ txs \in Seq(Tx)
  BY <1>1
<1>3. mem \in Memory
  BY DEF Init, NoMem, Memory, None
<1>4. journal \in [steps : [Keys -> Entry], sessions : SUBSET Sessions]
  BY DEF Init, emptyJournal, Entry, NoEntry, None
<1>5. TypeOK
  BY <1>1, <1>2, <1>3, <1>4, TtlAssumption, PhaseSet DEF Init, TypeOK, Memory
<1>6. Chain /\ RecordedIsNotResent
  BY <1>1, <1>2 DEF Chain, RecordedIsNotResent, bindings
<1>7. Named
  BY <1>2 DEF Init, Named, emptyJournal, NoEntry
<1>8. Ready(pc.phase, mem) /\ Fresh(pc.phase, mem) /\ InFlight
  BY <1>1 DEF Ready, Fresh, InFlight, AfterActivate, AfterRegister, WithSession, AfterCommit, AfterBind
<1>9. EvidenceIsTrue
  BY ReportRanks DEF Init, EvidenceIsTrue
<1> QED
  BY <1>5, <1>6, <1>7, <1>8, <1>9 DEF MatchInv

\* The invariant of the run: types, what the journal names is on the
\* chain, a commitment is published once, what a phase of the runner
\* relies on took effect, and the two properties below.
THEOREM MatchInvariant == Spec => []MatchInv
<1>1. Init => MatchInv
  BY MatchInit
<1>2. MatchInv /\ [Next]_vars => MatchInv'
  BY MatchStep
<1> QED
  BY <1>1, <1>2, PTL DEF Spec

\* The variables of the run keep their types.
THEOREM MatchTypes == Spec => []TypeOK
<1>1. MatchInv => TypeOK
  BY DEF MatchInv
<1> QED
  BY <1>1, MatchInvariant, PTL

\* A transaction whose hash reached the journal is never sent again,
\* wherever the runner is interrupted and however often it is restarted.
THEOREM NothingRecordedIsResent == Spec => []RecordedIsNotResent
<1>1. MatchInv => RecordedIsNotResent
  BY DEF MatchInv
<1> QED
  BY <1>1, MatchInvariant, PTL

\* The evidence file never says more than the chain, also when it was
\* written by a run that found its session in the journal.
THEOREM EvidenceStaysTrue == Spec => []EvidenceIsTrue
<1>1. MatchInv => EvidenceIsTrue
  BY DEF MatchInv
<1> QED
  BY <1>1, MatchInvariant, PTL

=============================================================================
