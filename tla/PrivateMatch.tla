---------------------------- MODULE PrivateMatch ----------------------------
(***************************************************************************)
(* The private-matching run on the test network:                           *)
(*   fhe-lab/monad-testnet/run-priv8.mjs      the runner and its phases    *)
(*   fhe-lab/monad-testnet/priv8-chain.mjs    the transaction journal      *)
(*   fhe-lab/monad-testnet/priv8-deploy.mjs   what the runner deploys      *)
(*   fhe-lab/monad-testnet/party-signer.mjs   controllers, issuer, relayer *)
(*   fhe-lab/monad-testnet/match-validator-signer.mjs     the validators   *)
(*                                                                         *)
(* A run walks a fixed list of phases for one receivable.  Most phases     *)
(* send one or several transactions, each under a journal key: `step`      *)
(* broadcasts and writes the hash down, `settle` waits for the receipt and *)
(* writes the outcome down.  The process may be interrupted anywhere (a    *)
(* crash, or an error thrown by a chain read), and is then started again:  *)
(* all it keeps is the journal, the key files and the ceremony's output.   *)
(*                                                                         *)
(* A key of the model stands for a group of keys of the code that are sent *)
(* one after the other and behave alike.  A session is a number, its       *)
(* commitment is the session itself; a ceremony's result is a number too.  *)
(***************************************************************************)
EXTENDS Naturals, Sequences, FiniteSets

CONSTANTS
  Sessions,     \* the sessions a receivable may go through
  Results,      \* the results of ceremonies
  IntentTtl,    \* how long a signed intent may be revealed
  ConsentTtl,   \* how long a controller's consent may be used
  ResultTtl,    \* how long a validators' attestation may be used
  MaxTime,      \* bound: the clock
  MaxFaults     \* bound: interruptions of the runner

ASSUME TtlAssumption ==
  /\ IntentTtl \in Nat /\ ConsentTtl \in Nat /\ ResultTtl \in Nat /\ MaxTime \in Nat /\ MaxFaults \in Nat
  /\ 0 < ResultTtl /\ ResultTtl < ConsentTtl /\ ConsentTtl < IntentTtl
  /\ Sessions \subseteq Nat \ {0} /\ Results \subseteq Nat \ {0}

VARIABLES
  now,          \* the chain's clock
  txs,          \* the transactions ever broadcast, in order
  born,         \* when each session's intent was signed
  journal,      \* the journal file: hash and outcome by key, and the preimages
  identity,     \* the key files of the parties and validators
  ceremonyFile, \* the evaluator's output on disk, by session
  evidence,     \* priv8-evidence.json
  pc,           \* the phase the runner is in, and the stage of its transaction
  mem,          \* what the runner holds in memory
  relays,       \* the commitments handed to a relayer that has not acted yet
  faults        \* interruptions so far

vars == <<now, txs, born, journal, identity, ceremonyFile, evidence, pc, mem,
          relays, faults>>

None == 0

-----------------------------------------------------------------------------
(* The phases of a run, in their order, with the state each one reports.   *)

Phases ==
  << [name |-> "preflight",  reports |-> "PREFLIGHT"],
     [name |-> "provision",  reports |-> "IDENTITIES_PROVISIONED"],
     [name |-> "deploy",     reports |-> "none"],
     [name |-> "issuer",     reports |-> "none"],
     [name |-> "configure",  reports |-> "DEPLOYED"],
     [name |-> "authorize",  reports |-> "GOVERNED"],
     [name |-> "serve",      reports |-> "PARTIES_SERVING"],
     [name |-> "create",     reports |-> "none"],
     [name |-> "mint",       reports |-> "none"],
     [name |-> "credit",     reports |-> "none"],
     [name |-> "activate",   reports |-> "ANCHORED"],
     [name |-> "register",   reports |-> "SOURCE_REGISTERED"],
     [name |-> "lookup",     reports |-> "none"],
     [name |-> "intent",     reports |-> "INTENT_SIGNED"],
     [name |-> "agree",      reports |-> "PREFLIGHT_AGREED"],
     [name |-> "preimage",   reports |-> "none"],
     [name |-> "commit",     reports |-> "COMMITTED"],
     [name |-> "audit",      reports |-> "METADATA_AUDITED"],
     [name |-> "ceremony",   reports |-> "CEREMONY_PROVEN"],
     [name |-> "quorum",     reports |-> "QUORUM_SIGNED"],
     [name |-> "consent",    reports |-> "CONSENTED"],
     [name |-> "bind",       reports |-> "BOUND"],
     [name |-> "readback",   reports |-> "READBACKS_CONFIRMED"],
     [name |-> "replay",     reports |-> "REPLAY_REJECTED"],
     [name |-> "finish",     reports |-> "COMPLETE"] >>

PhaseNames == {Phases[i].name : i \in DOMAIN Phases}

phaseIndex(p) == CHOOSE i \in DOMAIN Phases : Phases[i].name = p

\* The place of a reported state in the list; 0 for "none", an evidence file without a state.
rank(state) ==
  IF state = "none" THEN 0 ELSE CHOOSE i \in DOMAIN Phases : Phases[i].reports = state

ChainPhases ==
  {"deploy", "issuer", "configure", "authorize", "create", "mint", "credit", "activate", "register"}

Keys == [kind : ChainPhases, session : {None}] \cup [kind : {"commit", "bind"}, session : Sessions]

\* The journal key a phase sends its transaction under.
keyOf(phase) ==
  [kind |-> phase, session |-> IF phase \in {"commit", "bind"} THEN mem.session ELSE None]

Entry == [tx : Nat, status : {"none", "null", "success"}]
NoEntry == [tx |-> None, status |-> "none"]

emptyJournal == [steps |-> [k \in Keys |-> NoEntry], sessions |-> {}]

NoMem == [anchor |-> "none", session |-> None, result |-> None, until |-> 0, tx |-> None]

TypeOK ==
  /\ now \in 0..MaxTime
  /\ \A i \in DOMAIN txs :
       txs[i] \in [key : Keys, result : Results \cup {None}, until : Nat,
                   status : {"pending", "success", "reverted"}, noted : BOOLEAN]
  /\ born \in [Sessions -> 0..MaxTime]
  /\ journal \in [steps : [Keys -> Entry], sessions : SUBSET Sessions]
  /\ identity \in {"none", "torn", "whole"}
  /\ ceremonyFile \in [Sessions -> Results \cup {None}]
  /\ evidence \in [state : {"none"} \cup {Phases[i].reports : i \in DOMAIN Phases},
                   session : Sessions \cup {None}, result : Results \cup {None}]
  /\ pc \in [phase : PhaseNames \cup {"down", "done"}, stage : {"step", "sent", "wait"}]
  /\ mem \in [anchor : {"none", "created", "resumed"}, session : Sessions \cup {None},
              result : Results \cup {None}, until : Nat, tx : Nat]
  /\ relays \subseteq Sessions
  /\ faults \in 0..MaxFaults

Init ==
  /\ now = 0
  /\ txs = << >>
  /\ born = [s \in Sessions |-> 0]
  /\ journal = emptyJournal
  /\ identity = "none"
  /\ ceremonyFile = [s \in Sessions |-> None]
  /\ evidence = [state |-> "none", session |-> None, result |-> None]
  /\ pc = [phase |-> "preflight", stage |-> "step"]
  /\ mem = NoMem
  /\ relays = {}
  /\ faults = 0

-----------------------------------------------------------------------------
(* The chain, as the runner uses it.                                       *)

applied(k) == \E i \in DOMAIN txs : txs[i].key = k /\ txs[i].status = "success"

committed(s) == applied([kind |-> "commit", session |-> s])

\* One decision is recorded for the pair of sources, whatever the session.
bindings == {i \in DOMAIN txs : txs[i].key.kind = "bind" /\ txs[i].status = "success"}

\* The attestation and the consents are dated from the same block.
consentsUntil(resultUntil) == resultUntil - ResultTtl + ConsentTtl

\* A contract may be deployed again, a setting made again and a test token
\* minted and approved again.
Repeatable == {"deploy", "configure", "mint"}

\* Whether the contracts accept the call now.  Everything else happens once: an
\* issuer is registered once, and the adapter takes the units it was approved
\* once.  A binding also needs its commitment, an intent and an attestation that
\* have not expired.
accepts(t) ==
  CASE t.key.kind \in Repeatable -> TRUE
    [] t.key.kind = "bind" ->
         /\ committed(t.key.session)
         /\ bindings = {}
         /\ now <= born[t.key.session] + IntentTtl
         /\ now <= t.until /\ now <= consentsUntil(t.until)
    [] OTHER -> ~applied(t.key)

\* A pending transaction is mined: it succeeds or it reverts.
mine ==
  \E i \in DOMAIN txs :
    /\ txs[i].status = "pending"
    /\ txs' = [txs EXCEPT ![i].status = IF accepts(txs[i]) THEN "success" ELSE "reverted"]
    /\ UNCHANGED <<now, born, journal, identity, ceremonyFile, evidence, pc, mem, relays, faults>>

\* Time passes.  It is only read once an intent carries an expiry, and only by
\* these phases: a tick in any other phase could as well come before or after it.
tick ==
  /\ now < MaxTime
  /\ pc.phase \in {"down", "intent", "quorum", "consent", "bind"}
  /\ journal.sessions # {}
  /\ now' = now + 1
  /\ UNCHANGED <<txs, born, journal, identity, ceremonyFile, evidence, pc, mem, relays, faults>>

-----------------------------------------------------------------------------
(* The transaction journal.                                                *)

\* Mistake: a key whose hash is known but unsettled is sent again.
mayStep_Resend(k) == journal.steps[k].status # "success"

\* `step` sends only for a key that has no hash.
mayStep(k) == journal.steps[k].status = "none"

\* Mistake: any receipt settles the key.
settled_AnyReceipt(i) == txs[i].status # "pending"

\* `settle` returns for a successful receipt.
settled(i) == txs[i].status = "success"

\* The session whose commitment is settled, whose preimage is in the journal
\* and whose binding is not settled; the first one, if there are several.
findResumableSession ==
  {s \in journal.sessions :
     /\ journal.steps[[kind |-> "commit", session |-> s]].status = "success"
     /\ journal.steps[[kind |-> "bind", session |-> s]].status # "success"}

\* The session whose binding is settled.
findBoundSession ==
  {s \in Sessions : journal.steps[[kind |-> "bind", session |-> s]].status = "success"}

least(S) == CHOOSE x \in S : \A y \in S : x <= y

-----------------------------------------------------------------------------
(* The runner.                                                             *)

at(phase) == pc = [phase |-> phase, stage |-> "step"]

\* `reached` writes the evidence file; a phase without a state writes nothing.
reached(phase, m) ==
  LET state == Phases[phaseIndex(phase)].reports IN
    evidence' = IF state = "none" THEN evidence
                ELSE [state |-> state, session |-> m.session, result |-> m.result]

\* The phase ends: its state is reported and the next phase starts.
goOn(phase, m) ==
  /\ mem' = [m EXCEPT !.tx = None]
  /\ reached(phase, m)
  /\ pc' = IF phase = "finish" THEN [phase |-> "done", stage |-> "step"]
           ELSE [phase |-> Phases[phaseIndex(phase) + 1].name, stage |-> "step"]

\* An error ends the run: the processes are stopped, the memory is lost.
fail ==
  /\ pc' = [phase |-> "down", stage |-> "step"]
  /\ mem' = NoMem
  /\ UNCHANGED evidence

KeepDisk == UNCHANGED <<journal, identity, ceremonyFile>>
KeepChain == UNCHANGED <<now, txs, born>>
KeepRest == UNCHANGED <<relays, faults>>

\* The run starts, on the right chain and from the frozen sources.
preflight ==
  /\ at("preflight")
  /\ goOn("preflight", mem)
  /\ KeepDisk /\ KeepChain /\ KeepRest

\* Key generation writes files that must not exist: a directory with a key and
\* no address, or with no token, is refused for ever.
generateIdentity == IF identity = "none" THEN "whole" ELSE identity

\* A directory that already has an address is used as it is.
provision ==
  /\ at("provision")
  /\ identity' = generateIdentity
  /\ IF generateIdentity = "whole" THEN goOn("provision", mem) ELSE fail
  /\ UNCHANGED <<journal, ceremonyFile>> /\ KeepChain /\ KeepRest

\* The party and validator processes are started in their scope.
serve ==
  /\ at("serve")
  /\ goOn("serve", mem)
  /\ KeepDisk /\ KeepChain /\ KeepRest

newTx(phase) ==
  [key |-> keyOf(phase), result |-> IF phase = "bind" THEN mem.result ELSE None,
   until |-> IF phase = "bind" THEN mem.until ELSE 0, status |-> "pending", noted |-> FALSE]

\* `step` for a key that is already settled: nothing is sent, the phase ends
\* with what the runner knows.
replay(phase, m) ==
  /\ at(phase)
  /\ goOn(phase, m)
  /\ KeepDisk /\ KeepChain /\ KeepRest

\* `step` estimates the call and broadcasts it; the hash is in memory only.  It
\* refuses a key with an unsettled hash, and the estimate refuses a call the
\* contracts would revert.
send(phase) ==
  /\ at(phase)
  /\ IF mayStep(keyOf(phase)) /\ accepts(newTx(phase))
     THEN /\ txs' = Append(txs, newTx(phase))
          /\ mem' = [mem EXCEPT !.tx = Len(txs) + 1]
          /\ pc' = [pc EXCEPT !.stage = "sent"]
          /\ UNCHANGED evidence
     ELSE fail /\ UNCHANGED txs
  /\ KeepDisk /\ UNCHANGED <<now, born>> /\ KeepRest

\* Mistake: a settled key is not told from an unsettled one.
isSettled_Never(phase) == FALSE

isSettled(phase) == journal.steps[keyOf(phase)].status = "success"

\* The contracts.
deployStack ==
  \/ isSettled("deploy") /\ replay("deploy", mem)
  \/ ~isSettled("deploy") /\ send("deploy")

registerIssuer ==
  \/ isSettled("issuer") /\ replay("issuer", mem)
  \/ ~isSettled("issuer") /\ send("issuer")

\* The configuration, then the units and the adapter of this receivable.
deployUnits ==
  \/ isSettled("configure") /\ replay("configure", mem)
  \/ ~isSettled("configure") /\ send("configure")

\* One authority record for each side, once.
authorizeScopes ==
  \/ isSettled("authorize") /\ replay("authorize", mem)
  \/ ~isSettled("authorize") /\ send("authorize")

\* An anchor that the journal has is read off the chain: the run then knows
\* neither its configuration nor the end of its protection.
anchorFromChain == [mem EXCEPT !.anchor = "resumed"]

\* The issuer attests the identity of the anchor, the buyer creates it.
deployAnchor ==
  \/ isSettled("create") /\ replay("create", anchorFromChain)
  \/ ~isSettled("create") /\ send("create")

isActive == journal.steps[[kind |-> "activate", session |-> None]].status = "success"

\* The units are minted and the adapter may take them; not again once the vault is active.
\* The mint and the approval of the settlement token follow the credit and are folded in here.
mintUnits ==
  \/ (isActive \/ isSettled("mint")) /\ replay("mint", mem)
  \/ ~isActive /\ ~isSettled("mint") /\ send("mint")

\* The vault is credited with its units.
creditAnchor ==
  \/ (isActive \/ isSettled("credit")) /\ replay("credit", mem)
  \/ ~isActive /\ ~isSettled("credit") /\ send("credit")

\* The pledge of an activation names the end of the protection: a run that found
\* its anchor in the journal does not have it, and the addition throws.
activateAnchor ==
  \/ isSettled("activate") /\ replay("activate", mem)
  \/ ~isSettled("activate") /\ mem.anchor = "created" /\ send("activate")
  \/ /\ at("activate") /\ ~isSettled("activate") /\ mem.anchor = "resumed"
     /\ fail
     /\ KeepDisk /\ KeepChain /\ KeepRest

\* The other side's source is attested by the issuer and registered.
registerSource ==
  \/ isSettled("register") /\ replay("register", mem)
  \/ ~isSettled("register") /\ send("register")

\* The result, the attestation, the reveal and both consents, in one call.  A
\* session that is resumed is not bound.
bindRecourse == send("bind")

\* `step` asks the relayer to publish the commitment, and nothing else.
\* A resumed session is already published.
relayCommitment ==
  \/ at("commit") /\ isSettled("commit") /\ replay("commit", mem)
  \/ /\ at("commit")
     /\ mayStep(keyOf("commit"))
     /\ relays' = relays \cup {mem.session}
     /\ pc' = [pc EXCEPT !.stage = "sent"]
     /\ KeepDisk /\ KeepChain /\ UNCHANGED <<evidence, mem, faults>>

\* The relayer publishes a commitment that is not published yet, and waits for
\* its receipt itself.  It outlives a runner that dies.
publish ==
  \E s \in relays :
    LET k == [kind |-> "commit", session |-> s] IN
      /\ relays' = relays \ {s}
      /\ txs' = IF applied(k) THEN txs
                ELSE Append(txs, [key |-> k, result |-> None, until |-> 0,
                                  status |-> "pending", noted |-> FALSE])
      /\ KeepDisk /\ UNCHANGED <<now, born, evidence, pc, mem, faults>>

\* The transaction whose hash `step` is about to write down: the runner's own,
\* or the one the relayer answers with once it has its receipt.
outcome ==
  IF pc.phase # "commit" THEN {mem.tx}
  ELSE {i \in DOMAIN txs : txs[i].key = keyOf("commit") /\ txs[i].status = "success"}

\* `step` writes the hash down, without an outcome.
writeHash ==
  /\ pc.stage = "sent"
  /\ \E i \in outcome :
       /\ journal' = [journal EXCEPT !.steps[keyOf(pc.phase)] = [tx |-> i, status |-> "null"]]
       /\ txs' = [txs EXCEPT ![i].noted = TRUE]
       /\ mem' = [mem EXCEPT !.tx = i]
  /\ pc' = [pc EXCEPT !.stage = "wait"]
  /\ UNCHANGED <<now, born, identity, ceremonyFile, evidence>> /\ KeepRest

\* `settle` has the receipt: the outcome is written down.
settle ==
  /\ pc.stage = "wait"
  /\ settled(mem.tx)
  /\ journal' = [journal EXCEPT !.steps[keyOf(pc.phase)].status = "success"]
  /\ goOn(pc.phase, IF pc.phase = "create" THEN [mem EXCEPT !.anchor = "created"] ELSE mem)
  /\ UNCHANGED <<identity, ceremonyFile>> /\ KeepChain /\ KeepRest

\* The receipt is a revert: the run stops, the hash stays without an outcome.
settleFails ==
  /\ pc.stage = "wait"
  /\ txs[mem.tx].status = "reverted"
  /\ ~settled(mem.tx)
  /\ fail
  /\ KeepDisk /\ KeepChain /\ KeepRest

\* What was bound, from the calldata of the binding the journal names.
recoverBoundSession(s) == txs[journal.steps[[kind |-> "bind", session |-> s]].tx].result

\* A run whose binding is settled goes to its observation phases: everything is
\* recovered from the binding's own calldata, and the ceremony's output on disk
\* must be the one that was bound.
finishFromBinding ==
  /\ at("lookup")
  /\ findBoundSession # {}
  /\ LET s == least(findBoundSession)
         r == recoverBoundSession(s)
         m == [mem EXCEPT !.session = s, !.result = r] IN
       IF ceremonyFile[s] = r THEN goOn("bind", m) ELSE fail
  /\ KeepDisk /\ KeepChain /\ KeepRest

lookup ==
  /\ at("lookup")
  /\ findBoundSession = {}
  /\ goOn("lookup", mem)
  /\ KeepDisk /\ KeepChain /\ KeepRest

\* Sessions nothing refers to.
freshSessions ==
  {s \in Sessions \ journal.sessions : s \notin relays /\ \A i \in DOMAIN txs : txs[i].key.session # s}

\* Whether a session is resumed is decided before anybody signs.  Otherwise both
\* controllers and the issuer sign a new intent, and a salt is drawn.
signIntent ==
  /\ at("intent")
  /\ IF findResumableSession # {}
     THEN /\ goOn("intent", [mem EXCEPT !.session = least(findResumableSession)])
          /\ UNCHANGED born
     ELSE /\ freshSessions # {}
          /\ goOn("intent", [mem EXCEPT !.session = least(freshSessions)])
          /\ born' = [born EXCEPT ![least(freshSessions)] = now]
  /\ KeepDisk /\ UNCHANGED <<now, txs>> /\ KeepRest

\* Client, runner and contract compute the same commitment from the same three
\* signatures: the digests of one session agree.
agreeOnCommitment ==
  /\ at("agree")
  /\ goOn("agree", mem)
  /\ KeepDisk /\ KeepChain /\ KeepRest

\* The preimage is durable before the commitment is published.
recordPreimage ==
  /\ at("preimage")
  /\ journal' = [journal EXCEPT !.sessions = @ \cup {mem.session}]
  /\ goOn("preimage", mem)
  /\ UNCHANGED <<identity, ceremonyFile>> /\ KeepChain /\ KeepRest

\* The commitment transaction shows nothing but the commitment.
auditPublicMetadata ==
  /\ at("audit")
  /\ goOn("audit", mem)
  /\ KeepDisk /\ KeepChain /\ KeepRest

freshResults ==
  {r \in Results : (\A i \in DOMAIN txs : txs[i].result # r) /\ \A s \in Sessions : ceremonyFile[s] # r}

\* A ceremony is run for the session, also for one that already had its own; it
\* replaces the output in the directory of the session.
runCeremony ==
  /\ at("ceremony")
  /\ freshResults # {}
  /\ ceremonyFile' = [ceremonyFile EXCEPT ![mem.session] = least(freshResults)]
  /\ goOn("ceremony", [mem EXCEPT !.result = least(freshResults)])
  /\ UNCHANGED <<journal, identity>> /\ KeepChain /\ KeepRest

\* A validator signs an attestation that is not over, for a session whose
\* commitment it sees on the chain.
review(s, until) == until > now /\ committed(s)

\* The validators attest the result, for a while.
signQuorum ==
  /\ at("quorum")
  /\ IF review(mem.session, now + ResultTtl)
     THEN goOn("quorum", [mem EXCEPT !.until = now + ResultTtl])
     ELSE fail
  /\ KeepDisk /\ KeepChain /\ KeepRest

\* A controller signs a consent that is not over.
reviewConsent == consentsUntil(mem.until) > now

\* Both controllers consent to disclose this result.
signConsents ==
  /\ at("consent")
  /\ IF reviewConsent THEN goOn("consent", mem) ELSE fail
  /\ KeepDisk /\ KeepChain /\ KeepRest

\* The recourse on the chain is of this session and this result.
boundAs(s, r) == \E i \in bindings : txs[i].key.session = s /\ txs[i].result = r

performReadbacks ==
  /\ at("readback")
  /\ IF boundAs(mem.session, mem.result) THEN goOn("readback", mem) ELSE fail
  /\ KeepDisk /\ KeepChain /\ KeepRest

\* Every replay is simulated, and refused because the session is bound.
runReplays ==
  /\ at("replay")
  /\ IF bindings # {} THEN goOn("replay", mem) ELSE fail
  /\ KeepDisk /\ KeepChain /\ KeepRest

complete ==
  /\ at("finish")
  /\ goOn("finish", mem)
  /\ KeepDisk /\ KeepChain /\ KeepRest

\* The run is started again.
restart ==
  /\ pc.phase = "down"
  /\ pc' = [phase |-> "preflight", stage |-> "step"]
  /\ UNCHANGED <<evidence, mem>> /\ KeepDisk /\ KeepChain /\ KeepRest

\* The runner dies, or a read or a write throws.  A process that was making its
\* key may leave the key without an address or a token.
interrupt ==
  /\ faults < MaxFaults
  /\ pc.phase \notin {"down", "done"}
  /\ faults' = faults + 1
  /\ fail
  /\ identity' \in IF pc.phase = "provision" /\ identity = "none" THEN {"none", "torn"} ELSE {identity}
  /\ UNCHANGED <<journal, ceremonyFile, relays>> /\ KeepChain

Runner ==
  \/ preflight \/ provision \/ deployStack \/ registerIssuer \/ deployUnits \/ authorizeScopes \/ serve
  \/ deployAnchor \/ mintUnits \/ creditAnchor \/ activateAnchor \/ registerSource \/ relayCommitment
  \/ bindRecourse \/ writeHash \/ settle \/ settleFails \/ finishFromBinding \/ lookup
  \/ signIntent \/ agreeOnCommitment \/ recordPreimage \/ auditPublicMetadata
  \/ runCeremony \/ signQuorum \/ signConsents \/ performReadbacks \/ runReplays
  \/ complete \/ restart

Next == Runner \/ mine \/ publish \/ tick \/ interrupt

Spec == Init /\ [][Next]_vars

\* The runner is started again whenever it stops and goes on while it can, the
\* relayer acts on what it is asked, and the chain mines what it is sent.
FairSpec == Spec /\ WF_vars(Runner) /\ WF_vars(mine) /\ WF_vars(publish)

-----------------------------------------------------------------------------
(* Properties.                                                             *)

\* A transaction that reached the journal is the last one of its key: whatever
\* the interruptions, a key is only sent again when the earlier hash was never
\* written down ("a persisted hash is reconciled rather than resubmitted").
RecordedIsNotResent ==
  \A i, j \in DOMAIN txs : i < j /\ txs[i].key = txs[j].key => ~txs[i].noted

\* The evidence file never says more than the chain: an anchored state has its
\* active anchor, a committed state the commitment of its session, a bound state
\* the recourse of its session with the result it names.
EvidenceIsTrue ==
  /\ rank(evidence.state) >= rank("ANCHORED") => applied([kind |-> "activate", session |-> None])
  /\ rank(evidence.state) >= rank("SOURCE_REGISTERED") => applied([kind |-> "register", session |-> None])
  /\ rank(evidence.state) >= rank("COMMITTED") => committed(evidence.session)
  /\ rank(evidence.state) >= rank("BOUND") => boundAs(evidence.session, evidence.result)

\* The sessions whose commitment is settled in the journal and that are unbound.
OpenSessions ==
  {s \in Sessions :
     /\ journal.steps[[kind |-> "commit", session |-> s]].status = "success"
     /\ journal.steps[[kind |-> "bind", session |-> s]].status # "success"}

\* Interrupted runs do not pile up sessions: at most one settled commitment of a
\* receivable is waiting to be bound, and none once the receivable is bound.
OneSessionIsOpen ==
  /\ Cardinality(OpenSessions) <= 1
  /\ (\E s \in Sessions : journal.steps[[kind |-> "bind", session |-> s]].status = "success")
       => OpenSessions = {}

\* What the reconciliation of a journal reports: the keys with a hash and no
\* outcome, and the transactions no key names.
stepsWithoutStatus == {k \in Keys : journal.steps[k].status = "null"}
notJournalled == {i \in DOMAIN txs : ~txs[i].noted}

\* Where a run can no longer come to its end, by what is on disk and on chain:
\* a torn key directory; an anchor created by a run that did not activate it; a
\* hash without outcome that no run is waiting for; a call that happens once (the
\* registration of the issuer, an authority record, the vault, its units, its
\* activation, the other source, the binding) and whose hash was lost; a session
\* whose intent expired before it was bound.
DeadEnd ==
  \/ identity = "torn"
  \/ /\ journal.steps[[kind |-> "create", session |-> None]].status = "success"
     /\ journal.steps[[kind |-> "activate", session |-> None]].status # "success"
     /\ mem.anchor # "created"
  \/ \E k \in stepsWithoutStatus :
       /\ k.kind # "commit"
       /\ ~(pc.stage = "wait" /\ txs[mem.tx].status # "reverted" /\ mem.tx = journal.steps[k].tx)
  \/ \E i \in notJournalled :
       /\ txs[i].key.kind \notin Repeatable \cup {"commit"}
       /\ ~(pc.stage = "sent" /\ mem.tx = i)
  \/ \E s \in OpenSessions : now > born[s] + IntentTtl

\* Every other interruption is recovered from: the run ends complete, or is at
\* one of the dead ends.
CompletesOrDeadEnds == <>(evidence.state = "COMPLETE" \/ DeadEnd)

=============================================================================
