---------------------------- MODULE JournaledRun ----------------------------
(***************************************************************************)
(* The durable V5 execution: the stage journal (v5-journal.mjs), the four  *)
(* handler framework (v5-stage.mjs), the admission spine                   *)
(* (v5-journalized-runner.mjs) and the ceremony spine                      *)
(* (v5-ceremony-flow.mjs), with the capabilities through which a stage     *)
(* sends its transaction.  One runner process drives the stages in order;  *)
(* it may be interrupted anywhere and started again, and only the journal, *)
(* the private reveal packages, the ceremony directory and the chain       *)
(* survive.  A journal write is one atomic rename, so it is one step.      *)
(*                                                                         *)
(* What a stage freezes when it is prepared (calldata, salts, nonces) is   *)
(* its payload, a number: 0 before the preparation, and a regenerated      *)
(* payload is one that differs from the frozen one.  The chain is the      *)
(* sequence of transactions sent for each stage and what became of them.   *)
(* The Go laboratory that runs the threshold ceremony is external: it      *)
(* moves its public progress forward one mark at a time.                   *)
(***************************************************************************)
EXTENDS Integers, Sequences, FiniteSets

CONSTANTS
  MaxInterrupts,  \* how often the runner is interrupted (bound)
  MaxSends,       \* how many transactions a stage sends (bound)
  Fragile,        \* the stages during which the runner may be interrupted
  Rivals,         \* the stages another authorized account may commit first
  Drops           \* TRUE if a node may forget a pending transaction

(* The stages that a runner of this repository drives, in order.           *)
AdmissionStages == <<
  "INITIALIZED", "FINAL_STACK_PLANNED", "FINAL_STACK_DEPLOYED",
  "BYTECODE_VERIFIED", "VAULT_CREATED", "AWAITING_VAULT_APASS",
  "VAULT_ACTIVATED", "SOURCE_A_COMMITTED", "SOURCE_B_COMMITTED",
  "GOVERNANCE_A_CREATED", "GOVERNANCE_B_CREATED", "SESSION_PREPARED",
  "SESSION_NULLIFIER_RESERVED", "SESSION_COMMITTED" >>

(* Ceremony stage, the progress of the public directory that it stands     *)
(* for, and the number of ready operators it needs.                        *)
definitions == <<
  <<"CEREMONY_IDENTITIES_CONFIRMED", 1, 0>>,
  <<"CEREMONY_OPERATOR_1_READY", 2, 1>>,
  <<"CEREMONY_OPERATOR_2_READY", 2, 2>>,
  <<"CEREMONY_OPERATOR_3_READY", 2, 3>>,
  <<"CEREMONY_CONTRIBUTIONS_GENERATED", 3, 0>>,
  <<"CEREMONY_CONTRIBUTIONS_EXCHANGED", 4, 0>>,
  <<"CEREMONY_COLLECTIVE_PUBLIC_KEY_COMPLETED", 5, 0>>,
  <<"CEREMONY_RELINEARIZATION_COMPLETED", 6, 0>>,
  <<"CEREMONY_GALOIS_COMPLETED", 7, 0>>,
  <<"CEREMONY_EVALUATION_KEY_BUNDLE_COMPLETED", 7, 0>>,
  <<"CEREMONY_PUBLIC_MANIFEST_CONSTRUCTED", 8, 0>>,
  <<"CEREMONY_MANIFEST_SIGNATURE_1", 9, 0>>,
  <<"CEREMONY_MANIFEST_SIGNATURE_2", 10, 0>>,
  <<"CEREMONY_MANIFEST_SIGNATURE_3", 11, 0>>,
  <<"CEREMONY_PUBLIC_BUNDLE_VERIFIED", 13, 0>> >>

CeremonyStages ==
  <<"CEREMONY_CONTEXT_PREPARED">>
    \o [i \in DOMAIN definitions |-> definitions[i][1]]
    \o <<"CEREMONY_COMPLETED">>

STAGES == AdmissionStages \o CeremonyStages

Stage == {STAGES[i] : i \in DOMAIN STAGES}

(* The stages that send a transaction with a prepared payload.             *)
Sources == {"SOURCE_A_COMMITTED", "SOURCE_B_COMMITTED"}
Governance == {"GOVERNANCE_A_CREATED", "GOVERNANCE_B_CREATED"}
OnChain == {"VAULT_CREATED", "VAULT_ACTIVATED", "SESSION_COMMITTED"}
             \cup Sources \cup Governance

(* The ceremony stages that run the laboratory to a checkpoint.            *)
Checkpoints == {definitions[i][1] : i \in DOMAIN definitions}
                 \ {"CEREMONY_IDENTITIES_CONFIRMED"}

ASSUME BoundsAssumption ==
  /\ MaxInterrupts \in Nat
  /\ MaxSends \in Nat \ {0}
  /\ Fragile \subseteq Stage
  /\ Rivals \subseteq Sources \cup {"SESSION_COMMITTED"}
  /\ Drops \in BOOLEAN

VARIABLES
  journal,    \* the journal on disk: the entry of every stage
  txs,        \* per stage, the transactions sent for it, oldest first
  reveal,     \* per source, the payload its reveal package holds (0: no file)
  setup,      \* the five activation prerequisites: chain effects and sends
  apass,      \* whether the vault holds a valid A-Pass
  lab,        \* the ceremony directory
  proc,       \* the runner: where it is, its stage, the hash it holds and
              \* the activation prerequisite it has reached
  interrupts  \* how often it was interrupted

vars == <<journal, txs, reveal, setup, apass, lab, proc, interrupts>>

Ceremony == {CeremonyStages[i] : i \in DOMAIN CeremonyStages}

at == IF proc.at \in DOMAIN STAGES THEN STAGES[proc.at] ELSE "DONE"

entry == journal[at]

NotStarted == [state |-> "NOT_STARTED", payload |-> 0, hash |-> 0,
               receipt |-> FALSE, record |-> FALSE, verified |-> FALSE]

Init ==
  /\ journal = [s \in Stage |-> NotStarted]
  /\ txs = [s \in OnChain |-> <<>>]
  /\ reveal = [s \in Sources |-> 0]
  /\ setup = [minted |-> 0, balance |-> 0, allowance |-> FALSE, credited |-> 0,
              advance |-> 0, approval |-> FALSE, pending |-> <<>>,
              reverted |-> FALSE]
  /\ apass = FALSE
  /\ lab = [base |-> FALSE, context |-> FALSE, ready |-> 0, progress |-> 0]
  /\ proc = [pc |-> "down", at |-> 1, hash |-> 0, step |-> 1]
  /\ interrupts = 0

-----------------------------------------------------------------------------
(* The chain *)

(* The transactions of a stage with a given fate.                          *)
with(s, fate) == {i \in DOMAIN txs[s] : txs[s][i].fate = fate}

(* What the registry, factory or vault holds for the stage: the successful *)
(* transaction, or 0.                                                      *)
stored(s) == IF with(s, "success") = {} THEN 0
             ELSE CHOOSE i \in with(s, "success") : TRUE

exists(s) == /\ stored(s) # 0
             /\ txs[s][stored(s)].payload = journal[s].payload

(* Mistake: the account that submitted the record is not compared.         *)
own_Anyone(s) == exists(s)

(* The record is there and the runner's account submitted it.              *)
own(s) == exists(s) /\ txs[s][stored(s)].by = "runner"

(* The sender's nonce is past the one the preparation recorded.            *)
nonceAdvanced(s) ==
  \E i \in DOMAIN txs[s] : /\ txs[s][i].by = "runner"
                           /\ txs[s][i].fate \in {"success", "reverted"}

(* The activation succeeds with the vault's identity, custody credit and   *)
(* the holder's advance; a commitment, a record or a vault is created once.*)
accepted(s) ==
  /\ stored(s) = 0
  /\ s = "VAULT_ACTIVATED" =>
       apass /\ setup.credited > 0 /\ setup.advance > 0 /\ setup.approval

(* A node mines the oldest pending transaction of the stage.               *)
mine(s) ==
  /\ with(s, "pending") # {}
  /\ LET i == CHOOSE i \in with(s, "pending") :
                 \A j \in with(s, "pending") : i <= j IN
     txs' = [txs EXCEPT ![s][i].fate =
               IF accepted(s) THEN "success" ELSE "reverted"]
  /\ UNCHANGED <<journal, reveal, setup, apass, lab, proc, interrupts>>

(* A node forgets the newest pending transaction.                          *)
drop(s) ==
  /\ Drops
  /\ with(s, "pending") # {}
  /\ LET i == CHOOSE i \in with(s, "pending") :
                 \A j \in with(s, "pending") : i >= j IN
     txs' = [txs EXCEPT ![s][i].fate = "dropped"]
  /\ UNCHANGED <<journal, reveal, setup, apass, lab, proc, interrupts>>

(* Another authorized submitter or relayer sees the commitment in the      *)
(* mempool and has its own copy mined first.                               *)
rival(s) ==
  /\ s \in Rivals
  /\ with(s, "pending") # {} /\ stored(s) = 0
  /\ txs' = [txs EXCEPT ![s] = Append(@,
               [payload |-> @[1].payload, by |-> "other", fate |-> "success"])]
  /\ UNCHANGED <<journal, reveal, setup, apass, lab, proc, interrupts>>

(* The issuer grants the vault its A-Pass, outside the runner.             *)
grantAPass ==
  /\ stored("VAULT_CREATED") # 0 /\ ~apass
  /\ apass' = TRUE
  /\ UNCHANGED <<journal, txs, reveal, setup, lab, proc, interrupts>>

(* The oldest pending prerequisite is mined: mint, approve, credit the     *)
(* vault from the deployer's balance, mint the advance, approve the vault. *)
mineSetup ==
  /\ setup.pending # <<>>
  /\ LET done == [setup EXCEPT !.pending = Tail(@), !.reverted = FALSE] IN
     setup' =
       CASE Head(setup.pending) = 1 ->
              [done EXCEPT !.minted = @ + 1, !.balance = @ + 1]
         [] Head(setup.pending) = 2 -> [done EXCEPT !.allowance = TRUE]
         [] Head(setup.pending) = 3 ->
              IF setup.balance > 0 /\ setup.allowance
              THEN [done EXCEPT !.balance = @ - 1, !.allowance = FALSE,
                                !.credited = @ + 1]
              ELSE [done EXCEPT !.reverted = TRUE]
         [] Head(setup.pending) = 4 -> [done EXCEPT !.advance = @ + 1]
         [] Head(setup.pending) = 5 -> [done EXCEPT !.approval = TRUE]
  /\ UNCHANGED <<journal, txs, reveal, apass, lab, proc, interrupts>>

-----------------------------------------------------------------------------
(* The journal *)

goto(pc) == proc' = [proc EXCEPT !.pc = pc]

(* A handler or the journal throws: the runner process ends.               *)
throw == proc' = [proc EXCEPT !.pc = "down", !.at = 1, !.hash = 0, !.step = 1]

write(s, e) == journal' = [journal EXCEPT ![s] = e]

predecessorsConfirmed(s) ==
  \A i \in DOMAIN STAGES :
    (\E j \in DOMAIN STAGES : i < j /\ STAGES[j] = s)
      => journal[STAGES[i]].state = "CONFIRMED"

(* What prepare leaves in the journal, for a stage it does not refuse.     *)
prepared(s, payload) ==
  IF journal[s].state \in {"CONFIRMED", "PREPARED"} THEN journal[s]
  ELSE [NotStarted EXCEPT !.state = "PREPARED", !.payload = payload]

(* STAGE_ALREADY_BROADCAST, PREPARED_INPUT_DRIFT, STAGE_OUT_OF_ORDER.      *)
prepareRefused(s, payload) ==
  \/ journal[s].state = "BROADCAST"
  \/ journal[s].state = "PREPARED" /\ payload # journal[s].payload
  \/ /\ journal[s].state \notin {"CONFIRMED", "PREPARED", "BROADCAST"}
     /\ ~predecessorsConfirmed(s)

markBroadcast(s, hash) ==
  [journal[s] EXCEPT !.state = "BROADCAST", !.hash = hash]

broadcastRefused(s, hash) ==
  \/ journal[s].state \notin {"PREPARED", "BROADCAST"}
  \/ journal[s].state = "BROADCAST" /\ journal[s].hash # hash

markConfirmed(s) ==
  [journal[s] EXCEPT !.state = "CONFIRMED", !.receipt = TRUE]

(* The outputs are merged onto whatever was prepared.                      *)
recordOffChain(s, record, payload) ==
  [journal[s] EXCEPT !.state = "CONFIRMED", !.record = @ \/ record,
                     !.payload = IF @ = 0 THEN payload ELSE @]

recordRefused(s) ==
  /\ journal[s].state \notin {"PREPARED", "AWAITING_EXTERNAL"}
  /\ ~predecessorsConfirmed(s)

markAwaitingExternal(s) == [journal[s] EXCEPT !.state = "AWAITING_EXTERNAL"]

markFailed(s) == [journal[s] EXCEPT !.state = "FAILED"]

markAmbiguous(s) == [journal[s] EXCEPT !.state = "AMBIGUOUS"]

(* A broadcast stage against the chain: confirmed, failed, ambiguous, or   *)
(* still pending.  A receipt that could not be read counts as none.        *)
reconcileEntry(s, read) ==
  LET fate == IF read THEN txs[s][journal[s].hash].fate ELSE "unread" IN
  IF fate = "success" THEN markConfirmed(s)
  ELSE IF fate = "reverted" THEN markFailed(s)
  ELSE IF nonceAdvanced(s) THEN markAmbiguous(s)
  ELSE journal[s]

-----------------------------------------------------------------------------
(* The runner: opening the journal and the pipeline *)

sealed(s) == journal[s].state = "CONFIRMED" /\ journal[s].verified

(* A stage that runStage returns from at once.                             *)
skipped(s) == sealed(s)

(* Where the pipeline stands after passing over the finished stages.       *)
resumeAt(from) ==
  CHOOSE i \in from..(Len(STAGES) + 1) :
    /\ i <= Len(STAGES) => ~skipped(STAGES[i])
    /\ \A j \in from..(i - 1) : skipped(STAGES[j])

(* The operator starts the runner: every broadcast stage is reconciled     *)
(* with the chain before any handler runs.                                 *)
runAdmissionPipeline ==
  /\ proc.pc = "down"
  /\ \E s \in Stage : ~sealed(s)
  /\ \E unread \in SUBSET {s \in Stage : journal[s].state = "BROADCAST"} :
       journal' = [s \in Stage |-> IF journal[s].state = "BROADCAST"
                                  THEN reconcileEntry(s, s \notin unread) ELSE journal[s]]
  /\ proc' = [proc EXCEPT !.pc = "pipeline", !.at = 1]
  /\ UNCHANGED <<txs, reveal, setup, apass, lab, interrupts>>

runPipeline ==
  /\ proc.pc = "pipeline"
  /\ IF resumeAt(proc.at) > Len(STAGES) THEN throw
     ELSE proc' = [proc EXCEPT !.pc = "stage", !.at = resumeAt(proc.at), !.hash = 0]
  /\ UNCHANGED <<journal, txs, reveal, setup, apass, lab, interrupts>>

-----------------------------------------------------------------------------
(* The reconcile handlers: "done", "ambiguous", "awaiting" or "unknown" *)

reconcileVaultCreated ==
  IF entry.payload # 0 /\ exists("VAULT_CREATED") THEN "done" ELSE "unknown"

reconcileAPass ==
  IF entry.state = "NOT_STARTED" THEN "unknown"
  ELSE IF apass THEN "done" ELSE "awaiting"

reconcileVaultActivated ==
  IF entry.payload # 0 /\ exists("VAULT_ACTIVATED") THEN "done" ELSE "unknown"

reconcileSource(s) ==
  IF entry.payload = 0 \/ ~exists(s) THEN "unknown"
  ELSE IF own(s) THEN "done" ELSE "ambiguous"

reconcileGovernance(s) ==
  IF entry.payload = 0 \/ ~exists(s) THEN "unknown" ELSE "done"

reconcileSessionCommitted ==
  IF entry.payload = 0 \/ ~exists("SESSION_COMMITTED") THEN "unknown"
  ELSE IF own("SESSION_COMMITTED") THEN "done" ELSE "ambiguous"

(* What the public ceremony directory has reached for a stage.             *)
reached(s) ==
  \E i \in DOMAIN definitions :
    /\ definitions[i][1] = s
    /\ lab.context
    /\ lab.progress >= definitions[i][2]
    /\ lab.ready >= definitions[i][3]

reconcileContext == IF lab.context THEN "done" ELSE "unknown"

reconcileCheckpoint(s) == IF reached(s) THEN "done" ELSE "unknown"

reconcileCompleted == IF lab.progress >= 13 THEN "done" ELSE "unknown"

finding(s) ==
  CASE s = "VAULT_CREATED" -> reconcileVaultCreated
    [] s = "AWAITING_VAULT_APASS" -> reconcileAPass
    [] s = "VAULT_ACTIVATED" -> reconcileVaultActivated
    [] s \in Sources -> reconcileSource(s)
    [] s \in Governance -> reconcileGovernance(s)
    [] s = "SESSION_COMMITTED" -> reconcileSessionCommitted
    [] s = "CEREMONY_CONTEXT_PREPARED" -> reconcileContext
    [] s = "CEREMONY_COMPLETED" -> reconcileCompleted
    [] s \in Checkpoints \cup {"CEREMONY_IDENTITIES_CONFIRMED"}
         -> reconcileCheckpoint(s)
    [] OTHER -> "unknown"

(* The beginning of runStage: the journal's verdict, then the chain's.     *)
runStage ==
  /\ proc.pc = "stage"
  /\ UNCHANGED <<txs, reveal, setup, apass, lab, interrupts>>
  /\ \/ /\ entry.state \in {"AMBIGUOUS", "FAILED"}
        /\ throw
        /\ UNCHANGED journal
     \/ /\ entry.state = "CONFIRMED"
        /\ goto("verify")
        /\ UNCHANGED journal
     \/ /\ entry.state \notin {"AMBIGUOUS", "FAILED", "CONFIRMED"}
        /\ \/ /\ finding(at) = "done" /\ ~recordRefused(at)
              /\ write(at, recordOffChain(at, TRUE, 1))
              /\ goto("verify")
           \/ /\ finding(at) = "done" /\ recordRefused(at)
              /\ throw
              /\ UNCHANGED journal
           \/ /\ finding(at) = "ambiguous"
              /\ write(at, markAmbiguous(at))
              /\ throw
           \/ /\ finding(at) = "awaiting"
              /\ write(at, markAwaitingExternal(at))
              /\ throw
           \/ /\ finding(at) = "unknown"
              /\ goto("prepare")
              /\ UNCHANGED journal

-----------------------------------------------------------------------------
(* The prepare handlers *)

(* Values drawn anew: they differ from what the journal may hold.          *)
fresh(s) == IF journal[s].payload = 1 THEN 2 ELSE 1

(* The vault's terms and the pledge depend on the time of the last block,  *)
(* a source and a session on random salts; the rest is derived from the    *)
(* run's label and from what earlier stages froze.                         *)
stackRecord == 1

vaultRecord == fresh("VAULT_CREATED")

activationRecord == fresh("VAULT_ACTIVATED")

sourceRecord(s) == fresh(s)

governanceRecord == 1

sessionRecord == fresh("SESSION_PREPARED")

reservationRecord == journal["SESSION_PREPARED"].payload

(* The relayer publishes exactly the request that SESSION_PREPARED froze.  *)
relayerRequest == journal["SESSION_PREPARED"].payload

checkpointRecord == journal["CEREMONY_CONTEXT_PREPARED"].payload

(* A prepared stage returns its frozen record; any other state, BROADCAST  *)
(* included, makes a new one.                                              *)
payloadFor(s) ==
  CASE journal[s].state = "PREPARED" -> journal[s].payload
    [] s = "VAULT_CREATED" -> vaultRecord
    [] s = "VAULT_ACTIVATED" -> activationRecord
    [] s \in Sources -> sourceRecord(s)
    [] s \in Governance -> governanceRecord
    [] s = "SESSION_PREPARED" -> sessionRecord
    [] s = "SESSION_NULLIFIER_RESERVED" -> reservationRecord
    [] s = "SESSION_COMMITTED" -> relayerRequest
    [] s \in Ceremony \ {"CEREMONY_CONTEXT_PREPARED"} -> checkpointRecord
    [] OTHER -> stackRecord

(* A prepared source checks its reveal package; otherwise the package is   *)
(* written, over whatever the file held.                                   *)
prepareSource ==
  /\ proc.pc = "prepare" /\ at \in Sources
  /\ IF entry.state = "PREPARED" /\ reveal[at] # entry.payload
     THEN throw /\ UNCHANGED reveal
     ELSE goto("freeze") /\ reveal' = [reveal EXCEPT ![at] = payloadFor(at)]
  /\ UNCHANGED <<journal, txs, setup, apass, lab, interrupts>>

(* The ceremony context: its base file holds a fresh nonce and is written  *)
(* once; a base file with another nonce is refused.  The laboratory then   *)
(* builds the context from it.                                             *)
prepareContext ==
  /\ proc.pc = "prepare" /\ at = "CEREMONY_CONTEXT_PREPARED"
  /\ \/ /\ entry.state = "PREPARED" \/ lab.context
        /\ goto("freeze")
        /\ UNCHANGED lab
     \/ /\ entry.state # "PREPARED" /\ ~lab.context /\ ~lab.base
        /\ lab' = [lab EXCEPT !.base = TRUE]
        /\ goto("setup-context")
     \/ /\ entry.state # "PREPARED" /\ ~lab.context /\ lab.base
        /\ throw
        /\ UNCHANGED lab
  /\ UNCHANGED <<journal, txs, reveal, setup, apass, interrupts>>

setupContext ==
  /\ proc.pc = "setup-context"
  /\ lab' = [lab EXCEPT !.context = TRUE, !.progress = 1]
  /\ goto("freeze")
  /\ UNCHANGED <<journal, txs, reveal, setup, apass, interrupts>>

(* The creation of the vault is simulated first, which reverts when the    *)
(* invoice root has a vault.                                               *)
prepareOther ==
  /\ proc.pc = "prepare" /\ at \notin Sources \cup {"CEREMONY_CONTEXT_PREPARED"}
  /\ IF at = "VAULT_CREATED" /\ entry.state # "PREPARED" /\ stored(at) # 0
     THEN throw
     ELSE goto("freeze")
  /\ UNCHANGED <<journal, txs, reveal, setup, apass, lab, interrupts>>

(* journal.prepare with the record the handler returned.                   *)
freeze ==
  /\ proc.pc = "freeze"
  /\ IF prepareRefused(at, payloadFor(at))
     THEN throw /\ UNCHANGED journal
     ELSE write(at, prepared(at, payloadFor(at))) /\ goto("execute")
  /\ UNCHANGED <<txs, reveal, setup, apass, lab, interrupts>>

-----------------------------------------------------------------------------
(* The execute handlers *)

(* A stage without a transaction only records its outputs.                 *)
executeOffChain ==
  /\ proc.pc = "execute"
  /\ at \notin OnChain \cup Checkpoints \cup {"AWAITING_VAULT_APASS"}
  /\ write(at, recordOffChain(at, FALSE, 0))
  /\ goto("verify")
  /\ UNCHANGED <<txs, reveal, setup, apass, lab, interrupts>>

(* The A-Pass stage asks for the external action and ends the pipeline.    *)
executeAPass ==
  /\ proc.pc = "execute" /\ at = "AWAITING_VAULT_APASS"
  /\ write(at, markAwaitingExternal(at))
  /\ throw
  /\ UNCHANGED <<txs, reveal, setup, apass, lab, interrupts>>

(* Whether a prerequisite of the activation is found done on the chain.    *)
alreadyReady(k) ==
  CASE k = 1 -> setup.balance > 0
    [] k = 2 -> setup.allowance
    [] k = 3 -> setup.credited > 0
    [] k = 4 -> setup.advance > 0
    [] k = 5 -> setup.approval

(* The activation capability goes through the prerequisites; the gas of    *)
(* the credit can only be estimated with the balance and the allowance.    *)
activatePrepared ==
  /\ proc.pc = "execute" /\ at = "VAULT_ACTIVATED" /\ proc.step <= 5
  /\ \/ /\ alreadyReady(proc.step)
        /\ proc' = [proc EXCEPT !.step = @ + 1]
        /\ UNCHANGED setup
     \/ /\ ~alreadyReady(proc.step)
        /\ IF proc.step = 3 /\ (setup.balance = 0 \/ ~setup.allowance)
           THEN throw /\ UNCHANGED setup
           ELSE /\ setup' = [setup EXCEPT !.pending = Append(@, proc.step)]
                /\ goto("settle")
  /\ UNCHANGED <<journal, txs, reveal, apass, lab, interrupts>>

(* The receipt of the prerequisite, which is the last one pending.         *)
settlePrerequisite ==
  /\ proc.pc = "settle" /\ setup.pending = <<>>
  /\ IF setup.reverted THEN throw
     ELSE proc' = [proc EXCEPT !.pc = "execute", !.step = @ + 1]
  /\ UNCHANGED <<journal, txs, reveal, setup, apass, lab, interrupts>>

(* The wallet sends the frozen calldata with its own next nonce.           *)
send ==
  /\ Len(txs[at]) < MaxSends
  /\ txs' = [txs EXCEPT ![at] = Append(@,
               [payload |-> entry.payload, by |-> "runner", fate |-> "pending"])]
  /\ proc' = [proc EXCEPT !.pc = "mark", !.hash = Len(txs[at]) + 1]

(* The gas estimate is taken on the latest state and reverts with it.      *)
broadcastPrepared ==
  /\ proc.pc = "execute" /\ at \in OnChain \ {"SESSION_COMMITTED"}
  /\ at = "VAULT_ACTIVATED" => proc.step > 5
  /\ IF accepted(at) THEN send ELSE throw /\ UNCHANGED txs
  /\ UNCHANGED <<journal, reveal, setup, apass, lab, interrupts>>

(* The relayer refuses a commitment that is already published and a        *)
(* nullifier that is already consumed.                                     *)
publishSessionCommitment ==
  /\ proc.pc = "execute" /\ at = "SESSION_COMMITTED"
  /\ IF stored(at) = 0 THEN send ELSE throw /\ UNCHANGED txs
  /\ UNCHANGED <<journal, reveal, setup, apass, lab, interrupts>>

(* The hash is persisted before the receipt is awaited.  The relayer took  *)
(* its nonce before it sent; another one than the prepared nonce is drift. *)
onBroadcast ==
  /\ proc.pc = "mark"
  /\ IF \/ broadcastRefused(at, proc.hash)
        \/ at = "SESSION_COMMITTED"
             /\ \E i \in 1..(proc.hash - 1) : txs[at][i].by = "runner"
                                             /\ txs[at][i].fate # "dropped"
     THEN throw /\ UNCHANGED journal
     ELSE write(at, markBroadcast(at, proc.hash)) /\ goto("await")
  /\ UNCHANGED <<txs, reveal, setup, apass, lab, interrupts>>

(* The receipt arrives.  The relayer throws on a reverted transaction and  *)
(* leaves the entry to the next start.                                     *)
awaitReceipt ==
  /\ proc.pc = "await"
  /\ \/ /\ txs[at][proc.hash].fate = "success"
        /\ write(at, markConfirmed(at))
        /\ goto("verify")
     \/ /\ txs[at][proc.hash].fate = "reverted" /\ at # "SESSION_COMMITTED"
        /\ write(at, markFailed(at))
        /\ throw
     \/ /\ txs[at][proc.hash].fate = "reverted" /\ at = "SESSION_COMMITTED"
        /\ throw
        /\ UNCHANGED journal
  /\ UNCHANGED <<txs, reveal, setup, apass, lab, interrupts>>

(* The laboratory moves to the next mark: three ready operators in roster  *)
(* order, then one mark of progress at a time.                             *)
runCheckpoint ==
  /\ proc.pc = "execute" /\ at \in Checkpoints
  /\ IF reached(at)
     THEN /\ write(at, recordOffChain(at, FALSE, 0))
          /\ goto("verify")
          /\ UNCHANGED lab
     ELSE /\ lab' = IF lab.ready < 3
                    THEN [lab EXCEPT !.ready = @ + 1, !.progress = 2]
                    ELSE [lab EXCEPT !.progress = @ + 1]
          /\ UNCHANGED <<journal, proc>>
  /\ UNCHANGED <<txs, reveal, setup, apass, interrupts>>

-----------------------------------------------------------------------------
(* The verify handlers: "ok", "no" or "throws" *)

verifyVaultCreated == IF exists("VAULT_CREATED") THEN "ok" ELSE "throws"

verifyAPass == IF apass THEN "ok" ELSE "no"

verifyVaultActivated == IF exists("VAULT_ACTIVATED") THEN "ok" ELSE "no"

verifySource(s) ==
  IF reveal[s] # journal[s].payload THEN "throws"
  ELSE IF own(s) THEN "ok" ELSE "no"

verifyGovernance(s) ==
  IF (journal[s].record \/ journal[s].hash # 0) /\ exists(s) THEN "ok" ELSE "no"

verifyNullifierReserved == IF stored("SESSION_COMMITTED") = 0 THEN "ok" ELSE "no"

(* Every source and governance stage has a receipt with an earlier block.  *)
chronologyBlocks == \A s \in Sources \cup Governance : journal[s].receipt

verifySessionCommitted ==
  IF own("SESSION_COMMITTED") /\ chronologyBlocks THEN "ok" ELSE "no"

verifyContext == IF lab.context THEN "ok" ELSE "throws"

verifyCheckpoint(s) == IF reached(s) THEN "ok" ELSE "no"

verifyCompleted == IF lab.progress >= 13 THEN "ok" ELSE "no"

verdict(s) ==
  CASE s = "VAULT_CREATED" -> verifyVaultCreated
    [] s = "AWAITING_VAULT_APASS" -> verifyAPass
    [] s = "VAULT_ACTIVATED" -> verifyVaultActivated
    [] s \in Sources -> verifySource(s)
    [] s \in Governance -> verifyGovernance(s)
    [] s = "SESSION_NULLIFIER_RESERVED" -> verifyNullifierReserved
    [] s = "SESSION_COMMITTED" -> verifySessionCommitted
    [] s = "CEREMONY_CONTEXT_PREPARED" -> verifyContext
    [] s = "CEREMONY_COMPLETED" -> verifyCompleted
    [] s \in Checkpoints \cup {"CEREMONY_IDENTITIES_CONFIRMED"} -> verifyCheckpoint(s)
    [] OTHER -> "ok"

(* The stage is checked from the world and sealed, or failed.              *)
verifyAndSeal ==
  /\ proc.pc = "verify"
  /\ \/ /\ verdict(at) = "ok"
        /\ write(at, [entry EXCEPT !.verified = TRUE,
                                   !.record = @ \/ at \in Governance])
        /\ proc' = [proc EXCEPT !.pc = "pipeline", !.at = @ + 1, !.step = 1]
     \/ /\ verdict(at) = "no"
        /\ write(at, markFailed(at))
        /\ throw
     \/ /\ verdict(at) = "throws"
        /\ throw
        /\ UNCHANGED journal
  /\ UNCHANGED <<txs, reveal, setup, apass, lab, interrupts>>

-----------------------------------------------------------------------------
(* A crash, or a receipt that did not come in time.                        *)
interrupt ==
  /\ proc.pc # "down" /\ interrupts < MaxInterrupts
  /\ at \in Fragile
  /\ interrupts' = interrupts + 1
  /\ throw
  /\ UNCHANGED <<journal, txs, reveal, setup, apass, lab>>

Step ==
  \/ runPipeline \/ runStage \/ prepareSource \/ prepareContext \/ setupContext
  \/ prepareOther \/ freeze \/ executeOffChain \/ executeAPass
  \/ activatePrepared \/ settlePrerequisite \/ broadcastPrepared
  \/ publishSessionCommitment \/ onBroadcast
  \/ awaitReceipt \/ runCheckpoint \/ verifyAndSeal

Next ==
  \/ runAdmissionPipeline \/ Step \/ interrupt
  \/ \E s \in OnChain : mine(s) \/ drop(s) \/ rival(s)
  \/ mineSetup \/ grantAPass

Spec == Init /\ [][Next]_vars

(* The operator starts the runner whenever it has stopped, the runner runs *)
(* on, pending transactions are mined and the issuer acts.                 *)
FairSpec ==
  /\ Spec
  /\ WF_vars(runAdmissionPipeline) /\ WF_vars(Step)
  /\ \A s \in OnChain : WF_vars(mine(s))
  /\ WF_vars(mineSetup) /\ WF_vars(grantAPass)

-----------------------------------------------------------------------------
(* Properties *)

States == {"NOT_STARTED", "PREPARED", "AWAITING_EXTERNAL", "BROADCAST",
           "CONFIRMED", "FAILED", "AMBIGUOUS"}

(* The journal holds only the stage states, flags, payloads and hashes     *)
(* the handlers write, and a hash is the hash of a transaction that was    *)
(* sent for that stage.                                                    *)
TypeOK ==
  /\ \A s \in Stage :
       /\ journal[s].state \in States
       /\ journal[s].payload \in 0..2
       /\ journal[s].hash # 0 => s \in OnChain /\ journal[s].hash \in DOMAIN txs[s]
       /\ {journal[s].receipt, journal[s].record, journal[s].verified} \subseteq BOOLEAN
  /\ \A s \in OnChain : Len(txs[s]) <= MaxSends + 1
  /\ lab.progress \in 0..13 /\ lab.ready \in 0..3
  /\ interrupts \in 0..MaxInterrupts

(* Wherever the runner was interrupted and whatever it was resumed from, a *)
(* stage that has begun stands on predecessors that are all confirmed and  *)
(* independently verified (v5-stage.mjs: confirmation without the flag is  *)
(* not a licence to skip verification on restart).                         *)
SpineIsSealed ==
  \A i, j \in DOMAIN STAGES :
    i < j /\ journal[STAGES[j]].state # "NOT_STARTED" => sealed(STAGES[i])

(* A sealed transaction stage is on the chain, made by the runner, with    *)
(* the calldata that was frozen in the journal and not with another.       *)
SealedIsOnChain ==
  \A s \in OnChain : sealed(s) =>
    \E i \in with(s, "success") : /\ txs[s][i].by = "runner"
                                  /\ txs[s][i].payload = journal[s].payload

(* Losing the reveal package strands the session: of a sealed source the   *)
(* package on disk opens the commitment on the chain.                      *)
RevealOpensCommitment ==
  \A s \in Sources : sealed(s) => reveal[s] = txs[s][stored(s)].payload

(* A step waiting for a receipt has its hash in the journal, so a crash    *)
(* while it waits leaves a hash to reconcile.                              *)
AwaitedIsJournaled ==
  proc.pc = "await" => entry.state = "BROADCAST" /\ entry.hash = proc.hash

(* What a preparation froze is never regenerated: the session nullifier    *)
(* and every salt and calldata survive every restart of the runner.        *)
FrozenForever ==
  [][\A s \in Stage : journal[s].payload # 0 => journal'[s].payload = journal[s].payload]_vars

(* FAILED and AMBIGUOUS end the automation, and a sealed stage stays so.   *)
TerminalStays ==
  [][\A s \in Stage :
       /\ journal[s].state \in {"FAILED", "AMBIGUOUS"} => journal'[s] = journal[s]
       /\ sealed(s) => journal'[s] = journal[s]]_vars

complete == \A s \in Stage : sealed(s)

(* A run that is interrupted only outside its transaction stages and its   *)
(* ceremony context is resumed to the end of the ceremony.                 *)
RunCompletes == <>complete

(* "Recoverable Gate 1 dealerless 2-of-3 ceremony stages"                  *)
(* (v5-ceremony-flow.mjs): a ceremony interrupted while its context is     *)
(* being prepared is resumed to a prepared context.                        *)
CeremonyRecovers == <>sealed("CEREMONY_CONTEXT_PREPARED")

(* "A crash between broadcast and receipt must leave a hash to reconcile,  *)
(* never a silent gap" (v5-journal.mjs).                                   *)
NoSilentGap ==
  \A s \in OnChain : proc.pc = "down" /\ with(s, "pending") # {}
                       => journal[s].hash # 0

(* "Generated once, frozen in the journal, never regenerated"              *)
(* (v5-source-flow.mjs): of a source that was broadcast the reveal package *)
(* keeps the salt of the commitment.                                       *)
SaltIsKept ==
  \A s \in Sources : journal[s].hash # 0 => reveal[s] = journal[s].payload

(* "The chain, not the journal, decides whether work already happened"     *)
(* (v5-stage.mjs): a session the runner's own transaction committed is not *)
(* failed.                                                                 *)
CommittedIsNotFailed ==
  own("SESSION_COMMITTED") => journal["SESSION_COMMITTED"].state # "FAILED"

(* "A restart after any individual setup hash therefore never mints or     *)
(* credits the vault a second time" (v5-rehearsal-support.mjs).            *)
MintsOnce == setup.minted <= 1

=============================================================================
