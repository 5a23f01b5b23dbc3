------------------------------ MODULE LivingDemo ----------------------------
(***************************************************************************)
(* The transaction-driven deal room: a server that executes the canonical  *)
(* journey on a local chain, one step per request, and keeps the run in    *)
(* one JSON file that is replaced atomically                               *)
(* (src/lib/dealroom/living-demo-server.ts and journey.ts).                *)
(*                                                                         *)
(* Every surface of the deal room polls the run (GET) and may execute its  *)
(* next action or reset it (POST).  A request reads the file, may wait for *)
(* the chain, and writes back a whole file built from what it had read;    *)
(* executions exclude each other only by a variable in the server's memory.*)
(* The server may die at any await, and the chain may fail to answer.      *)
(*                                                                         *)
(* A step of the model runs from one await to the next.  The record of an  *)
(* action keeps its status and its transaction; observed balances, events  *)
(* and wording are left out.  epoch counts the lives of the chain: a reset *)
(* or a new deployment starts one, and forgets every transaction.          *)
(***************************************************************************)
EXTENDS Naturals, Sequences, FiniteSets

CONSTANTS
  DemoSteps,      \* the steps of JOURNEY in the instance, in order
  Slots,          \* requests the server handles at the same time
  MaxActions,     \* executions asked for
  MaxRpcFaults,   \* calls to the chain that fail or whose answer is lost
  MaxDeaths,      \* deaths of the server
  MaxLives        \* resets and redeployments

(* JOURNEY: every step has an id of its own.                               *)
JOURNEY ==
  {"approve-funding", "activate", "positions", "sign-conflict", "commit", "reveal", "cure-window",
   "finalize", "claim-a", "claim-b", "approve-redemption", "fund-redemption", "redeem-a", "redeem-b"}

ASSUME DemoAssumption ==
  /\ DemoSteps \in Seq(JOURNEY)
  /\ \A i, j \in DOMAIN DemoSteps : DemoSteps[i] = DemoSteps[j] => i = j

VARIABLES
  demoChain,    \* [epoch, sent: every transaction, mined at once]
  demoFile,     \* .dealroom/m-ex2-run.json
  deployed,     \* .dealroom/deployment.json: [id, snapshot: still usable]
  activeAction, \* activeActionId
  handling,     \* per slot, the request under way
  tally,        \* how many executions, faults, deaths and lives so far
  overlaps      \* history: "creation" or "reset" once one ran into another request

demoVars == <<demoChain, demoFile, deployed, activeAction, handling, tally, overlaps>>

Steps == {DemoSteps[i] : i \in DOMAIN DemoSteps}
NoStep == "none"

(***************************************************************************)
(* The journey.                                                            *)
(***************************************************************************)
stepKind(s) ==
  CASE s = "sign-conflict" -> "signature"
    [] s = "cure-window" -> "local-chain"
    [] OTHER -> "transaction"

(* A second execution of the step is refused by the contracts.  An         *)
(* approval, the transfer of positions and the passing of time are not.    *)
onceOnly(s) == s \notin {"approve-funding", "positions", "cure-window", "approve-redemption"}

needsConflict(s) == s \in {"commit", "reveal"}

(***************************************************************************)
(* The chain and the file.                                                 *)
(***************************************************************************)
landings(s) ==
  {i \in DOMAIN demoChain.sent :
     LET t == demoChain.sent[i] IN t.step = s /\ t.ok /\ t.epoch = demoChain.epoch}
landed(s) == landings(s) # {}

(* getTransactionReceipt: none for a transaction of an earlier life.       *)
receiptOf(h) ==
  IF h = 0 \/ demoChain.sent[h].epoch # demoChain.epoch THEN "none"
  ELSE IF demoChain.sent[h].ok THEN "success" ELSE "reverted"

mined(s) ==
  [demoChain EXCEPT !.sent = Append(@, [step |-> s, ok |-> ~onceOnly(s) \/ ~landed(s),
                                        epoch |-> demoChain.epoch])]

freshRun ==
  [epoch |-> demoChain.epoch, deployment |-> deployed.id, conflict |-> FALSE,
   status |-> [s \in Steps |-> "none"], hash |-> [s \in Steps |-> 0]]

(* Mistake: an action that was only attempted counts as done.              *)
nextActionFor_Attempted(f) ==
  LET open == {i \in DOMAIN DemoSteps : f.status[DemoSteps[i]] \in {"none", "failed"}}
  IN IF open = {} THEN NoStep ELSE DemoSteps[CHOOSE i \in open : \A j \in open : i <= j]
nextActionFor(f) ==
  LET open == {i \in DOMAIN DemoSteps : f.status[DemoSteps[i]] # "confirmed"}
  IN IF open = {} THEN NoStep ELSE DemoSteps[CHOOSE i \in open : \A j \in open : i <= j]

(* Only the record that is there is changed.                               *)
updateAction(f, s, status, h) ==
  IF f.status[s] = "none" THEN f ELSE [f EXCEPT !.status[s] = status, !.hash[s] = h]

pendingIn(f) ==
  IF \E s \in Steps : f.status[s] = "pending" THEN CHOOSE s \in Steps : f.status[s] = "pending" ELSE NoStep

(* reconcilePending, once the receipt was read: it decides, and without    *)
(* one the run stays as it is.                                             *)
settledBy(f, receipt) ==
  LET s == pendingIn(f)
  IN CASE receipt = "none" -> f
       [] receipt = "success" -> updateAction(f, s, "confirmed", f.hash[s])
       [] receipt = "reverted" -> updateAction(f, s, "failed", f.hash[s])

(***************************************************************************)
(* Requests.                                                               *)
(***************************************************************************)
Free == [at |-> "free", step |-> NoStep, seen |-> demoFile, hash |-> 0, conflict |-> FALSE]

counted(k) == tally' = [tally EXCEPT ![k] = @ + 1]
faultLeft == tally.faults < MaxRpcFaults
resting == \A q \in Slots : handling[q].at = "free"

(* What replaces the whole run, and where such a request may be waiting.   *)
Replacing ==
  [creation |-> {"initialize"}, reset |-> {"revert", "snapshot", "reinitialize"}]
overlapping ==
  {k \in DOMAIN Replacing :
     \E q, r \in Slots : q # r /\ handling[q].at \in Replacing[k] /\ handling[r].at # "free"}

moves(q, at) == handling' = [handling EXCEPT ![q].at = at]
ends(q) == handling' = [handling EXCEPT ![q] = [Free EXCEPT !.seen = freshRun]]

(* loadOrInitialize has returned f: a read is answered, an execution goes  *)
(* on if it names the next action, and takes the lock.                     *)
afterLoad(q, step, f) ==
  IF step # NoStep /\ step = nextActionFor(f)
  THEN /\ activeAction' = step
       /\ handling' = [handling EXCEPT ![q] = [at |-> "before", step |-> step, seen |-> f,
                                               hash |-> 0, conflict |-> f.conflict]]
  ELSE ends(q) /\ UNCHANGED activeAction

(* The request waits for the chain with the run it has read or will write. *)
waitsAt(q, at, step, f) ==
  /\ handling' = [handling EXCEPT ![q] = [at |-> at, step |-> step, seen |-> f,
                                          hash |-> 0, conflict |-> FALSE]]
  /\ UNCHANGED <<demoFile, activeAction>>

(* Without a run file, or with one of another deployment, a new run is     *)
(* written once the chain was read.  A pending action without a hash is    *)
(* given up after ten seconds; one with a hash is looked up, unless the    *)
(* execution that owns it is under way.                                    *)
loadOrInitialize(q, step) ==
  LET p == pendingIn(demoFile)
  IN IF demoFile.deployment # deployed.id THEN waitsAt(q, "initialize", step, freshRun)
     ELSE IF p = NoStep \/ activeAction = p THEN afterLoad(q, step, demoFile) /\ UNCHANGED demoFile
     ELSE IF demoFile.hash[p] = 0
     THEN \E f \in {demoFile, updateAction(demoFile, p, "failed", 0)} :
            demoFile' = f /\ afterLoad(q, step, f)
     ELSE waitsAt(q, "receipt", step, demoFile)

getLivingDemoRun(q) ==
  /\ handling[q].at = "free"
  /\ loadOrInitialize(q, NoStep)
  /\ handling' # handling \/ demoFile' # demoFile
  /\ UNCHANGED <<demoChain, deployed, tally>>

(* Mistake: nothing keeps a second execution out.                          *)
unlocked_Always == TRUE
unlocked == activeAction = NoStep

executeLivingDemoAction(q) ==
  /\ handling[q].at = "free"
  /\ tally.actions < MaxActions /\ counted("actions")
  /\ unlocked
  /\ \E s \in Steps : loadOrInitialize(q, s)
  /\ UNCHANGED <<demoChain, deployed>>

(* The run is of the deployment that was loaded when the request came, and *)
(* of the chain that answers now.                                          *)
startedRun(q) == [handling[q].seen EXCEPT !.epoch = demoChain.epoch]

initializeRun(q) ==
  /\ handling[q].at = "initialize"
  /\ demoFile' = startedRun(q) /\ afterLoad(q, handling[q].step, startedRun(q))
  /\ UNCHANGED <<demoChain, deployed, tally>>

(* The file is written from what was read before the receipt was awaited.  *)
(* A lookup that fails is taken for a missing receipt and the request goes *)
(* on; a chain that then cannot be read ends it.                           *)
reconcilePending(q) ==
  /\ handling[q].at = "receipt"
  /\ LET f == handling[q].seen
         r == receiptOf(f.hash[pendingIn(f)])
     IN \/ /\ demoFile' = IF r = "none" THEN demoFile ELSE settledBy(f, r)
           /\ afterLoad(q, handling[q].step, settledBy(f, r))
           /\ UNCHANGED tally
        \/ /\ r # "none" /\ faultLeft /\ counted("faults")
           /\ afterLoad(q, handling[q].step, f) \/ (ends(q) /\ UNCHANGED activeAction)
           /\ UNCHANGED demoFile
  /\ UNCHANGED <<demoChain, deployed>>

(***************************************************************************)
(* An execution.                                                           *)
(***************************************************************************)
(* The chain is read, and the pending record replaces whatever was kept of *)
(* an earlier attempt.  A read that fails is outside the try: the request  *)
(* ends and the lock stays.                                                *)
observeBefore(q) ==
  /\ handling[q].at = "before"
  /\ \/ /\ demoFile' = [handling[q].seen EXCEPT !.status[handling[q].step] = "pending",
                                                !.hash[handling[q].step] = 0]
        /\ moves(q, "run") /\ UNCHANGED tally
     \/ /\ faultLeft /\ counted("faults")
        /\ ends(q) /\ UNCHANGED demoFile
  /\ UNCHANGED <<demoChain, deployed, activeAction>>

(* The catch block, up to its first await.  A retained hash is observed,   *)
(* and without one the action has failed.                                  *)
catches(q) ==
  LET s == handling[q].step
  IN IF demoFile.hash[s] # 0
     THEN /\ handling' = [handling EXCEPT ![q].at = "observe", ![q].seen = demoFile]
          /\ UNCHANGED <<demoFile, activeAction>>
     ELSE /\ demoFile' = updateAction(demoFile, s, "failed", 0)
          /\ activeAction' = NoStep /\ ends(q)

rpcFails(q) == faultLeft /\ counted("faults") /\ catches(q)

runStep(q) ==
  /\ handling[q].at = "run"
  /\ LET s == handling[q].step
     IN \/ /\ stepKind(s) = "signature"
           /\ handling' = [handling EXCEPT ![q].at = "confirm", ![q].conflict = TRUE]
           /\ UNCHANGED <<demoChain, demoFile, activeAction, tally>>
        \/ /\ stepKind(s) = "local-chain"
           /\ demoChain' = mined(s)
           /\ \/ moves(q, "confirm") /\ UNCHANGED <<demoFile, activeAction, tally>>
              \/ rpcFails(q)
        \/ /\ stepKind(s) = "transaction"
           /\ IF (needsConflict(s) /\ ~handling[q].conflict) \/ (onceOnly(s) /\ landed(s))
              THEN catches(q) /\ UNCHANGED tally
              ELSE moves(q, "send") /\ UNCHANGED <<demoFile, activeAction, tally>>
           /\ UNCHANGED demoChain
        \/ rpcFails(q) /\ UNCHANGED demoChain
  /\ UNCHANGED deployed

(* writeContract: the chain mines at once; its answer may be lost.         *)
sendTransaction(q) ==
  /\ handling[q].at = "send"
  /\ \/ /\ demoChain' = mined(handling[q].step)
        /\ \/ /\ handling' = [handling EXCEPT ![q].at = "broadcast", ![q].hash = Len(demoChain.sent) + 1]
              /\ UNCHANGED <<demoFile, activeAction, tally>>
           \/ rpcFails(q)
     \/ rpcFails(q) /\ UNCHANGED demoChain
  /\ UNCHANGED deployed

onTransactionBroadcast(q) ==
  /\ handling[q].at = "broadcast"
  /\ LET s == handling[q].step
     IN demoFile' = updateAction(demoFile, s, demoFile.status[s], handling[q].hash)
  /\ moves(q, "wait")
  /\ UNCHANGED <<demoChain, deployed, activeAction, tally>>

waitForReceipt(q) ==
  /\ handling[q].at = "wait"
  /\ \/ /\ receiptOf(handling[q].hash) = "success"
        /\ moves(q, "confirm") /\ UNCHANGED <<demoFile, activeAction, tally>>
     \/ /\ receiptOf(handling[q].hash) = "reverted"
        /\ catches(q) /\ UNCHANGED tally
     \/ rpcFails(q)
  /\ UNCHANGED <<demoChain, deployed>>

(* The file is read again and the action confirmed in what it says now.    *)
confirmAction(q) ==
  /\ handling[q].at = "confirm"
  /\ \/ LET s == handling[q].step
            h == IF handling[q].hash # 0 THEN handling[q].hash ELSE demoFile.hash[s]
        IN /\ demoFile' = [updateAction(demoFile, s, "confirmed", h)
                             EXCEPT !.conflict = @ \/ handling[q].conflict]
           /\ activeAction' = NoStep /\ ends(q) /\ UNCHANGED tally
     \/ rpcFails(q)
  /\ UNCHANGED <<demoChain, deployed>>

(* A failure after the broadcast is not guessed: the receipt decides.      *)
observeRetained(q) ==
  /\ handling[q].at = "observe"
  /\ LET f == handling[q].seen
         p == pendingIn(f)
         r == IF p = NoStep THEN "none" ELSE receiptOf(f.hash[p])
     IN \/ /\ demoFile' = IF r = "none" THEN demoFile ELSE settledBy(f, r)
           /\ UNCHANGED tally
        \/ r # "none" /\ faultLeft /\ counted("faults") /\ UNCHANGED demoFile
  /\ activeAction' = NoStep /\ ends(q)
  /\ UNCHANGED <<demoChain, deployed>>

(***************************************************************************)
(* Resets, redeployments and deaths.                                       *)
(***************************************************************************)
resetLivingDemoRun(q) ==
  /\ handling[q].at = "free" /\ activeAction = NoStep
  /\ tally.lives < MaxLives /\ counted("lives")
  /\ handling' = [handling EXCEPT ![q] = [Free EXCEPT !.at = "revert", !.seen = freshRun]]
  /\ UNCHANGED <<demoChain, demoFile, deployed, activeAction>>

(* evm_revert consumes the snapshot; one that is gone refuses the reset.   *)
revertChain(q) ==
  /\ handling[q].at = "revert"
  /\ IF deployed.snapshot
     THEN /\ demoChain' = [demoChain EXCEPT !.epoch = @ + 1]
          /\ deployed' = [deployed EXCEPT !.snapshot = FALSE]
          /\ moves(q, "snapshot")
     ELSE ends(q) /\ UNCHANGED <<demoChain, deployed>>
  /\ UNCHANGED <<demoFile, activeAction, tally>>

saveSnapshot(q) ==
  /\ handling[q].at = "snapshot"
  /\ deployed' = [deployed EXCEPT !.snapshot = TRUE]
  /\ moves(q, "reinitialize")
  /\ UNCHANGED <<demoChain, demoFile, activeAction, tally>>

reinitialize(q) ==
  /\ handling[q].at = "reinitialize"
  /\ demoFile' = startedRun(q) /\ ends(q)
  /\ UNCHANGED <<demoChain, deployed, activeAction, tally>>

(* pnpm localnet: a new chain and a new deployment file.                   *)
localnet ==
  /\ tally.lives < MaxLives /\ counted("lives")
  /\ demoChain' = [demoChain EXCEPT !.epoch = @ + 1]
  /\ deployed' = [id |-> deployed.id + 1, snapshot |-> TRUE]
  /\ UNCHANGED <<demoFile, activeAction, handling>>

serverDies ==
  /\ tally.deaths < MaxDeaths /\ counted("deaths")
  /\ ~resting \/ activeAction # NoStep
  /\ activeAction' = NoStep
  /\ handling' = [q \in Slots |-> [Free EXCEPT !.seen = freshRun]]
  /\ UNCHANGED <<demoChain, demoFile, deployed>>

(* A fresh checkout has no run file (deployment 0), a used one has a run   *)
(* of the present deployment.                                              *)
DemoInit ==
  /\ demoChain = [epoch |-> 0, sent |-> << >>]
  /\ deployed = [id |-> 1, snapshot |-> TRUE]
  /\ \E d \in {0, 1} :
       demoFile = [epoch |-> 0, deployment |-> d, conflict |-> FALSE,
                   status |-> [s \in Steps |-> "none"], hash |-> [s \in Steps |-> 0]]
  /\ activeAction = NoStep
  /\ handling = [q \in Slots |-> Free]
  /\ tally = [actions |-> 0, faults |-> 0, deaths |-> 0, lives |-> 0]
  /\ overlaps = {}

(* One step of a request, of the operator or of the machine.               *)
DemoStep ==
  \/ \E q \in Slots :
       \/ getLivingDemoRun(q) \/ executeLivingDemoAction(q) \/ initializeRun(q) \/ reconcilePending(q)
       \/ observeBefore(q) \/ runStep(q) \/ sendTransaction(q) \/ onTransactionBroadcast(q)
       \/ waitForReceipt(q) \/ confirmAction(q) \/ observeRetained(q)
       \/ resetLivingDemoRun(q) \/ revertChain(q) \/ saveSnapshot(q) \/ reinitialize(q)
  \/ localnet \/ serverDies

redeployed == ~resting /\ deployed'.id # deployed.id

DemoNext ==
  /\ DemoStep
  /\ overlaps' = overlaps \cup overlapping' \cup {k \in {"reset"} : redeployed}

DemoSpec == DemoInit /\ [][DemoNext]_demoVars

(***************************************************************************)
(* Properties.                                                             *)
(***************************************************************************)
DemoTypeOK ==
  /\ activeAction \in Steps \cup {NoStep}
  /\ DOMAIN demoFile.status = Steps
  /\ \A s \in Steps : demoFile.hash[s] \in 0 .. Len(demoChain.sent)
  /\ tally.actions <= MaxActions /\ tally.faults <= MaxRpcFaults
  /\ tally.deaths <= MaxDeaths /\ tally.lives <= MaxLives

(* A run that belongs to the chain's present life tells the truth about    *)
(* it, as long as no reset or redeployment ran while another request was   *)
(* being served: an action it calls confirmed took effect on the chain,    *)
(* and nothing takes effect before the steps that come first in the        *)
(* journey (living-demo-server.ts: a failure after broadcast is not        *)
(* guessed from the thrown error; a mined receipt decides).  Which         *)
(* transaction it names is left out: of two executions that both got past  *)
(* the lock, the later one writes its own, reverted, hash over the         *)
(* confirmed record's.                                                     *)
ConfirmedIsOnChain ==
  "reset" \notin overlaps /\ demoFile.epoch = demoChain.epoch =>
    /\ \A s \in Steps : demoFile.status[s] = "confirmed" /\ stepKind(s) # "signature" => landed(s)
    /\ \A i, j \in DOMAIN DemoSteps :
         i < j /\ landed(DemoSteps[j]) /\ stepKind(DemoSteps[i]) # "signature" => landed(DemoSteps[i])

(* Two surfaces of the deal room cannot make a step happen twice: a second *)
(* landing of a step in one life of the chain takes a death of the server, *)
(* a call to the chain that failed, a reset or a redeployment, or a run    *)
(* file that was being created while another request was served            *)
(* (executeLivingDemoAction: activeActionId).                              *)
stepsLandOnce == \A s \in Steps : Cardinality(landings(s)) <= 1
RepeatedOnlyAfterLoss ==
  overlaps = {} /\ tally.faults + tally.deaths + tally.lives = 0 => stepsLandOnce

(* The same with nothing lost, while the run file may still be missing.    *)
(* The lock is tested before the run file is created and set after it      *)
(* ("Action ... is already executing", living-demo-server.ts:357): two     *)
(* executions that find no file both get past it.                          *)
ExecutedOnceIfNothingIsLost ==
  tally.faults + tally.deaths + tally.lives = 0 => stepsLandOnce

(* When no request is being served, what the run of the present deployment *)
(* calls confirmed is on the chain as it is.  A reset tests activeActionId *)
(* once and then waits ("Wait for the pending transaction before resetting *)
(* the run", living-demo-server.ts:488): an execution that starts during   *)
(* it, or was past its own test, writes the run it had read over the new   *)
(* one.  So does a server that dies between the revert and the new file.   *)
RestingRunIsTrue ==
  resting /\ demoFile.deployment = deployed.id =>
    \A s \in Steps : demoFile.status[s] = "confirmed" /\ stepKind(s) # "signature" => landed(s)
=============================================================================
