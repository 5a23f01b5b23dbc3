--------------------------- MODULE OperatorConsole ---------------------------
(***************************************************************************)
(* The operator's protection page (src/components/protection-experience),  *)
(* the record it keeps in the tab's session storage                        *)
(* (lib/protection/protection-browser-recovery) and the local adapter it   *)
(* calls (scripts/protection-local-adapter), in front of the product       *)
(* server.                                                                 *)
(*                                                                         *)
(* A mutation is dispatched, may be carried out, and its answer may never  *)
(* arrive: the connection drops, the operator navigates, the tab reloads.  *)
(* The page writes what it is about to do to session storage before it     *)
(* dispatches, and after an uncertain answer offers only reads until the   *)
(* durable state of the run is on the screen again.                        *)
(*                                                                         *)
(* The page is one record and a request is one call with its answer.  A    *)
(* new request aborts the one before it: an aborted call delivers nothing, *)
(* but what it posted may still be carried out.  React's state and the     *)
(* refs that shadow it change together and are one field here.  The        *)
(* address bar is not kept: a reload or a step through the history may     *)
(* lead to any address.                                                    *)
(***************************************************************************)
EXTENDS Naturals, Sequences, FiniteSets

CONSTANTS
  Cases,          \* creation request identifiers, each also the identifier of its run
  Chain,          \* the operations of a run in order, the export of the evidence last
  CustomLabels,   \* the scenarios the page may stand on when a custom case is started
  MaxPosts,       \* bound: mutations the page dispatches
  MaxFaults,      \* bound: lost, refused and failed calls, and storage that fails
  MaxReloads      \* bound: reloads and steps through the history

Null == "null"

ASSUME ConsoleAssumption ==
  /\ Len(Chain) \in Nat \ {0}
  /\ Null \notin Cases
  /\ CustomLabels \subseteq {"conflict", "no-conflict"}
  /\ MaxPosts \in Nat /\ MaxFaults \in Nat /\ MaxReloads \in Nat

VARIABLES
  server,   \* per case: how far its run is, and the scenario it is bound to
  storage,  \* the tab's recovery record; it outlives a reload
  page,     \* what the page shows and remembers
  call,     \* the request the page waits for, and its answer once there is one
  timer,    \* the resumption a mounted page has scheduled
  posts,    \* mutations dispatched that the server has not dealt with
  minted,   \* creation request identifiers used so far
  doubt,    \* history: mutations dispatched whose outcome the page has not learnt
  lapses,   \* history: which of the cases the page does not guard against have happened
  sent, faultsSeen, reloads   \* counters for the bounds

consoleVars ==
  <<server, storage, page, call, timer, posts, minted, doubt, lapses, sent, faultsSeen, reloads>>

Scenarios == {"conflict", "no-conflict"}
Exported == Len(Chain) + 1
Retained == Len(Chain) + 2

NoRecord == [kind |-> Null, run |-> Null, scenario |-> Null, operation |-> Null, valid |-> TRUE]
NoView == [run |-> Null, step |-> 0, scenario |-> Null]
NoNeed == [run |-> Null, scenario |-> Null, operation |-> Null]
NoCall == [kind |-> Null, run |-> Null, scenario |-> Null, custom |-> FALSE, post |-> 0, answer |-> [is |-> Null]]
NoTimer == [record |-> NoRecord, run |-> Null, scenario |-> Null]

(***************************************************************************)
(* The record in session storage.                                          *)
(***************************************************************************)

\* createdAt and expiresAt are the `valid` flag: the record expires after a day.
pendingCreationRecovery(scenario, id) ==
  [kind |-> "CREATION_PENDING", run |-> id, scenario |-> scenario, operation |-> Null, valid |-> TRUE]
pendingMutationRecovery(scenario, run, operation) ==
  [kind |-> "MUTATION_PENDING", run |-> run, scenario |-> scenario, operation |-> operation, valid |-> TRUE]
retentionRequiredRecovery(scenario, run) ==
  [kind |-> "RETENTION_REQUIRED", run |-> run, scenario |-> scenario,
   operation |-> "retainProtectionEvidence", valid |-> TRUE]

\* What the page makes of a stored record: it is exact and of this day, or it is refused.
parseProtectionBrowserRecovery(record) == record.valid

(***************************************************************************)
(* What the page shows and which controls it offers.                       *)
(***************************************************************************)

busy == call.kind # Null \/ timer.run # Null
unresolvedRecovery == page.recovery # NoRecord \/ page.invalid \/ page.readback # NoNeed
activeCase == IF page.mode = "local" THEN page.view # NoView ELSE page.evidence # Null
currentRunId == IF page.view # NoView THEN page.view.run ELSE page.resumeRun

\* nextOperation of the view, unless a readback or a retention stands before it.
currentOperation ==
  IF \/ page.readback # NoNeed
     \/ page.recovery.kind = "RETENTION_REQUIRED"
     \/ page.view.step \notin 1..Len(Chain)
  THEN Null ELSE Chain[page.view.step]

\* A page mounted without a run in its address is not busy while its resumption is scheduled.
clickable == ~busy

offersResume ==
  /\ ~busy /\ currentRunId # Null
  /\ \/ ~activeCase /\ page.recovery.kind \notin {"CREATION_PENDING", "RETENTION_REQUIRED"}
     \/ activeCase /\ page.mode = "local" /\ page.error
offersRecover == ~busy /\ ~activeCase /\ page.recovery.kind = "CREATION_PENDING"
offersRetention == ~busy /\ ~activeCase /\ page.recovery.kind = "RETENTION_REQUIRED"
\* The form of a custom case; windows it does not accept go no further.
offersCustom == ~busy /\ page.view = NoView /\ ~unresolvedRecovery

(***************************************************************************)
(* Steps the handlers share.                                               *)
(***************************************************************************)

clearAuthority(p, scenario, mode) ==
  [p EXCEPT !.scenario = scenario, !.evidence = Null, !.view = NoView, !.mode = mode]

\* The record is written and read back; when storage fails nothing else is done.
retainRecoveryAuthority(record) == storage' = record
fault == faultsSeen < MaxFaults /\ faultsSeen' = faultsSeen + 1

\* Removing the record may fail; then the page keeps it.
clearVerifiedRecoveryAuthority(p) ==
  \/ storage' = NoRecord /\ faultsSeen' = faultsSeen
     /\ page' = [p EXCEPT !.recovery = NoRecord, !.invalid = FALSE]
  \/ fault /\ UNCHANGED storage /\ page' = [p EXCEPT !.error = TRUE]

beginRequest(kind, run, scenario, custom, post) ==
  call' = [kind |-> kind, run |-> run, scenario |-> scenario, custom |-> custom, post |-> post,
           answer |-> [is |-> Null]]

post(kind, run, operation, scenario) ==
  /\ sent < MaxPosts
  /\ sent' = sent + 1
  /\ posts' = posts \cup {[n |-> sent + 1, kind |-> kind, run |-> run, operation |-> operation,
                           scenario |-> scenario]}

dispatched(run, operation) == doubt' = doubt \cup {[n |-> sent + 1, run |-> run, operation |-> operation]}
learnt(run) == doubt' = {d \in doubt : d.run # run}
idle == call' = NoCall

\* Everything on the screen is withdrawn; what was attempted has to be read first.
requireDurableReadback(p, need) ==
  [clearAuthority(p, need.scenario, "local") EXCEPT
    !.pending = NoNeed, !.readback = need, !.resumeRun = need.run, !.error = TRUE]

\* Its trailing write: a record is retained when the page holds none.
requireRecord(need) ==
  IF page.recovery = NoRecord
  THEN retainRecoveryAuthority(pendingMutationRecovery(need.scenario, need.run, need.operation))
  ELSE UNCHANGED storage
recordRequired(need) ==
  IF page.recovery = NoRecord
  THEN pendingMutationRecovery(need.scenario, need.run, need.operation) ELSE page.recovery

(***************************************************************************)
(* Handlers, each up to its first await.                                   *)
(***************************************************************************)

loadImportedScenario(p, scenario) ==
  /\ page' = [clearAuthority(p, scenario, "imported") EXCEPT
                !.readback = NoNeed, !.resumeRun = Null, !.error = FALSE]
  /\ beginRequest("load", Null, scenario, FALSE, 0)

resumeLocalRun(p, run, scenario) ==
  LET need == IF p.readback.run = run /\ p.readback.scenario = scenario THEN p.readback ELSE NoNeed
  IN /\ page' = [clearAuthority(p, scenario, "local") EXCEPT
                   !.readback = need, !.resumeRun = run, !.error = FALSE]
     /\ beginRequest("resume", run, scenario, FALSE, 0)

recoverPendingCreation(p, record) ==
  /\ page' = [clearAuthority(p, record.scenario, "local") EXCEPT !.resumeRun = Null, !.error = FALSE]
  /\ beginRequest("lookup", record.run, record.scenario, FALSE, 0)

\* A stored record decides where the page goes, whatever the address says.
resumeStoredAuthority(record) ==
  LET held == [page EXCEPT !.recovery = record, !.invalid = FALSE, !.scenario = record.scenario,
                           !.mode = "local"]
      need == [run |-> record.run, scenario |-> record.scenario, operation |-> record.operation]
  IN CASE record.kind = "CREATION_PENDING" -> recoverPendingCreation(held, record)
       [] record.kind = "MUTATION_PENDING" ->
            resumeLocalRun([held EXCEPT !.readback = need], record.run, record.scenario)
       [] OTHER -> resumeLocalRun([held EXCEPT !.readback = NoNeed], record.run, record.scenario)

clickScenario(scenario) ==
  /\ clickable /\ ~unresolvedRecovery /\ page.pending = NoNeed
  /\ loadImportedScenario(page, scenario)
  /\ UNCHANGED <<server, storage, timer, posts, minted, doubt, sent, faultsSeen, reloads>>

\* The page holds no record of anything unsettled.
mayStart ==
  /\ clickable
  /\ page.pending = NoNeed /\ page.readback = NoNeed
  /\ page.recovery = NoRecord /\ ~page.invalid

\* startLocalRun, and startCustomLocalRun which posts no scenario at all.
startRun(id, custom) ==
  LET record == pendingCreationRecovery(page.scenario, id)
  IN /\ mayStart /\ id \notin minted
     /\ minted' = minted \cup {id}
     /\ \/ /\ fault
           /\ page' = [page EXCEPT !.error = TRUE]
           /\ UNCHANGED <<storage, call, posts, doubt, sent>>
        \/ /\ retainRecoveryAuthority(record)
           /\ page' = [clearAuthority(page, page.scenario, "local") EXCEPT
                         !.recovery = record, !.invalid = FALSE, !.readback = NoNeed,
                         !.resumeRun = Null, !.error = FALSE]
           /\ post("create", id, Null, IF custom THEN "conflict" ELSE page.scenario)
           /\ beginRequest("create", id, page.scenario, custom, sent + 1)
           /\ dispatched(id, "create")
           /\ UNCHANGED faultsSeen
     /\ UNCHANGED <<server, timer, reloads>>

startLocalRun(id) == startRun(id, FALSE)
startCustomLocalRun(id) == offersCustom /\ page.scenario \in CustomLabels /\ startRun(id, TRUE)

\* Mistake: the mutation is dispatched before anything is written down.
mutationRecord_None(scenario, run, operation) == NoRecord
mutationRecord(scenario, run, operation) == pendingMutationRecovery(scenario, run, operation)

executeNext ==
  LET need == [run |-> page.view.run, scenario |-> page.scenario, operation |-> currentOperation]
      record == mutationRecord(page.scenario, page.view.run, currentOperation)
  IN /\ clickable /\ page.mode = "local" /\ page.view # NoView
     /\ currentOperation # Null /\ page.pending = NoNeed
     /\ \/ /\ fault
           /\ page' = [page EXCEPT !.error = TRUE]
           /\ UNCHANGED <<storage, call, posts, doubt, sent>>
        \/ /\ retainRecoveryAuthority(record)
           /\ page' = [page EXCEPT !.recovery = record, !.invalid = FALSE, !.pending = need, !.error = FALSE]
           /\ post("execute", need.run, need.operation, Null)
           /\ beginRequest("execute", need.run, page.scenario, FALSE, sent + 1)
           /\ dispatched(need.run, need.operation)
           /\ UNCHANGED faultsSeen
     /\ UNCHANGED <<server, timer, minted, reloads>>

\* The one operation that may be repeated: the server retains the evidence once.
finishEvidenceRetention ==
  /\ offersRetention /\ clickable
  /\ page' = [page EXCEPT !.error = FALSE]
  /\ post("retain", page.recovery.run, "retainProtectionEvidence", Null)
  /\ beginRequest("retain", page.recovery.run, page.recovery.scenario, FALSE, sent + 1)
  /\ UNCHANGED <<server, storage, timer, minted, doubt, faultsSeen, reloads>>

clickResume ==
  /\ offersResume /\ clickable
  /\ resumeLocalRun(page, currentRunId, page.scenario)
  /\ UNCHANGED <<server, storage, timer, posts, minted, doubt, sent, faultsSeen, reloads>>

clickRecover ==
  /\ offersRecover /\ clickable
  /\ recoverPendingCreation(page, page.recovery)
  /\ UNCHANGED <<server, storage, timer, posts, minted, doubt, sent, faultsSeen, reloads>>

\* The operator confirms that the record is dropped; the page goes back to retained evidence.
abandonUnresolvedRecovery ==
  /\ ~activeCase /\ unresolvedRecovery
  /\ \/ /\ fault
        /\ page' = [page EXCEPT !.error = TRUE]
        /\ UNCHANGED <<storage, call, doubt>>
     \/ /\ storage' = NoRecord
        /\ loadImportedScenario([page EXCEPT !.pending = NoNeed, !.recovery = NoRecord, !.invalid = FALSE],
                                page.scenario)
        /\ doubt' = {}
        /\ UNCHANGED faultsSeen
  /\ UNCHANGED <<server, timer, posts, minted, sent, reloads>>

\* Mistake: stepping away forgets the mutation whose answer has not come.
interrupted_Forgets(need) ==
  /\ page' = [clearAuthority(page, need.scenario, "imported") EXCEPT !.pending = NoNeed,
                !.recovery = NoRecord, !.resumeRun = Null]
  /\ storage' = NoRecord
  /\ call' = NoCall

\* The interrupted mutation becomes a readback the page insists on.
interrupted(need) ==
  /\ page' = [requireDurableReadback(page, need) EXCEPT !.recovery = recordRequired(need)]
  /\ requireRecord(need)
  /\ call' = NoCall

\* A step through the history, to a scenario, to a run, or to an address it refuses.
popstate(scenario, run, wrong) ==
  /\ reloads < MaxReloads /\ reloads' = reloads + 1
  /\ CASE page.pending # NoNeed -> interrupted(page.pending)
       [] page.pending = NoNeed /\ page.readback # NoNeed ->
            resumeLocalRun(page, page.readback.run, page.readback.scenario) /\ UNCHANGED storage
       [] page.pending = NoNeed /\ page.readback = NoNeed /\ page.recovery # NoRecord ->
            resumeStoredAuthority(page.recovery) /\ UNCHANGED storage
       [] OTHER ->
            /\ UNCHANGED storage
            /\ IF wrong
               THEN /\ page' = [clearAuthority(page, scenario, "imported") EXCEPT
                                  !.readback = NoNeed, !.resumeRun = Null, !.error = TRUE]
                    /\ call' = NoCall
               ELSE IF run # Null THEN resumeLocalRun(page, run, scenario)
               ELSE IF page.invalid THEN UNCHANGED <<page, call>>
               ELSE loadImportedScenario(page, scenario)
  /\ UNCHANGED <<server, timer, posts, minted, doubt, sent, faultsSeen>>

\* A page opened at an address: nothing is remembered but the stored record.
mounted(scenario, run) ==
  [scenario |-> scenario, mode |-> IF run = Null THEN "imported" ELSE "local",
   evidence |-> IF run = Null THEN scenario ELSE Null, view |-> NoView, pending |-> NoNeed,
   readback |-> IF run = Null THEN NoNeed
                ELSE [run |-> run, scenario |-> scenario, operation |-> "UNKNOWN_AFTER_RELOAD"],
   recovery |-> NoRecord, invalid |-> FALSE, resumeRun |-> run, error |-> FALSE]

reload(scenario, run) ==
  /\ reloads < MaxReloads /\ reloads' = reloads + 1
  /\ call' = NoCall
  /\ IF storage # NoRecord /\ ~parseProtectionBrowserRecovery(storage)
     THEN /\ page' = [clearAuthority(mounted(scenario, run), scenario, "local") EXCEPT
                        !.invalid = TRUE, !.error = TRUE]
          /\ timer' = NoTimer
     ELSE /\ page' = mounted(scenario, run)
          /\ timer' = [record |-> storage, run |-> run, scenario |-> scenario]
  /\ UNCHANGED <<server, storage, posts, minted, doubt, sent, faultsSeen>>

\* The scheduled resumption: of the record read when the page was mounted, or of the address.
resumeTimer ==
  /\ timer # NoTimer
  /\ timer' = NoTimer
  /\ IF timer.record # NoRecord THEN resumeStoredAuthority(timer.record)
     ELSE IF timer.run # Null THEN resumeLocalRun(page, timer.run, timer.scenario)
     ELSE UNCHANGED <<page, call>>
  /\ UNCHANGED <<server, storage, posts, minted, doubt, sent, faultsSeen, reloads>>

\* A day passes.
expire ==
  /\ storage # NoRecord /\ storage.valid
  /\ storage' = [storage EXCEPT !.valid = FALSE]
  /\ UNCHANGED <<server, page, call, timer, posts, minted, doubt, sent, faultsSeen, reloads>>

(***************************************************************************)
(* The local adapter and the product server behind it.                     *)
(***************************************************************************)

viewOf(run) == [run |-> run, step |-> server[run].step, scenario |-> server[run].scenario]
failed == [is |-> "failed"]
viewed(v) == [is |-> "view", view |-> v]

\* GET of retained evidence, of a run, or of the run a creation made.
answerTo ==
  CASE call.kind = "load" -> [is |-> "evidence", scenario |-> call.scenario]
    [] call.kind # "load" /\ server[call.run].step = 0 -> failed
    [] call.kind \in {"resume", "readback", "sealed"} /\ server[call.run].step = Exported ->
         [is |-> "retention", run |-> call.run, scenario |-> server[call.run].scenario]
    [] OTHER -> viewed(viewOf(call.run))

serveGet ==
  /\ call.kind \in {"load", "resume", "lookup", "readback", "sealed"} /\ call.answer.is = Null
  /\ call' = [call EXCEPT !.answer = answerTo]
  /\ UNCHANGED <<server, storage, page, timer, posts, minted, doubt, sent, faultsSeen, reloads>>

\* The answer to the page is lost, or the server refuses to read a run that is being worked on.
serveFails ==
  /\ call # NoCall /\ call.answer.is = Null
  /\ fault
  /\ call' = [call EXCEPT !.answer = failed]
  /\ UNCHANGED <<server, storage, page, timer, posts, minted, doubt, sent, reloads>>

answered(p, a) ==
  call' = IF call.post = p.n /\ call.answer.is = Null THEN [call EXCEPT !.answer = a] ELSE call

create(p) ==
  /\ server' = IF server[p.run].step = 0
               THEN [server EXCEPT ![p.run] = [step |-> 1, scenario |-> p.scenario]] ELSE server
  /\ answered(p, viewed([run |-> p.run, step |-> server'[p.run].step, scenario |-> server'[p.run].scenario]))

\* Any operation but the export: carried out when it is the run's next one; the one
\* done last may be answered again; every other is refused.
execute(p) ==
  LET at == server[p.run].step
      due == at \in 1..Len(Chain) /\ Chain[at] = p.operation
      repeated == at - 1 \in 1..Len(Chain) /\ Chain[at - 1] = p.operation
  IN /\ p.operation # Chain[Len(Chain)]
     /\ \/ /\ due
           /\ server' = [server EXCEPT ![p.run].step = at + 1]
           /\ answered(p, viewed([viewOf(p.run) EXCEPT !.step = at + 1]))
        \/ repeated /\ UNCHANGED server /\ answered(p, viewed(viewOf(p.run)))
        \/ ~due /\ UNCHANGED server /\ answered(p, failed)

\* The adapter follows an export with the retention; the second of the two may fail.
exportAndRetain(p) ==
  LET at == server[p.run].step
  IN /\ p.operation = Chain[Len(Chain)]
     /\ \/ /\ at >= Len(Chain)
           /\ server' = [server EXCEPT ![p.run].step = Retained]
           /\ answered(p, viewed([viewOf(p.run) EXCEPT !.step = Retained]))
           /\ UNCHANGED faultsSeen
        \/ /\ at = Len(Chain) /\ fault
           /\ server' = [server EXCEPT ![p.run].step = Exported]
           /\ answered(p, failed)
        \/ /\ at < Len(Chain)
           /\ UNCHANGED <<server, faultsSeen>>
           /\ answered(p, failed)

retain(p) ==
  LET at == server[p.run].step
  IN /\ server' = IF at = Exported THEN [server EXCEPT ![p.run].step = Retained] ELSE server
     /\ answered(p, IF at >= Exported THEN [is |-> "retained"] ELSE failed)

servePost(p) ==
  /\ posts' = posts \ {p}
  /\ \/ p.kind = "create" /\ create(p) /\ UNCHANGED faultsSeen
     \/ p.kind = "execute" /\ execute(p) /\ UNCHANGED faultsSeen
     \/ p.kind = "execute" /\ exportAndRetain(p)
     \/ p.kind = "retain" /\ retain(p) /\ UNCHANGED faultsSeen
  /\ UNCHANGED <<storage, page, timer, minted, doubt, sent, reloads>>

\* The post never reaches the server, or the adapter refuses it and says it was not admitted.
losePost(p) ==
  /\ fault
  /\ posts' = posts \ {p}
  /\ \/ answered(p, failed)
     \/ p.kind = "execute" /\ answered(p, [is |-> "notAdmitted"])
  /\ UNCHANGED <<server, storage, page, timer, minted, doubt, sent, reloads>>

(***************************************************************************)
(* Handlers, from the answer on.  Every answer is parsed against the run   *)
(* and the scenario the page asked for.                                    *)
(***************************************************************************)

parseProtectionCaseView(a, run, scenario) ==
  a.is = "view" /\ a.view.run = run /\ a.view.scenario = scenario
parseRetentionRequiredView(a, run, scenario) ==
  a.is = "retention" /\ a.run = run /\ a.scenario = scenario

\* The page shows the view it read; what it was unsure of is settled.
adopt(p, view) == [p EXCEPT !.view = view, !.resumeRun = view.run, !.readback = NoNeed]
refused == page' = [page EXCEPT !.error = TRUE] /\ UNCHANGED <<storage, doubt, faultsSeen>>

importedLoaded ==
  /\ call.kind = "load"
  /\ IF call.answer.is = "evidence" /\ call.answer.scenario = call.scenario
     THEN page' = [page EXCEPT !.evidence = call.scenario] /\ UNCHANGED <<storage, doubt, faultsSeen>>
     ELSE refused
  /\ idle

runResumed ==
  /\ call.kind = "resume"
  /\ \/ /\ parseRetentionRequiredView(call.answer, call.run, call.scenario)
        /\ LET record == retentionRequiredRecovery(call.scenario, call.run)
           IN \/ /\ retainRecoveryAuthority(record)
                 /\ page' = [page EXCEPT !.recovery = record, !.invalid = FALSE, !.pending = NoNeed,
                                         !.readback = NoNeed, !.view = NoView, !.error = FALSE]
                 /\ learnt(call.run) /\ UNCHANGED faultsSeen
              \/ fault /\ page' = [page EXCEPT !.error = TRUE] /\ UNCHANGED <<storage, doubt>>
     \/ /\ parseProtectionCaseView(call.answer, call.run, call.scenario)
        /\ IF page.recovery # NoRecord
           THEN clearVerifiedRecoveryAuthority(adopt(page, call.answer.view))
           ELSE page' = adopt(page, call.answer.view) /\ UNCHANGED <<storage, faultsSeen>>
        /\ learnt(call.run)
     \/ /\ ~parseRetentionRequiredView(call.answer, call.run, call.scenario)
        /\ ~parseProtectionCaseView(call.answer, call.run, call.scenario)
        /\ refused
  /\ idle

\* The lookup names the run; the run is then read on its own before it is shown.
creationLookedUp ==
  /\ call.kind = "lookup"
  /\ IF call.answer.is = "view" /\ call.answer.view.scenario = call.scenario
     THEN /\ page' = [page EXCEPT !.resumeRun = call.answer.view.run]
          /\ beginRequest("readback", call.answer.view.run, call.scenario, FALSE, 0)
          /\ UNCHANGED <<storage, doubt, faultsSeen>>
     ELSE refused /\ idle

creationRecovered ==
  /\ call.kind = "readback"
  /\ IF parseProtectionCaseView(call.answer, call.run, call.scenario)
     THEN clearVerifiedRecoveryAuthority(adopt(page, call.answer.view)) /\ learnt(call.run)
     ELSE refused
  /\ idle

\* Mistake: the page keeps the scenario it stood on.
boundScenario_Kept(view) == page.scenario
\* A custom case takes the scenario the server bound it to.
boundScenario(view) == view.scenario

runCreated ==
  /\ call.kind = "create"
  /\ IF call.answer.is = "view" /\ (call.custom \/ call.answer.view.scenario = call.scenario)
     THEN /\ clearVerifiedRecoveryAuthority(
               [page EXCEPT !.view = call.answer.view, !.resumeRun = call.answer.view.run,
                            !.scenario = boundScenario(call.answer.view)])
          /\ learnt(call.run)
     ELSE refused
  /\ idle

\* An answer that is neither the run's view nor a refusal to admit leaves the outcome uncertain.
nextExecuted ==
  /\ call.kind = "execute"
  /\ \/ /\ parseProtectionCaseView(call.answer, call.run, call.scenario)
        /\ clearVerifiedRecoveryAuthority(
             [page EXCEPT !.pending = NoNeed, !.view = call.answer.view, !.readback = NoNeed])
        /\ learnt(call.run)
     \/ /\ call.answer.is = "notAdmitted"
        /\ clearVerifiedRecoveryAuthority([page EXCEPT !.pending = NoNeed, !.error = TRUE])
        /\ learnt(call.run)
     \/ /\ ~parseProtectionCaseView(call.answer, call.run, call.scenario)
        /\ call.answer.is # "notAdmitted"
        /\ page' = [requireDurableReadback(page, page.pending) EXCEPT !.recovery = recordRequired(page.pending)]
        /\ requireRecord(page.pending)
        /\ UNCHANGED <<doubt, faultsSeen>>
  /\ idle

evidenceRetained ==
  /\ call.kind = "retain"
  /\ IF call.answer.is = "retained"
     THEN /\ beginRequest("sealed", call.run, call.scenario, FALSE, 0)
          /\ UNCHANGED <<page, storage, doubt, faultsSeen>>
     ELSE refused /\ idle

retentionSealed ==
  /\ call.kind = "sealed"
  /\ IF parseProtectionCaseView(call.answer, call.run, call.scenario) /\ call.answer.view.step = Retained
     THEN /\ clearVerifiedRecoveryAuthority(
               [adopt(page, call.answer.view) EXCEPT !.scenario = call.scenario, !.mode = "local"])
          /\ learnt(call.run)
     ELSE refused
  /\ idle

deliver ==
  /\ call.answer.is # Null
  /\ \/ importedLoaded \/ runResumed \/ creationLookedUp \/ creationRecovered \/ runCreated
     \/ nextExecuted \/ evidenceRetained \/ retentionSealed
  /\ UNCHANGED <<server, timer, posts, minted, sent, reloads>>

ConsoleInit ==
  /\ server = [c \in Cases |-> [step |-> 0, scenario |-> Null]]
  /\ storage = NoRecord
  /\ \E scenario \in Scenarios : page = mounted(scenario, Null)
  /\ call = NoCall /\ timer = NoTimer
  /\ posts = {} /\ minted = {} /\ doubt = {} /\ lapses = {}
  /\ sent = 0 /\ faultsSeen = 0 /\ reloads = 0

\* The three cases nothing in the page rules out: the operator acts before the scheduled
\* resumption has run; steps back on a page that was opened at one run and recovers another;
\* or lets a day pass while an outcome is unknown.
early == IF timer = NoTimer THEN {} ELSE {"early"}
backOver ==
  IF page.readback # NoNeed /\ page.recovery # NoRecord /\ page.readback.run # page.recovery.run
  THEN {"back"} ELSE {}
outlived == IF doubt = {} THEN {} ELSE {"expired"}

ConsoleNext ==
  \/ /\ \/ \E scenario \in Scenarios : clickScenario(scenario)
        \/ \E id \in Cases : startLocalRun(id) \/ startCustomLocalRun(id)
        \/ executeNext \/ finishEvidenceRetention \/ clickResume \/ clickRecover
     /\ lapses' = lapses \cup early
  \/ /\ \E scenario \in Scenarios, run \in minted \cup {Null}, wrong \in BOOLEAN : popstate(scenario, run, wrong)
     /\ lapses' = lapses \cup early \cup backOver
  \/ expire /\ lapses' = lapses \cup outlived
  \/ /\ \/ abandonUnresolvedRecovery
        \/ \E scenario \in Scenarios, run \in minted \cup {Null} : reload(scenario, run)
        \/ resumeTimer \/ serveGet \/ serveFails
        \/ \E p \in posts : servePost(p) \/ losePost(p)
        \/ deliver
     /\ UNCHANGED lapses

ConsoleSpec == ConsoleInit /\ [][ConsoleNext]_consoleVars

(***************************************************************************)
(* Properties.                                                             *)
(***************************************************************************)

Records ==
  {NoRecord} \cup
  [kind : {"CREATION_PENDING", "MUTATION_PENDING", "RETENTION_REQUIRED"}, run : Cases,
   scenario : Scenarios, operation : {Null, "retainProtectionEvidence"} \cup {Chain[i] : i \in DOMAIN Chain},
   valid : BOOLEAN]

\* Types of the page, the storage and the server.
ConsoleTypeOK ==
  /\ server \in [Cases -> [step : 0..Retained, scenario : Scenarios \cup {Null}]]
  /\ storage \in Records /\ page.recovery \in Records
  /\ page.scenario \in Scenarios /\ page.mode \in {"imported", "local"}
  /\ page.resumeRun \in Cases \cup {Null}
  /\ minted \subseteq Cases
  /\ sent \in 0..MaxPosts /\ faultsSeen \in 0..MaxFaults /\ reloads \in 0..MaxReloads

\* Whatever the page dispatched and has not learnt the outcome of is named by the record in
\* session storage: the record is written before the dispatch (executeNext, startLocalRun) and
\* removed only when the run's durable state has been read back, or when the operator drops it.
DoubtIsAlwaysRetained == \A d \in doubt : storage.run = d.run

\* The page never dispatches a mutation while the outcome of another is unknown to it: after
\* an uncertain answer only reads are offered (requireDurableReadback, the guards of
\* startLocalRun and executeNext), and "Recovery never asks the browser to invent a second
\* create request" (docs/conflicting-pledge-protection.md:118).  A reloaded page reads the
\* stored record in its first effect and takes it over on a timer (:1141): a start that is
\* clicked in between creates a second case.
MutationIsNeverBlind == Cardinality(doubt) <= 1

\* DoubtIsAlwaysRetained through lost answers, navigation and reloads, as long as none of the
\* three unguarded cases has happened: no action before the scheduled resumption, no step back
\* while a page opened at one run recovers another, no day spent with an outcome unknown.
DoubtIsRetained == lapses = {} => DoubtIsAlwaysRetained

\* The same with steps back of any kind.  The page promises it after a creation without an
\* answer ("Creation recovery remains available; no second create will be sent", :887), and does
\* not keep it: opened at another run, Back reads that run and removes the record of the creation.
NavigationKeepsTheRecord == lapses \subseteq {"back"} => DoubtIsAlwaysRetained

\* MutationIsNeverBlind under the same condition.
NoBlindMutation == lapses = {} => MutationIsNeverBlind

\* Until one of the three unguarded cases has happened: while the page rests with an operation
\* of a run in doubt, it offers the read that settles it, of that run and under the scenario
\* the server bound it to, so that a truthful answer is accepted (the scenario a created case
\* is shown under, what an interrupted operation leaves on the page).
RecoveryCanComplete ==
  lapses = {} =>
    \A d \in doubt :
      d.operation # "create" /\ call = NoCall /\ timer = NoTimer /\ ~page.invalid =>
        /\ page.recovery.kind = "MUTATION_PENDING" /\ page.resumeRun = d.run
        /\ page.scenario = server[d.run].scenario
        /\ ~activeCase \/ page.error

\* The same of a creation: the lookup the page offers is one it will accept the answer of.
CreationCanComplete ==
  lapses = {} =>
    \A d \in doubt :
      d.operation = "create" /\ call = NoCall /\ timer = NoTimer /\ ~page.invalid /\ server[d.run].step > 0 =>
        page.recovery.run = d.run /\ page.recovery.scenario = server[d.run].scenario
=============================================================================
