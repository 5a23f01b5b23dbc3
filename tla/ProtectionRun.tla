--------------------------- MODULE ProtectionRun ---------------------------
(***************************************************************************)
(* One protection case of the product server: the execution record         *)
(* (execution.json), the operation journal beside it, the artifacts the    *)
(* governed-FHE programs publish, and the requests that drive them.        *)
(*                                                                         *)
(* The server is one Node process.  A request runs until it awaits a child *)
(* program and then another request may run; the child publishes its       *)
(* objects one by one, each create-only.  The run's lock lives in the      *)
(* memory of the process, the journal on disk.  The process may be killed  *)
(* at any moment, between any two durable writes, and is started again     *)
(* with its files and without its memory.                                  *)
(*                                                                         *)
(* A continuation is written as the sequence of file-system states its     *)
(* writes pass through: a request that is not interrupted leaves the last  *)
(* of them, a process killed in the middle leaves an earlier one.          *)
(***************************************************************************)
EXTENDS Naturals, FiniteSets, Sequences, SequencesExt

CONSTANTS
    Callers,     \* requests in flight at the same time
    Operations,  \* the operations the callers may ask for
    Variants,    \* the kinds of case that may be created
    MaxCrashes,  \* how often the process is killed
    ChildrenFail,\* TRUE: a child program may stop between two of its objects
    None

Roles == {"A", "B"}

(* A case: fixed scenario, operator-entered windows or admitted wallets;   *)
(* the release mode; whether a recourse policy was selected at creation;   *)
(* "truth" is the Boolean the encrypted circuit computes from the pledges. *)
Variant ==
    [kind : {"fixed", "operator", "admitted"}, coalition : BOOLEAN,
     policy : BOOLEAN, truth : BOOLEAN]

ASSUME RunAssumption ==
    /\ Variants \subseteq Variant
    /\ \A v \in Variants :
            /\ v.policy => v.kind = "operator" /\ ~v.coalition
            /\ v.coalition => v.kind # "fixed"
    /\ MaxCrashes \in Nat
    /\ ChildrenFail \in BOOLEAN

Stages ==
    <<"CASE_CREATED", "MATCH_PREPARED", "PARTICIPANT_A_SUBMITTED",
      "PARTICIPANT_B_PUBLISHED", "PARTICIPANT_B_SUBMITTED", "EVALUATED",
      "RELEASED", "RECOURSE_OPENED", "CHRONOLOGY_COMPLETE", "COMPLETE", "ABORTED">>

Rank(stage) == CHOOSE i \in 1 .. Len(Stages) : Stages[i] = stage

(* The stage an operation's journal record promises (expectedTargetStage). *)
Target ==
    [PREPARING |-> "MATCH_PREPARED", SUBMITTING_A |-> "PARTICIPANT_A_SUBMITTED",
     SUBMITTING_B |-> "PARTICIPANT_B_PUBLISHED", FINALIZING |-> "PARTICIPANT_B_SUBMITTED",
     EVALUATING |-> "EVALUATED", RELEASING |-> "RELEASED",
     OPENING_RECOURSE |-> "RECOURSE_OPENED", ADVANCING_CURE |-> "CHRONOLOGY_COMPLETE",
     EXPORTING |-> "COMPLETE", RETAINING |-> "COMPLETE"]

Phases == DOMAIN Target

Outcomes == {"PENDING", "COMPLETED", "RECONCILED", "ABORTED"}

Artifacts ==
    {"partialFoundation", "foundation", "signatureA", "submissionA", "enrollmentA",
     "signatureB", "submissionB", "enrollmentB", "manifest",
     "evaluationAdmitted", "resultCiphertext", "evaluation",
     "releaseAdmitted", "retainedResult", "result", "releaseConsumed",
     "clock", "record", "outcome", "attestation", "evidence",
     "productEvidence", "customReceipt", "bridgeEvidence", "retained"}

VARIABLES
    variant,     \* the case's kind, fixed when it is created
    fs,          \* the run directory
    lock,        \* the request that holds the run's lock, or None
    call,        \* the requests
    crashes      \* how often the process was killed

vars == <<variant, fs, lock, call, crashes>>

(* execution.json *)
NewExecution ==
    [stage |-> "CASE_CREATED", keys |-> FALSE, subs |-> {}, claims |-> {},
     evaluated |-> FALSE, release |-> None, plan |-> FALSE,
     coalitionRelease |-> None, settlement |-> None,
     recourse |-> None, boundTo |-> 0, receipt |-> FALSE]

Execution ==
    [stage : ToSet(Stages), keys : BOOLEAN, subs : SUBSET Roles, claims : SUBSET Roles,
     evaluated : BOOLEAN, release : BOOLEAN \cup {None}, plan : BOOLEAN,
     coalitionRelease : BOOLEAN \cup {None},
     settlement : {"EXECUTION_READY", "NO_CONFLICT_NO_SETTLEMENT", None},
     recourse : BOOLEAN \cup {None}, boundTo : Nat, receipt : BOOLEAN]

ASSUME NoneAssumption == None \notin Execution \cup Callers \cup Phases \cup BOOLEAN

(* "keyFiles" and "pledgeFiles": the transient private files of a role;    *)
(* "ledger": roles with a durable admission.                               *)
EmptyDirectory ==
    [exec |-> None, journal |-> <<>>, disk |-> {}, keyFiles |-> {},
     pledgeFiles |-> {}, profile |-> FALSE, ledger |-> {}]

Idle ==
    [op |-> None, at |-> "idle", exec |-> None, pend |-> 0, phase |-> None,
     seen |-> {}, left |-> <<>>]

Init ==
    /\ variant \in Variants
    /\ fs = EmptyDirectory
    /\ lock = None
    /\ call = [c \in Callers |-> Idle]
    /\ crashes = 0

-----------------------------------------------------------------------------
(* The operation journal.  Only its last record may be pending.            *)

pendingOperation(f) ==
    IF f.journal # <<>> /\ Last(f.journal).outcome = "PENDING" THEN Len(f.journal) ELSE 0

(* beginOperation: a pending record of the same phase is resumed, one of   *)
(* another phase refuses the operation.                                    *)
mayBegin(f, phase) ==
    pendingOperation(f) # 0 => Last(f.journal).phase = phase

beginOperation(f, phase) ==
    IF pendingOperation(f) # 0 THEN f
    ELSE [f EXCEPT !.journal = Append(@, [phase |-> phase, outcome |-> "PENDING"])]

mayFinish(f, i) == i # 0 /\ pendingOperation(f) = i

finishOperation(f, i, outcome) ==
    [f EXCEPT !.journal[i] =
        [phase |-> IF outcome = "ABORTED" THEN "ABORTED" ELSE @.phase, outcome |-> outcome]]

saveState(f, e) == [f EXCEPT !.exec = e]

(* The writes "save the state, then finish the operation".  Finishing      *)
(* throws when the record was replaced meanwhile; the save has happened.   *)
saveAndFinish(f, e, i, outcome) ==
    IF mayFinish(f, i)
    THEN <<saveState(f, e), finishOperation(saveState(f, e), i, outcome)>>
    ELSE <<saveState(f, e)>>

-----------------------------------------------------------------------------
(* Reading the record back and reconciling it with what is published.      *)

custom == variant.kind # "fixed"

(* loadStateRaw refuses a record whose parts contradict each other.        *)
loadable(f) ==
    LET e == f.exec
    IN  /\ variant.coalition => e.release = None /\ e.recourse = None /\ ~e.plan
        /\ ~variant.coalition => e.coalitionRelease = None
        /\ IF e.coalitionRelease = None THEN e.settlement = None
           ELSE (e.settlement = "EXECUTION_READY") = e.coalitionRelease
        /\ e.plan = (variant.policy /\ e.release # None)
        /\ e.boundTo # 0 =>
                /\ e.plan /\ e.recourse # None
                /\ e.boundTo <= Len(f.journal)
                /\ f.journal[e.boundTo].phase = "OPENING_RECOURSE"
        /\ variant.policy /\ e.recourse # None => e.boundTo # 0

(* mordant-fhe-inspect: objects that cannot belong to a finished step.     *)
ambiguous(seen) ==
    \/ "partialFoundation" \in seen /\ "foundation" \notin seen
    \/ "resultCiphertext" \in seen /\ "evaluation" \notin seen
    \/ variant.coalition /\ "result" \in seen /\ "releaseConsumed" \notin seen

(* What a verified coalition release authorizes under the committed terms. *)
settlementFor(conflict) ==
    IF conflict THEN "EXECUTION_READY" ELSE "NO_CONFLICT_NO_SETTLEMENT"

governedRelease(e) ==
    [e EXCEPT !.stage = "RELEASED", !.release = variant.truth, !.plan = variant.policy]

(* verifiedCoalitionReleaseFromArtifacts and the case after it.            *)
coalitionRelease(e) ==
    [e EXCEPT !.stage = "RELEASED", !.coalitionRelease = variant.truth,
              !.settlement = settlementFor(variant.truth)]

afterRelease(e) == IF variant.coalition THEN coalitionRelease(e) ELSE governedRelease(e)

afterRecourse(e, opened, i) ==
    [e EXCEPT !.stage = "RECOURSE_OPENED", !.recourse = opened,
              !.boundTo = IF variant.policy THEN i ELSE 0]

(* Mistake: a signature is taken for a submission.                         *)
proves_Signature(f, e, phase, seen, private) ==
    CASE phase = "PREPARING"        -> private /\ "foundation" \in seen
      [] phase = "SUBMITTING_A"     -> "signatureA" \in seen
      [] phase = "SUBMITTING_B"     -> "signatureB" \in seen
      [] OTHER                      -> FALSE

(* reconcileProtectionProjection: the record the published objects prove,  *)
(* or None when they do not prove that the operation finished.             *)
proves(f, e, phase, seen, private) ==
    CASE phase = "PREPARING"        -> private /\ "foundation" \in seen
      [] phase = "SUBMITTING_A"     -> "submissionA" \in seen
      [] phase = "SUBMITTING_B"     -> "submissionB" \in seen
      [] phase = "FINALIZING"       -> "manifest" \in seen
      [] phase = "EVALUATING"       -> "evaluation" \in seen
      [] phase = "RELEASING"        -> private /\ "result" \in seen
      [] phase = "OPENING_RECOURSE" -> /\ "record" \in seen \/ "outcome" \in f.disk
                                       /\ e.release # None
      [] phase = "ADVANCING_CURE"   -> e.stage = "CHRONOLOGY_COMPLETE"
      [] phase = "EXPORTING"        -> "productEvidence" \in f.disk \/ "evidence" \in seen
      [] phase = "RETAINING"        -> "retained" \in f.disk

(* Mistake: a recovered submission is not added to the record.             *)
reconstructed_StageOnly(e, phase, i) == [e EXCEPT !.stage = Target[phase]]

reconstructed(e, phase, i) ==
    CASE phase = "PREPARING"    -> [e EXCEPT !.stage = Target[phase], !.keys = TRUE]
      [] phase = "SUBMITTING_A" -> [e EXCEPT !.stage = Target[phase], !.subs = @ \cup {"A"}]
      [] phase = "SUBMITTING_B" -> [e EXCEPT !.stage = Target[phase], !.subs = @ \cup {"B"}]
      [] phase = "FINALIZING"   -> [e EXCEPT !.stage = Target[phase]]
      [] phase = "EVALUATING"   -> [e EXCEPT !.stage = Target[phase], !.evaluated = TRUE]
      [] phase = "RELEASING"    -> afterRelease(e)
      [] phase = "OPENING_RECOURSE" -> afterRecourse(e, variant.truth, i)
      [] phase = "EXPORTING"    -> [e EXCEPT !.stage = Target[phase], !.receipt = TRUE]
      [] OTHER                  -> e

(* A recovered export builds the V4 evidence, whatever the kind of case;   *)
(* that schema names a scenario, which a custom authorization leaves out.  *)
rebuildsEvidence(f, phase) == phase = "EXPORTING" /\ "productEvidence" \notin f.disk

submitter(phase) == CASE phase = "SUBMITTING_A" -> {"A"} [] phase = "SUBMITTING_B" -> {"B"} [] OTHER -> {}

(* Mistake: the evaluation program may be started again.                   *)
irreversible_Release(phase, seen, private) ==
    private /\ phase = "RELEASING" /\ "releaseAdmitted" \in seen

(* A one-shot program was admitted and its result is not there.            *)
irreversible(phase, seen, private) ==
    \/ phase = "EVALUATING" /\ "evaluationAdmitted" \in seen
    \/ private /\ phase = "RELEASING" /\ "releaseAdmitted" \in seen

(* reconcileState, from its inspection to its return: the file-system      *)
(* states it passes through, the record it returns, and its refusal.       *)
(* "i" and "phase" are the pending record as it was before the inspection. *)
reconcileState(f, e, i, phase, seen, private) ==
    LET kept == [steps |-> <<>>, exec |-> e, refusal |-> None]
        abort == [e EXCEPT !.stage = "ABORTED"]
        aborted ==
            IF mayFinish(f, i)
            THEN LET g == finishOperation(f, i, "ABORTED")
                 IN  [steps |-> <<g, saveState(g, abort)>>, exec |-> abort, refusal |-> None]
            ELSE [kept EXCEPT !.refusal = "replaced"]
        recovered ==
            LET f1 == IF rebuildsEvidence(f, phase)
                      THEN [f EXCEPT !.disk = @ \cup {"productEvidence"}] ELSE f
                r == reconstructed(e, phase, i)
                w == saveAndFinish(f1, r, i, "RECONCILED")
                f2 == [Last(w) EXCEPT !.pledgeFiles = {}]
                f3 == [f2 EXCEPT !.keyFiles = @ \ submitter(phase)]
            IN  IF mayFinish(f, i)
                THEN [steps |-> <<f1>> \o w \o <<f2, f3>>, exec |-> r, refusal |-> None]
                ELSE [steps |-> <<f1>> \o w, exec |-> r, refusal |-> "replaced"]
    IN  CASE ambiguous(seen) /\ i = 0  -> [kept EXCEPT !.refusal = "ambiguous"]
          [] ambiguous(seen) /\ i # 0  -> aborted
          [] ~ambiguous(seen) /\ i = 0 -> kept
          [] OTHER ->
                IF proves(f, e, phase, seen, private)
                THEN IF custom /\ rebuildsEvidence(f, phase)
                     THEN [kept EXCEPT !.refusal = "v4"] ELSE recovered
                ELSE IF irreversible(phase, seen, private) THEN aborted ELSE kept

-----------------------------------------------------------------------------
(* The operations.  The read requests look at the lock once or not at all; *)
(* every other operation holds it from its first line to its last.         *)

Readers == {"read", "contextA", "contextB", "replay"}

roleOf(op) == IF op \in {"submitA", "claimA", "contextA"} THEN "A" ELSE "B"

(* Mistake: participant B's publication is taken for the finalized case.   *)
nextOperationBeforeRelease_SkipsFinalize(e) ==
    CASE e.stage = "CASE_CREATED"            -> "prepare"
      [] e.stage = "MATCH_PREPARED"          -> "submitA"
      [] e.stage = "PARTICIPANT_A_SUBMITTED" -> "submitB"
      [] e.stage \in {"PARTICIPANT_B_PUBLISHED", "PARTICIPANT_B_SUBMITTED"} -> "evaluate"
      [] e.stage = "EVALUATED"               -> "release"
      [] OTHER                               -> None

nextOperationBeforeRelease(e) ==
    CASE e.stage = "CASE_CREATED"            -> "prepare"
      [] e.stage = "MATCH_PREPARED"          -> "submitA"
      [] e.stage = "PARTICIPANT_A_SUBMITTED" -> "submitB"
      [] e.stage = "PARTICIPANT_B_PUBLISHED" -> "submitB"
      [] e.stage = "PARTICIPANT_B_SUBMITTED" -> "evaluate"
      [] e.stage = "EVALUATED"               -> "release"
      [] OTHER                               -> None

nextOperation(e, conflict) ==
    CASE e.stage = "RELEASED"            -> "recourse"
      [] e.stage = "RECOURSE_OPENED"     -> IF conflict THEN "cure" ELSE "export"
      [] e.stage = "CHRONOLOGY_COMPLETE" -> "export"
      [] OTHER                           -> nextOperationBeforeRelease(e)

(* The operation each view offers.  Before the release the public view     *)
(* passes the scenario the case was created with; a custom case has the    *)
(* placeholder "conflict".                                                 *)
publicView(e) ==
    IF e.coalitionRelease # None THEN None
    ELSE nextOperation(e, IF e.release = None THEN custom \/ variant.truth ELSE e.release)

customSupervisedView(e) ==
    CASE variant.coalition -> IF e.coalitionRelease = None THEN nextOperationBeforeRelease(e) ELSE None
      [] OTHER -> IF e.release = None THEN nextOperationBeforeRelease(e) ELSE nextOperation(e, e.release)

offered(e) == IF custom THEN customSupervisedView(e) ELSE publicView(e)

PhaseOf(op, e) ==
    CASE op = "prepare"  -> "PREPARING"
      [] op = "submitA"  -> "SUBMITTING_A"
      [] op = "submitB"  -> IF e.stage = "PARTICIPANT_B_PUBLISHED" THEN "FINALIZING" ELSE "SUBMITTING_B"
      [] op = "evaluate" -> "EVALUATING"
      [] op = "release"  -> "RELEASING"
      [] op = "recourse" -> "OPENING_RECOURSE"
      [] op = "cure"     -> "ADVANCING_CURE"
      [] op = "export"   -> "EXPORTING"
      [] op = "retain"   -> "RETAINING"

(* rawParticipantKey: before the foundation a missing key is minted, after *)
(* it a missing key is a refusal.                                          *)
rawParticipantKey(f, r) ==
    IF {"partialFoundation", "foundation"} \cap f.disk = {}
    THEN [f EXCEPT !.keyFiles = @ \cup {r}] ELSE f

ensureCoalitionSettlementProfileCommitted(f) ==
    IF variant.coalition THEN [f EXCEPT !.profile = TRUE] ELSE f

(* The engine trusts the admission ledger, not its caller.                 *)
verifiedDurableAdmission(r, f) == variant.kind = "admitted" /\ r \in f.ledger

(* readRetainedProtectionEvidence, when no retention is pending.           *)
retainedReadback(f, e) == e.stage = "COMPLETE" /\ "retained" \in f.disk /\ pendingOperation(f) = 0

(* What the operation finds already done, and answers without doing again. *)
alreadyDone(op, f, e) ==
    CASE op = "prepare"  -> e.stage = "MATCH_PREPARED"
      [] op = "submitA"  -> "A" \in e.subs
      [] op = "submitB"  -> "B" \in e.subs /\ e.stage # "PARTICIPANT_B_PUBLISHED"
      [] op = "evaluate" -> e.stage = "EVALUATED"
      [] op = "release"  -> e.stage = "RELEASED"
      [] op = "recourse" -> e.recourse # None /\ e.stage # "ABORTED"
      [] op = "export"   -> e.stage = "COMPLETE" /\ ~custom
      [] op = "retain"   -> retainedReadback(f, e)
      [] op \in {"claimA", "claimB"} -> roleOf(op) \in e.claims
      [] OTHER           -> FALSE

(* An admitted case takes a role's pledge from its recorded claim only.    *)
claimed(r, e) == variant.kind = "admitted" => r \in e.claims

(* What the operation requires of the record before it begins.             *)
admissible(op, f, e) ==
    CASE op = "prepare"  -> e.stage = "CASE_CREATED"
      [] op = "submitA"  -> /\ e.stage = "MATCH_PREPARED" /\ e.keys
                            /\ claimed("A", e)
      [] op = "submitB"  -> /\ e.stage \in {"PARTICIPANT_A_SUBMITTED", "PARTICIPANT_B_PUBLISHED"}
                            /\ claimed("B", e)
      [] op = "evaluate" -> e.stage = "PARTICIPANT_B_SUBMITTED"
      [] op = "release"  -> e.stage = "EVALUATED" /\ (variant.coalition => f.profile)
      [] op = "recourse" -> e.stage = "RELEASED" /\ e.release # None
      [] op = "cure"     -> e.stage = "RECOURSE_OPENED" /\ e.recourse = TRUE
      [] op = "export"   -> /\ e.release # None
                            /\ e.stage = IF e.release THEN "CHRONOLOGY_COMPLETE" ELSE "RECOURSE_OPENED"
      [] op = "retain"   -> e.stage = "COMPLETE" /\ ~custom
      [] op = "claimA"   -> e.stage = "MATCH_PREPARED" /\ verifiedDurableAdmission("A", f)
      [] op = "claimB"   -> e.stage = "PARTICIPANT_A_SUBMITTED" /\ verifiedDurableAdmission("B", f)
      [] OTHER           -> FALSE

(* The writes of an admitted operation before its child program starts.    *)
beginning(op, f, e) ==
    LET phase == PhaseOf(op, e)
        g == IF op = "evaluate" THEN ensureCoalitionSettlementProfileCommitted(f) ELSE f
        b == beginOperation(g, phase)
        a == rawParticipantKey(b, "A")
    IN  CASE phase = "PREPARING" -> <<b, a, rawParticipantKey(a, "B")>>
          [] phase \in {"SUBMITTING_A", "SUBMITTING_B"} ->
                <<b, [b EXCEPT !.pledgeFiles = @ \cup {roleOf(op)}]>>
          [] OTHER -> <<g, b>>

(* The objects the child program of a phase publishes, in their order.     *)
(* A retried release, recourse, export or retention skips what it finds.   *)
publications(phase, disk) ==
    LET missing(o) == IF o \in disk THEN <<>> ELSE <<o>>
    IN  CASE phase = "PREPARING"    -> <<"partialFoundation", "foundation">>
          [] phase = "SUBMITTING_A" -> <<"signatureA", "submissionA", "enrollmentA">>
          [] phase = "SUBMITTING_B" -> <<"signatureB", "submissionB", "enrollmentB">>
          [] phase = "FINALIZING"   -> <<"manifest">>
          [] phase = "EVALUATING"   -> <<"evaluationAdmitted", "resultCiphertext", "evaluation">>
          [] phase = "RELEASING"    ->
                CASE variant.coalition /\ "result" \in disk -> <<>>
                  [] variant.coalition /\ "result" \notin disk ->
                        missing("releaseAdmitted") \o <<"result">> \o missing("releaseConsumed")
                  [] OTHER ->
                        missing("releaseAdmitted") \o missing("retainedResult") \o missing("result")
          [] phase = "OPENING_RECOURSE" ->
                IF variant.truth THEN missing("clock") \o missing("record") ELSE <<>>
          [] phase = "EXPORTING"    -> missing("attestation") \o missing("evidence")
          [] phase = "RETAINING"    -> missing("retained")

(* Objects are create-only.  A client signs with its key file; the release *)
(* boundary pairs both enrollments before it computes a result.            *)
publishable(object, f) ==
    /\ object \notin f.disk
    /\ object = "signatureA" => "A" \in f.keyFiles
    /\ object = "signatureB" => "B" \in f.keyFiles
    /\ object \in {"retainedResult"} \cup (IF variant.coalition THEN {"releaseAdmitted"} ELSE {})
            => {"enrollmentA", "enrollmentB"} \subseteq f.disk

(* The writes of each operation after its child program has ended, in      *)
(* their order; an operation throws at the first file it cannot unlink.    *)

published(f, o) == [f EXCEPT !.disk = @ \cup {o}]

preparePrivateMatch(f, e, i) ==
    LET s == saveState(f, reconstructed(e, "PREPARING", i))
        p == ensureCoalitionSettlementProfileCommitted(s)
    IN  <<s, p>> \o (IF mayFinish(f, i) THEN <<finishOperation(p, i, "COMPLETED")>> ELSE <<>>)

submitParticipantPledge(role, phase, f, e, i) ==
    LET g == [f EXCEPT !.pledgeFiles = @ \ {role}]
        h == [g EXCEPT !.keyFiles = @ \ {role}]
    IN  CASE role \notin f.pledgeFiles -> <<f>>
          [] role \in f.pledgeFiles /\ role \notin f.keyFiles -> <<g>>
          [] OTHER -> <<g, h>> \o saveAndFinish(h, reconstructed(e, phase, i), i, "COMPLETED")

finalizeParticipantSubmissions(f, e, i) ==
    saveAndFinish(f, reconstructed(e, "FINALIZING", i), i, "COMPLETED")

evaluatePrivateConflict(f, e, i) ==
    saveAndFinish(f, reconstructed(e, "EVALUATING", i), i, "COMPLETED")

releaseCoalitionResult(f, e, i) == saveAndFinish(f, coalitionRelease(e), i, "COMPLETED")

(* The release compares the Boolean with the scenario the case was created *)
(* with, unless the operator's windows are in the record.                  *)
releaseGovernedResult(f, e, i) ==
    IF variant.kind = "admitted" /\ ~variant.truth THEN <<f>>
    ELSE saveAndFinish(f, governedRelease(e), i, "COMPLETED")

openRecourseCase(f, e, i) ==
    LET g == published(f, "outcome")
    IN  <<g>> \o saveAndFinish(g, afterRecourse(e, variant.truth, i), i, "COMPLETED")

completeCureChronology(f, e, i) ==
    saveAndFinish(f, [e EXCEPT !.stage = "CHRONOLOGY_COMPLETE"], i, "COMPLETED")

(* A custom case writes its receipt, an admitted one its bridge evidence   *)
(* too; a fixed case writes the V4 evidence.                               *)
customReceipt(f) ==
    LET c == published(f, "customReceipt")
    IN  IF variant.kind = "admitted" THEN <<c, published(c, "bridgeEvidence")>> ELSE <<c>>

exportProtectionEvidence(f, e, i) ==
    LET w == IF custom THEN customReceipt(f) ELSE <<published(f, "productEvidence")>>
    IN  w \o saveAndFinish(Last(w), reconstructed(e, "EXPORTING", i), i, "COMPLETED")

retainProtectionEvidence(f, i) ==
    IF mayFinish(f, i) THEN <<finishOperation(f, i, "COMPLETED")>> ELSE <<f>>

admitParticipantClaim(f, e, r) == <<saveState(f, [e EXCEPT !.claims = @ \cup {r}])>>

completing(phase, f, e, i) ==
    CASE phase = "PREPARING"        -> preparePrivateMatch(f, e, i)
      [] phase = "SUBMITTING_A"     -> submitParticipantPledge("A", phase, f, e, i)
      [] phase = "SUBMITTING_B"     -> submitParticipantPledge("B", phase, f, e, i)
      [] phase = "FINALIZING"       -> finalizeParticipantSubmissions(f, e, i)
      [] phase = "EVALUATING"       -> evaluatePrivateConflict(f, e, i)
      [] phase = "RELEASING"        -> IF variant.coalition THEN releaseCoalitionResult(f, e, i)
                                       ELSE releaseGovernedResult(f, e, i)
      [] phase = "OPENING_RECOURSE" -> openRecourseCase(f, e, i)
      [] phase = "EXPORTING"        -> exportProtectionEvidence(f, e, i)
      [] phase = "RETAINING"        -> retainProtectionEvidence(f, i)

-----------------------------------------------------------------------------
(* A request's continuation after the inspection it awaited, and after its *)
(* child: the states it passes through and what the request does next.     *)

child(op, phase, f, e) ==
    [op |-> op, at |-> "child", exec |-> e, pend |-> pendingOperation(f), phase |-> phase,
     seen |-> {}, left |-> publications(phase, f.disk)]

afterInspection(c) ==
    LET k == call[c]
        r == reconcileState(fs, k.exec, k.pend, k.phase, k.seen, k.op \notin Readers)
        f == Last(<<fs>> \o r.steps)
        e == r.exec
        end == [steps |-> r.steps, next |-> Idle]
        then(w) == [end EXCEPT !.steps = r.steps \o w]
    IN  CASE r.refusal # None \/ k.op \in {"read", "replay"} -> end
          [] r.refusal = None /\ k.op \in {"contextA", "contextB"} ->
                then(<<rawParticipantKey(f, roleOf(k.op))>>)
          [] OTHER ->
                IF alreadyDone(k.op, f, e) \/ ~admissible(k.op, f, e) THEN end
                ELSE IF k.op \in {"claimA", "claimB"} THEN then(admitParticipantClaim(f, e, roleOf(k.op)))
                ELSE LET phase == PhaseOf(k.op, e)
                         b == beginning(k.op, f, e)
                     IN  CASE ~mayBegin(f, phase) -> end
                           [] mayBegin(f, phase) /\ phase = "ADVANCING_CURE" ->
                                then(b \o completeCureChronology(Last(b), e, pendingOperation(Last(b))))
                           [] OTHER -> [then(b) EXCEPT !.next = child(k.op, phase, Last(b), e)]

afterChild(c) ==
    LET k == call[c]
        w == completing(k.phase, fs, k.exec, k.pend)
        f == Last(w)
        b == beginOperation(f, "FINALIZING")
    IN  IF k.phase = "SUBMITTING_B" /\ f.journal[k.pend].outcome = "COMPLETED"
        THEN [steps |-> w \o <<b>>, next |-> child(k.op, "FINALIZING", b, f.exec)]
        ELSE [steps |-> w, next |-> Idle]

ready(c) ==
    CASE call[c].at = "inspected" -> {afterInspection(c)}
      [] call[c].at = "child" /\ call[c].left = <<>> -> {afterChild(c)}
      [] OTHER -> {}

-----------------------------------------------------------------------------
(* Actions.                                                                *)

(* createProtectionCase, the first time its request id is seen.            *)
create ==
    /\ fs.exec = None
    /\ fs' = saveState(fs, NewExecution)
    /\ UNCHANGED <<variant, lock, call, crashes>>

(* The admission service writes a role's durable admission, A before B.    *)
admitRole(r) ==
    /\ variant.kind = "admitted" /\ fs.exec # None
    /\ r \notin fs.ledger /\ (r = "B" => "A" \in fs.ledger)
    /\ fs' = [fs EXCEPT !.ledger = @ \cup {r}]
    /\ UNCHANGED <<variant, lock, call, crashes>>

mayEnter(op) == op \in {"contextA", "contextB", "replay"} \/ lock = None

takes(c, op) == IF op \in Readers THEN lock ELSE c

(* A request enters, reads the record and the journal, and starts the      *)
(* inspection.  An aborted journal whose abort was not saved is saved.     *)
enter(c, op) ==
    /\ call[c].at = "idle" /\ fs.exec # None
    /\ mayEnter(op)
    /\ op \in {"contextA", "contextB"} => variant.kind = "admitted"
    /\ loadable(fs)
    /\ IF fs.journal # <<>> /\ Last(fs.journal).outcome = "ABORTED" /\ fs.exec.stage # "ABORTED"
       THEN /\ fs' = saveState(fs, [fs.exec EXCEPT !.stage = "ABORTED"])
            /\ UNCHANGED <<lock, call>>
       ELSE /\ lock' = takes(c, op)
            /\ call' = [call EXCEPT ![c] =
                  [Idle EXCEPT !.op = op, !.at = "inspecting", !.exec = fs.exec,
                               !.pend = pendingOperation(fs),
                               !.phase = IF pendingOperation(fs) = 0 THEN None ELSE Last(fs.journal).phase]]
            /\ UNCHANGED fs
    /\ UNCHANGED <<variant, crashes>>

(* The inspection program reads the published objects.                     *)
inspect(c) ==
    /\ call[c].at = "inspecting"
    /\ call' = [call EXCEPT ![c].at = "inspected", ![c].seen = fs.disk]
    /\ UNCHANGED <<variant, fs, lock, crashes>>

releases(c, next) == IF next.at = "idle" /\ lock = c THEN None ELSE lock

(* The request continues without interruption.                             *)
continue(c) ==
    \E k \in ready(c) :
        /\ fs' = Last(<<fs>> \o k.steps)
        /\ call' = [call EXCEPT ![c] = k.next]
        /\ lock' = releases(c, k.next)
        /\ UNCHANGED <<variant, crashes>>

mayPublish(objects) ==
    \A i \in 1 .. Len(objects) :
        publishable(objects[i], [fs EXCEPT !.disk = @ \cup {objects[j] : j \in 1 .. i - 1}])

(* The child program publishes its next object, or all of them when child  *)
(* programs are taken to be atomic.                                        *)
publish(c) ==
    /\ call[c].at = "child" /\ call[c].left # <<>>
    /\ LET objects == IF ChildrenFail THEN <<Head(call[c].left)>> ELSE call[c].left
       IN  /\ mayPublish(objects)
           /\ fs' = [fs EXCEPT !.disk = @ \cup ToSet(objects)]
           /\ call' = [call EXCEPT ![c].left = SubSeq(@, Len(objects) + 1, Len(@))]
    /\ UNCHANGED <<variant, lock, crashes>>

(* The child program ends without its objects: it could not publish one,   *)
(* or it was stopped.  The request throws and leaves its record pending.   *)
childFails(c) ==
    /\ call[c].at \in {"inspecting", "child"}
    /\ \/ ChildrenFail
       \/ call[c].left # <<>> /\ ~mayPublish(call[c].left)
    /\ call' = [call EXCEPT ![c] = Idle]
    /\ lock' = releases(c, Idle)
    /\ UNCHANGED <<variant, fs, crashes>>

(* The process is killed, between two requests or in the middle of one,    *)
(* and starts again with its files.                                        *)
Crash ==
    /\ crashes < MaxCrashes
    /\ \/ fs' = fs
       \/ \E c \in Callers : \E k \in ready(c) : \E i \in 1 .. Len(k.steps) - 1 : fs' = k.steps[i]
    /\ lock' = None
    /\ call' = [c \in Callers |-> Idle]
    /\ crashes' = crashes + 1
    /\ UNCHANGED variant

Next ==
    \/ create
    \/ \E r \in Roles : admitRole(r)
    \/ \E c \in Callers :
            \/ \E op \in Operations : enter(c, op)
            \/ inspect(c) \/ continue(c) \/ publish(c) \/ childFails(c)
    \/ Crash

Spec == Init /\ [][Next]_vars

-----------------------------------------------------------------------------
(* A client that follows the operation the view offers, as the browser and *)
(* the worker do; its requests and the server keep running, a crash need   *)
(* not happen.  A retention is asked for on its own.                       *)

drive(c) ==
    /\ fs.exec # None
    /\ offered(fs.exec) # None
    /\ enter(c, offered(fs.exec))

DrivenNext ==
    \/ create \/ Crash
    \/ \E c \in Callers : drive(c) \/ inspect(c) \/ continue(c) \/ publish(c) \/ childFails(c)

DrivenSpec ==
    /\ Init /\ [][DrivenNext]_vars
    /\ WF_vars(create)
    /\ \A c \in Callers :
            WF_vars(drive(c)) /\ WF_vars(inspect(c)) /\ WF_vars(continue(c)) /\ WF_vars(publish(c))

-----------------------------------------------------------------------------
(* Properties.                                                             *)

TypeOK ==
    /\ variant \in Variants
    /\ lock \in Callers \cup {None}
    /\ crashes \in 0 .. MaxCrashes
    /\ fs.disk \subseteq Artifacts /\ fs.keyFiles \subseteq Roles /\ fs.pledgeFiles \subseteq Roles
    /\ fs.ledger \subseteq Roles /\ fs.profile \in BOOLEAN
    /\ fs.exec \in Execution \cup {None}
    /\ \A i \in 1 .. Len(fs.journal) :
            /\ fs.journal[i].phase \in Phases \cup {"ABORTED"}
            /\ fs.journal[i].outcome \in Outcomes
            /\ fs.journal[i].outcome = "PENDING" => i = Len(fs.journal)
    /\ \A c \in Callers : call[c].at \in {"idle", "inspecting", "inspected", "child"}

reached(stage) ==
    fs.exec # None /\ fs.exec.stage # "ABORTED" /\ Rank(fs.exec.stage) >= Rank(stage)

(* However the process was stopped, the record never claims a step whose   *)
(* cryptographic objects were not published.                               *)
StageIsProven ==
    /\ reached("MATCH_PREPARED") => "foundation" \in fs.disk
    /\ reached("PARTICIPANT_A_SUBMITTED") => "submissionA" \in fs.disk
    /\ reached("PARTICIPANT_B_PUBLISHED") => "submissionB" \in fs.disk
    /\ reached("PARTICIPANT_B_SUBMITTED") => "manifest" \in fs.disk
    /\ reached("EVALUATED") => "evaluation" \in fs.disk
    /\ reached("RELEASED") => "result" \in fs.disk
    /\ reached("RECOURSE_OPENED") => (variant.truth => "record" \in fs.disk)
    /\ reached("COMPLETE") => "evidence" \in fs.disk

(* A record that was recovered from the published objects is the record    *)
(* the uninterrupted operations would have left: nothing is lost, nothing  *)
(* is recorded early, and the released Boolean is the circuit's.           *)
RecoveryIsFaithful ==
    fs.exec # None /\ fs.exec.stage # "ABORTED" =>
        LET e == fs.exec
        IN  /\ e.keys = reached("MATCH_PREPARED")
            /\ ("A" \in e.subs) = reached("PARTICIPANT_A_SUBMITTED")
            /\ ("B" \in e.subs) = reached("PARTICIPANT_B_PUBLISHED")
            /\ e.evaluated = reached("EVALUATED")
            /\ e.release = IF reached("RELEASED") /\ ~variant.coalition THEN variant.truth ELSE None
            /\ e.coalitionRelease = IF reached("RELEASED") /\ variant.coalition THEN variant.truth ELSE None
            /\ e.plan = (variant.policy /\ reached("RELEASED"))
            /\ e.recourse = IF reached("RECOURSE_OPENED") THEN variant.truth ELSE None
            /\ e.receipt = reached("COMPLETE")

(* A journal record that says an operation is finished is never ahead of   *)
(* the execution record: the state is saved before the record is closed.   *)
FinishedIsSaved ==
    fs.exec # None /\ fs.exec.stage # "ABORTED" =>
        \A i \in 1 .. Len(fs.journal) :
            fs.journal[i].outcome \in {"COMPLETED", "RECONCILED"} => reached(Target[fs.journal[i].phase])

(* The evaluator and the release boundary are one-shot: their program is   *)
(* never started again once the run was admitted to them.                  *)
IrreversibleOnce ==
    [][\A c \in Callers :
        call[c].at # "child" /\ call'[c].at = "child" =>
            /\ call'[c].phase = "EVALUATING" => "evaluationAdmitted" \notin fs.disk
            /\ call'[c].phase = "RELEASING" => "releaseAdmitted" \notin fs.disk]_vars

quiet == fs.exec # None /\ lock = None /\ \A c \in Callers : call[c].at = "idle"

recordedAbort == fs.journal # <<>> /\ Last(fs.journal).outcome = "ABORTED"

reloaded(private) ==
    reconcileState(fs, fs.exec, pendingOperation(fs),
                   IF fs.journal = <<>> THEN None ELSE Last(fs.journal).phase, fs.disk, private)

(* Whatever interrupted the run, the next request can load it.             *)
AlwaysReadable ==
    quiet /\ ~recordedAbort => loadable(fs) /\ reloaded(FALSE).refusal = None /\ reloaded(TRUE).refusal = None

(* The operation the view offers is one the server accepts: no crash       *)
(* leaves a run whose pending record refuses the operation it offers.      *)
OfferIsAccepted ==
    quiet /\ ~recordedAbort /\ variant.kind # "admitted" =>
        LET r == reloaded(TRUE)
            f == Last(<<fs>> \o r.steps)
            op == offered(r.exec)
        IN  op # None /\ r.exec.stage # "ABORTED" =>
                admissible(op, f, r.exec) /\ mayBegin(f, PhaseOf(op, r.exec))

(* No pledge of an admitted case is encrypted, and no claim recorded,      *)
(* before the wallet's admission is durable.                               *)
AdmittedFirst ==
    fs.exec # None /\ variant.kind = "admitted" =>
        fs.exec.subs \cup fs.pledgeFiles \subseteq fs.exec.claims /\ fs.exec.claims \subseteq fs.ledger

(* An aborted operation is the last one: nothing is begun after it.        *)
AbortIsFinal == [][recordedAbort => fs'.journal = fs.journal]_vars

(* "A GET must never reconcile an admitted operation while this process is *)
(* still executing it": while a request's child runs, no other request     *)
(* writes the journal.                                                     *)
RunningIsNotReconciled ==
    [][\A c \in Callers : call[c].at = "child" /\ call'[c] = call[c] => fs'.journal = fs.journal]_vars

(* The key and the plaintext of a submitted pledge do not outlive it.      *)
PrivateInputIsGone ==
    quiet /\ pendingOperation(fs) = 0 /\ ~recordedAbort =>
        fs.pledgeFiles = {} /\ fs.keyFiles \cap fs.exec.subs = {}

(* A submission the server has accepted can be paired at the release.      *)
AcceptedIsReleasable ==
    quiet => \A r \in Roles :
        r \in fs.exec.subs => (IF r = "A" THEN "enrollmentA" ELSE "enrollmentB") \in fs.disk

(* The placeholder scenario of an admitted case is never compared: a       *)
(* release that published its result and was not interrupted records it.   *)
PublishedIsReleased ==
    quiet /\ crashes = 0 /\ "result" \in fs.disk => reached("RELEASED")

(* A driven run ends: at its evidence, at its coalition release, or in an  *)
(* abort that is on record.                                                *)
RunEnds ==
    <>[](fs.exec # None /\ offered(fs.exec) = None)

=============================================================================
