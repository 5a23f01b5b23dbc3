-------------------------- MODULE WorkerProjection --------------------------
(***************************************************************************)
(* What the execution service tells a browser about a run, and what the    *)
(* browser accepts of it.  The service projects the durable state of a run *)
(* into a public view; every page parses the view again, so that a         *)
(* malformed or contradictory answer is refused, never rendered.           *)
(*                                                                         *)
(* A view keeps the members that can contradict each other.  Digests,      *)
(* schema names and timestamps are bound to the run by equality in the     *)
(* code and appear here only as the run and the result they belong to.     *)
(***************************************************************************)
EXTENDS Naturals, Sequences

NoRun == 0

Verdicts == {"conflict", "no-conflict"}
Kinds == {"custom", "governed", "coalition"}

(* MANAGED_STAGES, in the order a run goes through them.                   *)
StageOrder == <<"CASE_CREATED", "MATCH_PREPARED", "PARTICIPANT_A_SUBMITTED",
                "PARTICIPANT_B_PUBLISHED", "PARTICIPANT_B_SUBMITTED", "EVALUATED",
                "RELEASED", "RECOURSE_OPENED", "CHRONOLOGY_COMPLETE", "COMPLETE">>
ManagedStages == {StageOrder[i] : i \in 1 .. Len(StageOrder)} \cup {"ABORTED"}

stageIndex(s) == CHOOSE i \in 1 .. Len(StageOrder) : StageOrder[i] = s
reached(s, floor) == s # "ABORTED" /\ stageIndex(s) >= stageIndex(floor)

NoReceipt == [run |-> NoRun, result |-> "none"]
Receipts(runs) == {NoReceipt} \cup [run : runs, result : Verdicts]

(* No view: what a page holds before any answer was accepted.              *)
NoView == [kind |-> "none", run |-> NoRun, stage |-> "none", result |-> "none",
           scenario |-> "none", recourse |-> "none", plan |-> "none",
           settlement |-> "none", receipt |-> NoReceipt]

(* The governed action the committed policy selects for a result, and the  *)
(* settlement a coalition release leads to.                                *)
planFor(result) ==
  CASE result = "conflict" -> "OPEN_LOCAL_CURE_PATH"
    [] result = "no-conflict" -> "RECORD_AND_CLOSE"
    [] OTHER -> "none"
settlementFor(result) ==
  CASE result = "conflict" -> "EXECUTION_READY"
    [] result = "no-conflict" -> "NO_CONFLICT_NO_SETTLEMENT"
    [] OTHER -> "none"

(* The projection of run r, whose durable state is c = [stage, result].    *)
customSupervisedView(kind, r, c) ==
  [kind |-> kind, run |-> r, stage |-> c.stage, result |-> c.result, scenario |-> c.result,
   recourse |-> IF kind # "coalition" /\ reached(c.stage, "RECOURSE_OPENED")
                THEN IF c.result = "conflict" THEN "opened" ELSE "refused"
                ELSE "none",
   plan |-> IF kind = "governed" THEN planFor(c.result) ELSE "none",
   settlement |-> IF kind = "coalition" THEN settlementFor(c.result) ELSE "none",
   receipt |-> IF c.stage = "COMPLETE" THEN [run |-> r, result |-> c.result] ELSE NoReceipt]

(* What a coalition view may carry: the milestone ends at the release.     *)
parseCoalitionMembers(v) ==
  /\ v.recourse = "none" /\ v.receipt = NoReceipt /\ v.stage # "COMPLETE"
  /\ v.settlement = settlementFor(v.result)

(* The terminal receipt is bound to its run and to the released result.    *)
parseCustomSupervisedReceipt(v) == v.receipt = [run |-> v.run, result |-> v.result]

(* The action plan is the committed policy's for the released result.      *)
parseManagedGovernedPolicy(v) == v.plan = planFor(v.result)

(* Mistake: the scenario is not compared with the governed result.         *)
parseManagedWorkerView_Loose(v) ==
  /\ v.stage \in ManagedStages
  /\ v.kind = "coalition" => parseCoalitionMembers(v)
  /\ v.stage = "COMPLETE" => v.result # "none" /\ v.receipt # NoReceipt
  /\ v.receipt # NoReceipt => v.stage = "COMPLETE" /\ v.result # "none" /\ v.receipt.run = v.run
  /\ v.stage = "ABORTED" => v.result = "none"

parseManagedWorkerView(v) ==
  /\ v.stage \in ManagedStages
  /\ v.kind = "coalition" => parseCoalitionMembers(v)
  /\ v.result = "none" => v.scenario = "none" /\ v.recourse = "none" /\ v.receipt = NoReceipt
  /\ v.result # "none" => v.scenario = v.result
  /\ v.result = "no-conflict" => v.recourse # "opened"
  /\ v.stage = "ABORTED" => v.result = "none"
  /\ v.stage = "COMPLETE" => v.result # "none" /\ v.receipt # NoReceipt
  /\ v.receipt # NoReceipt =>
       v.stage = "COMPLETE" /\ v.result # "none" /\ parseCustomSupervisedReceipt(v)
  /\ v.kind = "governed" => parseManagedGovernedPolicy(v)

(* Answers the boundary may hand a page instead of v: one member is wrong. *)
distorted(v, runs) ==
  ( {[v EXCEPT !.result = x] : x \in Verdicts \cup {"none"}}
    \cup {[v EXCEPT !.scenario = x] : x \in Verdicts \cup {"none"}}
    \cup {[v EXCEPT !.recourse = x] : x \in {"none", "opened", "refused"}}
    \cup {[v EXCEPT !.plan = planFor(x)] : x \in Verdicts}
    \cup {[v EXCEPT !.settlement = settlementFor(x)] : x \in Verdicts \cup {"none"}}
    \cup {[v EXCEPT !.stage = x] : x \in {"RELEASED", "COMPLETE", "ABORTED"}}
    \cup {[v EXCEPT !.run = x] : x \in runs}
    \cup {[v EXCEPT !.receipt = x] : x \in Receipts(runs)} ) \ {v}

(* The state a page shows for an accepted view.                            *)
managedProductState(v) ==
  CASE v.stage = "ABORTED" -> "EXECUTION_FAILED"
    [] v.stage = "COMPLETE" /\ v.receipt # NoReceipt -> "RECEIPT_SEALED"
    [] v.result = "conflict" ->
         IF v.recourse = "opened" THEN "CURE_OPEN" ELSE "CONFLICT_REVEALED"
    [] v.result = "no-conflict" ->
         IF v.recourse = "refused" THEN "RECOURSE_REFUSED" ELSE "NO_CONFLICT_REVEALED"
    [] v.stage = "CASE_CREATED" -> "CASE_READY"
    [] v.stage = "MATCH_PREPARED" -> "PREPARING_ENCRYPTION"
    [] v.stage = "PARTICIPANT_A_SUBMITTED" -> "PARTICIPANT_A_ENCRYPTED"
    [] v.stage \in {"PARTICIPANT_B_PUBLISHED", "PARTICIPANT_B_SUBMITTED"} -> "PARTICIPANT_B_ENCRYPTED"
    [] v.stage = "EVALUATED" -> "ENCRYPTED_EVALUATION"
    [] OTHER -> "EXECUTION_FAILED"
=============================================================================
