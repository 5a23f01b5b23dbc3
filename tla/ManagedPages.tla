---------------------------- MODULE ManagedPages ----------------------------
(***************************************************************************)
(* The two pages that start a managed run: the live product page and the   *)
(* landing page's mini check.  Both mint a launch token, post the case to  *)
(* the execution service and then poll the service's projection of it.     *)
(*                                                                         *)
(* The interval does not wait for an answer, so several reads of one run   *)
(* can be under way and be answered in any order.  A read is dropped when  *)
(* the effect that sent it is cleaned up.  A state update, its render and  *)
(* the clean-up of its effects are one step.  The service is LiveWorker's  *)
(* subject; here a run only moves on, and an answer is lost or has one     *)
(* member wrong at most MaxErrs times.                                     *)
(***************************************************************************)
EXTENDS WorkerProjection

CONSTANTS
    MaxRuns,        \* runs the service creates
    ViewKinds,      \* the kinds of view its runs have
    MaxPolls,       \* MAX_POLLS
    FailureLimit,   \* FAILURES_BEFORE_UNAVAILABLE
    MaxErrs         \* answers lost or distorted

ASSUME PagesAssumption ==
    /\ {MaxRuns, MaxPolls, FailureLimit} \subseteq Nat \ {0} /\ MaxErrs \in Nat
    /\ ViewKinds \subseteq Kinds

VARIABLES
    surface,    \* "managed" or "mini"
    runs,       \* the service's runs, in the order of their creation
    screen,     \* the page's state
    answers,    \* answers on their way to the page
    errs        \* answers lost or distorted so far

pageVars == <<surface, runs, screen, answers, errs>>

RunIds == 1 .. MaxRuns
Lost == [NoView EXCEPT !.kind = "lost"]          \* the request failed on the network
Unread == [NoView EXCEPT !.kind = "unreadable"]  \* an answer that is not JSON
Busy == [NoView EXCEPT !.kind = "busy"]          \* 409
Refusal == [NoView EXCEPT !.kind = "refusal"]    \* 429 or another error status

Blank == [run |-> NoRun, view |-> NoView, phase |-> "idle", notice |-> "none", eligible |-> FALSE,
          restoring |-> FALSE, failures |-> 0, polls |-> 0, previous |-> NoReceipt]

(***************************************************************************)
(* The service.                                                            *)
(***************************************************************************)
finished(c) == c.stage \in {"COMPLETE", "ABORTED"} \/ (c.kind = "coalition" /\ c.result # "none")
slotTaken == \E r \in DOMAIN runs : ~finished(runs[r])
opened(kind) == Append(runs, [kind |-> kind, stage |-> "CASE_CREATED", result |-> "none"])

moved(c) ==
  CASE c.stage = "CASE_CREATED" -> {[c EXCEPT !.stage = "EVALUATED"], [c EXCEPT !.stage = "ABORTED"]}
    [] c.stage = "EVALUATED" -> {[c EXCEPT !.stage = "RELEASED", !.result = x] : x \in Verdicts}
    [] c.stage = "RELEASED" -> {[c EXCEPT !.stage = "RECOURSE_OPENED"]}
    [] OTHER -> {[c EXCEPT !.stage = "COMPLETE"]}

runMoves ==
  /\ \E r \in DOMAIN runs : ~finished(runs[r]) /\ \E c \in moved(runs[r]) : runs' = [runs EXCEPT ![r] = c]
  /\ UNCHANGED <<surface, screen, answers, errs>>

(* Another visitor takes the one execution slot.                           *)
visitorStarts ==
  /\ Len(runs) < MaxRuns /\ ~slotTaken
  /\ \E k \in ViewKinds : runs' = opened(k)
  /\ UNCHANGED <<surface, screen, answers, errs>>

(* What reaches the page of an answer body: the body, or, while faults are *)
(* left, nothing, something unreadable or the body with a member wrong.    *)
arriving(body) ==
  {body} \cup IF errs = MaxErrs THEN {}
              ELSE {Lost, Unread} \cup IF body.run = NoRun THEN {} ELSE distorted(body, DOMAIN runs)
arrived(body, got) == errs' = IF got = body THEN errs ELSE errs + 1

projection(r) == customSupervisedView(runs[r].kind, r, runs[r])

(***************************************************************************)
(* The page.                                                               *)
(***************************************************************************)
verdictOf(v) == v.result
terminalView(v) == v.stage = "ABORTED" \/ (v.stage = "COMPLETE" /\ v.receipt # NoReceipt)

(* What the polling effect depends on, and when it polls at all.           *)
pollDeps(s) ==
  IF surface = "managed" THEN <<s.run, terminalView(s.view), s.notice>>
  ELSE <<s.phase, s.view.run, verdictOf(s.view) # "none">>
polling(s) ==
  IF surface = "managed" THEN s.run # NoRun /\ ~terminalView(s.view) /\ s.notice = "none"
  ELSE s.phase = "RUNNING" /\ s.view # NoView /\ verdictOf(s.view) = "none"

(* Mistake: the effects are not cleaned up.                                *)
cancelled_None(left, s) == left

(* The answers still awaited once the page is in state s: those of an      *)
(* effect whose dependencies changed are dropped.                          *)
cancelled(left, s) ==
  {a \in left : /\ a.to = "poll" => pollDeps(s) = pollDeps(screen)
                /\ a.to = "restore" => <<s.run, s.view>> = <<screen.run, screen.view>>}

becomes(s, left) ==
  /\ screen' = s
  /\ answers' = cancelled(left, s)
  /\ UNCHANGED <<surface, runs>>

unavailable(s) ==
  IF surface = "managed" THEN [s EXCEPT !.notice = "SERVICE_UNAVAILABLE"]
  ELSE [s EXCEPT !.phase = "REFUSED"]

(* readManagedRun: an answer that does not parse, or names another run, is *)
(* rejected; a request that failed is a failure.                           *)
acceptable(v, r) == v.kind \in Kinds /\ parseManagedWorkerView(v) /\ v.run = r
failedRead(v) == v \in {Lost, Refusal}

pollRun == IF surface = "managed" THEN screen.run ELSE screen.view.run

poll ==
  /\ polling(screen) /\ screen.polls < MaxPolls
  /\ answers' = answers \cup {[to |-> "poll", n |-> screen.polls + 1, body |-> projection(pollRun)]}
  /\ screen' = [screen EXCEPT !.polls = @ + 1]
  /\ UNCHANGED <<surface, runs, errs>>

pollAnswered ==
  \E a \in {x \in answers : x.to = "poll"} : \E v \in arriving(a.body) :
    LET tries == screen.failures + 1
        s == CASE acceptable(v, pollRun) -> [screen EXCEPT !.view = v, !.failures = 0]
               [] failedRead(v) -> IF tries < FailureLimit THEN [screen EXCEPT !.failures = tries]
                                   ELSE unavailable([screen EXCEPT !.failures = tries])
               [] OTHER -> unavailable(screen)
    IN becomes(s, answers \ {a}) /\ arrived(a.body, v)

(* A page opened at a run reads it once, at once.                          *)
restore ==
  /\ screen.restoring /\ screen.view = NoView /\ ~ \E a \in answers : a.to = "restore"
  /\ answers' = answers \cup {[to |-> "restore", n |-> 0, body |-> projection(screen.run)]}
  /\ UNCHANGED <<surface, runs, screen, errs>>

restoreAnswered ==
  \E a \in {x \in answers : x.to = "restore"} : \E v \in arriving(a.body) :
    LET done == [screen EXCEPT !.restoring = FALSE]
        s == CASE acceptable(v, screen.run) -> [done EXCEPT !.view = v]
               [] failedRead(v) -> [done EXCEPT !.failures = @ + 1]
               [] OTHER -> unavailable(done)
    IN becomes(s, answers \ {a}) /\ arrived(a.body, v)

(* The holder's eligibility is checked, or another holder is typed in.     *)
checkEligibility ==
  /\ surface = "managed" /\ screen.view = NoView /\ screen.phase = "idle"
  /\ \E e \in BOOLEAN : becomes([screen EXCEPT !.eligible = e], answers)
  /\ UNCHANGED errs

mayStart ==
  IF surface = "managed"
  THEN screen.phase = "idle" /\ screen.notice = "none" /\ screen.eligible
       /\ screen.view = NoView /\ ~screen.restoring
  ELSE screen.phase \in {"idle", "BUSY", "REFUSED"} /\ verdictOf(screen.view) = "none"

start ==
  /\ mayStart
  /\ becomes(IF surface = "managed" THEN [screen EXCEPT !.phase = "STARTING"]
             ELSE [screen EXCEPT !.phase = "STARTING", !.view = NoView, !.polls = 0, !.failures = 0],
             answers)
  /\ UNCHANGED errs

(* The launch token is refused or cannot be asked for.                     *)
notStarted(s) == [s EXCEPT !.phase = IF surface = "managed" THEN "idle" ELSE "REFUSED"]
tokenRefused ==
  /\ screen.phase = "STARTING"
  /\ becomes(notStarted(screen), answers)
  /\ UNCHANGED errs

(* The case is posted with the token: the service opens a run, or refuses. *)
postCase ==
  /\ screen.phase = "STARTING"
  /\ \/ /\ \E body \in {Refusal} \cup IF slotTaken THEN {Busy} ELSE {} :
             answers' = answers \cup {[to |-> "start", n |-> 0, body |-> body]}
        /\ UNCHANGED runs
     \/ /\ ~slotTaken /\ Len(runs) < MaxRuns
        /\ \E k \in ViewKinds :
             LET r == Len(runs) + 1
             IN /\ runs' = opened(k)
                /\ answers' = answers \cup
                     {[to |-> "start", n |-> 0, body |-> customSupervisedView(k, r, opened(k)[r])]}
  /\ screen' = [screen EXCEPT !.phase = "POSTED"]
  /\ UNCHANGED <<surface, errs>>

startAnswered ==
  \E a \in {x \in answers : x.to = "start"} : \E v \in arriving(a.body) :
    LET managed == surface = "managed"
        s == CASE v = Busy -> IF managed THEN [screen EXCEPT !.phase = "idle", !.notice = "BUSY"]
                              ELSE [screen EXCEPT !.phase = "BUSY"]
               [] v \in {Refusal, Lost} -> notStarted(screen)
               [] v.kind \in Kinds /\ parseManagedWorkerView(v) ->
                    IF managed THEN [screen EXCEPT !.phase = "idle", !.run = v.run, !.view = v]
                    ELSE [screen EXCEPT !.phase = "RUNNING", !.view = v]
               [] OTHER -> unavailable(notStarted(screen))
    IN becomes(s, answers \ {a}) /\ arrived(a.body, v)

retry ==
  /\ surface = "managed" /\ screen.notice # "none"
  /\ becomes([screen EXCEPT !.notice = "none", !.failures = 0, !.polls = 0], answers)
  /\ UNCHANGED errs

tryAnotherCase ==
  /\ surface = "mini" /\ verdictOf(screen.view) # "none"
  /\ becomes([Blank EXCEPT !.previous = [run |-> screen.view.run, result |-> verdictOf(screen.view)]],
             answers)
  /\ UNCHANGED errs

(* The managed page may be opened at a run that exists, at any stage.      *)
PagesInit ==
  /\ surface \in {"managed", "mini"}
  /\ answers = {} /\ errs = 0
  /\ \/ runs = << >> /\ screen = Blank
     \/ /\ surface = "managed"
        /\ runs \in {<<[kind |-> k, stage |-> s, result |-> x]>> :
                       k \in ViewKinds, s \in {"CASE_CREATED", "EVALUATED"}, x \in {"none"}}
        /\ screen = [Blank EXCEPT !.run = 1, !.restoring = TRUE]

PagesNext ==
  \/ runMoves \/ visitorStarts
  \/ poll \/ pollAnswered \/ restore \/ restoreAnswered
  \/ checkEligibility \/ start \/ tokenRefused \/ postCase \/ startAnswered
  \/ retry \/ tryAnotherCase

PagesSpec == PagesInit /\ [][PagesNext]_pageVars

(***************************************************************************)
(* Properties.                                                             *)
(***************************************************************************)
PagesTypeOK ==
  /\ surface \in {"managed", "mini"} /\ errs \in 0 .. MaxErrs
  /\ Len(runs) <= MaxRuns
  /\ screen.run \in {NoRun} \cup RunIds /\ screen.polls \in 0 .. MaxPolls
  /\ screen.phase \in {"idle", "STARTING", "POSTED", "RUNNING", "BUSY", "REFUSED"}
  /\ screen.notice \in {"none", "BUSY", "SERVICE_UNAVAILABLE"}

(* A verdict on either page is the one the run on the screen released, and *)
(* a page that says the receipt is sealed shows that run's own receipt of  *)
(* that verdict, whatever answers were lost, late or damaged on the way    *)
(* (managed-intake-adapter.ts: the browser must still reject a malformed   *)
(* or over-broad response).                                                *)
ShownIsReleased ==
  LET v == screen.view
  IN v # NoView /\ v.result # "none" =>
       /\ v.run \in DOMAIN runs /\ runs[v.run].result = v.result
       /\ managedProductState(v) = "RECEIPT_SEALED" =>
            runs[v.run].stage = "COMPLETE" /\ v.receipt = [run |-> v.run, result |-> v.result]

(* What a page has settled on stays: the managed page's terminal view for  *)
(* good, the mini check's verdict until the visitor tries another case,    *)
(* which keeps it as the previous run.  A read that was sent before and is *)
(* answered after must not take it away; only a new run, whose case was    *)
(* already posted when a late read of the linked run was shown, may.       *)
ShownIsKept ==
  [][ /\ IF surface = "managed" THEN terminalView(screen.view) ELSE screen.view.result # "none"
      /\ screen'.view # screen.view
      /\ screen.phase # "POSTED"
      => /\ surface = "mini" /\ screen'.view = NoView
         /\ screen'.previous = [run |-> screen.view.run, result |-> screen.view.result] ]_screen
=============================================================================
