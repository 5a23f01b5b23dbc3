----------------------------- MODULE LiveWorker -----------------------------
(***************************************************************************)
(* The live execution worker: one process that creates cases for holders   *)
(* of a launch token, drives each case through the engine in the           *)
(* background, and can be stopped and replaced at any time.                *)
(*                                                                         *)
(* A request awaits its body and the engine, and other requests run        *)
(* meanwhile.  What survives the process is on the volume: consumed        *)
(* tokens, the admission log, the case clocks and the runs.  The engine is *)
(* the ProtectionRun module's subject and the two-wallet admission the     *)
(* ParticipantAdmission module's; here each of their operations starts,    *)
(* and then takes effect, fails or is cut off.                             *)
(***************************************************************************)
EXTENDS Naturals, Sequences, FiniteSets

CONSTANTS
    Requests,           \* creation requests; each creates at most one case
    Tokens,             \* launch tokens that may be minted
    Settings,           \* the configurations considered: [direct, coalition, failures]
    MaxActiveCases,     \* maxActiveCases
    DailyCaseLimit,     \* dailyCaseLimit
    Day,                \* the span the daily limit counts over
    Cooldown,           \* cooldownMs
    CaseLifetime,       \* participantCaseLifetimeMs
    TokenLifetime,      \* lifetimeMs of a launch token
    IssuanceLimit,      \* ISSUANCE_LIMIT
    IssuanceWindow,     \* ISSUANCE_WINDOW_MS
    MaxTime,            \* the last instant considered
    MaxStops,           \* how often the process is killed or told to stop
    Torn,               \* a file whose content was not written
    None

ASSUME WorkerAssumption ==
    /\ Settings \subseteq [direct : BOOLEAN, coalition : BOOLEAN, failures : BOOLEAN]
    /\ MaxActiveCases \in Nat \ {0} /\ DailyCaseLimit \in Nat \ {0}
    /\ {Day, Cooldown, CaseLifetime, TokenLifetime, IssuanceLimit,
        IssuanceWindow, MaxTime, MaxStops} \subseteq Nat
    /\ (\E c \in Settings : c.direct) => MaxActiveCases = 1

Time == 0 .. MaxTime

Operations == {"prepare", "pledgeA", "pledgeB", "evaluate", "release",
               "open", "cure", "export"}

Stages == {"CASE_CREATED", "MATCH_PREPARED", "PARTICIPANT_A_SUBMITTED",
           "PARTICIPANT_B_SUBMITTED", "EVALUATED", "RELEASED",
           "RECOURSE_OPENED", "CHRONOLOGY_COMPLETE", "COMPLETE", "ABORTED"}

VARIABLES
    config,         \* the settings the deployment runs with
    now,
    asked, minted,  \* per token: when issuance was asked for and when it was minted
    consumed,       \* per token: the requests that claimed it (the file exists if any)
    log,            \* admissions.json: a set of [req, at], or Torn
    run,            \* per request, the run it created, or None
    req,            \* per request: where its handler is, its token and nowMs
    admissions,     \* admission requests past the abandonment check
    process,        \* "up", "draining" or "down"
    pending,        \* pendingFixedCreations and pendingParticipantCreations
    openCases,
    journey,        \* per request: None, or the operations left and whether one runs
    lastCompletedAt,
    stops,
    gaveUp          \* history: the cases that held a place and lost it before a stop

volume == <<asked, minted, consumed, log>>
vars == <<config, now, volume, run, req, admissions, process, pending, openCases,
          journey, lastCompletedAt, stops, gaveUp>>

Direct == config.direct          \* directParticipantAdmission
Coalition == config.coalition    \* coalitionRelease: cases release through the coalition
Failures == config.failures      \* an engine operation may fail

Init ==
    /\ config \in Settings
    /\ now = 0
    /\ asked = [t \in Tokens |-> None] /\ minted = [t \in Tokens |-> None]
    /\ consumed = [t \in Tokens |-> {}]
    /\ log = {}
    /\ run = [r \in Requests |-> None]
    /\ req = [r \in Requests |-> [at |-> "idle", token |-> None, nowMs |-> None]]
    /\ admissions = {}
    /\ process = "up" /\ pending = {} /\ openCases = {}
    /\ journey = [r \in Requests |-> None]
    /\ lastCompletedAt = None
    /\ stops = 0 /\ gaveUp = {}

alive == process # "down"
running == {r \in Requests : journey[r] # None}
busy == pending # {} \/ running # {}
held == pending \cup running \cup openCases
Goto(r, step) == req' = [req EXCEPT ![r].at = step]

-----------------------------------------------------------------------------
(* Launch tokens.                                                          *)

(* The bound counts every request for a token, minted or not.              *)
issuanceAllowed ==
    Cardinality({t \in Tokens : asked[t] # None /\ asked[t] + IssuanceWindow > now})
        < IssuanceLimit

askToken(t) ==
    /\ asked[t] = None /\ issuanceAllowed
    /\ asked' = [asked EXCEPT ![t] = now]
    /\ UNCHANGED <<now, minted, consumed, log, run, req, admissions, process,
                   pending, openCases, journey, lastCompletedAt, stops>>

(* Once the holder is found eligible; a denied holder's request ends.      *)
issueLiveLaunchToken(t) ==
    /\ asked[t] # None /\ minted[t] = None
    /\ minted' = [minted EXCEPT ![t] = now]
    /\ UNCHANGED <<now, asked, consumed, log, run, req, admissions, process,
                   pending, openCases, journey, lastCompletedAt, stops>>

verifyLaunchToken(t) == minted[t] # None /\ now < minted[t] + TokenLifetime

-----------------------------------------------------------------------------
(* The durable state of a case.                                            *)

exists(r) == run[r] # None
readable(r) == exists(r) /\ run[r].record # Torn
readCaseStart(r) == IF run[r].clock \in {None, Torn} THEN now ELSE run[r].clock

(* A receipt, or a coalition case that reached its release.                *)
participantCaseHasTerminalReceipt(r) ==
    exists(r) /\ (run[r].receipt \/ (readable(r) /\ Coalition /\ run[r].stage = "RELEASED"))

(* A case whose clock cannot be read never expires.                        *)
participantCaseExpired(r, t) ==
    run[r].clock \notin {None, Torn} /\ t - run[r].clock >= CaseLifetime

stillOpen(cases, t) ==
    {r \in cases : ~participantCaseHasTerminalReceipt(r) /\ ~participantCaseExpired(r, t)}

(* The volume after pruning a case: the reproducible roots are removed,    *)
(* then the execution record is rewritten without the private input.       *)
pruned(c) == [c EXCEPT !.roots = FALSE, !.input = @ /\ c.record = Torn]

(* What a prune that was cut off leaves: the roots gone or not, the record *)
(* as it was or torn.                                                      *)
halfPruned(c) ==
    {c, [c EXCEPT !.roots = FALSE], pruned(c)}
    \cup (IF c.input THEN {[c EXCEPT !.roots = FALSE, !.record = Torn]} ELSE {})

-----------------------------------------------------------------------------
(* The engine's operations, as the worker meets them.                      *)

(* The stages an operation succeeds at, and the stage after it.            *)
admits(op, c) ==
    CASE op = "prepare" -> c.stage \in {"CASE_CREATED", "MATCH_PREPARED"}
      [] op = "pledgeA" -> c.stage = "MATCH_PREPARED"
      [] op = "pledgeB" -> c.stage = "PARTICIPANT_A_SUBMITTED"
      [] op = "evaluate" -> c.stage \in {"PARTICIPANT_B_SUBMITTED", "EVALUATED"}
      [] op = "release" -> c.stage \in {"EVALUATED", "RELEASED"}
      [] op = "open" -> ~Coalition /\ c.stage \in {"RELEASED", "RECOURSE_OPENED",
                                                    "CHRONOLOGY_COMPLETE", "COMPLETE"}
      [] op = "cure" -> c.stage = "RECOURSE_OPENED" /\ c.conflict
      [] op = "export" -> c.stage = (IF c.conflict THEN "CHRONOLOGY_COMPLETE"
                                                   ELSE "RECOURSE_OPENED")

stageAfter(op, c) ==
    CASE op = "prepare" -> "MATCH_PREPARED"
      [] op = "pledgeA" -> "PARTICIPANT_A_SUBMITTED"
      [] op = "pledgeB" -> "PARTICIPANT_B_SUBMITTED"
      [] op = "evaluate" -> "EVALUATED"
      [] op = "release" -> "RELEASED"
      [] op = "open" -> IF c.stage = "RELEASED" THEN "RECOURSE_OPENED" ELSE c.stage
      [] op = "cure" -> "CHRONOLOGY_COMPLETE"
      [] op = "export" -> "COMPLETE"

done(op, c) == [c EXCEPT !.stage = stageAfter(op, c), !.receipt = @ \/ op = "export"]

(* What a killed operation leaves: nothing, its whole effect, a released   *)
(* or evaluated ciphertext the engine cannot account for (the next load    *)
(* aborts the case), or the receipt without the stage that follows it.     *)
cutOff(op, c) ==
    {c, done(op, c)}
    \cup (IF op \in {"evaluate", "release"} THEN {[c EXCEPT !.ambiguous = TRUE]} ELSE {})
    \cup (IF op = "export" THEN {[c EXCEPT !.receipt = TRUE]} ELSE {})

(* A load aborts an ambiguous case.                                        *)
loaded(c) == IF c.ambiguous THEN [c EXCEPT !.stage = "ABORTED", !.ambiguous = FALSE] ELSE c

runPostAdmissionJourney ==
    IF Coalition THEN <<"evaluate", "release">>
                 ELSE <<"evaluate", "release", "open", "cure", "export">>

runFixedJourney == <<"prepare", "pledgeA", "pledgeB">> \o runPostAdmissionJourney

begun(todo) == [todo |-> todo, inside |-> FALSE]

-----------------------------------------------------------------------------
(* Creating a case.                                                        *)

(* The handler's first part, to its first await: nowMs is read once.       *)
handleCreate(r, t) ==
    /\ process \in {"up", "draining"} /\ req[r].at = "idle"
    /\ verifyLaunchToken(t)
    /\ req' = [req EXCEPT ![r] = [at |-> "body", token |-> t, nowMs |-> now]]
    /\ UNCHANGED <<now, volume, run, admissions, process, pending, openCases,
                   journey, lastCompletedAt, stops>>

admittedInLastDay(t) ==
    IF log = Torn THEN 0 ELSE Cardinality({e \in log : e.at + Day > t})

(* Mistake: a journey that runs does not count.                            *)
assertAdmitting_IgnoresJourneys(t) ==
    /\ process = "up" /\ pending = {}
    /\ lastCompletedAt # None => t >= lastCompletedAt + Cooldown
    /\ admittedInLastDay(t) < DailyCaseLimit
    /\ Cardinality(stillOpen(openCases, t)) + Cardinality(pending) < MaxActiveCases

(* Disk space is taken to be sufficient.                                   *)
assertAdmitting(t) ==
    /\ process = "up" /\ ~busy
    /\ lastCompletedAt # None => t >= lastCompletedAt + Cooldown
    /\ admittedInLastDay(t) < DailyCaseLimit
    /\ Cardinality(stillOpen(openCases, t)) + Cardinality(pending) < MaxActiveCases

(* The claim is create-only.                                               *)
claimToken(t) == consumed[t] = {}

recordAdmission(r) ==
    {e \in IF log = Torn THEN {} ELSE log : e.at + Day > req[r].nowMs}
        \cup {[req |-> r, at |-> req[r].nowMs]}

(* With the body read, everything up to the engine's first await is one    *)
(* step.  A refusal leaves no reservation and an unclaimed token.          *)
reserveCreation(r) ==
    /\ alive /\ req[r].at = "body"
    /\ openCases' = stillOpen(openCases, req[r].nowMs)
    /\ LET ok == assertAdmitting(req[r].nowMs) /\ claimToken(req[r].token)
       IN  /\ Goto(r, IF ok THEN "creating" ELSE "done")
           /\ pending' = IF ok THEN pending \cup {r} ELSE pending
           /\ consumed' = IF ok THEN [consumed EXCEPT ![req[r].token] = @ \cup {r}] ELSE consumed
           /\ log' = IF ok THEN recordAdmission(r) ELSE log
    /\ UNCHANGED <<now, asked, minted, run, admissions, process, journey,
                   lastCompletedAt, stops>>

newRun ==
    [stage |-> "CASE_CREATED", clock |-> None, receipt |-> FALSE, record |-> "ok",
     roots |-> FALSE, input |-> FALSE, conflict |-> FALSE, ambiguous |-> FALSE]

(* A managed case: its journey starts as soon as it exists, and the        *)
(* reservation is released only after that.                                *)
admitCase(r) ==
    /\ ~Direct /\ alive /\ req[r].at = "creating"
    /\ run' = [run EXCEPT ![r] = [newRun EXCEPT !.input = TRUE]]
    /\ journey' = [journey EXCEPT ![r] = begun(runFixedJourney)]
    /\ pending' = pending \ {r}
    /\ Goto(r, "done")
    /\ UNCHANGED <<now, volume, admissions, process, openCases, lastCompletedAt, stops>>

(* A neutral case exists: its clock is written before it is prepared.      *)
onParticipantCaseCreated(r) ==
    /\ Direct /\ alive /\ req[r].at = "creating"
    /\ run' = [run EXCEPT ![r] = [newRun EXCEPT !.clock = req[r].nowMs]]
    /\ openCases' = openCases \cup {r}
    /\ Goto(r, "preparing")
    /\ UNCHANGED <<now, volume, admissions, process, pending, journey,
                   lastCompletedAt, stops>>

(* The neutral case is prepared, and the reservation is released.          *)
createParticipantCase(r) ==
    /\ alive /\ req[r].at = "preparing"
    /\ run' = [run EXCEPT ![r].stage = "MATCH_PREPARED", ![r].roots = TRUE]
    /\ pending' = pending \ {r}
    /\ Goto(r, "done")
    /\ UNCHANGED <<now, volume, admissions, process, openCases, journey,
                   lastCompletedAt, stops>>

(* The engine fails to create or to prepare the case: a case that has its  *)
(* clock stays open until it expires.                                      *)
failCreation(r) ==
    /\ Failures /\ alive /\ req[r].at \in {"creating", "preparing"}
    /\ pending' = pending \ {r}
    /\ Goto(r, "done")
    /\ UNCHANGED <<now, volume, run, admissions, process, openCases, journey,
                   lastCompletedAt, stops>>

-----------------------------------------------------------------------------
(* Admissions of the two wallets.                                          *)

(* Past its lifetime a case that misses a role admits nobody; this is      *)
(* looked at once, at the start of the request.                            *)
beginAdmission(r, role) ==
    /\ Direct /\ alive /\ readable(r)
    /\ \/ now - readCaseStart(r) < CaseLifetime
       \/ run[r].stage \notin {"CASE_CREATED", "MATCH_PREPARED", "PARTICIPANT_A_SUBMITTED"}
    /\ <<r, role>> \notin admissions
    /\ admissions' = admissions \cup {<<r, role>>}
    /\ UNCHANGED <<now, volume, run, req, process, pending, openCases, journey,
                   lastCompletedAt, stops>>

admissible(r, role) ==
    admits(IF role = "A" THEN "pledgeA" ELSE "pledgeB", run[r])

beginPostAdmissionJourney(r) ==
    /\ journey' = [journey EXCEPT ![r] = begun(runPostAdmissionJourney)]
    /\ openCases' = openCases \ {r}

(* The role's claim is published; the second one starts the journey, and   *)
(* whether the worker is busy by then is not asked.                        *)
finishAdmission(r, role) ==
    /\ alive /\ <<r, role>> \in admissions
    /\ admissions' = admissions \ {<<r, role>>}
    /\ LET op == IF role = "A" THEN "pledgeA" ELSE "pledgeB"
           both == admissible(r, role) /\ role = "B" /\ r \notin running
                   /\ ~participantCaseHasTerminalReceipt(r)
       IN  /\ run' = IF admissible(r, role)
                     THEN [run EXCEPT ![r] = [done(op, @) EXCEPT !.input = TRUE]]
                     ELSE run
           /\ IF both THEN beginPostAdmissionJourney(r) ELSE UNCHANGED <<journey, openCases>>
    /\ UNCHANGED <<now, volume, req, process, pending, lastCompletedAt, stops>>

(* GET of a participant case.                                              *)
readParticipantCase(r) ==
    /\ Direct /\ alive /\ readable(r) /\ r \notin running
    /\ run' = [run EXCEPT ![r] = loaded(@)]
    /\ openCases' = IF \/ now - readCaseStart(r) >= CaseLifetime
                          /\ run[r].stage \in {"MATCH_PREPARED", "PARTICIPANT_A_SUBMITTED"}
                       \/ loaded(run[r]).stage = "ABORTED"
                    THEN openCases \ {r} ELSE openCases
    /\ <<run', openCases'>> # <<run, openCases>>
    /\ UNCHANGED <<now, volume, req, admissions, process, pending, journey,
                   lastCompletedAt, stops>>

-----------------------------------------------------------------------------
(* The journey in the background.                                          *)

startOperation(r) ==
    /\ alive /\ r \in running /\ ~journey[r].inside /\ journey[r].todo # <<>>
    /\ journey' = [journey EXCEPT ![r].inside = TRUE]
    /\ UNCHANGED <<now, volume, run, req, admissions, process, pending, openCases,
                   lastCompletedAt, stops>>

(* The chronology is skipped unless recourse was opened.                   *)
rest(r, c) ==
    LET t == Tail(journey[r].todo)
    IN  IF t # <<>> /\ Head(t) = "cure" /\ ~c.conflict THEN Tail(t) ELSE t

(* The end of a journey, by its catch and finally blocks.                  *)
stopped(r) ==
    /\ journey' = [journey EXCEPT ![r] = None]
    /\ lastCompletedAt' = now

(* An operation takes effect.  Its release decides the outcome, preparing  *)
(* creates the reproducible roots.                                         *)
endOperation(r) ==
    /\ alive /\ r \in running /\ journey[r].inside
    /\ LET op == Head(journey[r].todo)
           c == loaded(run[r])
       IN  \/ /\ ~run[r].ambiguous /\ admits(op, c)
              /\ \E conflict \in IF op = "release" /\ c.stage = "EVALUATED"
                                 THEN BOOLEAN ELSE {c.conflict} :
                    LET d == [done(op, c) EXCEPT !.conflict = conflict,
                                                 !.roots = @ \/ op = "prepare"]
                    IN  /\ run' = [run EXCEPT ![r] = d]
                        /\ journey' = [journey EXCEPT ![r] = begun(rest(r, d))]
              /\ UNCHANGED lastCompletedAt
           \/ /\ run[r].ambiguous \/ ~admits(op, c)
              /\ run' = [run EXCEPT ![r] = c]
              /\ stopped(r)
    /\ UNCHANGED <<now, volume, req, admissions, process, pending, openCases, stops>>

(* The operation, or the projection read back after it, fails.             *)
failOperation(r) ==
    /\ Failures /\ alive /\ r \in running /\ journey[r].inside
    /\ LET op == Head(journey[r].todo)
       IN  \/ UNCHANGED run
           \/ admits(op, run[r]) /\ run' = [run EXCEPT ![r] = done(op, @)]
    /\ stopped(r)
    /\ UNCHANGED <<now, volume, req, admissions, process, pending, openCases, stops>>

(* The terminal view is there: the roots and the private input go.         *)
pruneReproducibleArtifacts(r) ==
    /\ alive /\ r \in running /\ journey[r].todo = <<>>
    /\ run' = [run EXCEPT ![r] = pruned(@)]
    /\ stopped(r)
    /\ UNCHANGED <<now, volume, req, admissions, process, pending, openCases, stops>>

-----------------------------------------------------------------------------
(* Stopping and starting.                                                  *)

(* What a stop leaves of the runs: each may be inside its creation, an     *)
(* operation or a prune, and a clock may be torn.                          *)
leftOver(r) ==
    CASE req[r].at = "creating" ->
            {None} \cup (IF Direct THEN {newRun, [newRun EXCEPT !.clock = Torn]}
                                   ELSE {[newRun EXCEPT !.input = TRUE]})
      [] req[r].at = "preparing" ->
            {run[r], [run[r] EXCEPT !.stage = "MATCH_PREPARED", !.roots = TRUE]}
      [] r \notin running -> {run[r]}
      [] journey[r].todo = <<>> -> halfPruned(run[r])
      [] journey[r].inside /\ admits(Head(journey[r].todo), run[r]) ->
            cutOff(Head(journey[r].todo), run[r])
      [] OTHER -> {run[r]}

(* The process is gone, and its memory with it.  A creation whose token    *)
(* and log entry were being written may leave the log torn.                *)
gone ==
    /\ process' = "down"
    /\ run' \in {f \in [Requests -> UNION {leftOver(r) : r \in Requests}] :
                    \A r \in Requests : f[r] \in leftOver(r)}
    /\ pending' = {} /\ openCases' = {} /\ admissions' = {}
    /\ journey' = [r \in Requests |-> None]
    /\ lastCompletedAt' = None
    /\ req' = [r \in Requests |-> IF req[r].at = "idle" THEN req[r]
                                  ELSE [req[r] EXCEPT !.at = "done"]]
    /\ UNCHANGED <<now, asked, minted>>

crash ==
    /\ alive /\ stops < MaxStops
    /\ stops' = stops + 1
    /\ gone
    /\ UNCHANGED <<consumed, log>>

(* Killed while the token and the log entry were being written.            *)
crashInReservation(r) ==
    /\ alive /\ stops < MaxStops /\ req[r].at = "body"
    /\ assertAdmitting(req[r].nowMs) /\ claimToken(req[r].token)
    /\ stops' = stops + 1
    /\ gone
    /\ consumed' = [consumed EXCEPT ![req[r].token] = @ \cup {r}]
    /\ log' \in {log, Torn}

(* SIGTERM: no more cases; the process exits once no connection is open,   *)
(* or after twenty seconds.                                                *)
drain ==
    /\ process = "up" /\ stops < MaxStops
    /\ stops' = stops + 1
    /\ process' = "draining"
    /\ UNCHANGED <<now, volume, run, req, admissions, pending, openCases, journey,
                   lastCompletedAt>>

shutdown ==
    /\ process = "draining"
    /\ gone
    /\ UNCHANGED <<consumed, log, stops>>

clocked(runs) == {r \in Requests : runs[r] # None /\ runs[r].clock # None}

(* Every terminal run is pruned again.                                     *)
startupTerminalSweep ==
    [r \in Requests |-> IF participantCaseHasTerminalReceipt(r) THEN pruned(run[r])
                                                                ELSE run[r]]

resumable == {"PARTICIPANT_B_SUBMITTED", "EVALUATED", "RELEASED", "RECOURSE_OPENED",
              "CHRONOLOGY_COMPLETE"}

resumeInterruptedParticipantJourneys ==
    {r \in clocked(run) : /\ ~participantCaseHasTerminalReceipt(r)
                          /\ ~participantCaseExpired(r, now)
                          /\ readable(r) /\ run[r].stage \in resumable}

restoreOpenParticipantCases == stillOpen(clocked(run), now)

(* A new process: the open cases, the sweep, the resumed journeys.         *)
restart ==
    /\ process = "down"
    /\ process' = "up"
    /\ openCases' = restoreOpenParticipantCases \ resumeInterruptedParticipantJourneys
    /\ run' = startupTerminalSweep
    /\ journey' = [r \in Requests |->
                      IF r \in resumeInterruptedParticipantJourneys
                      THEN begun(runPostAdmissionJourney) ELSE None]
    /\ UNCHANGED <<now, volume, req, admissions, pending, lastCompletedAt, stops>>

Tick ==
    /\ now < MaxTime
    /\ now' = now + 1
    /\ UNCHANGED <<volume, run, req, admissions, process, pending, openCases,
                   journey, lastCompletedAt, stops>>

-----------------------------------------------------------------------------
create(r) ==
    \/ \E t \in Tokens : handleCreate(r, t)
    \/ reserveCreation(r) \/ admitCase(r) \/ onParticipantCaseCreated(r)
    \/ createParticipantCase(r) \/ failCreation(r)

admit(r, role) == beginAdmission(r, role) \/ finishAdmission(r, role)

work(r) ==
    startOperation(r) \/ endOperation(r) \/ failOperation(r) \/ pruneReproducibleArtifacts(r)

stop == crash \/ drain \/ shutdown \/ \E r \in Requests : crashInReservation(r)

(* A case gives its place up when its journey ends, or when it is taken    *)
(* off the open cases because it has expired or was aborted.               *)
placed ==
    /\ UNCHANGED config
    /\ gaveUp' = gaveUp \cup (IF process' = "down" THEN {} ELSE held \ held')

Next ==
    /\ \/ \E t \in Tokens : askToken(t) \/ issueLiveLaunchToken(t)
       \/ \E r \in Requests : create(r) \/ work(r) \/ readParticipantCase(r)
       \/ \E r \in Requests, role \in {"A", "B"} : admit(r, role)
       \/ stop \/ restart \/ Tick
    /\ placed

Spec == Init /\ [][Next]_vars

Run == [stage : Stages, clock : Time \cup {None, Torn}, receipt : BOOLEAN,
        record : {"ok", Torn}, roots : BOOLEAN, input : BOOLEAN,
        conflict : BOOLEAN, ambiguous : BOOLEAN]

(* The state of the worker and of its volume is well formed; managed cases *)
(* have no clock and take no admissions.                                   *)
TypeOK ==
    /\ now \in Time /\ stops \in 0 .. MaxStops
    /\ asked \in [Tokens -> Time \cup {None}] /\ minted \in [Tokens -> Time \cup {None}]
    /\ consumed \in [Tokens -> SUBSET Requests]
    /\ log = Torn \/ log \subseteq [req : Requests, at : Time]
    /\ run \in [Requests -> Run \cup {None}]
    /\ req \in [Requests -> [at : {"idle", "body", "creating", "preparing", "done"},
                             token : Tokens \cup {None}, nowMs : Time \cup {None}]]
    /\ admissions \subseteq Requests \X {"A", "B"}
    /\ process \in {"up", "draining", "down"}
    /\ pending \subseteq Requests /\ openCases \subseteq Requests
    /\ \A r \in running : journey[r].inside \in BOOLEAN
                          /\ \A i \in 1 .. Len(journey[r].todo) : journey[r].todo[i] \in Operations
    /\ lastCompletedAt \in Time \cup {None}
    /\ ~Direct => openCases = {} /\ admissions = {} /\ clocked(run) = {}

(* The cases that can still be admitted to and driven on.                  *)
waiting ==
    {r \in clocked(run) : run[r].stage \in {"CASE_CREATED", "MATCH_PREPARED", "PARTICIPANT_A_SUBMITTED"}
                          /\ ~participantCaseExpired(r, now)}

(* One case at a time: what is being created, waits for its participants   *)
(* or runs in the engine never exceeds the configured number of cases,     *)
(* whatever stops and restarts happen, apart from cases that had given     *)
(* their place up, because they expired or their journey failed, and are   *)
(* driven on all the same (createLiveWorker).                              *)
SingleActiveCase == Cardinality((pending \cup running \cup waiting) \ gaveUp) <= MaxActiveCases

(* One case at a time without exception, "the single-active-case           *)
(* guarantee" of docs/railway-deployment.md:38.  The journey of an         *)
(* admitted case begins without a question whether the worker is busy      *)
(* (mordant-live-worker.mjs:1108), and a new process resumes every case it *)
(* finds, also one whose place was taken.                                  *)
AlwaysSingleActiveCase == Cardinality(pending \cup running \cup waiting) <= MaxActiveCases

(* A launch token starts at most one case, also when it is presented again *)
(* while the first request is still served or after a restart (claimToken).*)
TokenOnce == \A t \in Tokens : Cardinality(consumed[t]) <= 1

(* No more cases start within a day than the limit (assertAdmitting and    *)
(* recordAdmission, with the instant read at the start of the request).    *)
DailyLimit ==
    LET started == UNION {consumed[t] : t \in Tokens}
    IN  \A r \in started :
            Cardinality({q \in started : /\ req[q].nowMs <= req[r].nowMs
                                         /\ req[q].nowMs + Day > req[r].nowMs}) <= DailyCaseLimit

(* A case that waits for a participant holds its place: it is open, or it  *)
(* is the one being created, in this process and in the one that replaces  *)
(* it (restoreOpenParticipantCases).                                       *)
WaitingIsOpen == process # "down" => waiting \subseteq openCases

(* A case whose reproducible roots were removed is over: it is at its last *)
(* stage, and nothing is left to do for it (pruneReproducibleArtifacts).   *)
PrunedIsTerminal ==
    \A r \in Requests :
        (readable(r) /\ ~run[r].roots) =>
            run[r].stage \in {"CASE_CREATED", "COMPLETE"}
                             \cup (IF Coalition THEN {"RELEASED"} ELSE {})

(* The execution record of a case survives its prune.                      *)
RecordIsKept == \A r \in Requests : exists(r) => readable(r)

(* A process told to stop lets the running operation end before it exits   *)
(* (main, on SIGTERM).                                                     *)
ShutdownCutsNothing ==
    [][shutdown => \A r \in running : ~journey[r].inside]_vars

-----------------------------------------------------------------------------
(* The steps that happen by themselves: the engine's operations end, the   *)
(* platform restarts a process that exited and a drained process exits.    *)
Fairness ==
    /\ \A r \in Requests : WF_vars(work(r) /\ placed)
    /\ WF_vars(restart /\ placed) /\ WF_vars(shutdown /\ placed)

LiveSpec == Spec /\ Fairness

terminal(r) == participantCaseHasTerminalReceipt(r)

(* Once both wallets are in, the case ends with its result or is aborted,  *)
(* also when the process is replaced on the way                            *)
(* (resumeInterruptedParticipantJourneys).                                 *)
JourneyEnds ==
    \A r \in Requests :
        (exists(r) /\ run[r].stage = "PARTICIPANT_B_SUBMITTED")
            ~> (exists(r) /\ (terminal(r) \/ run[r].stage = "ABORTED"))

(* A terminal case keeps neither its release capability nor the private    *)
(* input, also when the process dies between the last write and the prune  *)
(* (startupTerminalSweep).                                                 *)
CapabilityIsGone ==
    \A r \in Requests : (exists(r) /\ terminal(r)) ~> (exists(r) /\ ~run[r].roots)

=============================================================================
