---------------------------- MODULE ChainRunner ----------------------------
(***************************************************************************)
(* The operator's scripts that spend gas or move value on the test network *)
(* and leave an evidence artifact behind:                                  *)
(*   scripts/runner-controls.mjs            the controls they share        *)
(*   scripts/m05-runner.mjs                 "double": the whole ceremony   *)
(*   scripts/m07-ausdc-transfer.mjs         "transfer": one unit           *)
(*   scripts/m08-contract-apass.mjs         "probe": deploy, ask an A-Pass *)
(*   scripts/m10-custody-roundtrip.mjs      "roundtrip": out and back      *)
(*   scripts/m11-invoice-atoken-launch.mjs  "launch": one token            *)
(*   scripts/activation-case-adapter.mjs    "plan", "withdraw", "deploy",  *)
(*                                          "apass", "configure"           *)
(*   scripts/activation-bridge-consume.mjs  "consume": the signed release  *)
(*   scripts/activation-terminal-recourse.mjs "terminal": finalize, claims *)
(* and the ones that only read: activation-preflight-readback.mjs,         *)
(* m12-adapter-path.mjs, m14-manifest.mjs and m15-phase-runner.mjs.        *)
(*                                                                         *)
(* A script keeps its report in memory and writes it, whole, to the prefix *)
(* the operator names; the activation scripts write only when they are     *)
(* done.  An artifact is all that survives: the process may be killed at   *)
(* any moment, a call may fail, a broadcast may be accepted and its answer *)
(* lost.  The operator runs scripts one after the other, feeds the         *)
(* artifact of one to the next, and may name a prefix again.               *)
(***************************************************************************)
EXTENDS Integers, Sequences, FiniteSets

CONSTANTS
  Campaigns,    \* what the operator may run: in each place one of a set of scripts
  Outs,         \* the prefixes the operator names
  OutsOf,       \* the prefixes the operator may name for a script
  FreshFor,     \* the scripts that are always given a prefix of their own
  Ceremony,     \* how many transactions the ceremony of "double" has
  MaxRuns       \* bound: runs

\* The scripts that write their report at every step, the ones that write it
\* when they are done, and the ones that send nothing.
Checkpointing == {"double", "transfer", "probe", "roundtrip", "launch"}
Late == {"withdraw", "deploy", "apass", "configure", "consume", "terminal"}
Inspecting == {"plan", "readback", "adapterPath", "manifest", "phaseA", "phaseB"}
Scripts == Checkpointing \cup Late \cup Inspecting

ASSUME RunnerAssumption ==
  /\ \A c \in Campaigns : c \in Seq(SUBSET Scripts) /\ Len(c) <= MaxRuns
  /\ \A s \in Scripts : OutsOf[s] \subseteq Outs
  /\ FreshFor \subseteq Scripts
  /\ Ceremony \in Nat \ {0} /\ MaxRuns \in Nat

VARIABLES
  campaign,     \* what the operator runs
  txs,          \* the transactions broadcast, in order
  launches,     \* what became of the launch request of each run
  passes,       \* the runs whose contract was given an A-Pass
  closed,       \* the runs that consumed a release whose cure window is over
  disk,         \* the artifact at each prefix
  proc,         \* the script that is running
  runs          \* runs so far

runnerVars == <<campaign, txs, launches, passes, closed, disk, proc, runs>>

RunNumbers == 1..MaxRuns

NoReport ==
  [run |-> 0, script |-> "none", subject |-> 0, status |-> "none", class |-> "none", legs |-> << >>,
   attempted |-> FALSE, response |-> "none", recovery |-> FALSE]

NoScript == [pc |-> "idle", out |-> "none", mode |-> "none", report |-> NoReport]

\* How many transactions a script sends.
legCount(script) ==
  CASE script = "double" -> Ceremony
    [] script \in {"roundtrip", "configure"} -> 2
    [] script = "terminal" -> 3
    [] script \in {"launch", "apass"} \cup Inspecting -> 0
    [] OTHER -> 1

Legs == [tx : Nat, state : {"PENDING", "CONFIRMED", "REVERTED"}, ok : BOOLEAN]

Proven ==
  {"MONAD LIVE", "AUSDC LIVE TRANSFER", "CONTRACT APASS PROVEN", "ROUND-TRIP PROVEN",
   "ISSUED / READBACK PROVEN", "WITHDRAWN", "ADAPTER DEPLOYED", "RESERVE FUNDED", "RELEASE CONSUMED",
   "RECOURSE TERMINAL"}

Classes == Proven \cup
  {"none", "READ-ONLY PREFLIGHT", "PENDING", "BROADCAST ATTEMPT", "NO TRANSACTION SENT",
   "ATTEMPT, RECEIPT PENDING", "ATTEMPT, RECEIPT UNCONFIRMED", "TRANSFER ATTEMPT",
   "REFUSED BY CLEANVERSE", "ACCEPTED BUT NOT USABLE", "ISSUED BUT TRANSFER STILL REFUSED",
   "OUTBOUND FAILED", "RETURN PENDING", "FUNDS IN PROBE", "SUBMITTED / PENDING", "LAUNCH FAILED",
   "WITHDRAWAL REVERTED", "RESERVE NOT FUNDED", "A-PASS VALID", "A-PASS NOT VALID", "PLANNED",
   "ALL CHECKS PASS", "CHECKS FAIL", "READ-ONLY INSPECTION", "MANIFEST READY", "INPUTS INCOMPLETE",
   "CHECK ONLY"}

RunnerTypeOK ==
  /\ \A i \in DOMAIN txs :
       txs[i] \in [run : RunNumbers, out : Outs, script : Scripts, subject : 0..MaxRuns, leg : Nat, answered : BOOLEAN,
                   status : {"pending", "success", "reverted"}]
  /\ launches \in [RunNumbers -> {"none", "travelling", "accepted", "issued", "refused"}]
  /\ campaign \in Campaigns
  /\ passes \subseteq RunNumbers /\ closed \subseteq RunNumbers
  /\ \A o \in Outs : disk[o].class \in Classes /\ disk[o].run \in RunNumbers \cup {0}
  /\ proc.pc \in {"idle", "preflight", "send", "await", "judge", "request", "poll", "final"}
  /\ proc.report.class \in Classes
  /\ \A l \in DOMAIN proc.report.legs : proc.report.legs[l] \in Legs
  /\ runs \in 0..MaxRuns

RunnerInit ==
  /\ campaign \in Campaigns
  /\ closed = {}
  /\ txs = << >>
  /\ launches = [r \in RunNumbers |-> "none"]
  /\ passes = {}
  /\ disk = [o \in Outs |-> NoReport]
  /\ proc = NoScript
  /\ runs = 0

-----------------------------------------------------------------------------
(* The chain and Cleanverse, as the scripts meet them.                     *)

did(r, leg) == \E i \in DOMAIN txs : txs[i].run = r /\ txs[i].leg = leg /\ txs[i].status = "success"

\* The units the probe contract holds.
probeBalance ==
  Cardinality({r \in RunNumbers : \E i \in DOMAIN txs : txs[i].run = r /\ txs[i].script = "roundtrip"
                                                  /\ txs[i].leg = 1 /\ txs[i].status = "success"})
  - Cardinality({r \in RunNumbers : \E i \in DOMAIN txs : txs[i].run = r /\ txs[i].script = "roundtrip"
                                                  /\ txs[i].leg = 2 /\ txs[i].status = "success"})

\* A transaction of a script about a subject has succeeded.
effect(script, leg, subject) ==
  \E i \in DOMAIN txs : txs[i].script = script /\ txs[i].leg = leg /\ txs[i].subject = subject
                        /\ txs[i].status = "success"

\* The state of the recourse case a release opened: its window runs from the
\* release, it is finalized once and each side is claimed once.
cureOpen(r) == did(r, 1) /\ ~effect("terminal", 1, r)

\* What the contracts let through: a sweep of a probe that holds something, one
\* withdrawal of the superseded reserve, a release of a funded adapter that was
\* not consumed, and the terminal steps in their order, once each.
permits(script, leg, subject) ==
  CASE script = "roundtrip" /\ leg = 2 -> probeBalance > 0
    [] script = "withdraw" -> ~effect("withdraw", 1, 0)
    [] script = "configure" /\ leg = 2 -> effect("configure", 1, subject)
    [] script = "consume" -> effect("configure", 2, subject) /\ ~effect("consume", 1, subject)
    [] script = "terminal" /\ leg = 1 -> cureOpen(subject) /\ subject \in closed
    [] script = "terminal" /\ leg > 1 -> effect("terminal", 1, subject) /\ ~effect("terminal", leg, subject)
    [] OTHER -> TRUE

\* A transaction is mined; one that was simulated may still revert.
mine ==
  \E i \in DOMAIN txs, s \in {"success", "reverted"} :
    /\ txs[i].status = "pending"
    /\ s = "success" => permits(txs[i].script, txs[i].leg, txs[i].subject)
    /\ txs' = [txs EXCEPT ![i].status = s]
    /\ UNCHANGED <<campaign, launches, passes, closed, disk, proc, runs>>

\* The cure window of a release ends.
windowCloses ==
  \E r \in RunNumbers \ closed :
    /\ \E i \in DOMAIN txs : txs[i].run = r /\ txs[i].script = "consume" /\ txs[i].status = "success"
    /\ closed' = closed \cup {r}
    /\ UNCHANGED <<campaign, txs, launches, passes, disk, proc, runs>>

\* A launch request that was on its way arrives, or an accepted one is issued.
cleanverse ==
  \E r \in RunNumbers :
    /\ \/ launches[r] = "travelling" /\ launches' = [launches EXCEPT ![r] = "accepted"]
       \/ launches[r] = "accepted" /\ \E s \in {"issued", "refused"} : launches' = [launches EXCEPT ![r] = s]
    /\ UNCHANGED <<campaign, txs, passes, closed, disk, proc, runs>>

\* The tokens under this identity: every request that was accepted, whatever
\* became of it.
listMyATokens == {r \in RunNumbers : launches[r] \in {"accepted", "issued", "refused"}}

-----------------------------------------------------------------------------
(* Reports and artifacts.                                                  *)

confirmed(report) == Cardinality({l \in DOMAIN report.legs : report.legs[l].state = "CONFIRMED"})

\* Mistake: a ceremony is live once all of it was sent.
classifyRun_Sent(report) ==
  IF report.status = "COMPLETE" \/ Len(report.legs) = Ceremony THEN "MONAD LIVE" ELSE "BROADCAST ATTEMPT"

\* A ceremony is live when it is complete and all of it is confirmed.
classifyRun(report) ==
  IF report.status = "COMPLETE" /\ confirmed(report) = Ceremony THEN "MONAD LIVE" ELSE "BROADCAST ATTEMPT"

\* A return with a hash and no receipt may still land: it is pending, and only
\* a return that is known to have failed leaves the unit in the probe.
classifyRoundTrip(report, balance) ==
  IF ~report.legs[1].ok THEN "OUTBOUND FAILED"
  ELSE IF Len(report.legs) < 2 THEN "FUNDS IN PROBE"
  ELSE IF report.legs[2].state = "PENDING" THEN "RETURN PENDING"
  ELSE IF ~report.legs[2].ok \/ balance # 0 THEN "FUNDS IN PROBE"
  ELSE "ROUND-TRIP PROVEN"

\* What is needed to sweep the probe is recorded only for a unit that is known
\* to be there.
describeRecovery(class) == class = "FUNDS IN PROBE"

\* The contract's A-Pass: asked for, usable, and the policy lets it receive and
\* send.  A negative answer is a result.
classifyOutcome(accepted, usable, transfers) ==
  CASE ~accepted -> "REFUSED BY CLEANVERSE"
    [] accepted /\ ~usable -> "ACCEPTED BUT NOT USABLE"
    [] accepted /\ usable /\ ~transfers -> "ISSUED BUT TRANSFER STILL REFUSED"
    [] OTHER -> "CONTRACT APASS PROVEN"

\* What Cleanverse says is issued and the chain agrees with is proven; what it
\* refused has failed; anything else is still on its way.
classifyLaunch(applyStatus, readback) ==
  CASE applyStatus = "refused" -> "LAUNCH FAILED"
    [] applyStatus = "issued" /\ readback -> "ISSUED / READBACK PROVEN"
    [] OTHER -> "SUBMITTED / PENDING"

\* The artifact is written whole, over whatever the prefix held.
writeArtifact(report) == disk' = [disk EXCEPT ![proc.out] = report]

\* Every artifact of a ceremony carries its classification as of now.
snapshot(report) ==
  IF report.script = "double" /\ proc.mode = "write" THEN [report EXCEPT !.class = classifyRun(report)]
  ELSE report

checkpoint(report) == writeArtifact(snapshot(report))

goTo(pc, report) == proc' = [proc EXCEPT !.pc = pc, !.report = report]

-----------------------------------------------------------------------------
(* A run.                                                                  *)

\* The artifact a script is given, by the script that wrote it.
inputOf(script) ==
  CASE script = "deploy" -> "plan"
    [] script \in {"apass", "configure"} -> "deploy"
    [] script = "terminal" -> "consume"
    [] script = "phaseB" -> "phaseA"
    [] OTHER -> "none"

\* The run a script is about: the one whose artifact it is given; a release is
\* consumed at the adapter the configuration names, which has code.
subjects(script) ==
  IF script = "consume" THEN {r \in RunNumbers : \E i \in DOMAIN txs : txs[i].run = r /\ txs[i].script = "deploy"
                                                                   /\ txs[i].status = "success"}
  ELSE IF inputOf(script) = "none" THEN {0}
  ELSE (IF script = "phaseB" THEN {0} ELSE {})
       \cup {disk[o].run : o \in {p \in Outs : disk[p].script = inputOf(script)}}

\* The scripts that can do both are told which.
modes(script) ==
  IF script \in Checkpointing THEN {"check", "write"} ELSE IF script \in Late THEN {"write"} ELSE {"check"}

\* The operator starts a script, to read only or to write.
start ==
  \E script \in Scripts : \E out \in OutsOf[script], mode \in modes(script), subject \in subjects(script) :
    /\ proc = NoScript
    /\ runs < Len(campaign)
    /\ script \in campaign[runs + 1]
    /\ script \in FreshFor => disk[out] = NoReport
    /\ runs' = runs + 1
    /\ proc' = [pc |-> "preflight", out |-> out, mode |-> mode,
                report |-> [NoReport EXCEPT
                  !.run = runs + 1, !.script = script, !.subject = subject, !.status = "RUNNING",
                  !.class = IF mode = "check" THEN "READ-ONLY PREFLIGHT" ELSE "PENDING"]]
    /\ UNCHANGED <<campaign, closed, txs, launches, passes, disk>>

\* What the failure handler makes of the report.
checkpointOnFailure(report) ==
  LET stopped == [report EXCEPT !.status = "STOPPED"] IN
    IF report.script # "transfer" THEN stopped
    ELSE IF report.legs # << >> /\ report.legs[1].state = "PENDING"
         THEN [stopped EXCEPT !.class = "ATTEMPT, RECEIPT UNCONFIRMED"]
         ELSE IF proc.mode = "write" /\ report.legs = << >>
              THEN [stopped EXCEPT !.class = "NO TRANSACTION SENT"]
              ELSE stopped

\* The run stops: what is known is written, by the scripts that write as they
\* go, and nothing more is sent.
stop(report) ==
  /\ IF report.script \in Checkpointing THEN checkpoint(checkpointOnFailure(report)) ELSE UNCHANGED disk
  /\ proc' = NoScript

\* The run ends.
finish(report) ==
  /\ checkpoint([report EXCEPT !.status = "COMPLETE"])
  /\ proc' = NoScript

\* What each script insists on before it goes on, in the order it asks.
doubleGates == <<"network", "authorization", "gas price", "keys", "distinct roles", "balances", "estimates">>
transferGates == <<"network", "write allowed", "address", "implementations", "token state", "distinct wallets",
                   "A-Passes", "verify", "canTransfer", "balances", "gas", "key">>
probeGates == <<"network", "write allowed", "bytecode", "gas", "balance", "key">>
roundtripGates == <<"network", "write allowed", "address", "implementations", "token state", "probe code",
                    "probe owner", "A-Passes", "canTransfer", "balance", "gas", "key">>
launchGates == <<"network", "write allowed", "dependencies", "name and symbol", "rule", "launch key">>
planGates == <<"evidence", "reviewed artifact", "release mode">>
withdrawGates == <<"open reserved", "entitled unpaid", "available">>
deployGates == <<"network">>
configureGates == <<"A-Pass", "eligibility", "transfers">>
consumeGates == <<"settlement authority", "adapter", "simulation", "signature">>
terminalGates == <<"cure window", "state">>
readbackGates == <<"address", "code">>
pathGates == <<"network", "production adapter", "implementation", "selectors", "surface", "supply">>
manifestGates == <<"no write mode", "frozen version", "network">>
phaseGates == <<"mode", "network", "previous artifact", "malformed addresses", "roles">>

gates(script) ==
  CASE script = "double" -> doubleGates
    [] script = "transfer" -> transferGates
    [] script = "probe" -> probeGates
    [] script = "roundtrip" -> roundtripGates
    [] script = "launch" -> launchGates
    [] script = "plan" -> planGates
    [] script = "withdraw" -> withdrawGates
    [] script = "deploy" -> deployGates
    [] script = "configure" -> configureGates
    [] script = "consume" -> consumeGates
    [] script = "terminal" -> terminalGates
    [] script = "readback" -> readbackGates
    [] script = "adapterPath" -> pathGates
    [] script = "manifest" -> manifestGates
    [] script \in {"phaseA", "phaseB"} -> phaseGates
    [] OTHER -> << >>

\* One of them refuses, whichever it is.
refuse ==
  /\ proc.pc = "preflight"
  /\ gates(proc.report.script) # << >>
  /\ stop(proc.report)
  /\ UNCHANGED <<campaign, closed, txs, launches, passes, runs>>

\* No artifact records an attempt with this key, however it ended.
assertLaunchKeyUnused == \A o \in Outs : ~(disk[o].script = "launch" /\ disk[o].attempted)

\* No token of this identity has the name or the symbol.
assertNameAndSymbolFree == listMyATokens = {}

mayLaunch == assertNameAndSymbolFree /\ assertLaunchKeyUnused

\* The artifact a phase is given, if it is given one, must report success.
loadPreviousArtifact(previous) ==
  previous # 0 => \E o \in Outs : disk[o].run = previous /\ disk[o].status = "SUCCESS"

\* What the gates find in the artifacts and on the chain.
admits(report) ==
  CASE report.script = "launch" -> mayLaunch
    [] report.script = "withdraw" -> ~effect("withdraw", 1, 0)
    [] report.script = "configure" -> report.subject \in passes
    [] report.script = "terminal" -> cureOpen(report.subject) /\ report.subject \in closed
    [] report.script = "phaseB" -> loadPreviousArtifact(report.subject)
    [] OTHER -> TRUE

\* The gates are passed; a check ends here.
preflight ==
  /\ proc.pc = "preflight" /\ proc.report.script \notin Inspecting
  /\ IF ~admits(proc.report) THEN stop(proc.report)
     ELSE IF proc.mode = "check" THEN finish(proc.report)
     ELSE /\ IF proc.report.script \in Checkpointing THEN checkpoint(proc.report) ELSE UNCHANGED disk
          /\ goTo(IF proc.report.script \in {"launch", "apass"} THEN "request" ELSE "send", proc.report)
  /\ UNCHANGED <<campaign, closed, txs, launches, passes, runs>>

newTx(answered) ==
  [run |-> proc.report.run, out |-> proc.out, script |-> proc.report.script, subject |-> proc.report.subject,
   leg |-> Len(proc.report.legs) + 1, answered |-> answered, status |-> "pending"]

withHash(report, i) ==
  [report EXCEPT !.legs = Append(@, [tx |-> i, state |-> "PENDING", ok |-> FALSE]),
                 !.class = IF report.script = "transfer" THEN "ATTEMPT, RECEIPT PENDING" ELSE @]

\* The hash is written the moment it exists, before anything is awaited.
checkpointPending(report) == checkpoint(report)

\* The transaction is broadcast and its hash comes back.
send ==
  /\ proc.pc = "send"
  /\ txs' = Append(txs, newTx(TRUE))
  /\ LET report == withHash(proc.report, Len(txs) + 1) IN
       /\ IF report.script \in Checkpointing THEN checkpointPending(report) ELSE UNCHANGED disk
       /\ goTo("await", report)
  /\ UNCHANGED <<campaign, closed, launches, passes, runs>>

\* Where an error in a leg leads: the return of a round trip is caught and the
\* run goes on to its final readings, everything else stops.
legFails(report) ==
  IF report.script = "roundtrip" /\ (Len(report.legs) = 2 \/ (Len(report.legs) = 1 /\ proc.pc = "send"))
  THEN goTo("final", report) /\ UNCHANGED disk
  ELSE stop(report)

\* The simulation fails, or the node does not take the transaction; or it does,
\* and the answer is lost.
sendFails ==
  /\ proc.pc = "send"
  /\ txs' \in {txs, Append(txs, newTx(FALSE))}
  /\ legFails(proc.report)
  /\ UNCHANGED <<campaign, closed, launches, passes, runs>>

lastLeg == Len(proc.report.legs)

\* Between the legs of a round trip the sweep is costed; when it cannot be, the
\* run stops with the unit in the probe.
sweepNotCosted ==
  /\ proc.pc = "send" /\ proc.report.script = "roundtrip" /\ lastLeg = 1
  /\ stop(proc.report)
  /\ UNCHANGED <<campaign, closed, txs, launches, passes, runs>>

\* The receipt arrives and is recorded.
receive ==
  /\ proc.pc = "await"
  /\ LET t == txs[proc.report.legs[lastLeg].tx]
         report == [proc.report EXCEPT
                      !.legs[lastLeg].state = IF t.status = "success" THEN "CONFIRMED" ELSE "REVERTED"] IN
       /\ t.status # "pending"
       /\ IF proc.report.script \in Checkpointing \ {"roundtrip"} THEN checkpoint(report) ELSE UNCHANGED disk
       /\ goTo("judge", IF proc.report.script = "roundtrip" THEN proc.report ELSE report)
  /\ UNCHANGED <<campaign, closed, txs, launches, passes, runs>>

\* The wait for the receipt, or a reading after it, throws.
waitFails ==
  /\ proc.pc \in {"await", "judge"}
  /\ legFails(proc.report)
  /\ UNCHANGED <<campaign, closed, txs, launches, passes, runs>>

\* What the readbacks find: never more than the chain did, and sometimes less (a
\* node that lags, a transfer of somebody else in the same block).
readbacks == {ok \in BOOLEAN : ok => did(proc.report.run, lastLeg)}

\* The ceremony checks every transaction before the next, and ends after the last.
readbackDouble ==
  /\ proc.pc = "judge" /\ proc.report.script = "double"
  /\ \E ok \in readbacks :
       LET report == [proc.report EXCEPT !.legs[lastLeg].ok = ok] IN
         IF ~ok THEN stop(report)
         ELSE IF lastLeg = Ceremony THEN finish(report)
         ELSE checkpoint(report) /\ goTo("send", report)
  /\ UNCHANGED <<campaign, closed, txs, launches, passes, runs>>

\* The events of the transfer are reconciled with the balances.
reconcileTransfer ==
  /\ proc.pc = "judge" /\ proc.report.script = "transfer"
  /\ IF proc.report.legs[1].state = "REVERTED" THEN stop(proc.report)
     ELSE \E ok \in readbacks :
            finish([proc.report EXCEPT !.legs[1].ok = ok,
                      !.class = IF ok THEN "AUSDC LIVE TRANSFER" ELSE "TRANSFER ATTEMPT"])
  /\ UNCHANGED <<campaign, closed, txs, launches, passes, runs>>

\* The probe is deployed: an A-Pass is asked for it.
probeDeployed ==
  /\ proc.pc = "judge" /\ proc.report.script = "probe"
  /\ IF proc.report.legs[1].state = "REVERTED" THEN stop(proc.report) /\ UNCHANGED passes
     ELSE \E accepted \in BOOLEAN :
            LET report == [proc.report EXCEPT !.response = IF accepted THEN "accepted" ELSE "refused"] IN
              /\ passes' \in IF accepted THEN {passes, passes \cup {report.run}} ELSE {passes}
              /\ checkpoint(report)
              /\ goTo("final", report)
  /\ UNCHANGED <<campaign, closed, txs, launches, runs>>

\* The A-Pass is read back, on chain and from Cleanverse, and the policy is
\* asked in both directions.
classifyApass ==
  /\ proc.pc = "final" /\ proc.report.script = "probe"
  /\ \E usable, transfers \in BOOLEAN :
       /\ usable => proc.report.run \in passes
       /\ finish([proc.report EXCEPT
                    !.class = classifyOutcome(proc.report.response = "accepted", usable, transfers)])
  /\ UNCHANGED <<campaign, closed, txs, launches, passes, runs>>

\* A leg of the round trip is recorded with its receipt and its reconciliation.
runLeg ==
  /\ proc.pc = "judge" /\ proc.report.script = "roundtrip"
  /\ \E ok \in readbacks :
       LET t == txs[proc.report.legs[lastLeg].tx]
           report == [proc.report EXCEPT
                        !.legs[lastLeg] = [@ EXCEPT !.state = IF t.status = "success" THEN "CONFIRMED" ELSE "REVERTED",
                                                    !.ok = ok]] IN
         IF lastLeg = 2 THEN checkpoint(report) /\ goTo("final", report)
         ELSE IF ok THEN checkpoint(report) /\ goTo("send", report)
         ELSE stop([report EXCEPT !.class = "OUTBOUND FAILED"])
  /\ UNCHANGED <<campaign, closed, txs, launches, passes, runs>>

\* The final balances decide what became of the unit.
roundTripEnds ==
  /\ proc.pc = "final" /\ proc.report.script = "roundtrip"
  /\ LET class == classifyRoundTrip(proc.report, probeBalance) IN
       finish([proc.report EXCEPT !.class = class, !.recovery = describeRecovery(class)])
  /\ UNCHANGED <<campaign, closed, txs, launches, passes, runs>>

\* The attempt is on disk before the one call is made.
attemptLaunch ==
  /\ proc.pc = "request" /\ proc.report.script = "launch" /\ ~proc.report.attempted
  /\ LET report == [proc.report EXCEPT !.attempted = TRUE, !.class = "SUBMITTED / PENDING"] IN
       checkpoint(report) /\ goTo("request", report)
  /\ UNCHANGED <<campaign, closed, txs, launches, passes, runs>>

\* The call: it is accepted or refused; or it does not answer, whatever became
\* of it, and is not made again.
launch ==
  /\ proc.pc = "request" /\ proc.report.attempted
  /\ \/ /\ launches' = [launches EXCEPT ![proc.report.run] = "accepted"]
        /\ LET report == [proc.report EXCEPT !.response = "accepted"] IN
             checkpoint(report) /\ goTo("poll", report)
     \/ /\ stop([proc.report EXCEPT !.response = "refused", !.class = "LAUNCH FAILED"])
        /\ UNCHANGED launches
     \/ /\ \E s \in {"none", "travelling", "accepted"} : launches' = [launches EXCEPT ![proc.report.run] = s]
        /\ stop([proc.report EXCEPT !.response = "lost"])
  /\ UNCHANGED <<campaign, closed, txs, passes, runs>>

\* The status is polled until it is final or the time is over; a token that is
\* issued is then read back on chain.
launchEnds ==
  /\ proc.pc = "poll"
  /\ \E readback \in BOOLEAN :
       finish([proc.report EXCEPT !.class = classifyLaunch(launches[proc.report.run], readback)])
  /\ UNCHANGED <<campaign, closed, txs, launches, passes, runs>>

\* The activation scripts: a deployment, a release and a terminal step that
\* reverted stops the script, a withdrawal, an approval and a funding do not.
nextLeg ==
  /\ proc.pc = "judge" /\ proc.report.script \in Late
  /\ IF proc.report.legs[lastLeg].state = "REVERTED" /\ proc.report.script \in {"deploy", "consume", "terminal"}
     THEN stop(proc.report)
     ELSE UNCHANGED disk /\ goTo(IF lastLeg = legCount(proc.report.script) THEN "final" ELSE "send", proc.report)
  /\ UNCHANGED <<campaign, closed, txs, launches, passes, runs>>

\* The report is written, whatever became of the withdrawal.
withdraw ==
  /\ proc.pc = "final" /\ proc.report.script = "withdraw"
  /\ finish([proc.report EXCEPT !.class = IF did(proc.report.run, 1) THEN "WITHDRAWN" ELSE "WITHDRAWAL REVERTED"])
  /\ UNCHANGED <<campaign, closed, txs, launches, passes, runs>>

\* The code and the immutables read back are the planned ones, or nothing is written.
deploy ==
  /\ proc.pc = "final" /\ proc.report.script = "deploy"
  /\ finish([proc.report EXCEPT !.class = "ADAPTER DEPLOYED"])
  /\ UNCHANGED <<campaign, closed, txs, launches, passes, runs>>

\* The reserve is read back, and the report says what it is.
configure ==
  /\ proc.pc = "final" /\ proc.report.script = "configure"
  /\ finish([proc.report EXCEPT !.class = IF did(proc.report.run, 2) THEN "RESERVE FUNDED" ELSE "RESERVE NOT FUNDED"])
  /\ UNCHANGED <<campaign, closed, txs, launches, passes, runs>>

\* The receipt is reconciled with the signed release and the case is read back.
consume ==
  /\ proc.pc = "final" /\ proc.report.script = "consume"
  /\ finish([proc.report EXCEPT !.class = "RELEASE CONSUMED"])
  /\ UNCHANGED <<campaign, closed, txs, launches, passes, runs>>

\* The balances before and after are reconciled exactly, or nothing is written.
terminal ==
  /\ proc.pc = "final" /\ proc.report.script = "terminal"
  /\ finish([proc.report EXCEPT !.class = "RECOURSE TERMINAL"])
  /\ UNCHANGED <<campaign, closed, txs, launches, passes, runs>>

\* An adapter that has its A-Pass is left alone; otherwise one is asked for, and
\* read back until it is valid or the time is over, and the report is written
\* either way.
apass ==
  /\ proc.pc = "request" /\ proc.report.script = "apass"
  /\ IF proc.report.subject \in passes THEN proc' = NoScript /\ UNCHANGED <<disk, passes>>
     ELSE /\ passes' \in {passes, passes \cup {proc.report.subject}}
          /\ \E valid \in BOOLEAN :
               /\ valid => proc.report.subject \in passes'
               /\ finish([proc.report EXCEPT !.class = IF valid THEN "A-PASS VALID" ELSE "A-PASS NOT VALID"])
  /\ UNCHANGED <<campaign, closed, txs, launches, runs>>

\* A manifest is ready when every address is supplied.
classifyManifest(unsupplied) == IF unsupplied THEN "INPUTS INCOMPLETE" ELSE "MANIFEST READY"

\* What a script that only reads may report: a phase never reports success.
findings(script) ==
  CASE script = "plan" -> {"PLANNED"}
    [] script = "readback" -> {"ALL CHECKS PASS", "CHECKS FAIL"}
    [] script = "adapterPath" -> {"READ-ONLY INSPECTION"}
    [] script = "manifest" -> {classifyManifest(u) : u \in BOOLEAN}
    [] OTHER -> {"CHECK ONLY"}

\* A script that only reads writes its report when it is done.
inspect ==
  /\ proc.pc = "preflight" /\ proc.report.script \in Inspecting
  /\ IF ~admits(proc.report) THEN stop(proc.report)
     ELSE \E class \in findings(proc.report.script) : finish([proc.report EXCEPT !.class = class])
  /\ UNCHANGED <<campaign, closed, txs, launches, passes, runs>>

\* A reading or a poll near the end throws.
readingFails ==
  /\ proc.pc \in {"final", "poll"}
  /\ stop(proc.report)
  /\ UNCHANGED <<campaign, closed, txs, launches, passes, runs>>

\* The process dies: nothing is written.
kill ==
  /\ proc # NoScript
  /\ proc' = NoScript
  /\ UNCHANGED <<campaign, closed, txs, launches, passes, disk, runs>>

RunnerNext ==
  \/ start \/ refuse \/ preflight \/ send \/ sendFails \/ sweepNotCosted \/ receive \/ waitFails
  \/ readbackDouble \/ reconcileTransfer \/ probeDeployed \/ classifyApass \/ runLeg
  \/ roundTripEnds \/ attemptLaunch \/ launch \/ launchEnds \/ readingFails \/ kill
  \/ nextLeg \/ withdraw \/ deploy \/ configure \/ consume \/ terminal \/ apass \/ inspect
  \/ mine \/ windowCloses \/ cleanverse

RunnerSpec == RunnerInit /\ [][RunnerNext]_runnerVars

-----------------------------------------------------------------------------
(* Properties.                                                             *)

\* What an artifact says is so on the chain and at Cleanverse: a proven one has
\* all of its transactions succeeded (and its A-Pass or its token issued; an
\* approval may be an older one, for its receipt is not looked at), and no
\* recovery is offered while a return whose hash came back is unresolved.
ArtifactIsTrue ==
  \A o \in Outs :
    LET a == disk[o] IN
      /\ a.class \in Proven =>
           /\ \A leg \in 1..legCount(a.script) : did(a.run, leg) \/ (a.script = "configure" /\ leg = 1)
           /\ a.script = "probe" => a.run \in passes
           /\ a.script = "launch" => launches[a.run] = "issued"
      /\ a.recovery =>
           ~\E i \in DOMAIN txs : txs[i].run = a.run /\ txs[i].leg = 2 /\ txs[i].answered /\ txs[i].status = "pending"

\* The same of every return.  The script says of the artifacts that offer a
\* recovery that "the return is known not to have landed"; a return that was
\* broadcast and whose answer was lost has no hash in the report, and may land.
RecoveryIsConclusive ==
  \A o \in Outs :
    disk[o].recovery =>
      ~\E i \in DOMAIN txs : txs[i].run = disk[o].run /\ txs[i].leg = 2 /\ txs[i].status = "pending"

\* A hash that reached a script that writes as it goes is in the artifact of its run, also when the run
\* was killed or stopped right after, for as long as no later run has written to
\* the same prefix.
SentIsRecorded ==
  \A i \in DOMAIN txs :
    txs[i].answered /\ txs[i].script \in Checkpointing =>
      \/ disk[txs[i].out].run > txs[i].run
      \/ /\ disk[txs[i].out].run = txs[i].run
         /\ \E l \in DOMAIN disk[txs[i].out].legs : disk[txs[i].out].legs[l].tx = i

\* Every activation artifact stands on the ones before it: a configured adapter
\* was deployed and has an A-Pass, a release was consumed at a funded one, and a
\* recourse is terminal when the release it is about was consumed, its window
\* was over and both sides were paid.
EvidenceIsChained ==
  \A o \in Outs :
    LET a == disk[o] IN
      /\ a.script = "configure" => did(a.subject, 1) /\ a.subject \in passes
      /\ a.class = "RELEASE CONSUMED" => did(a.subject, 1) /\ effect("configure", 2, a.subject) /\ a.subject \in passes
      /\ a.class = "RECOURSE TERMINAL" => /\ did(a.subject, 1) /\ a.subject \in closed
                                          /\ \A leg \in 1..3 : effect("terminal", leg, a.subject)

\* Whatever was lost, killed or tried again, no second launch is made.
LaunchedOnce == Cardinality({r \in RunNumbers : launches[r] # "none"}) <= 1

=============================================================================
