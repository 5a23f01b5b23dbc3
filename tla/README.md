# Mordant in TLA+

Mordant protects a receivable against being pledged twice. An invoice is tokenised in an *invoice
vault* that holds an exclusivity bond; conflicting pledges are found on chain (commit, reveal, cure)
or privately, by a governed FHE comparison whose one Boolean is bridged to a *recourse adapter* that
pays the two holders out of a reserve. Around these contracts stand a product server that drives a
case through the FHE programs, a public execution service, browser pages, and the scripts with which
an operator rehearses, deploys and runs all of it on a test network.

This directory models the parts that move money, that decide that money may move, or that must
survive a crash without inventing anything; it checks them with TLC on small instances and proves the
adapter with TLAPS. Paths are relative to the repository root unless they start with `tla/`.

## Inventory

| Part | State | Operations | Interacts with | What makes it correct |
|---|---|---|---|---|
| Recourse adapter `contracts/src/recourse/MordantRecourseAdapter.sol` | three reserve counters, one case per run, consumed results and attestations | fundReserve, withdrawAvailable, consumeGovernedRelease, cure, finalize, claim | settlement token, CVI verifier, signed releases | solvency, each entitlement paid once, nothing gets stuck |
| Invoice vault `contracts/src/MordantInvoiceVault.sol` | protection and receivable machines, bond, snapshots, escrow, credits | activate, commit, reveal, expire, cure, finalizeConflict, claimBond, redeem, close, markDefault, release, transfer | factory, CVA adapter, verifier, token | accounting identities, claims by record date, a way out for every holder |
| CVA adapter, factory, verifier `contracts/src/cleanverse`, `MordantFactory.sol` | custody credit, allowlist, roles | bindVault, consumeOnRedemption, releaseOnDefault, setFacility | called by the vault, change under its feet | credit equals units outstanding |
| Settlement profile store and authority, bridge executor and relay `src/lib/protection/settlement-*.ts`, `bridge-executor.ts` | `settlement-profile.json`, permits in memory, one durable record per result | commit, prepareDirect, simulate, sign, broadcast, reconcile | run directory, adapter, other executors | chosen before the result, one authorization per result, nothing paid outside it |
| Product server `src/lib/protection/governed-fhe-product-server.ts`, `protection-operation-journal.ts` | `execution.json`, operation journal, artifacts, a lock in memory | begin and finish of every stage, reconcile, inspect, export, retain | FHE programs, admission | a stage is proven by its artifacts, one-shot programs run once, recovery invents nothing |
| Participant admission `participant-admission-*.ts` | ledger, case codes, case clock | create case, challenge, admit, abandon | product server, policy service | one wallet per role, an exact retry completes |
| Live launch and worker `live-launch-token.ts`, `scripts/mordant-live-worker.mjs` | spent tokens, daily log, journeys | issue, claim, create, drive, prune, drain, restart | product server, pages | one case at work at a time |
| Live pages `src/components`, `*-client.ts` | what a page shows, what it polls | start, restore, poll, check wallet, sign, admit | execution service, wallet | shows only what was released, keeps what it showed, signs once |
| Operator console and local adapter `protection-experience.tsx`, `protection-browser-recovery.ts`, `scripts/protection-local-adapter.mjs` | page state, record in session storage | create, execute next, export, recover, navigate, reload | product server | what is in doubt is on record and is resolved by a read |
| Participant-originated authorization and qualification `participant-originated-authorization.ts`, `run-participant-originated-qualification.mjs` | three signed messages, case state, evidence | register, intend, admit, evaluate, release, write evidence | coordinator, FHE programs | published implies authorized in nested windows |
| Import coordinator `scripts/participant-originated-coordinator.mjs` | reservation log, claims, staged objects, markers | reserve, upload, verify, publish, recover | other coordinators, stager | a reservation is whole, only exact objects are published |
| Public evidence and policy chain `protection-evidence*.ts`, `governed-recourse-policy.ts`, `direct-participant-evidence-assembly.ts` | documents and signatures | export, assemble, verify | all readers | a document accepted is of one case that happened |
| V5 journaled run `fhe-lab/monad-testnet/v5-*.mjs` | stage journal, reveal packages | prepare, execute, reconcile, verify of 31 stages | chain, Go laboratory | a sealed stage is on the chain |
| Living demo `src/lib/dealroom` | run file, lock in memory | execute, read, reset, redeploy | local chain | confirmed implies on chain |
| Private-matching run `fhe-lab/monad-testnet/run-priv8.mjs`, `priv8-*.mjs` | transaction journal, key directories | 22 phases, resume | chain, relayer, validators | a journalled transaction is not sent again, evidence is true |
| Operator scripts `scripts/m05..m15*.mjs`, `activation-*.mjs` | artifacts under a prefix | broadcast, launch, checkpoint, gate | chain, one another's artifacts | an artifact says what happened |
| Fork rehearsals `scripts/m13*.mjs` | forks on ports | control A, ceremony, binding, endings | anvil | a claimed success is one |
| Coalition adapter, V4/V5 registries, identity registries, threshold and one-shot FHE runtimes, factory and vault V2, static pages | | | | see *Not modelled* |

Hard behaviours: strangers' transactions interleave with everything; eligibility and policies change
between two transactions; roundings and deadlines on which two transactions meet; several processes
share a directory and die between two file-system calls; locks live in the memory of one process
while the journal lives on disk; a broadcast is accepted and its answer lost; something is read
before an `await` and used after it; answers to a page arrive late, twice or out of order. The list
with lines is `hazards` in `PROJECT.json`.

## Modules

| Module | Models | Composed by |
|---|---|---|
| `RecoursePromise` | what the adapter promises, without clock, eligibility, digests or running totals | refined by `RecourseAdapter` (`KeepsPromise`) |
| `RecourseAdapter` | the adapter, one action per transaction | `SettlementBridge` |
| `InvoiceVault`, `InvoiceVault_proofs` | the vault with what it calls of the factory and the CVA adapter, and its theorems | |
| `SettlementBridge`, `SettlementBridge_proofs` | profile store, executors, relay and crashes around the adapter (extends it), and the theorems of both and of the operator's tools | |
| `ProtectionRun`, `ProtectionRun_proofs` | one case of the product server, and its theorems | |
| `ParticipantAdmission`, `ParticipantAdmission_proofs` | admission of two wallets by several processes, and its theorems | |
| `LiveWorker` | the execution service | `MCLiveWorker` |
| `WorkerProjection`, `ManagedPages`, `DirectPage` | the service's public view, the parsers, the pages | `MCLiveWorker` |
| `Origination`, `Origination_proofs` | how a participant-originated case comes about, and its theorems | `MCOrigination` |
| `EvidenceChain` | what the documents of a case prove, with a theorem in `Origination_proofs` | `MCOrigination` |
| `ImportCoordinator` | the coordinator's write-ahead log and uploads | |
| `ParticipantEdge_proofs` | the theorems about the coordinator and about the pages | |
| `JournaledRun`, `JournaledRun_proofs` | the staged run that survives its process, and the theorems of both runs | `MCJournaledRun` |
| `LivingDemo` | the demonstration server's run | `MCJournaledRun` |
| `PrivateMatch`, `PrivateMatch_proofs` | the private-matching run, and its theorems | |
| `ChainRunner`, `ForkRehearsal`, `OperatorConsole` | the operator's tools | `MCOperatorScripts` |

The MC modules only give constants their values, and choose which part a behaviour is about where
several modules are checked in one run. Those parts share no state in the program either: what one
needs of another is modelled in it as an answer that may fail or be late.

### RecourseAdapter

A `GovernedRelease` is a record of the fields the contract compares. The five pins compared with
immutables are one field (`match` or `mismatch`), the signature is the recovered signer, and the
EIP-712 digest is the record itself. `refuseRelease` and `openCure` are the two outcomes of
`consumeGovernedRelease`. A revert is an action that is not enabled, including the checked
subtractions (`Total(c) <= openReserved`), so that `NeverStuck` says something: those guards are
never what disables a transaction. The token is standard: it has a fixed supply, and anyone may
transfer to the adapter (`donate`). `changeEligibility` lets the verifier change any answer at any
time. `received` is a history variable.

### InvoiceVault

`_assertAccounting` is not a guard but the invariant `AccountingHolds`: a transaction that would trip
it is reported, not silently disabled. `lookup` is the contract's binary search, not its
specification; `HistoryAddsUp` compares it with the balances. `denied` is the set of negative policy
answers, which `changePolicy` may alter at any time: identities, the CVA and settlement policies
towards an account, the burn path, and the CVA supply being tampered with. Policies do not depend on
the amount. Settlement tokens reach the vault only through it, so the accounts balance exactly.
`activate` performs its mints in one step, with one sequence number and one supply checkpoint per
mint, as the loop does.

### SettlementBridge

`commitSettlementProfile` is four steps: the caller's choice of profile, the look for a result, the
create-only open, the write. A committer may die between any two, leaving a file that is `Partial`.
Executors hold their preparation and permit in memory; `signNew` is the `link` that publishes the
record, and `signExisting` the path taken after EEXIST. `crashExecutor` forgets everything in memory.
`mempool` is what was ever broadcast: anyone may submit it again. The adapter consumes only such
releases, because the attestor's key is used nowhere else. `blind` and `authorized` are history:
whether a result existed when the profile was chosen, and which signatures were handed out.
Admission proofs and evidence signatures are taken as verified, and the token's transfer policy is
folded into eligibility.
The proofs about the run that
`prepareDirect` reads first are the subject of `ParticipantAdmission` and `EvidenceChain`.

### ProtectionRun

`execution` is the saved record with its stage, `journal` the pending and closed operations, and the
artifacts are the objects the FHE programs publish, create-only and one at a time. A request is
begun, awaits its child, and continues; a continuation is written as the sequence of file-system
states it passes through, and a crash leaves any of them. `load` reconciles a pending record with the
artifacts, as every entry point of the server does. Variants of a case (fixed scenario, operator
windows, admitted wallets, coalition) differ in which artifacts they need and which checks they skip.

### ParticipantAdmission

A request waits for the engine, for the signature and for the compliance answer; another may run at
each of these points, in the same process or in another. The ledger is written as its file
operations, under its lock. Challenges, the case clock and abandonment are compared with a clock that
moves on by itself. The engine is `ProtectionRun`'s subject; here its operations take effect or are
cut off.

### LiveWorker and the pages

`LiveWorker` has the token's issuance, verification and single-use claim, the reservation of the one
place, the daily quota, the four background journeys, pruning, drain, kill and restart with the
sweep. `gaveUp` is history: the cases that once held the place and were taken off it. The pages are about
what a browser makes of this service: `WorkerProjection` is the public
view of a run and the browser's parsers, which refuse contradictory members; `ManagedPages` polls
without waiting for answers, so that reads overlap; `DirectPage` follows a participant whose wallet
may change at every await. A state update, its render and the clean-up of effects are one step.

### Origination and EvidenceChain

In `Origination` a digest of a message is the message and a signature is a pair of signer and
message; the three messages contain each other. One participant may sign and encrypt things it was
not asked for, another holder of the bearer may send whatever exists, children fail, and the checkout
is edited between build and manifest.

`EvidenceChain` puts a document together with each part taken from the case it is about or from another,
or with one member wrong, missing or added, and asks the verifier. `AcceptedIsOfOneCase` says that what
is accepted is entirely of one case that happened; `HonestIsAccepted` that nothing true is refused
before its last second. Members bound by nothing (`Unbound`: the run's identifier, the measured
durations, the times of writing) are outside the first property, and so is the digest of the bridge
receipt, which is compared with nothing. Proof and document are written at the same moment. A real-clock
conflict bundle can never be accepted: its policy has to be signed a cure window after the binding and
within the case's lifetime.

### ImportCoordinator

A reservation is an intent line, a create-only claim per role and nonce, and a commit line; a restart
rolls an uncommitted one back and a committed one forward. An upload is staged by one of the two
stagers, verified, published and marked. A step is one file operation. An object is absent, partial
or exact. Any number of coordinators may run on the directory; `met` is history, the processes that ran
beside another.

### JournaledRun and LivingDemo

A stage of `JournaledRun` is prepared, executed, reconciled and verified by the handlers of its kind.
What it freezes is a number, so that a regenerated payload is visible. The chain keeps every
transaction sent for a stage, pending, mined, dropped or overtaken by a rival. `LivingDemo` runs from
await to await; `epoch` counts the lives of the local chain, and a missing run file is a file of no
deployment. Requests, resets and redeployments interleave freely; `overlaps` is history: whether the
creation of a run, or a reset or redeployment, ran into another request.

### PrivateMatch

A key of the model stands for keys of the journal that are sent one after the other and behave alike:
what may be repeated (a deployment, a setting, a mint) is kept apart from what works once, such as
`registerIssuer` and the credit of the vault. The runner may stop at any point. `CompletesOrDeadEnds`
says that a run restarted until it ends either completes or stands at one of the dead ends listed under
*Known disagreements*.

### ChainRunner, ForkRehearsal, OperatorConsole

`ChainRunner` has one action per kind of step of a script: gate, broadcast, receipt, checkpoint,
failure handler. A campaign is what the operator runs in a row; artifacts are all that one script
leaves to the next. In `ForkRehearsal` what may be wrong with the contracts is a parameter and the
claim of the rehearsal is compared with it. `OperatorConsole` is one page, its stored record and its
requests: a new request aborts the one before, which may still be carried out. `lapses` is history: whether
the operator clicked before the stored record was resumed, stepped back over the record of another run, or
let a day pass with an outcome unknown. The page guards against none of the three.

## Runs

| Run | Shows | Distinct states |
|---|---|---|
| `adapter` | two runs compete for one reserve: covered, paid once, never stuck, refines `RecoursePromise`, an eligible holder is paid | 188 thousand |
| `vault` | a protected invoice with a conflict and a default: cash and bond accounted for, the bond exact, an exit from default, the record-date holder paid | 99 thousand |
| `bridge` | a committer races the result, two executors race each other: blind choice, one authorization, only committed terms paid | 483 thousand |
| `run` | a product case of each variant with one crash and failing children: stages proven, recovery faithful, the offered operation accepted, one-shot programs once | 1.0 million |
| `run_read_race` | *violation*: a read closes the record of an operation that is running | |
| `admission` | two processes and a crash: sound ledger, an exact retry can complete | 1.7 million |
| `worker` | one case at work, apart from those that gave their place up; the pages show what was released, keep it, never go back, sign once | 1.2 million |
| `import` | two imports and two processes contend over three crashes: whole reservations until two coordinators have met, exact publications always | 1.4 million |
| `origination` | published is authorized, evidence is of the case; accepted documents are of one case, honest ones are accepted | 247 thousand |
| `journaled` | sealed stages on chain; confirmed actions on chain and repeated only after a loss, until a reset or the creation of a run overlaps another request | 0.8 million |
| `private_match` | nothing journalled is sent twice, evidence true, completion or a known dead end | 1.0 million |
| `scripts` | artifacts and rehearsals true; doubt retained, nothing dispatched on top of it, the read that settles it offered and accepted, until the operator does one of three things the page does not guard | 1.6 million |

**Bounds.** *Adapter*: two runs and two results, so that replay under another run and competition for
one reserve both happen; supply 4, so that two cases of 2 fit and no more; unequal payouts, one of them
zero; times 0 to 3 with a window of 1 lie on both sides of each deadline. *Vault*: 3 units, face value
4, bond of half of it, so every division leaves a remainder; `MaxSequence` 3 allows the mint and moves
inside a pending conflict. *Bridge*: one run and one result, since records and profiles are files per
result and run; two executors are enough to lose a race; `MaxAge` 0 makes a permit stale a second later.
*Product case*: one request at a time, one crash at any write, and any requests after it. *Admission*:
two processes and two requests, lifetimes 2 and 1. *Worker*: two tokens and requests, limit 2 a day, two
stops, a lifetime of one tick, so that a case lapses within the clock, and journeys that may fail.
*Pages*: two runs, two polls, two damaged answers. *Import*: two processes and two tickets that share a
nonce, so that the second has taken its role when it is refused; three crashes.
*Origination*: two cases, lifetimes 3 and 4 with margins 2 and 1, so each phase can run out of time
separately. *Evidence*: two cases, all mixes. *Journaled*: two interruptions, three sends, one rival per
source. *Living run*: four steps, a missing or an old run file, two requests at once and one fault, death and reset
each. *Private match*: three sessions, four results, two interruptions. *Scripts*: any two checkpointing
scripts, and one whole activation with a retry. *Rehearsals*: three, with up to two flaws. *Console*:
two cases, three mutations, two faults, two reloads. Every bound is a named constant of its module.

Deadlock is checked for the adapter, the bridge and the product case. The others really stop: a vault
whose units are all redeemed, a run that is complete, a script campaign that is over. Symmetry is
used for the executors of `bridge`, the coordinators of `import`, the request slots of the living run and
the cases of the console, which no definition tells apart.

**Fairness.** *Adapter and vault*: weak fairness of the clock and of the transactions that somebody
who is owed something can send alone (`finalize` and `claim`, "Permissionless on purpose", the
contract says; `expireCommit`, `finalizeConflict`, `closeProtection`, each holder's `claimBond`). None
of facilities, owners, the buyer or the verifier: a holder is promised payment only while eligible.
*Private match*: of the restarted runner, of mining and of the validators' publication. `DrivenSpec`
(a client that follows the offered operation), `PatientSpec`, `LiveSpec` and the `FairSpec` of
`ImportCoordinator` and `JournaledRun` state the same kind of fairness for properties that the code
does not keep (below), and for whoever repairs it.

**Mutants.** Every property of a passing run is paired with a variant of one definition (marked
"Mistake" in the modules) that a plausible slip would produce, and that TLC shows to violate it.

## Proofs

Fifteen components are proved about. The coordinator and the pages share a proof module, and so do the
two runs that survive their process, the origination of a case and its documents, and the adapter, the
bridge, which is proved from it, and the operator's tools around them. A theorem holds for every value
of the constants that the component's named assumption allows; TLC evaluates those assumptions, and
checks the same properties, on the instances of the runs.

**Adapter** (`SettlementBridge_proofs`, from `AdapterAssumption`: finite runs and results, any releases,
accounts, screened pairs, supply, window and horizon): `TypeOK`, `Solvent`, `LedgerMatchesCases`,
`PaidExactlyOnce`, `OneCasePerResult`, `NeverStuck`, `DecisionsAreFinal` and the refinement
`KeepsPromise`. `Solvent` alone is not inductive: from a state whose counters do not match the cases, a
cure could release more than was reserved. `IndInv` therefore carries the exact ledger, the exact
payments and the counting of opened runs with it. Sums over runs are cardinalities of sets of atomic
units (`OpenUnits`, `UnpaidUnits`, `PaidUnits`), so that moving a payout is moving a finite set. The
refinement needs one more invariant (`Blank`): a run without a case still has default storage.

**Bridge** (`SettlementBridge_proofs`, from `BridgeAssumption` and the adapter's): `BridgeUsesAdapter`
shows that the composition refines the adapter's own specification, so the adapter's theorems hold of
it (`BridgedMoneyIsSafe`). `PaidOnlyAsCommitted`, `OneAuthorization`, `ChosenBlind` and
`CommitmentsAreImmutable` follow from `BridgeInv`: that a case on chain is on the committed terms needs
every signature to be covered by the profile, which needs the permit that an executor holds across
other processes' steps to stay covered, which needs the profile and the result to be final once they
are complete.

**Vault** (`InvoiceVault_proofs`, from `VaultAssumption`): types, `AccountingHolds`,
`BondMatchesExposure`, `FaceIsConserved`, `HistoryAddsUp`, `ClaimsAreShares`,
`DefaultAlwaysHasAnExit`, `HistoryIsImmutable`, `PendingBondIsFrozen`, and `LookupIsExact`: what the
binary search over the checkpoints returns, for an ordered list of any length. `VaultInv` adds to them the
order of the checkpoints, the agreement of the newest one with the balance, and the rounding bounds
of the partial payouts. Totals are cardinalities again, and an induction is written as the least
counterexample of a set of naturals (`LeastNat`, from the well-foundedness of finite subsets), since a
library theorem with an operator parameter cannot be applied.

**Admission** (`ParticipantAdmission_proofs`, from `AdmissionAssumption`: any requests, processes,
bodies, lifetimes and number of crashes): `LedgerIsSound`, `RetryCanComplete`, `PledgeIsAuthorized`,
`NeverReassigned`, `LifecycleAdvances`. `AdmissionInv` says what is still true of a judged request after
each of its awaits: its authorization is genuine, the lock file is its own if it thinks so (stranded
locks included), what it has checked of the other role has not changed, and, if the record of its role
is still missing, the engine is still at that role's turn.

**Product case** (`ProtectionRun_proofs`, from `RunAssumption` and `NoneAssumption`), in two parts.
`StageIsProven` holds for any number of callers, those that read beside the lock included. What a
request has read may be out of date there; `StageInv` says that it was proven by published objects, that
objects stay published in the protocol's order (`Closed`), and that what a child still has to publish
proves the stage it will save. `RecoveryIsFaithful`, `IrreversibleOnce` and `OfferIsAccepted` are proved
under `Sequential`: there is one caller, or every caller takes the lock. The hypothesis is not for
convenience: with reads that look at the lock once, `run_read_race` shows the journal being written
under a running child, and the record can then be reconciled from a stale reading.
`RunInv` says that the record, the journal and the objects tell one story (`Coherent`: a pending
operation is at its beginning or saved; an admitted one-shot program is pending, recorded or aborted;
what was begun was admissible) and that the running request is up to date with it. Every state a
continuation passes through satisfies `Coherent`, not only the last, which is what makes a kill between
two writes harmless.

**Private match** (`PrivateMatch_proofs`, from `TtlAssumption`: any sessions, results, expiries and
number of interruptions): types, `RecordedIsNotResent` and `EvidenceIsTrue`. `MatchInv` says that what the
journal names is on the chain under its key (`Named`), that a transaction in flight is the last of its
key (`InFlight`), and that everything a phase relies on took effect (`Ready`), so that a report is true
when it is written; the chain only grows, so it stays true (`Grows`, `Stays`). The commitment is the hard
case, because the relayer outlives the runner: `Chain` and `Fresh` say that the relayer holds no
commitment that was published, and that a runner about to ask for one resumes a settled session or has
a session nobody ever published.

**Import coordinator** (`ParticipantEdge_proofs`, from `ImportAssumption`: any tickets, claim lists,
faults and number of crashes): `PublishedIsExact` and `VerdictIsFinal` hold for any number of processes
on the directory. `ImportInv` says what a job at each step may rely on although other processes stepped
in between (`JobOK`: an object that was exact stays so, a marker is never taken back), which needs that
one process at a time streams into an object (`OneWriter`). `OwnershipIsWhole` is proved for any number
of processes too, and speaks of the time until two of them have run at once, because then it is false: a
claim is read and unlinked in two calls (see the disagreements). `OwnInv` adds that the ticket being
reserved or rolled back has no commitment, that the claims taken so far are still its own, and that the
claim about to be unlinked is the one that was read.

**Journaled run** (`JournaledRun_proofs`, from `BoundsAssumption`: any number of sends and interruptions,
any fragile and contested stages): `SealedIsOnChain`, `RevealOpensCommitment`, `SpineIsSealed`,
`AwaitedIsJournaled`, `FrozenForever` and `TerminalStays`. That a sealed stage is on the chain is not
inductive alone: a restart reconciles and verifies a stage by what it finds on the chain, so the
invariant must say what the chain can hold. `JournalOK` says that a stage succeeds at most once, that
only a contested stage has transactions of somebody else, that a journaled hash is a transaction of the
runner with the frozen payload, and that a stage is begun on sealed predecessors. `ProcOK` says where the
runner is: its stage is not sealed, the stages before it are, and the entry is in the state that the
step it is at has left. The reveal package is the hard case, because a restart may overwrite it: only
while the stage is not sealed, and the seal compares it with what was frozen.

**Living run** (`JournaledRun_proofs`, from `DemoAssumption`: any journey of distinct steps, any number of
requests at once, failed calls, deaths and resets): `ConfirmedIsOnChain` and `RepeatedOnlyAfterLoss`. Both
speak of the time until the kind of overlap that breaks them has happened, since after it they are false
(see the disagreements); no assumption keeps the overlap out, and that it has not
happened yet is part of what the invariants carry. `TruthInv` carries the claim across the awaits: a stale run
that a request still holds is as true as the file (`TrueRun`), a recorded hash is of a transaction of its
step (`HashesOf`), the steps before the one being executed took effect (`Earlier`), and a chain whose run
is not written yet has seen nothing (`Unwritten`), which is what makes a fresh run true. The attempt to
prove it also showed that the file must never be of a later life than the chain. The second needs the
lock: `LossInv` says that, as long as nothing was lost, one request at a time is past the lock, that what
is pending is what it executes, and that what took effect is confirmed or about to be (`CalmRun`).

**Pages** (`ParticipantEdge_proofs`). The managed pages, from `PagesAssumption` (any number of runs, polls and
faults): `ShownIsReleased` and `ShownIsKept`. A parser that refuses contradictions is not enough, since an
answer with one wrong member is contradictory only next to the run it is read for: `PagesInv` says that
every read under way is of the run on the screen and that its effect is still mounted (`PollOK`,
`RestoreOK`), that its body is what the service said of that run at some time (`Past`), and that the
answer to a start is awaited in one phase only. The two-wallet page, from `DirectAssumption` (any wallets,
cases, tokens and lost answers): `SignedOnce` and `NeverGoesBack`. `DirectInv` says that the screen is
behind every read under way and the reads behind the service (`Forward`), that what the running call
captured before its awaits is still the page's (`CallOK`), and that a signature is kept for a retry or
its role is behind the page for good (`Settled`).

**Origination** (`Origination_proofs`, from `WindowAssumption` and `CasesAssumption`: any list of cases, any
windows and ticks, any number of messages signed besides): `PublishedIsAuthorized` and
`EvidenceIsOfTheCase`. `AuthInv` says that a reservation is under the registration its role retained and
that, once its bytes were verified, its chain of three messages holds (`Chained`). The chain stays,
because signatures are only added and registrations only replaced before the coordinator serves anything
(`Early`); and since any holder of the bearer may reserve, the wallet that a reservation claims must be
shown to be one of the two (`Signers`). `CaseInv` follows each role through the controller's script
(`Followed`): past its place in the script, the intent is for the pledge, the preparation for the intent,
the reservation for what was prepared, and the publication is of that reservation. Somebody else can only
take a slot that is free, and then the case fails rather than going on with another's artifact. The
evidence is added once per case (`Counted`), with the result that was expected and a scan that found
nothing private (`ResultOK`).

**Evidence** (`Origination_proofs`, from `EvidenceAssumption`: any cases, any lifetime, any longer cure window,
any clock; and `NullIsNoRecord`, that null has no members): `HonestIsAccepted`. `HonestDocument` takes the
bundle of a case whose release, binding and attestation were in order, and derives each check of
`assertPublicProtectionEvidence` from how the parts were built: shapes, digests and signatures by
`AgreedBody` and `SignedBody`, the chronology by its two branches, the times from the order. `EvidenceInv`
says that a case's times are in that order (`InOrder`), so the exporter's own verifier can refuse only in
the second in which the case expires, or later.

**Rehearsals** (`SettlementBridge_proofs`, from `RehearsalAssumption`: any supply, any number of flaws and
rehearsals): `RehearsalIsTrue`. `RehearsalInv` says, for each place in a script, which flaws are ruled out
once it is reached (`Ruled`) and what its fork must hold for the checks to come to mean anything
(`Standing`). A fork that outlived its script is only caught because one at the pinned block has issued
nothing (`ForkOK`).

**Operator scripts** (`SettlementBridge_proofs`, from `RunnerAssumption`: any campaigns and output paths,
any length of the ceremony and number of runs): `ArtifactIsTrue`. `RunnerInv` says that every run has a
number of its own, that the legs a script has recorded are its run's transactions as the chain has them
(`LegsOK`) and every hash it was answered is among them (`HashesOK`), what it must have recorded by the
place it is at (`At`), and that an artifact that claims something is of a run that is over (`Closed`): so
nothing that is broadcast later can belong to it. A return whose answer was lost is outside what is proved of
a recovery (see the disagreements).

**Console** (`SettlementBridge_proofs`, from `ConsoleAssumption`: any cases, any chain of operations, any
number of posts, faults and reloads): `DoubtIsRetained`, `NoBlindMutation`, `RecoveryCanComplete`. Each says
what holds until the operator clicks before the stored record is resumed, steps back over a record or lets a
day pass; the page rules none of them out, and after the first two the claims fail (see the disagreements).
`ConsoleInv` says of a mutation in doubt that it is the only one, that the record of it is in storage and,
once a scheduled resumption has run, on the page, and that the one request that may be under way is of its
run (`Doubted`): so whatever answer is accepted settles it. It needs every answer to be for the run of its
request (`ConsoleAnswers`) and whatever run is on the screen to be bound, on the server, to the scenario
that is shown (`ConsoleView`).

Only model-checked: everything liveness says, since fairness and `ENABLED` are outside what TLAPS
proves here; the worker, whose `SingleActiveCase`
speaks of the cases that never gave their place up, see *Known disagreements*; `AcceptedIsOfOneCase`, which
quantifies over every mixture of the parts of two documents and every altered member, and is checked by
enumerating them; and `ProtectionRun` with reads racing an operation, beyond `StageIsProven`.

## Known disagreements

A name in code font is a formula of its module that the code does not keep; the line that says it
should follows. TLC produces the counterexample when the formula is added to the run's configuration,
with the constants named, if any. The first is a standing run; the others are kept as definitions, so that
whoever changes the code can turn them into runs. Where a property of a passing run leaves such a case out,
it does so in its own formula, through a history variable, and the formula without the exception is the one
named here. What has no name was met while
reading or in a trace.

*Product server* (`MCProtectionRun`):
- `RunningIsNotReconciled` (run `run_read_race`): "A GET must never reconcile an admitted operation
  while this process is still executing it" (`governed-fhe-product-server.ts:3021`), but the lock is
  looked at once, before an await. `readParticipantAdmissionContext` (:1992) does not look at it at
  all. With two callers and a crash, `OfferIsAccepted` and `RecoveryIsFaithful` fail for this reason.
- `AlwaysReadable`: a custom run that dies between publishing `evidence.json` and closing its export
  is reconciled by a builder that throws for custom cases (:1196, against :3022).
- `PublishedIsReleased`: the placeholder scenario "is never bound, never derived from" (:1727), but an
  admitted run whose Boolean is false is compared with it (:2539) after its one-shot result exists.
- `AcceptedIsReleasable`: after a stop between submission and enrollment the submission is accepted
  and the key deleted (:1071), "a submission that can never be released" (`client.go:152`).

*Admission* (`MCParticipantAdmission`):
- `AbandonedAdmitsNobody`: abandonment is tested before three awaits
  (`participant-admission-service.ts:466`); "an abandoned case admits nobody"
  (`participant-admission.test.ts:616`).
- `LifetimeIsMeasured`: a torn clock file makes every read fall back to the present
  (`mordant-live-worker.mjs:217`, against :211).
- `ExactRetryRepairs`: "Exact retries are allowed to repair a crash after the ledger write" (:488), but
  are refused after `expiresAt`.
- `LossIsCompletable`: a crash between B's pledge and finalization removes the key the next attempt
  needs (`governed-fhe-product-server.ts:1344`, against `participant-admission-service.ts:12`).

*Worker* (`MCLiveWorker`, `scripts/mordant-live-worker.mjs`):
- `AlwaysSingleActiveCase` : a case that lapsed or whose journey failed gives its
  place up; its last admission, or a restart, starts its journey without asking whether the worker is
  busy (:1108, against "the single-active-case guarantee", `docs/railway-deployment.md:38`).
- `JourneyEnds`: a case interrupted at RELEASED or later is resumed with an operation that refuses
  these stages (:725, against :722).
- `PrunedIsTerminal`: the receipt is written before the stage is saved, and the sweep goes by the
  receipt (:711, against :705). `RecordIsKept`: the sweep rewrites `execution.json` in place (:548,
  against :504). `ShutdownCutsNothing`: the journey belongs to no connection (:1247, against :1242).

*Pages*: the managed screen may replace a shown view by an older answer before the run is terminal;
polling stops silently at `MAX_POLLS`; a run that is aborted, or whose polls are used up, leaves the
mini page locked in RUNNING; a lost start answer leaves an orphan run and the next start is BUSY; the
browser's parser refuses every abandoned case (`participant-admission-client.ts:216`), so the page's
notice for it is never shown; a launch token spent by a create whose answer was lost is used again
until it expires.

*V5 journaled run* (`MCJournaledRun`):
- `NoSilentGap`: the hash is journaled after the send (`v5-rehearsal-support.mjs:93`, against
  `v5-journal.mjs:12`).
- `SaltIsKept` : a restart during BROADCAST draws a new salt and overwrites the reveal package
  (`v5-stage.mjs:115`, `v5-journalized-runner.mjs:595`, against "Generated once, frozen in the journal,
  never regenerated", `v5-source-flow.mjs:41`).
- `CommittedIsNotFailed`: a stage found done has no receipt, and the chronology needs one
  (`v5-journalized-runner.mjs:196`, against `v5-stage.mjs:88`).
- `MintsOnce`: the mint counts as done while the deployer holds the units, which the next step spends
  (`v5-rehearsal-support.mjs:126`, against :145).
- `CeremonyRecovers`: each preparation draws a new nonce and refuses the base file of the last
  (`v5-ceremony-flow.mjs:402`, against :1).

*Living demo* (`MCJournaledRun`, `src/lib/dealroom/living-demo-server.ts`):
- `ExecutedOnceIfNothingIsLost` : the lock is tested at :356 and taken at :370,
  after an await when the run file is missing (:335), so that two requests both send, against "is already
  executing" (:357). The same happens, after a loss, when the load has to look up a receipt.
- `RestingRunIsTrue` : a reset tests the lock once (:487) and then waits; an execution
  that meets it writes the old run over the new one, against "Wait for the pending transaction before
  resetting the run" (:488).
- A failing read at :372 leaves the lock taken; a death between `evm_revert` and the new snapshot loses the
  snapshot.

*Import coordinator* (`MCImportCoordinator`, `scripts/participant-originated-coordinator.mjs`):
- `OwnershipIsAlwaysWhole` : a claim is read and unlinked in two calls (:508), "A second
  coordinator can safely clean a dead owner's uncommitted WAL" (:709).
- `StagedIsSettled`: half a journal line is refused at every start (:589; test at :803).
- `CompletedIsNotFailed`: a rejected readback at restart records FAILED for good (:1053, against :882).
- `ReplayBurnsNothing`: a repeated upload is FAILED with the pinned stager (:854; test at :479).

*Origination*: binaries may be built from an edited tree that is reverted before the manifest, and
the evidence says that the session root was removed before it is.

*Private match* (`run-priv8.mjs:13-15`, "a resumed run reconciles it instead of resubmitting"): a
written hash without outcome stops every later run; a hash broadcast and not written is sent again,
or reverts for ever where the call works once (`registerIssuer`, `MordantIssuerRegistry.sol:42`, and
`creditVault` among them); a relayed commitment is stranded by a death before its
receipt, and `orphanedCommitments` does not name it; an anchor created but not activated fails on a
missing `protectionEnd`; a session whose intent expired is resumed for ever; a torn key directory is
refused for ever.

*Operator scripts* (`MCOperatorScripts`): `RecoveryIsConclusive`: after a
lost answer M-10 offers a recovery while the sweep is in flight (`m10-custody-roundtrip.mjs:550`, :589,
against "the return is known not to have landed", :590). After a lost broadcast answer M-07 says "NO
TRANSACTION SENT"; M-07 leaves "RECEIPT PENDING" for a reverted receipt; a prefix used again overwrites
the artifact, so a third M-11 run may launch a second token (`LaunchedOnce` with `FreshFor` empty); the
usage line `--phase B --check --from` of m15 is always refused; `configure` does not look at receipts
and funds twice when repeated; `terminal` refuses for ever after an interrupted finalize.

*Rehearsals*: "exclusivity is NOT PROVEN and the caller must not bind the vault" (`m13a`), but `m13b`
and `m13c` bind without asking.

*Console* (`MCOperatorScripts`, `protection-experience.tsx`):
- `NavigationKeepsTheRecord` : Back on a page that was opened at another run reads that
  run and removes the record of a pending creation (:1066, :802), against "Creation recovery remains
  available; no second create will be sent" (:887).
- `MutationIsNeverBlind` : the stored record is taken over on a timer (:1141) and the
  guards of a start (:859) look only at what the timer sets, against "Recovery never asks the browser to
  invent a second create request" (`docs/conflicting-pledge-protection.md:118`). The comment "Nothing can start
  a local run in between" (:1107) is about a record judged invalid, and holds.
- A record that is a day old is dropped although its operation may have taken effect, and `executeNext`
  (:935) then allows what the page calls blocked. `CreationCanComplete` fails for a custom case started from
  the scenario `no-conflict`.

*Contracts and bridge*: `ProtectionLeavesReceivable`: `closeProtection` marks the default, although
"No protection transition changes the receivable state" (`docs/architecture.md:155`,
`MordantInvoiceVault.sol:629`). `ProfilePrecedesResult`: the look for a result and the creation of the
profile are two calls (`settlement-profile-store.ts:103`, :121, against :25); what the comment concludes
from it, `ChosenBlind`, holds.

Formulas that hold in the instances of these runs and are in no standing run: `HistoryAddsUp` and the
vault's other parts, `PledgeIsAuthorized`, `RevealOpensCommitment`, `FrozenForever`, `UncertainIsNotReplayed`,
`NothingBeforeConsent`, `OneSessionIsOpen`, `EvidenceIsChained`, `SentIsRecorded`.

## Plan

1. Done: adapter, its promise and proofs; vault; bridge; product case, admission, worker and pages;
   participant-originated imports and cases; evidence; the resumable runs; the operator's tools.
2. `CoalitionAdapter`: serving quorum, the split Boolean and the transfer policy in `claim`; it should
   implement `RecoursePromise` too.
3. Session ledgers of the one-shot and threshold runtimes; V4 and V5 registries and binders; identity
   registries.
4. Proofs: `SingleActiveCase` of the worker, once its journeys ask whether it is busy; an abstract
   specification of a journaled execution that `PrivateMatch` and `JournaledRun` both implement.

## Not modelled

- The coalition adapter, the V4 and V5 registries, the identity registries and the runtimes' session
  ledgers: planned above.
- Lattice cryptography, hashing, EIP-712 encoding, canonical JSON and text normalisation: data whose
  correctness no small state space shows.
- Factory V2 and vault V2 add immutable identity anchors and no transition.
- Tools that only read (leak scan, bytecode comparison, read-backs of the private match), static
  pages, view models, the synthetic product fixtures, the QR encoder, the recorded review and the
  end-to-end harness keep no protocol state. `session-protocol.mjs` is used by its own test only.
- HTTP parsing, CORS and health bodies of the worker; its disk is taken to suffice. Its cached views are not
  modelled either: while a run is held (423), a read is answered from the cache
  (`mordant-live-worker.mjs:1045`, :1136), which a read that finishes late may have set back (:1035). So
  `NeverGoesBack` says nothing of cached answers.
- The bridge executor's older path over committed artifacts shares `simulate` and `sign` with the
  modelled one; the V1 admission schema is read for retained evidence only.
