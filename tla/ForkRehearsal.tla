--------------------------- MODULE ForkRehearsal ---------------------------
(***************************************************************************)
(* The rehearsals on a local fork of the test network, before anything is  *)
(* deployed for good:                                                      *)
(*   scripts/m13-fork-lib.mjs                the controls they share       *)
(*   scripts/m13-control-a.mjs               the observed A-Pass call      *)
(*   scripts/m13a-ceremony.mjs               "a": supply and minter roles  *)
(*   scripts/m13b-vault-binding.mjs          "b": and a bound vault        *)
(*   scripts/m13c-activation-terminal.mjs    "c": and both ways it ends    *)
(*                                                                         *)
(* A rehearsal exists to find out whether the contracts and the ground     *)
(* they stand on are what the deployment assumes.  So what may be wrong    *)
(* with them is a parameter of the model, and what the rehearsal claims is *)
(* compared with it.  A fork is a process of its own, on a port of its     *)
(* own; it outlives a script that is killed, and the next run of that      *)
(* script then talks to the old one, which it does not own and cannot stop.*)
(***************************************************************************)
EXTENDS Integers, FiniteSets

CONSTANTS
  Half,         \* the units of each of the two holders
  MaxFlaws,     \* bound: flaws at once
  MaxRehearsals \* bound: rehearsals

ASSUME RehearsalAssumption == Half \in Nat \ {0} /\ MaxFlaws \in Nat /\ MaxRehearsals \in Nat

VARIABLES
  world,        \* what is wrong with the contracts and the ground
  ports,        \* the fork that listens for each script
  aside,        \* the state of the fork that was set aside
  rehearsal,    \* the script that runs
  shelf,        \* the artifact of each script
  rehearsals    \* rehearsals so far

forkVars == <<world, ports, aside, rehearsal, shelf, rehearsals>>

WholeSupply == 2 * Half

\* What a deployment would trip over: the ground that moved, an issuance that
\* cannot be repeated for another address, a policy that refuses, a minter
\* nobody knows of, and contracts that settle wrongly.
Flaws ==
  {"reorged", "not issuable", "policy refuses", "other minter", "binds elsewhere", "short proceeds",
   "books left", "escrow left", "release burns", "release short"}

Rehearsals == {"a", "b", "c"}

\* The pinned block, before anything was sent.
Fresh ==
  [height |-> 0, passes |-> {}, minters |-> {}, supply |-> 0, adapter |-> 0, holders |-> 0, receipts |-> 0,
   accounted |-> 0, burned |-> 0, released |-> 0, escrow |-> 0, bound |-> "none", proceeds |-> 0,
   funded |-> FALSE]

NoFork == [Fresh EXCEPT !.height = -1]

NoRehearsal == [script |-> "none", pc |-> "idle", own |-> FALSE]

NoArtifact == [class |-> "none", exclusive |-> FALSE]

RehearsalTypeOK ==
  /\ world \subseteq Flaws
  /\ DOMAIN ports = Rehearsals
  /\ rehearsal.script \in Rehearsals \cup {"none"}
  /\ \A s \in Rehearsals : shelf[s].class \in {"none", "PROVEN"}
  /\ rehearsals \in 0..MaxRehearsals

RehearsalInit ==
  /\ world \in {w \in SUBSET Flaws : Cardinality(w) <= MaxFlaws}
  /\ ports = [s \in Rehearsals |-> NoFork]
  /\ aside = Fresh
  /\ rehearsal = NoRehearsal
  /\ shelf = [s \in Rehearsals |-> NoArtifact]
  /\ rehearsals = 0

-----------------------------------------------------------------------------

chain == ports[rehearsal.script]

at(pc) == rehearsal.pc = pc

\* The next step, with a chain that has moved on.
step(pc, next) ==
  /\ rehearsal' = [rehearsal EXCEPT !.pc = pc]
  /\ ports' = [ports EXCEPT ![rehearsal.script] = [next EXCEPT !.height = chain.height + 1]]
  /\ UNCHANGED <<world, aside, shelf, rehearsals>>

\* The script ends, and its own fork with it; an older one goes on.
stopFork ==
  /\ ports' = IF rehearsal.own THEN [ports EXCEPT ![rehearsal.script] = NoFork] ELSE ports
  /\ rehearsal' = NoRehearsal

\* A control fails, and nothing is written.
refuseRehearsal == stopFork /\ UNCHANGED <<world, aside, shelf, rehearsals>>

\* The rehearsal ends with an artifact.
conclude(class, exclusive) ==
  /\ shelf' = [shelf EXCEPT ![rehearsal.script] = [class |-> class, exclusive |-> exclusive]]
  /\ stopFork
  /\ UNCHANGED <<world, aside, rehearsals>>

\* The writes can only reach this machine, whatever the endpoints are.
begin ==
  \E script \in Rehearsals :
    /\ rehearsal = NoRehearsal /\ rehearsals < MaxRehearsals
    /\ rehearsal' = [NoRehearsal EXCEPT !.script = script, !.pc = "control"]
    /\ rehearsals' = rehearsals + 1
    /\ UNCHANGED <<world, ports, aside, shelf>>

\* The observed issuance is replayed on a fork of its own, at the parent block:
\* no A-Pass before, one after, minted to the observed subject.  Without it
\* nothing is tried.
runControlA ==
  /\ at("control")
  /\ \E proven \in BOOLEAN :
       /\ proven => "reorged" \notin world
       /\ rehearsal' = IF proven THEN [rehearsal EXCEPT !.pc = "spawn"] ELSE NoRehearsal
  /\ UNCHANGED <<world, ports, aside, shelf, rehearsals>>

\* A fork is started at the pinned block.  Where one still listens, the new one
\* cannot, and the old one answers.
spawnFork ==
  /\ at("spawn")
  /\ ports' = [ports EXCEPT ![rehearsal.script] = IF @ = NoFork THEN Fresh ELSE @]
  /\ rehearsal' = [rehearsal EXCEPT !.pc = "pin", !.own = chain = NoFork]
  /\ UNCHANGED <<world, aside, shelf, rehearsals>>

\* The head is the pinned block, by its number and its hash.
assertPinnedBlock(fork) == fork.height = 0 /\ "reorged" \notin world

pin ==
  /\ at("pin")
  /\ IF assertPinnedBlock(chain)
     THEN rehearsal' = [rehearsal EXCEPT !.pc = "ceremony"]
          /\ UNCHANGED <<world, ports, aside, shelf, rehearsals>>
     ELSE refuseRehearsal

\* One address of the observed call is replaced, and nothing else: the A-Pass
\* is minted to it.
issueApassFor(subjects) == IF "not issuable" \in world THEN chain.passes ELSE chain.passes \cup subjects

\* The adapter is deployed and, like the participants, given an A-Pass.
ceremony ==
  /\ at("ceremony")
  /\ LET next == [chain EXCEPT !.passes = issueApassFor({"adapter", "participants"})] IN
       IF "adapter" \in next.passes /\ (rehearsal.script = "a" => "policy refuses" \notin world)
       THEN step("supply", next) ELSE refuseRehearsal

\* A temporary minter is granted the role, mints everything to the adapter and
\* loses it; then the adapter is granted it.  The three accounts the script
\* knows are asked about, and the supply.
supplyCeremony ==
  /\ at("supply")
  /\ LET others == IF "other minter" \in world THEN {"other"} ELSE {}
         next == [chain EXCEPT !.supply = @ + WholeSupply, !.adapter = @ + WholeSupply, !.minters = others \cup {"adapter"}] IN
       IF rehearsal.script = "a" /\ ~(next.supply = WholeSupply /\ next.adapter = WholeSupply)
       THEN refuseRehearsal
       ELSE step(IF rehearsal.script = "a" THEN "history" ELSE "fund", next)

\* The minters as of the last event about each account.
deriveActiveMinters == chain.minters

\* The adapter, and nobody else.
classifyMinterExclusivity(active) == active = {"adapter"}

\* The history of the role, from the block the token came into being at; where
\* it cannot be read, nothing is claimed.
minterHistory ==
  /\ at("history")
  /\ \E complete \in BOOLEAN :
       conclude("PROVEN", complete /\ classifyMinterExclusivity(deriveActiveMinters))

\* The two payers are funded, and each leg and the sum are reconciled.
fundLegs ==
  /\ at("fund")
  /\ step("vault", [chain EXCEPT !.funded = TRUE])

\* The verifier, the factory and the vault are deployed, and the vault is given
\* its A-Pass.
createInvoiceVault ==
  /\ at("vault")
  /\ step("bind", [chain EXCEPT !.passes = issueApassFor({"vault"})])

\* Everything the binding asks for, asked before.
checkBindPreconditions(c) ==
  /\ {"adapter", "vault", "participants"} \subseteq c.passes
  /\ "policy refuses" \notin world
  /\ c.supply = WholeSupply /\ c.adapter = WholeSupply
  /\ "adapter" \in c.minters
  /\ c.bound = "none"

\* The vault is bound, and the adapter says so.
bindVault ==
  /\ at("bind")
  /\ LET next == [chain EXCEPT !.bound = IF "binds elsewhere" \in world THEN "elsewhere" ELSE "vault",
                               !.accounted = WholeSupply] IN
       IF ~checkBindPreconditions(chain) \/ next.bound # "vault" THEN refuseRehearsal
       ELSE IF rehearsal.script = "b" THEN conclude("PROVEN", FALSE)
       ELSE step("activate", next)

\* What the activation paid, and what it wrote down.
validateActivation(c) ==
  /\ c.proceeds = WholeSupply
  /\ c.receipts = WholeSupply
  /\ c.accounted = WholeSupply

\* The vault is activated; the fork is set aside as it is now.
activate ==
  /\ at("activate")
  /\ LET next == [chain EXCEPT !.receipts = WholeSupply, !.height = @ + 1,
                               !.proceeds = IF "short proceeds" \in world THEN WholeSupply - 1 ELSE WholeSupply] IN
       IF ~validateActivation(next) THEN refuseRehearsal
       ELSE /\ rehearsal' = [rehearsal EXCEPT !.pc = "redeem"]
            /\ ports' = [ports EXCEPT !["c"] = next]
            /\ aside' = next
            /\ UNCHANGED <<world, shelf, rehearsals>>

\* Supply and custody both fall by everything.
validateBurnTokenDeltaShape(b, a) == b.supply - a.supply = WholeSupply /\ b.adapter - a.adapter = WholeSupply

\* Mistake: the token is all that is looked at.
validateScenarioA_Token(b, a) == validateBurnTokenDeltaShape(b, a)

\* The burn is right in the token and in the vault's own books.
validateScenarioA(b, a) ==
  /\ validateBurnTokenDeltaShape(b, a)
  /\ a.supply = 0 /\ a.adapter = 0 /\ a.receipts = 0
  /\ a.accounted = 0 /\ a.burned = WholeSupply /\ a.escrow = 0

\* Scenario A: the buyer pays, both holders redeem, and everything is burned.
redeem ==
  /\ at("redeem")
  /\ LET next == [chain EXCEPT !.supply = @ - WholeSupply, !.adapter = @ - WholeSupply, !.receipts = 0, !.burned = WholeSupply,
                               !.accounted = IF "books left" \in world THEN @ ELSE 0,
                               !.escrow = IF "escrow left" \in world THEN 1 ELSE 0] IN
       IF validateScenarioA(chain, next) THEN step("revert", next) ELSE refuseRehearsal

\* The fork is what it was after the activation.
revert ==
  /\ at("revert")
  /\ ports' = [ports EXCEPT !["c"] = aside]
  /\ rehearsal' = [rehearsal EXCEPT !.pc = "default"]
  /\ UNCHANGED <<world, aside, shelf, rehearsals>>

\* Custody falls, the holders have it, the supply stays.
validateReleaseTokenDeltaShape(b, a) ==
  /\ b.supply = a.supply
  /\ b.adapter - a.adapter = WholeSupply
  /\ a.holders - b.holders = WholeSupply
  /\ b.receipts - a.receipts = WholeSupply

validateScenarioB(b, a) ==
  /\ validateReleaseTokenDeltaShape(b, a)
  /\ a.supply = WholeSupply /\ a.adapter = 0 /\ a.receipts = 0 /\ a.accounted = 0 /\ a.released = WholeSupply

\* Scenario B: a second facility proves a conflict, nobody cures, the invoice
\* defaults and both holders are given the token itself.
releaseDefaultCva ==
  /\ at("default")
  /\ LET next == [chain EXCEPT !.adapter = @ - WholeSupply, !.receipts = @ - WholeSupply, !.released = WholeSupply, !.accounted = 0,
                               !.supply = IF "release burns" \in world THEN @ - WholeSupply ELSE @,
                               !.holders = @ + (IF "release burns" \in world THEN 0
                                                ELSE IF "release short" \in world THEN WholeSupply - 1 ELSE WholeSupply)] IN
       IF validateScenarioB(chain, next) THEN step("verdict", next) ELSE refuseRehearsal

\* Every stage has held, or the script would have stopped.
classifyRehearsal ==
  /\ at("verdict")
  /\ conclude("PROVEN", FALSE)

\* A call fails, or the fork does not answer.
rehearsalFails ==
  /\ rehearsal.pc \in {"pin", "ceremony", "supply", "fund", "vault", "bind", "activate", "redeem", "revert", "default"}
  /\ refuseRehearsal

\* The script is killed, and its fork stays where it is.
killRehearsal ==
  /\ rehearsal # NoRehearsal
  /\ rehearsal' = NoRehearsal
  /\ UNCHANGED <<world, ports, aside, shelf, rehearsals>>

RehearsalNext ==
  \/ begin \/ runControlA \/ spawnFork \/ pin \/ ceremony \/ supplyCeremony \/ minterHistory \/ fundLegs
  \/ createInvoiceVault \/ bindVault \/ activate \/ redeem \/ revert \/ releaseDefaultCva \/ classifyRehearsal
  \/ rehearsalFails \/ killRehearsal

RehearsalSpec == RehearsalInit /\ [][RehearsalNext]_forkVars

-----------------------------------------------------------------------------

\* A rehearsal that claims something is right about it: a proven ceremony that
\* claims exclusivity has no other minter, a proven binding bound the vault on
\* the pinned ground under the policy, and a proven rehearsal of both endings
\* has none of the flaws it is there to find, also when an earlier run was
\* killed and its fork is still there.
RehearsalIsTrue ==
  /\ shelf["a"].exclusive => "other minter" \notin world
  /\ shelf["a"].class = "PROVEN" => world \cap {"reorged", "not issuable", "policy refuses"} = {}
  /\ shelf["b"].class = "PROVEN" => world \cap {"reorged", "not issuable", "policy refuses", "binds elsewhere"} = {}
  /\ shelf["c"].class = "PROVEN" => world \subseteq {"other minter"}

=============================================================================
