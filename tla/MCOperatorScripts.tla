------------------------- MODULE MCOperatorScripts -------------------------
(***************************************************************************)
(* The operator's tools: the scripts on the network, the rehearsals on a   *)
(* fork, and the protection page with its local adapter.  They share no    *)
(* state, so a behaviour uses one of them and leaves the others where they *)
(* start.                                                                  *)
(*                                                                         *)
(* On the network: two runs of any two of the scripts that write as they   *)
(* go; the activation of one case, from the plan to the terminal step,     *)
(* with one script tried a second time; and the scripts that only read.    *)
(* On a fork: three rehearsals, with up to two things wrong.  On the page: *)
(* two cases, three mutations, two faults and two reloads.                  *)
(***************************************************************************)
EXTENDS ChainRunner, ForkRehearsal, OperatorConsole, TLC

VARIABLE tool  \* the tool this behaviour is about

MCActivation ==
  <<{"plan"}, {"deploy"}, {"apass", "deploy"}, {"configure", "apass"}, {"consume", "configure"},
    {"terminal", "consume"}, {"terminal"}>>

MCCampaigns ==
  {<< >>, <<Checkpointing, Checkpointing>>, MCActivation,
   <<{"withdraw", "readback", "manifest"}, {"withdraw", "adapterPath", "phaseA"}, {"phaseB"}>>}

MCOuts == {"o1", "o2", "o3", "planned", "deployed", "case", "released", "settled"}

MCOutsOf ==
  [s \in Scripts |-> CASE s = "plan" -> {"planned"}
                       [] s = "deploy" -> {"deployed"}
                       [] s = "consume" -> {"released"}
                       [] s = "terminal" -> {"settled"}
                       [] s \in Checkpointing -> {"o1", "o2", "o3"}
                       [] OTHER -> {"case"}]

MCFreshFor == {"launch"}

MCChain == <<"evaluatePrivateConflict", "exportProtectionEvidence">>
MCLabels == {"conflict", "no-conflict"}

\* The page tells no case from another.
MCSymmetry == Permutations(Cases)

MCInit ==
  /\ RunnerInit /\ RehearsalInit /\ ConsoleInit
  /\ tool \in {"scripts", "fork", "console"}
  /\ tool = "scripts" <=> campaign # << >>
  /\ tool # "fork" => world = {}
  /\ tool # "console" => page.scenario = "conflict"

MCNext ==
  \/ tool = "scripts" /\ RunnerNext /\ UNCHANGED <<tool, forkVars, consoleVars>>
  \/ tool = "fork" /\ RehearsalNext /\ UNCHANGED <<tool, runnerVars, consoleVars>>
  \/ tool = "console" /\ ConsoleNext /\ UNCHANGED <<tool, runnerVars, forkVars>>

MCSpec == MCInit /\ [][MCNext]_<<tool, runnerVars, forkVars, consoleVars>>
=============================================================================
