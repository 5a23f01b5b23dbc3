--------------------------- MODULE MCJournaledRun ---------------------------
(***************************************************************************)
(* Two executions that survive their process: the journaled V5 run and the *)
(* deal room's living run.  They share nothing, so a behaviour is about    *)
(* one of them and leaves the other where it starts.                       *)
(***************************************************************************)
EXTENDS JournaledRun, LivingDemo, TLC

VARIABLE part  \* "journaled" or "living"

Everywhere == Stage

Contested == Sources \cup {"SESSION_COMMITTED"}

(* A transaction that may be repeated, one that may not and needs the      *)
(* signature before it, and the passing of time.                           *)
SampleSteps == <<"approve-funding", "sign-conflict", "commit", "cure-window">>

(* The requests are interchangeable.                                       *)
MCSymmetry == Permutations(Slots)

MCInit == Init /\ DemoInit /\ part \in {"journaled", "living"}

MCNext ==
  \/ part = "journaled" /\ Next /\ UNCHANGED <<part, demoVars>>
  \/ part = "living" /\ DemoNext /\ UNCHANGED <<part, vars>>

MCSpec == MCInit /\ [][MCNext]_<<part, vars, demoVars>>
=============================================================================
