---------------------------- MODULE MCLiveWorker ----------------------------
(***************************************************************************)
(* The live service and the pages that use it.  The worker, the managed    *)
(* pages and the two-wallet page each carry their own view of the others,  *)
(* so a behaviour is about one of them and leaves the others where they    *)
(* start.                                                                  *)
(***************************************************************************)
EXTENDS LiveWorker, ManagedPages, DirectPage, TLC

VARIABLE part  \* "worker", "managed" or "direct"

MCSettings ==
    {[direct |-> FALSE, coalition |-> FALSE, failures |-> TRUE],
     [direct |-> TRUE, coalition |-> TRUE, failures |-> TRUE]}

(* Requests and tokens are each interchangeable.                           *)
MCSymmetry == Permutations(Requests) \cup Permutations(Tokens)

MCInit ==
    /\ Init /\ PagesInit /\ DirectInit
    /\ part \in {"worker", "managed", "direct"}
    /\ part # "worker" => ~config.direct
    /\ part # "managed" => surface = "mini"
    /\ part # "direct" => store = << >>

MCNext ==
    \/ part = "worker" /\ Next /\ UNCHANGED <<part, pageVars, directVars>>
    \/ part = "managed" /\ PagesNext /\ UNCHANGED <<part, vars, directVars>>
    \/ part = "direct" /\ DirectNext /\ UNCHANGED <<part, vars, pageVars>>

MCSpec == MCInit /\ [][MCNext]_<<part, vars, pageVars, directVars>>
=============================================================================
