--------------------------- MODULE MCProtectionRun ---------------------------
(***************************************************************************)
(* Instances of ProtectionRun for TLC.                                     *)
(***************************************************************************)
EXTENDS ProtectionRun

Case(kind, coalition, policy, truth) ==
    [kind |-> kind, coalition |-> coalition, policy |-> policy, truth |-> truth]

MCVariants ==
    {Case("fixed", FALSE, FALSE, b) : b \in BOOLEAN}
        \cup {Case("operator", FALSE, TRUE, TRUE), Case("operator", TRUE, FALSE, TRUE)}
        \cup {Case("admitted", TRUE, FALSE, TRUE), Case("admitted", FALSE, FALSE, FALSE)}

MCOperations ==
    {"prepare", "claimA", "submitA", "claimB", "submitB", "evaluate", "release", "recourse",
     "cure", "export", "retain", "read", "contextA", "contextB", "replay"}

(* A fixed case whose view is read while another caller drives it. *)
MCFixed == {Case("fixed", FALSE, FALSE, TRUE)}

MCPublicRun ==
    {"prepare", "submitA", "submitB", "evaluate", "release", "recourse", "cure", "export", "read"}
=============================================================================
