--------------------------- MODULE MCOrigination ---------------------------
(***************************************************************************)
(* How a case comes about and what its documents prove.  Two cases are     *)
(* originated, the first of which conflicts; participant A signs and       *)
(* encrypts beyond what it is asked.  Two cases are documented, and their  *)
(* documents are mixed and altered.  The two share nothing, so a behaviour *)
(* is about one of them and leaves the other where it starts.              *)
(***************************************************************************)
EXTENDS Origination, EvidenceChain

VARIABLE part  \* "origination" or "evidence"

MCCases == <<TRUE, FALSE>>
MCWandering == {"A"}
MCEvidenceCases == 1..2
MCRetainedCases == {1}

MCInit == Init /\ EvidenceInit /\ part \in {"origination", "evidence"}

MCNext ==
  \/ part = "origination" /\ Next /\ UNCHANGED <<part, evidenceVars>>
  \/ part = "evidence" /\ EvidenceNext /\ UNCHANGED <<part, vars>>

MCSpec == MCInit /\ [][MCNext]_<<part, vars, evidenceVars>>
=============================================================================
