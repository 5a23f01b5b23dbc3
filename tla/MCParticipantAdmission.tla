----------------------- MODULE MCParticipantAdmission -----------------------
(* Instances of ParticipantAdmission for TLC.                              *)
EXTENDS ParticipantAdmission, TLC

CONSTANTS p1, p2, q1, q2

bodyA ==
    [role |-> "A", signedRole |-> "A", wallet |-> "holderA", nonce |-> "n1",
     window |-> "w1", sent |-> "w1", key |-> "published", authentic |-> TRUE]

bodyB ==
    [role |-> "B", signedRole |-> "B", wallet |-> "holderB", nonce |-> "n2",
     window |-> "w1", sent |-> "w1", key |-> "published", authentic |-> TRUE]

(* Two windows of the right wallet for each role, B also with A's nonce,   *)
(* a window other than the signed one, and another signing key.            *)
SomeBodies ==
    {bodyA, [bodyA EXCEPT !.window = "w2", !.sent = "w2"],
     [bodyA EXCEPT !.sent = "w2"], [bodyA EXCEPT !.key = "other"],
     bodyB, [bodyB EXCEPT !.nonce = "n1"]}

TwoProcesses == [q \in Requests |-> IF q = q1 THEN p1 ELSE p2]

=============================================================================
