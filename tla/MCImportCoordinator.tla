------------------------ MODULE MCImportCoordinator ------------------------
(***************************************************************************)
(* An instance of ImportCoordinator for TLC.  Tickets t1 and t2 are for    *)
(* two roles and share a nonce, so that the one that comes second has      *)
(* taken its role when it is refused.                                      *)
(***************************************************************************)
EXTENDS ImportCoordinator, TLC

CONSTANTS p1, p2, t1, t2, r1, r2, n1

AllClaims == {r1, r2, n1}
MixedNeeds == [t \in Tickets |-> IF t = t1 THEN <<r1, n1>> ELSE <<r2, n1>>]

MCSymmetry == Permutations(Procs)
=============================================================================
