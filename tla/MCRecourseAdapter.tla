-------------------------- MODULE MCRecourseAdapter --------------------------
(***************************************************************************)
(* A small adapter for TLC: two runs, two results, one holder pair, and    *)
(* every release those allow with payouts of 0, 1 or 2 units.              *)
(***************************************************************************)
EXTENDS RecourseAdapter

CONSTANTS r1, r2, d1, d2, alice, bob, owner, facility, attestor, zero

MCRuns     == {r1, r2}
MCResults  == {d1, d2}
MCAccounts == {alice, bob, owner, facility, attestor}
MCScreened == {<<facility, "Facility">>, <<alice, "Holder">>, <<bob, "Holder">>}

(* The well-formed releases, and one of each kind the contract must refuse. *)
Base ==
    [runId |-> r1, governedResultDigest |-> d1,
     holder |-> [s \in Sides |-> IF s = "A" THEN alice ELSE bob],
     payout |-> [s \in Sides |-> 1], conflict |-> TRUE, pins |-> "match",
     nonce |-> 0, issuedAt |-> 0, expiry |-> 1, signer |-> attestor]

Payouts(a, b) == [s \in Sides |-> IF s = "A" THEN a ELSE b]

MCReleases ==
    {[Base EXCEPT !.runId = run, !.governedResultDigest = d, !.payout = p] :
        run \in MCRuns, d \in MCResults,
        p \in {Payouts(1, 1), Payouts(2, 1), Payouts(0, 2)}}
    \cup
    {[Base EXCEPT !.runId = run, !.governedResultDigest = d, !.conflict = FALSE,
                  !.payout = Payouts(0, 0), !.issuedAt = 1, !.nonce = n] :
        run \in MCRuns, d \in MCResults, n \in 0..1}
    \cup
    {[Base EXCEPT !.pins = "mismatch"], [Base EXCEPT !.signer = facility],
     [Base EXCEPT !.conflict = FALSE], [Base EXCEPT !.payout = Payouts(0, 0)],
     [Base EXCEPT !.runId = zero], [Base EXCEPT !.governedResultDigest = zero],
     [Base EXCEPT !.holder = [s \in Sides |-> zero]]}
=============================================================================
