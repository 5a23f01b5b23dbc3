------------------------- MODULE MCSettlementBridge -------------------------
(***************************************************************************)
(* A small run directory for TLC: a committer races the result, and two    *)
(* executors race each other on it with two nonces while the selected      *)
(* configuration may change at any time.                                   *)
(***************************************************************************)
EXTENDS SettlementBridge, TLC

CONSTANTS r1, d1, alice, bob, owner, facility, attestor, zero, c1, e1, e2

MCRuns     == {r1}
MCResults  == {d1}
MCAccounts == {alice, bob, owner, facility, attestor}
MCScreened == {<<facility, "Facility">>, <<alice, "Holder">>, <<bob, "Holder">>}

Holders(a, b) == [s \in Sides |-> IF s = "A" THEN a ELSE b]

Payouts(a, b) == [s \in Sides |-> IF s = "A" THEN a ELSE b]

MCAdmitted == Holders(alice, bob)

Even    == [holder |-> MCAdmitted, payout |-> Payouts(1, 1)]
Uneven  == [holder |-> MCAdmitted, payout |-> Payouts(1, 2)]

Committed(terms, mode) ==
    [holder |-> terms.holder, payout |-> terms.payout, authorized |-> mode]

Released(terms, n) ==
    [runId |-> r1, governedResultDigest |-> d1, holder |-> terms.holder,
     payout |-> terms.payout, conflict |-> TRUE, pins |-> "match", nonce |-> n,
     issuedAt |-> 0, expiry |-> 1, signer |-> attestor]

(* One of the configurations is not the committed one. *)
MCProfiles == {Committed(Even, TRUE), Committed(Even, FALSE)}
MCConfigurations == {Even, Uneven}
MCReleases == {Released(t, n) : t \in MCConfigurations, n \in 0..1}

MCSymmetry == Permutations(Executors)
=============================================================================
