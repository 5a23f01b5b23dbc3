--------------------------- MODULE MCInvoiceVault ---------------------------
(* A small vault for TLC: three units worth a face of four, so that the     *)
(* face of a unit and the holders' shares leave a remainder.                *)
EXTENDS InvoiceVault

CONSTANTS b, o, s, f1, f2, h1, h2

MCAccounts == {b, o, s, f1, f2, h1, h2}

MCGranted ==
    {<<b, "Buyer">>, <<s, "Originator">>, <<f1, "Facility">>,
     <<f2, "Facility">>, <<h1, "Holder">>, <<h2, "Holder">>}

SignedPledge(facility, from, until, nonce) ==
    [originatorSigner |-> s, signer |-> s, facility |-> facility,
     activeFrom |-> from, activeUntil |-> until, nonce |-> nonce,
     deadline |-> until, fits |-> TRUE]

Protected   == SignedPledge(f1, 0, 9, 1)
Conflicting == SignedPledge(f2, 0, 9, 2)
Replayed    == SignedPledge(f2, 0, 8, 1)     \* reuses the protected nonce

MCPledges == {Protected, Conflicting, Replayed}

MCCancellations ==
    {[pledge |-> Conflicting, signer |-> s, nonce |-> 1, deadline |-> 9]}

MCCommitments == {[pledge |-> p, facility |-> f2] : p \in {Conflicting, Replayed}}

MCAllocations == {<< <<h1, 2>>, <<h2, 1>> >>}

(* A holder may lose its cash policy and the adapter its integrity.        *)
MCDeniable == {<<"cash", h1>>, <<"integrity", Adapter>>}
=============================================================================
