--------------------------- MODULE MCProofLedger ---------------------------
(* ProofLedger on a small instance: one namespace, two accounts that may    *)
(* hold it, chains of up to three seals over three dates.                   *)
EXTENDS ProofLedger, TLC

CONSTANTS o1, a1, a2, r1, r2

MCOrgs == {o1}
MCAddresses == {a1, a2}
MCRoots == {GENESIS, r1, r2}

Symmetry == Permutations(MCAddresses) \cup Permutations({r1, r2})
=============================================================================
