--------------------------- MODULE MCOnboarding ----------------------------
(* Onboarding with named requests, keys and accounts for the runs.          *)
EXTENDS Onboarding

CONSTANTS r1, r2, k1, g1, g2, m1

OneRequest == {r1}
TwoRequests == {r1, r2}
OwnKey == {k1}
Nothing == {NoKey}
NewKeys == {g1, g2}
Multisig == {m1}
=============================================================================
