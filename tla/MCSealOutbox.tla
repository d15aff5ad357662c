--------------------------- MODULE MCSealOutbox ----------------------------
(* SealOutbox with named processes, for the configurations of the runs.     *)
EXTENDS SealOutbox, TLC

CONSTANTS w1, w2, r1

OneWorker == {w1}
TwoWorkers == {w1, w2}
OneRequest == {r1}

WorkersAlike == Permutations(TwoWorkers)
=============================================================================
