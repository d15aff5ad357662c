----------------------------- MODULE MCPosting -----------------------------
(* Posting with named requests and the workloads of the run.                *)
EXTENDS Posting, TLC

CONSTANTS r1, r2, r3

ThreeRequests == {r1, r2, r3}
AllAlike == Permutations(ThreeRequests)

Everything == {"create", "create_posted", "update", "post", "reverse",
               "delete", "close", "reopen"}
Documents == {"create_posted", "reverse"}
Calendar == {"create_posted", "close", "reopen"}

\* One process that serves everything, or three that post documents, one of
\* which looks after the periods too.
MCWorkloads ==
    UNION {{[p \in ThreeRequests |-> IF p = q THEN Everything ELSE {}],
            [p \in ThreeRequests |-> IF p = q THEN Calendar ELSE Documents]}
               : q \in ThreeRequests}
=============================================================================
