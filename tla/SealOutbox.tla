---------------------------- MODULE SealOutbox -----------------------------
(***************************************************************************)
(* Sealing one organisation's journal: the transactional outbox of         *)
(* backend/app/modules/attestation (service.py, worker.py, hooks.py,       *)
(* repository.py, stellar.py) against the contract of ProofLedger.         *)
(*                                                                         *)
(* Leaves of posted entries wait in the database.  create_seal() writes a  *)
(* PENDING seal row over a batch of them; submit() gets a row onto the     *)
(* chain.  Each request, and each worker pass, is one READ COMMITTED       *)
(* database transaction: `tx[p]` is what process p holds in memory, and    *)
(* `rows` and `leaves` change when it commits.  Two kinds of process run   *)
(* this code:                                                              *)
(*   Workers    drain open rows, and seal on the daily cadence;            *)
(*   Requests   seal_now(), which creates and submits in one request, or   *)
(*              the period-close hook, which only creates.                 *)
(*                                                                         *)
(* A Merkle root is the set of leaf numbers under it: batches are ordered  *)
(* by leaf_seq, so equal sets give equal roots, and a hash collision is    *)
(* not considered.  GENESIS is the empty set.  `created` is the server's   *)
(* clock when a leaf was written; the clock may step back.                 *)
(*                                                                         *)
(* An operator named Mut_... is a plausible mistake in the operator after  *)
(* it; nothing here uses it.                                               *)
(***************************************************************************)
EXTENDS Integers, Sequences, FiniteSets

CONSTANTS
    Org, Signer, NoBook,
    Workers, Requests,
    MAX_SEAL_ATTEMPTS,  \* attempts after which a refused seal is given up
    seal_max_batch,     \* leaves per seal
    PassesApart,        \* whether one worker runs, and its passes and restarts
                        \* are further apart than a transaction lives
    MayDisable,         \* whether an operator switches sealing off and on
    MaxLeaves,          \* bound on posted entries
    MaxRows,            \* bound on seal rows
    MaxClock,           \* bound on the server's clock
    MaxFaults           \* bound on network faults and process crashes

VARIABLES
    books, seals,       \* the contract's storage
    net,                \* seal() transactions sent, neither applied nor dead
    fresh,              \* sequence numbers accepted since the local day turned
    leaves,             \* SealLeaf rows by leaf_seq
    rows,               \* Seal rows by id
    enabled,            \* AttestationSetting.enabled
    tx,                 \* each process's open transaction
    faults              \* faults so far

ledger == <<books, seals>>
db     == <<leaves, rows, enabled>>
vars   == <<books, seals, net, fresh, leaves, rows, enabled, tx, faults>>

Procs == Workers \cup Requests

GENESIS == {}

PL == INSTANCE ProofLedger
        WITH Orgs <- {Org}, Addresses <- {Signer},
             Roots <- SUBSET (1 .. MaxLeaves), MaxSeq <- MaxRows,
             MaxCount <- MaxLeaves, MaxPeriod <- MaxClock, MaxTime <- 0,
             now <- 0

ASSUME ProcsAssumption ==
    Workers \cap Requests = {} /\ IsFiniteSet(Requests)

ASSUME LimitsAssumption ==
    /\ MAX_SEAL_ATTEMPTS \in Nat \ {0}
    /\ seal_max_batch \in Nat \ {0}

ASSUME BoundsAssumption ==
    MaxLeaves \in Nat /\ MaxRows \in Nat /\ MaxClock \in Nat /\ MaxFaults \in Nat

ASSUME NoBookAssumption == NoBook \notin PL!Book

----------------------------------------------------------------------------
(* The tables and the queries over them, on committed data.                *)

Row == [seq: 0 .. MaxRows, root: SUBSET (1 .. MaxLeaves),
        prev: SUBSET (1 .. MaxLeaves), from: 0 .. MaxClock, to: 0 .. MaxClock,
        status: {"none", "pending", "submitted", "confirmed", "failed"},
        attempts: Nat]

NoRow == [seq |-> 0, root |-> GENESIS, prev |-> GENESIS, from |-> 0, to |-> 0,
          status |-> "none", attempts |-> 0]

Idle == [pc |-> "idle", batch |-> {}, previous |-> NoRow, id |-> 0,
         row |-> NoRow, wrote |-> FALSE]

IsOpen(r) == r.status \in {"pending", "submitted"}
IsLive(r) == r.status # "failed"

open_work == {i \in DOMAIN rows : IsOpen(rows[i])}
exists_open == open_work # {}

unsealed == {n \in DOMAIN leaves : leaves[n].seal = 0}
Mut_NewestFirst ==
    {n \in unsealed : Cardinality({m \in unsealed : m >= n}) <= seal_max_batch}
Batch == {n \in unsealed :
              Cardinality({m \in unsealed : m <= n}) <= seal_max_batch}

confirmed == {i \in DOMAIN rows : rows[i].status = "confirmed"}
latest_confirmed ==
    IF confirmed = {} THEN NoRow
    ELSE rows[CHOOSE i \in confirmed :
                  \A j \in confirmed : rows[j].seq <= rows[i].seq]

live_seqs == {rows[i].seq : i \in {j \in DOMAIN rows : IsLive(rows[j])}}
highest_live_seq == LET S == {0} \cup live_seqs
                    IN  CHOOSE n \in S : \A m \in S : m <= n

first(S) == CHOOSE n \in S : \A m \in S : n <= m
last(S) == CHOOSE n \in S : \A m \in S : m <= n

\* The batch's posting window, clamped to start where the previous one ended.
Mut_NoClamp(batch, previous) ==
    [from |-> leaves[first(batch)].created, to |-> leaves[last(batch)].created]
covered_window(batch, previous) ==
    LET start == leaves[first(batch)].created
        end   == leaves[last(batch)].created
        from  == IF start < previous.to THEN previous.to ELSE start
    IN  [from |-> from, to |-> IF end < from THEN from ELSE end]

\* The partial unique indexes of the seal table, over live rows.
Collides(r, s) ==
    IsLive(s) /\ (r.seq = s.seq \/ last(r.root) = last(s.root))

\* What the contract is asked for row r, and what it answers now.
CallOf(r) == [seq |-> r.seq, root |-> r.root, prev |-> r.prev,
              count |-> Cardinality(r.root), from |-> r.from, to |-> r.to]
ErrorOf(r) == PL!SealError(Org, CallOf(r), {Signer})

OnChain(r) == PL!verify(Org, r.seq, r.root)

\* A request's row, inserted and not committed.
Uncommitted(q) == q \in Requests /\ tx[q].row # NoRow

\* A write to row i waits for another transaction that has flushed that row, or
\* inserted one the unique indexes would have to compare it with.
Locked(p, i) ==
    \E q \in Procs \ {p} :
        \/ tx[q].id = i /\ i # 0 /\ tx[q].pc \in {"send", "poll"}
        \/ i # 0 /\ Uncommitted(q) /\ Collides(rows[i], tx[q].row)

\* Bringing row i back to life would break a unique index.
Clashes(i) == \E j \in DOMAIN rows \ {i} : Collides(rows[i], rows[j])

RowsTaken == Len(rows) + Cardinality({q \in Requests : Uncommitted(q)})

\* The daily window: no confirmed seal yet, or a local day has begun since the
\* newest one was accepted and the organisation's hour has come.
Mut_FirstSealOnly == latest_confirmed = NoRow
DailyWindowOpen ==
    latest_confirmed = NoRow \/ latest_confirmed.seq \notin fresh

Fault == faults < MaxFaults /\ faults' = faults + 1

----------------------------------------------------------------------------
(* record_leaf(), in the posting transaction.  next_leaf_seq() holds the   *)
(* organisation row until commit, so leaves become visible in order.       *)

record_leaf ==
    /\ Len(leaves) < MaxLeaves
    /\ \E t \in 0 .. MaxClock :
           leaves' = Append(leaves, [created |-> t, seal |-> 0])
    /\ UNCHANGED <<ledger, net, fresh, rows, enabled, tx, faults>>

disable ==
    /\ MayDisable /\ enabled
    /\ enabled' = FALSE
    /\ UNCHANGED <<ledger, net, fresh, leaves, rows, tx, faults>>

\* enable() on a book that is already open: nothing is sent.
enable ==
    /\ ~enabled
    /\ enabled' = TRUE
    /\ UNCHANGED <<ledger, net, fresh, leaves, rows, tx, faults>>

----------------------------------------------------------------------------
(* create_seal(), one step per query.                                      *)

create_seal(p) ==
    /\ tx[p].pc = "idle"
    /\ enabled
    /\ ~exists_open
    /\ p \in Workers => DailyWindowOpen
    /\ RowsTaken < MaxRows
    /\ tx' = [tx EXCEPT ![p].pc = "batch"]
    /\ UNCHANGED <<ledger, net, fresh, db, faults>>

read_unsealed(p) ==
    /\ tx[p].pc = "batch"
    /\ tx' = [tx EXCEPT ![p] =
           IF Batch = {} THEN Idle
           ELSE [@ EXCEPT !.pc = "previous", !.batch = Batch]]
    /\ UNCHANGED <<ledger, net, fresh, db, faults>>

read_previous(p) ==
    /\ tx[p].pc = "previous"
    /\ tx' = [tx EXCEPT ![p].pc = "insert", ![p].previous = latest_confirmed]
    /\ UNCHANGED <<ledger, net, fresh, db, faults>>

NewRow(p) ==
    LET w == covered_window(tx[p].batch, tx[p].previous)
    IN  [seq |-> highest_live_seq + 1, root |-> tx[p].batch,
         prev |-> tx[p].previous.root, from |-> w.from, to |-> w.to,
         status |-> "pending", attempts |-> 0]

\* assign_to_seal() stamps the batch by primary key, whatever it held before.
Assigned(batch, id) ==
    [n \in DOMAIN leaves |->
        IF n \in batch THEN [leaves[n] EXCEPT !.seal = id] ELSE leaves[n]]

\* The insert waits for an uncommitted row in its way; a committed one raises
\* IntegrityError and the transaction is rolled back.  seal_now() goes on to
\* submit; the cadence pass and the period-close hook commit.
InTheWay(p) == \E q \in Requests \ {p} :
    /\ Uncommitted(q)
    /\ Collides(NewRow(p), tx[q].row) \/ tx[q].row.root \cap tx[p].batch # {}

insert_seal(p) ==
    /\ tx[p].pc = "insert"
    /\ RowsTaken < MaxRows
    /\ ~InTheWay(p)
    /\ IF \E i \in DOMAIN rows : Collides(NewRow(p), rows[i])
       THEN /\ tx' = [tx EXCEPT ![p] = Idle]
            /\ UNCHANGED <<leaves, rows>>
       ELSE \/ /\ p \in Requests
               /\ tx' = [tx EXCEPT ![p].pc = "submit", ![p].row = NewRow(p),
                                   ![p].wrote = TRUE]
               /\ UNCHANGED <<leaves, rows>>
            \/ /\ rows' = Append(rows, NewRow(p))
               /\ leaves' = Assigned(tx[p].batch, Len(rows) + 1)
               /\ tx' = [tx EXCEPT ![p] = Idle]
    /\ UNCHANGED <<ledger, net, fresh, enabled, faults>>

----------------------------------------------------------------------------
(* drain() and submit().                                                   *)

\* A pass loads the row; the copy is what the rest of the pass works on.
drain(p) ==
    /\ tx[p].pc = "idle"
    /\ \E i \in open_work :
           /\ PassesApart => CallOf(rows[i]) \notin net
           /\ tx' = [tx EXCEPT ![p] = [Idle EXCEPT !.pc = "submit", !.id = i,
                                                   !.row = rows[i]]]
    /\ UNCHANGED <<ledger, net, fresh, db, faults>>

\* release_from_seal().
Mut_NotReleased(ls, id) == ls
Released(ls, id) ==
    [n \in DOMAIN ls |->
        IF ls[n].seal = id THEN [ls[n] EXCEPT !.seal = 0] ELSE ls[n]]

\* The transaction ends with its seal in `status`.  A column is written when
\* the copy in memory changed it: `marked` says whether attempts did.  A write
\* that breaks a unique index raises, and the pass is rolled back.
Settle(p, status, marked) ==
    LET t     == tx[p]
        wrote == t.wrote \/ status # t.row.status
        id    == IF t.id = 0 THEN Len(rows) + 1 ELSE t.id
        held  == IF t.id = 0 THEN Assigned(t.batch, id) ELSE leaves
    IN  /\ IF t.id # 0 /\ wrote /\ status # "failed" /\ Clashes(id)
           THEN UNCHANGED <<rows, leaves>>
           ELSE /\ rows' = IF t.id = 0
                           THEN Append(rows, [t.row EXCEPT !.status = status])
                           ELSE [rows EXCEPT
                                    ![id].status = IF wrote THEN status ELSE @,
                                    ![id].attempts =
                                        IF marked THEN t.row.attempts ELSE @]
                /\ leaves' = IF status = "failed" THEN Released(held, id)
                             ELSE held
        /\ tx' = [tx EXCEPT ![p] = Idle]
        /\ UNCHANGED <<ledger, net, fresh, enabled>>

\* _resolve_against_chain(): the head is at or past this seal; was it ours?
Mut_HeadIsEnough(p) == "confirmed"
Resolution(p) == IF OnChain(tx[p].row) THEN "confirmed" ELSE "failed"

\* submit(), up to the network call: the setting, then the chain's book.
AskChain(p) == tx[p].pc = "submit" /\ ~Locked(p, tx[p].id)

submit_not_ready(p) ==
    /\ AskChain(p)
    /\ ~enabled
    /\ Settle(p, "failed", FALSE)
    /\ UNCHANGED faults

submit_unreachable(p) ==
    /\ AskChain(p)
    /\ enabled
    /\ Fault
    /\ Settle(p, tx[p].row.status, FALSE)

submit_resolve(p) ==
    /\ AskChain(p)
    /\ enabled
    /\ books[Org].head >= tx[p].row.seq
    /\ Settle(p, Resolution(p), FALSE)
    /\ UNCHANGED faults

submit_wait(p) ==
    /\ AskChain(p)
    /\ enabled
    /\ books[Org].head < tx[p].row.seq - 1
    /\ Settle(p, tx[p].row.status, FALSE)
    /\ UNCHANGED faults

submit_diverged(p) ==
    /\ AskChain(p)
    /\ enabled
    /\ books[Org].head = tx[p].row.seq - 1
    /\ books[Org].root # tx[p].row.prev
    /\ Settle(p, "failed", FALSE)
    /\ UNCHANGED faults

submit_our_turn(p) ==
    /\ tx[p].pc = "submit"
    /\ enabled
    /\ books[Org].head = tx[p].row.seq - 1
    /\ books[Org].root = tx[p].row.prev
    /\ tx' = [tx EXCEPT ![p].pc = "mark"]
    /\ UNCHANGED <<ledger, net, fresh, db, faults>>

\* attempts += 1, SUBMITTED, flush: takes the row's lock.
mark_submitted(p) ==
    /\ tx[p].pc = "mark"
    /\ ~Locked(p, tx[p].id)
    /\ LET t     == tx[p]
           wrote == t.wrote \/ t.row.status # "submitted"
       IN  tx' = [tx EXCEPT ![p] =
                   IF t.id # 0 /\ wrote /\ Clashes(t.id) THEN Idle
                   ELSE [t EXCEPT !.pc = "send", !.row.status = "submitted",
                                  !.row.attempts = @ + 1, !.wrote = wrote]]
    /\ UNCHANGED <<ledger, net, fresh, db, faults>>

\* _invoke(): prepare (simulate against the chain), sign, send.
send_transaction(p) ==
    /\ tx[p].pc = "send"
    /\ ErrorOf(tx[p].row) = "ok"
    /\ net' = net \cup {CallOf(tx[p].row)}
    /\ tx' = [tx EXCEPT ![p].pc = "poll"]
    /\ UNCHANGED <<ledger, fresh, db, faults>>

\* _apply_outcome() of a refusal: PENDING again, or given up.
Rejected(p) ==
    Settle(p, IF tx[p].row.attempts >= MAX_SEAL_ATTEMPTS
              THEN "failed" ELSE "pending", TRUE)

prepare_refused(p) ==
    /\ tx[p].pc = "send"
    /\ ErrorOf(tx[p].row) # "ok"
    /\ IF ErrorOf(tx[p].row) = "sequence_out_of_order"
       THEN Settle(p, Resolution(p), TRUE)
       ELSE Rejected(p)
    /\ UNCHANGED faults

\* A refusal that is not the contract's: simulation or inclusion failed.
send_refused(p) ==
    /\ tx[p].pc = "send"
    /\ Fault
    /\ Rejected(p)

poll_success(p) ==
    /\ tx[p].pc = "poll"
    /\ OnChain(tx[p].row)
    /\ Settle(p, "confirmed", TRUE)
    /\ UNCHANGED faults

\* The transaction was applied and failed: refused by the contract, or for a
\* reason of the network's.  If the seal is on the chain all the same, the same
\* call sent by another attempt was applied first.  The contract's code may be
\* missing from the result.
poll_failed(p) ==
    /\ tx[p].pc = "poll"
    /\ CallOf(tx[p].row) \notin net
    /\ OnChain(tx[p].row) => ~PassesApart
    /\ IF ErrorOf(tx[p].row) = "ok" THEN Fault ELSE UNCHANGED faults
    /\ \/ Rejected(p)
       \/ /\ ErrorOf(tx[p].row) = "sequence_out_of_order"
          /\ Settle(p, Resolution(p), TRUE)

\* No result in time; not a fault once the transaction is dead.  The outcome is
\* recorded as unknown.
TimesOut(p, status) ==
    /\ tx[p].pc = "poll"
    /\ IF CallOf(tx[p].row) \in net \/ OnChain(tx[p].row)
       THEN Fault ELSE UNCHANGED faults
    /\ Settle(p, status, TRUE)
Mut_TimeoutFails(p) == TimesOut(p, "failed")
poll_timeout(p) == TimesOut(p, "submitted")

\* An exception out of submit(): drain() swallows it and commits what was
\* flushed; a request is rolled back.
raises(p) ==
    /\ tx[p].pc \in {"send", "poll"}
    /\ Fault
    /\ IF p \in Workers
       THEN Settle(p, "submitted", TRUE)
       ELSE /\ tx' = [tx EXCEPT ![p] = Idle]
            /\ UNCHANGED <<ledger, net, fresh, db>>

\* The process dies, or its commit fails.
crash(p) ==
    /\ tx[p].pc # "idle"
    /\ Fault
    /\ tx' = [tx EXCEPT ![p] = Idle]
    /\ UNCHANGED <<ledger, net, fresh, db>>

\* reconcile(), at worker start and on demand.
reconcile(p) ==
    /\ tx[p].pc = "idle"
    /\ \E i \in open_work :
           /\ ~Locked(p, i)
           /\ books[Org].head >= rows[i].seq
           /\ LET s == IF OnChain(rows[i]) THEN "confirmed" ELSE "failed"
              IN  /\ rows' = [rows EXCEPT ![i].status = s]
                  /\ leaves' = IF s = "failed" THEN Released(leaves, i)
                               ELSE leaves
    /\ UNCHANGED <<ledger, net, fresh, enabled, tx, faults>>

----------------------------------------------------------------------------
(* The network.                                                            *)

Land ==
    /\ \E c \in net :
           /\ PL!seal(Org, c, {Signer})
           /\ net' = net \ {c}
           /\ fresh' = fresh \cup {c.seq}
    /\ UNCHANGED <<db, tx, faults>>

\* Applied and refused by the contract.
LandRefused ==
    /\ \E c \in net : /\ PL!SealError(Org, c, {Signer}) # "ok"
                      /\ net' = net \ {c}
    /\ UNCHANGED <<ledger, fresh, db, tx, faults>>

\* Never included before its time bound.
Expire ==
    /\ \E c \in net : net' = net \ {c}
    /\ Fault
    /\ UNCHANGED <<ledger, fresh, db, tx>>

DayTurns ==
    /\ fresh # {}
    /\ fresh' = {}
    /\ UNCHANGED <<ledger, net, db, tx, faults>>

----------------------------------------------------------------------------
Init ==
    /\ books = [o \in {Org} |->
           [admin |-> Signer, head |-> 0, root |-> GENESIS, sealed_at |-> 0,
            covered_to |-> 0, entries |-> 0]]
    /\ seals = [o \in {Org} |-> {}]
    /\ net = {}
    /\ fresh = {}
    /\ leaves = <<>>
    /\ rows = <<>>
    /\ enabled = TRUE
    /\ tx = [p \in Procs |-> Idle]
    /\ faults = 0

Create(p) == create_seal(p) \/ read_unsealed(p) \/ read_previous(p)
                 \/ insert_seal(p)

Submit(p) ==
    \/ submit_not_ready(p) \/ submit_resolve(p) \/ submit_wait(p)
    \/ submit_diverged(p) \/ submit_our_turn(p) \/ mark_submitted(p)
    \/ send_transaction(p) \/ prepare_refused(p) \/ poll_success(p)
    \/ poll_timeout(p)

Misfortune(p) ==
    \/ submit_unreachable(p) \/ send_refused(p) \/ poll_failed(p)
    \/ raises(p)

Next ==
    \/ record_leaf \/ disable \/ enable
    \/ \E p \in Procs : Create(p) \/ crash(p)
    \/ \E p \in Workers : drain(p) \/ reconcile(p)
    \/ \E p \in Workers \cup Requests : Submit(p) \/ Misfortune(p)
    \/ Land \/ LandRefused \/ Expire \/ DayTurns

Spec == Init /\ [][Next]_vars

\* The worker loop runs for ever, days pass, and the network applies what it
\* was sent unless it spends a fault.
Fairness ==
    /\ \A p \in Workers : WF_vars(Create(p) \/ drain(p) \/ Submit(p))
    /\ WF_vars(Land \/ LandRefused)
    /\ WF_vars(DayTurns)

FairSpec == Spec /\ Fairness

----------------------------------------------------------------------------
(* Properties.                                                             *)

TypeOK ==
    /\ PL!TypeOK
    /\ net \subseteq PL!Call
    /\ fresh \subseteq 1 .. MaxRows
    /\ leaves \in Seq([created: 0 .. MaxClock, seal: 0 .. MaxRows])
    /\ rows \in Seq(Row)
    /\ enabled \in BOOLEAN
    /\ tx \in [Procs ->
           [pc: {"idle", "batch", "previous", "insert", "submit", "mark",
                 "send", "poll"},
            batch: SUBSET (1 .. MaxLeaves), previous: Row, id: 0 .. MaxRows,
            row: Row, wrote: BOOLEAN]]
    /\ faults \in 0 .. MaxFaults

\* A row says CONFIRMED only for a seal the chain holds at that number with
\* that root, whatever copies _confirm() and _resolve_against_chain() acted on.
ConfirmedIsOnChain ==
    \A i \in DOMAIN rows : rows[i].status = "confirmed" => OnChain(rows[i])

\* The chain covers the backlog in leaf_seq order without skipping: a seal's
\* leaves all follow those of the seals before it, and none is left out.
SealsTileBacklog ==
    \A t \in seals[Org] : \A n \in t.root : \A m \in 1 .. n :
        m \in t.root \/ \E s \in seals[Org] : s.seq < t.seq /\ m \in s.root

\* The leaves a live row holds are the ones its root was computed over, so a
\* proof built from leaves.for_seal() reaches the published root.
RowHoldsItsLeaves ==
    \A i \in DOMAIN rows : IsLive(rows[i]) =>
        {n \in DOMAIN leaves : leaves[n].seal = i} = rows[i].root

\* Both together, and the types they rest on: batching, assigning and giving up
\* keep the database's rows, their leaves and the chain in step.
LeavesSealedInOrder == TypeOK /\ SealsTileBacklog /\ RowHoldsItsLeaves

\* A leaf waits in the backlog or belongs to a seal that is not given up: no
\* entry is stuck where neither drain() nor create_seal() looks for it.
NoLeafStranded ==
    \A n \in DOMAIN leaves :
        leaves[n].seal # 0 => IsLive(rows[leaves[n].seal])

\* Every seal on the chain is known to the database: a live row carries it, or
\* a transaction that will commit one is still running.
NoOrphan ==
    \A s \in seals[Org] :
        LET carries(r) == r.seq = s.seq /\ r.root = s.root /\ IsLive(r)
        IN  \/ \E i \in DOMAIN rows : carries(rows[i])
            \/ \E p \in Procs : tx[p].id = 0 /\ carries(tx[p].row)

\* A row whose turn has come is one the contract accepts: covered_window(),
\* latest_confirmed() and highest_live_seq() agree with the book.
OurTurnIsAccepted ==
    \A i \in open_work :
        /\ rows[i].seq = books[Org].head + 1
        /\ rows[i].prev = books[Org].root
        => ErrorOf(rows[i]) = "ok"

\* "A failed submission never moved its head" (_fail()): a row is parked as
\* FAILED only if the chain does not hold it.
FailedNeverLanded ==
    [][\A i \in DOMAIN rows :
          IsLive(rows[i]) /\ rows'[i].status = "failed" => ~OnChain(rows[i])]_vars

IsSealed(n) == n \in DOMAIN leaves /\ leaves[n].seal \in confirmed

\* Every posted entry is eventually covered by a confirmed seal, through
\* timeouts, refusals, crashes and restarts.
EventuallySealed ==
    \A n \in 1 .. MaxLeaves : n \in DOMAIN leaves ~> IsSealed(n)
=============================================================================
