---------------------------- MODULE ProofLedger ----------------------------
(***************************************************************************)
(* The Soroban contract of contracts/proof_ledger/src/lib.rs: one book per *)
(* namespace, and for each book an append-only chain of seals.             *)
(*                                                                         *)
(* A call is one atomic ledger transaction.  A call that panics leaves the *)
(* storage as it was, so only accepted calls are steps; SealError says     *)
(* which refusal a call meets, in the order the contract checks.  The TTL  *)
(* extensions, the events and the `debits` control total, which the        *)
(* contract stores and never reads, are left out.                          *)
(*                                                                         *)
(* An operator named Mut_... is a plausible mistake in the operator after  *)
(* it; nothing here uses it.  It shows that a property can tell the two    *)
(* apart.                                                                  *)
(***************************************************************************)
EXTENDS Integers, FiniteSets

CONSTANTS
    Orgs,       \* namespaces
    Addresses,  \* accounts that may administer a book
    Roots,      \* 32-byte roots, the sentinel among them
    GENESIS,    \* the all-zero root
    NoBook,     \* what the storage holds for an unregistered namespace
    MaxSeq,     \* bound on seq (u32 in the contract)
    MaxCount,   \* bound on count (u32 in the contract)
    MaxPeriod,  \* bound on from and to (u64 in the contract)
    MaxTime     \* bound on the ledger timestamp

VARIABLES
    books,      \* DataKey::Book(org)
    seals,      \* DataKey::Seal(org, seq): the entries stored under org
    now         \* env.ledger().timestamp()

vars == <<books, seals, now>>

ASSUME GenesisAssumption == GENESIS \in Roots

ASSUME BoundsAssumption ==
    MaxSeq \in Nat /\ MaxCount \in Nat /\ MaxPeriod \in Nat /\ MaxTime \in Nat

----------------------------------------------------------------------------
Period == 0 .. MaxPeriod

Book == [admin: Addresses, head: Nat, root: Roots, sealed_at: Nat,
         covered_to: Nat, entries: Nat]

Seal == [seq: Nat, root: Roots, prev: Roots, count: Nat,
         from: Nat, to: Nat, at: Nat]

ASSUME NoBookAssumption == NoBook \notin Book

\* The arguments of seal().
Call == [seq: 0 .. MaxSeq, root: Roots, prev: Roots, count: 0 .. MaxCount,
         from: Period, to: Period]

is_registered(o) == books[o] # NoBook

\* What storage().set(DataKey::Seal(o, e.seq), e) leaves under o: an entry
\* already stored at that key is replaced.
Stored(o, e) == {s \in seals[o] : s.seq # e.seq} \cup {e}

\* The checks of seal(), each true when the call is to be refused.
Unauthorised(o, auth) == books[o].admin \notin auth

RootIsSentinel(c) == c.root = GENESIS

Mut_RewritesHead(o, c) == c.seq < books[o].head
SequenceOutOfOrder(o, c) == c.seq # books[o].head + 1

Mut_AnyPrev(o, c) == FALSE
ChainBroken(o, c) == c.prev # books[o].root

Mut_WindowUnchecked(o, c) == FALSE
WindowReachesBack(o, c) ==
    books[o].head > 0 /\ c.from < books[o].covered_to

\* The refusal a seal() call signed by the accounts in `auth` meets: the
\* first check that fails, authorisation before validation.
SealError(o, c, auth) ==
    IF ~is_registered(o)              THEN "not_registered"
    ELSE IF Unauthorised(o, auth)     THEN "unauthorized"
    ELSE IF RootIsSentinel(c)         THEN "root_is_sentinel"
    ELSE IF c.count = 0               THEN "empty_seal"
    ELSE IF c.to < c.from             THEN "period_out_of_order"
    ELSE IF SequenceOutOfOrder(o, c)  THEN "sequence_out_of_order"
    ELSE IF ChainBroken(o, c)         THEN "chain_broken"
    ELSE IF WindowReachesBack(o, c)   THEN "period_out_of_order"
    ELSE "ok"

EntryOf(c, at) == [seq |-> c.seq, root |-> c.root, prev |-> c.prev,
                   count |-> c.count, from |-> c.from, to |-> c.to, at |-> at]
Entry(c) == EntryOf(c, now)

ExtendedBy(book, e, n) ==
    [admin |-> book.admin, head |-> e.seq, root |-> e.root, sealed_at |-> e.at,
     covered_to |-> e.to, entries |-> book.entries + n]
Extended(book, e) == ExtendedBy(book, e, e.count)

----------------------------------------------------------------------------
Init ==
    /\ books = [o \in Orgs |-> NoBook]
    /\ seals = [o \in Orgs |-> {}]
    /\ now = 0

register(o, admin) ==
    /\ ~is_registered(o)
    /\ books' = [books EXCEPT ![o] =
           [admin |-> admin, head |-> 0, root |-> GENESIS, sealed_at |-> 0,
            covered_to |-> 0, entries |-> 0]]
    /\ UNCHANGED <<seals, now>>

seal(o, c, auth) ==
    /\ SealError(o, c, auth) = "ok"
    /\ seals' = [seals EXCEPT ![o] = Stored(o, Entry(c))]
    /\ books' = [books EXCEPT ![o] = Extended(books[o], Entry(c))]
    /\ UNCHANGED now

rotate(o, new_admin, auth) ==
    /\ is_registered(o)
    /\ books[o].admin \in auth
    /\ new_admin \in auth
    /\ books' = [books EXCEPT ![o].admin = new_admin]
    /\ UNCHANGED <<seals, now>>

\* The network closes a ledger with a later timestamp.
LedgerClose ==
    /\ now < MaxTime
    /\ now' = now + 1
    /\ UNCHANGED <<books, seals>>

Next ==
    \/ \E o \in Orgs, a \in Addresses : register(o, a)
    \/ \E o \in Orgs, c \in Call, auth \in SUBSET Addresses : seal(o, c, auth)
    \/ \E o \in Orgs, a \in Addresses, auth \in SUBSET Addresses :
           rotate(o, a, auth)
    \/ LedgerClose

Spec == Init /\ [][Next]_vars

----------------------------------------------------------------------------
(* The reads.                                                              *)

MAX_PAGE == 24

get(o, n) == CHOOSE s \in seals[o] : s.seq = n

verify(o, n, r) == \E s \in seals[o] : s.seq = n /\ s.root = r

\* The seals numbered `start` and below, newest first, skipping absent entries,
\* at most `limit` of them (0, or past MAX_PAGE, means MAX_PAGE).
Page(o, start, limit) ==
    LET take  == IF limit = 0 \/ limit > MAX_PAGE THEN MAX_PAGE ELSE limit
        found == {n \in 1 .. start : \E s \in seals[o] : s.seq = n}
        len   == IF take < Cardinality(found) THEN take ELSE Cardinality(found)
        nth(k) == CHOOSE n \in found :
                      Cardinality({m \in found : m >= n}) = k
    IN  [k \in 1 .. len |-> get(o, nth(k))]

\* `before_seq` 0, or past the head, means the head; it is itself included.
FromHead(o, before) == before = 0 \/ before > books[o].head

Mut_ExclusiveHistory(o, before, limit) ==
    Page(o, IF FromHead(o, before) THEN books[o].head ELSE before - 1, limit)
history(o, before, limit) ==
    Page(o, IF FromHead(o, before) THEN books[o].head ELSE before, limit)

----------------------------------------------------------------------------
(* What the contract promises.                                             *)

TypeOK ==
    /\ books \in [Orgs -> Book \cup {NoBook}]
    /\ seals \in [Orgs -> SUBSET Seal]
    /\ now \in 0 .. MaxTime

\* One entry per key, keys 1..head, no entry without a book.
NoGaps ==
    \A o \in Orgs :
        IF is_registered(o)
        THEN /\ \A s \in seals[o] : s.seq \in 1 .. books[o].head
             /\ \A n \in 1 .. books[o].head : \E s \in seals[o] : s.seq = n
             /\ \A s, t \in seals[o] : s.seq = t.seq => s = t
        ELSE seals[o] = {}

\* Each seal names its predecessor's root, and its window starts no earlier
\* than the predecessor's ends, nor was it accepted earlier.
Linked ==
    \A o \in Orgs : \A s, t \in seals[o] :
        t.seq = s.seq + 1 =>
            /\ t.prev = s.root
            /\ s.to <= t.from
            /\ s.at <= t.at

\* The book's summary is that of the newest seal.
HeadAgrees ==
    \A o \in Orgs : is_registered(o) =>
        /\ books[o].head = 0 =>
               /\ books[o].root = GENESIS
               /\ books[o].covered_to = 0
               /\ books[o].sealed_at = 0
        /\ \A s \in seals[o] : s.seq = books[o].head =>
               /\ books[o].root = s.root
               /\ books[o].covered_to = s.to
               /\ books[o].sealed_at = s.at

\* A stored seal is a real one: a root, entries, a forward window, a timestamp
\* the network has reached.
WellFormed ==
    \A o \in Orgs : \A s \in seals[o] :
        /\ s.root # GENESIS
        /\ s.count > 0
        /\ s.from <= s.to
        /\ s.at <= now

\* "A chain must not have a hole" (seal()): the stored seals of a registered
\* namespace are numbered 1..head without gap or duplicate, each chains from
\* the one before, their windows tile forwards, and latest() describes the
\* last of them.
ChainContinuous == NoGaps /\ Linked /\ HeadAgrees

\* The sentinel check of seal(): a seal chains from GENESIS exactly when it is
\* the first, so "is this the genesis seal?" is a comparison.
GenesisOnlyFirst ==
    \A o \in Orgs : \A s \in seals[o] : s.prev = GENESIS <=> s.seq = 1

\* Two seals any distance apart cover windows in the order of their sequence
\* numbers: no later seal reaches back behind an earlier one's window.
WindowsTile ==
    \A o \in Orgs : \A s, t \in seals[o] :
        s.seq < t.seq => s.to <= t.from /\ s.at <= t.at

\* latest().entries is the number of entries all stored seals cover together.
EntriesIsTotal ==
    \A o \in Orgs : is_registered(o) =>
        LET upTo[n \in 0 .. books[o].head] ==
                IF n = 0 THEN 0 ELSE upTo[n - 1] + get(o, n).count
        IN  books[o].entries = upTo[books[o].head]

\* history() pages: any page is a run of consecutive seals, newest first,
\* that begins where the caller asked and is as long as the caller may ask for
\* unless it ends at seal 1.
HistoryIsWindow ==
    \A o \in Orgs : is_registered(o) =>
        \A before \in 0 .. MaxSeq + 1, limit \in 0 .. MaxSeq + 1 :
            LET h == history(o, before, limit)
                n == Cardinality(DOMAIN h)
            IN  /\ n > 0 => h[1].seq = IF before \in 1 .. books[o].head
                                       THEN before ELSE books[o].head
                /\ \A k \in 1 .. n - 1 : h[k].prev = h[k + 1].root
                /\ n # (IF limit \in 1 .. MAX_PAGE THEN limit ELSE MAX_PAGE) =>
                       \/ n = 0 /\ books[o].head = 0
                       \/ n > 0 /\ h[n].seq = 1

\* No step rewrites or drops a stored seal, shortens a chain or reopens a book;
\* a head moves by one at a time.
AppendOnly ==
    [][\A o \in Orgs :
        /\ seals[o] \subseteq seals'[o]
        /\ is_registered(o) => /\ books'[o] # NoBook
                               /\ books'[o].head \in {books[o].head,
                                                      books[o].head + 1}]_vars

\* What makes submission idempotent: a seal() call that was accepted is refused
\* as out of sequence ever after, whoever signs it.
RetryRefused ==
    \A o \in Orgs : is_registered(o) => \A s \in seals[o] :
        LET c == [seq |-> s.seq, root |-> s.root, prev |-> s.prev,
                  count |-> s.count, from |-> s.from, to |-> s.to]
        IN  SealError(o, c, {books[o].admin}) = "sequence_out_of_order"

\* What the contract's reads tell is right: the running total and the pages.
ReadsAreRight == EntriesIsTotal /\ HistoryIsWindow
=============================================================================
