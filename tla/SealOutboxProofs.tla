------------------------- MODULE SealOutboxProofs --------------------------
(***************************************************************************)
(* Proofs about the seal outbox, for any number of workers and requests    *)
(* whose transactions overlap, any faults and every bound.                 *)
(*                                                                         *)
(* submit() works on a copy of its row that may be long out of date, so    *)
(* the induction says what stays true of a stale copy: its number and root *)
(* are the row's (those columns are never updated), it was open when it    *)
(* was read, and a request's row is nobody else's.  The contract only      *)
(* appends, so what a copy was confirmed by is still there when it commits.*)
(***************************************************************************)
EXTENDS SealOutbox, FiniteSetTheorems, SequenceTheorems,
        WellFoundedInduction, TLAPS

LeafRow == [created: 0 .. MaxClock, seal: 0 .. MaxRows]

Tx == [pc: {"idle", "batch", "previous", "insert", "submit", "mark",
            "send", "poll"},
       batch: SUBSET (1 .. MaxLeaves), previous: Row, id: 0 .. MaxRows,
       row: Row, wrote: BOOLEAN]

Batching == {"previous", "insert"}
Submitting == {"submit", "mark", "send", "poll"}

\* The contract's book is open and its seals are numbered up to the head.
ChainInv ==
    /\ books[Org] \in PL!Book
    /\ \A s \in seals[Org] : s.seq <= books[Org].head

\* A seal row is numbered no higher than its id, and covers recorded leaves.
RowsInv ==
    \A i \in DOMAIN rows :
        /\ rows[i].seq \in 1 .. i
        /\ rows[i].root # {}
        /\ rows[i].root \subseteq DOMAIN leaves
        /\ rows[i].status # "none"

\* A batch that was read is one of recorded leaves.
BatchOK(t) == t.batch # {} /\ t.batch \subseteq DOMAIN leaves

\* A worker's copy: the number and the root are the row's, and it was open.
CopyOK(t) ==
    /\ t.id \in DOMAIN rows
    /\ t.row.seq = rows[t.id].seq
    /\ t.row.root = rows[t.id].root
    /\ IsOpen(t.row)

\* A request's row, not committed yet.
OwnOK(t) ==
    /\ t.id = 0
    /\ BatchOK(t)
    /\ t.row.root = t.batch
    /\ t.row.seq \in 1 .. Len(rows) + 1
    /\ IsOpen(t.row)

\* What process p holds, by how far it has come.
HeldBy(p, t) ==
    /\ t.pc \in Batching => BatchOK(t)
    /\ t.pc \in Submitting => IF p \in Workers THEN CopyOK(t) ELSE OwnOK(t)
    /\ t.pc \notin Submitting => t.row = NoRow /\ t.id = 0

TxInv == \A p \in Procs : HeldBy(p, tx[p])

\* Rows and uncommitted rows together stay within the bound.
Room == RowsTaken <= MaxRows

\* A leaf names a row that exists.
LeavesInv ==
    /\ DOMAIN leaves \subseteq 1 .. MaxLeaves
    /\ \A n \in DOMAIN leaves : leaves[n].seal \in 0 .. Len(rows)

\* The inductive invariant.
IInv == /\ TypeOK
        /\ ChainInv
        /\ RowsInv
        /\ TxInv
        /\ Room
        /\ LeavesInv
        /\ ConfirmedIsOnChain
        /\ NoLeafStranded
----------------------------------------------------------------------------
(* Numbers and sets.                                                       *)

\* first(): a set of numbers that is not empty has a least member.
LEMMA HasLeast ==
    ASSUME NEW S \in SUBSET Nat, S # {}
    PROVE  \E n \in S : \A m \in S : n <= m
<1>1. PICK n \in S : \A m \in S : ~ (<<m, n>> \in OpToRel(<, Nat))
  BY NatLessThanWellFounded, WFMin
<1>2. \A m \in S : ~ (m < n)
  BY <1>1 DEF OpToRel
<1>. QED  BY <1>2

\* last(): and a greatest one when it is bounded.
LEMMA HasGreatest ==
    ASSUME NEW b \in Nat, NEW S \in SUBSET (0 .. b), S # {}
    PROVE  \E n \in S : \A m \in S : m <= n
<1> DEFINE T == {b - n : n \in S}
<1>1. T \in SUBSET Nat /\ T # {}
  <2>1. \A n \in S : b - n \in Nat
    OBVIOUS
  <2>2. PICK n \in S : TRUE
    OBVIOUS
  <2>3. b - n \in T
    BY <2>2
  <2>. QED  BY <2>1, <2>3
<1>2. PICK k \in T : \A m \in T : k <= m
  BY <1>1, HasLeast
<1>3. PICK n \in S : k = b - n
  BY <1>2
<1>4. \A m \in S : b - n <= b - m
  BY <1>2, <1>3
<1>. QED  BY <1>4

\* highest_live_seq is a number no live row passes.
LEMMA HighestLive ==
    ASSUME rows \in Seq(Row), RowsInv
    PROVE  highest_live_seq \in 0 .. Len(rows)
<1> DEFINE S == {0} \cup live_seqs
<1>1. Len(rows) \in Nat /\ DOMAIN rows = 1 .. Len(rows)
  BY LenProperties
<1>2. \A i \in DOMAIN rows : rows[i].seq \in 0 .. Len(rows)
  BY <1>1 DEF RowsInv
<1>3. S \in SUBSET (0 .. Len(rows)) /\ S # {}
  BY <1>1, <1>2 DEF live_seqs
<1> HIDE DEF S
<1>4. \E n \in S : \A m \in S : m <= n
  BY <1>1, <1>3, HasGreatest
<1>5. (CHOOSE n \in S : \A m \in S : m <= n) \in S
  BY <1>4
<1>. QED  BY <1>3, <1>5 DEF S, highest_live_seq

\* latest_confirmed() is the greatest of the confirmed rows, or none.
LEMMA LatestType ==
    ASSUME rows \in Seq(Row), RowsInv
    PROVE  latest_confirmed \in Row
<1>1. CASE confirmed = {}
  BY <1>1, BoundsAssumption DEF latest_confirmed, NoRow, Row, GENESIS
<1>2. CASE confirmed # {}
  <2>1. Len(rows) \in Nat /\ DOMAIN rows = 1 .. Len(rows)
    BY LenProperties
  <2> DEFINE S == {rows[i].seq : i \in confirmed}
  <2>2. \A i \in confirmed : i \in DOMAIN rows /\ rows[i].seq \in 0 .. Len(rows)
    BY <2>1 DEF RowsInv, confirmed
  <2>3. S \in SUBSET (0 .. Len(rows)) /\ S # {}
    BY <1>2, <2>2
  <2>4. PICK n \in S : \A m \in S : m <= n
    BY <2>1, <2>3, HasGreatest
  <2>5. PICK i \in confirmed : n = rows[i].seq
    BY <2>4
  <2>6. \A j \in confirmed : rows[j].seq <= rows[i].seq
    BY <2>4, <2>5
  <2> DEFINE c == CHOOSE k \in confirmed :
                      \A j \in confirmed : rows[j].seq <= rows[k].seq
  <2>7. c \in confirmed
    BY <2>5, <2>6
  <2>8. rows[c] \in Row
    BY <2>1, <2>2, <2>7, ElementOfSeq
  <2>. QED  BY <1>2, <2>8 DEF latest_confirmed
<1>. QED  BY <1>1, <1>2

\* The ends of a batch are leaves of it.
LEMMA BatchEnds ==
    ASSUME NEW B \in SUBSET (1 .. MaxLeaves), B # {}
    PROVE  first(B) \in B /\ last(B) \in B
<1>1. B \in SUBSET Nat /\ B \in SUBSET (0 .. MaxLeaves)
  BY BoundsAssumption
<1>2. (\E n \in B : \A m \in B : n <= m) /\ (\E n \in B : \A m \in B : m <= n)
  BY <1>1, HasLeast, HasGreatest, BoundsAssumption
<1>. QED  BY <1>2 DEF first, last

\* covered_window() stays on the clock.
LEMMA WindowType ==
    ASSUME leaves \in Seq(LeafRow), NEW B \in SUBSET (1 .. MaxLeaves), B # {},
           B \subseteq DOMAIN leaves, NEW r \in Row
    PROVE  /\ covered_window(B, r).from \in 0 .. MaxClock
           /\ covered_window(B, r).to \in 0 .. MaxClock
<1>1. first(B) \in DOMAIN leaves /\ last(B) \in DOMAIN leaves
  BY BatchEnds
<1>2. \A n \in DOMAIN leaves : leaves[n].created \in 0 .. MaxClock
  <2>1. \A n \in DOMAIN leaves : leaves[n] \in LeafRow
    BY LenProperties, ElementOfSeq
  <2>. QED  BY <2>1 DEF LeafRow
<1>3. r.to \in 0 .. MaxClock
  BY DEF Row
<1>. QED  BY <1>1, <1>2, <1>3, BoundsAssumption DEF covered_window

\* The row create_seal() inserts.
LEMMA NewRowType ==
    ASSUME leaves \in Seq(LeafRow), rows \in Seq(Row), RowsInv,
           NEW p, tx[p] \in Tx, BatchOK(tx[p]), Len(rows) < MaxRows
    PROVE  /\ NewRow(p) \in Row
           /\ NewRow(p).seq \in 1 .. Len(rows) + 1
           /\ NewRow(p).root = tx[p].batch
           /\ NewRow(p).status = "pending"
<1>1. highest_live_seq \in 0 .. Len(rows) /\ Len(rows) \in Nat
  BY HighestLive, LenProperties
<1>2. /\ tx[p].batch \in SUBSET (1 .. MaxLeaves) /\ tx[p].previous \in Row
      /\ tx[p].batch # {} /\ tx[p].batch \subseteq DOMAIN leaves
  BY DEF Tx, BatchOK
<1> DEFINE w == covered_window(tx[p].batch, tx[p].previous)
<1>3. w.from \in 0 .. MaxClock /\ w.to \in 0 .. MaxClock
  BY <1>2, WindowType
<1>4. tx[p].previous.root \in SUBSET (1 .. MaxLeaves)
  BY <1>2 DEF Row
<1>5. highest_live_seq + 1 \in 0 .. MaxRows
  BY <1>1, BoundsAssumption
<1> HIDE DEF w
<1>6. NewRow(p) = [seq |-> highest_live_seq + 1, root |-> tx[p].batch,
                   prev |-> tx[p].previous.root, from |-> w.from, to |-> w.to,
                   status |-> "pending", attempts |-> 0]
  BY DEF NewRow, w
<1>7. NewRow(p) \in Row
  BY <1>2, <1>3, <1>4, <1>5, <1>6 DEF Row
<1>8. highest_live_seq + 1 \in 1 .. Len(rows) + 1
  BY <1>1
<1>. QED  BY <1>6, <1>7, <1>8

----------------------------------------------------------------------------
(* Steps that only change what a process holds.                            *)

Pending == {q \in Requests : Uncommitted(q)}

\* Requests are finitely many, so their uncommitted rows can be counted.
LEMMA PendingFinite ==
    /\ IsFiniteSet(Pending) /\ Cardinality(Pending) \in Nat
    /\ RowsTaken = Len(rows) + Cardinality(Pending)
<1>1. Pending \subseteq Requests
  BY DEF Pending
<1>2. IsFiniteSet(Pending)
  BY <1>1, ProcsAssumption, FS_Subset
<1>. QED  BY <1>2, FS_CardinalityType DEF RowsTaken, Pending

\* The same of the next state.
LEMMA PendingFiniteNext ==
    /\ IsFiniteSet(Pending') /\ Cardinality(Pending') \in Nat
    /\ RowsTaken' = Len(rows') + Cardinality(Pending')
<1>1. Pending' \subseteq Requests
  BY DEF Pending
<1>2. IsFiniteSet(Pending')
  BY <1>1, ProcsAssumption, FS_Subset
<1>. QED  BY <1>2, FS_CardinalityType DEF RowsTaken, Pending

\* Nothing new is uncommitted: the count does not rise.
LEMMA PendingShrinks ==
    ASSUME Pending' \subseteq Pending
    PROVE  Cardinality(Pending') <= Cardinality(Pending)
  BY PendingFinite, FS_Subset

\* One process may have inserted a row.
LEMMA PendingGrowsByOne ==
    ASSUME NEW p, Pending' \subseteq Pending \cup {p}
    PROVE  Cardinality(Pending') <= Cardinality(Pending) + 1
<1>1. /\ IsFiniteSet(Pending \cup {p})
      /\ Cardinality(Pending \cup {p}) <= Cardinality(Pending) + 1
  <2>1. IsFiniteSet(Pending) /\ Cardinality(Pending) \in Nat
    BY PendingFinite
  <2>2. /\ IsFiniteSet(Pending \cup {p})
        /\ \/ Cardinality(Pending \cup {p}) = Cardinality(Pending)
           \/ Cardinality(Pending \cup {p}) = Cardinality(Pending) + 1
    BY <2>1, FS_AddElement, Zenon
  <2>. QED  BY <2>1, <2>2
<1>2. Cardinality(Pending') <= Cardinality(Pending \cup {p})
  BY <1>1, FS_Subset
<1>. QED  BY <1>1, <1>2, PendingFinite, PendingFiniteNext, FS_CardinalityType

\* One process has committed its row or lost it.
LEMMA PendingLosesOne ==
    ASSUME NEW p \in Pending, Pending' \subseteq Pending \ {p}
    PROVE  Cardinality(Pending') + 1 <= Cardinality(Pending)
<1>1. /\ IsFiniteSet(Pending \ {p})
      /\ Cardinality(Pending \ {p}) = Cardinality(Pending) - 1
  BY PendingFinite, FS_RemoveElement
<1>2. Cardinality(Pending') <= Cardinality(Pending \ {p})
  BY <1>1, FS_Subset
<1>. QED  BY <1>1, <1>2, PendingFinite, PendingFiniteNext

\* Between transactions a process holds nothing.
LEMMA IdleType == NoRow \in Row /\ Idle \in Tx
<1>1. NoRow \in Row
  BY BoundsAssumption DEF NoRow, Row, GENESIS
<1>. QED  BY <1>1, BoundsAssumption DEF Idle, Tx

\* And that is as it should be.
LEMMA IdleHeld == ASSUME NEW p PROVE HeldBy(p, Idle)
  BY DEF HeldBy, Idle, Batching, Submitting

\* The initial state satisfies the invariant.
LEMMA InitInv == Init => IInv
<1> SUFFICES ASSUME Init PROVE IInv
  OBVIOUS
<1>1. DOMAIN rows = {} /\ DOMAIN leaves = {} /\ Len(rows) = 0
  BY EmptySeq DEF Init
<1>2. PL!TypeOK /\ ChainInv
  <2> DEFINE b == [admin |-> Signer, head |-> 0, root |-> GENESIS,
                   sealed_at |-> 0, covered_to |-> 0, entries |-> 0]
  <2>1. b \in PL!Book
    BY DEF PL!Book, GENESIS
  <2>2. books = [o \in {Org} |-> b] /\ seals = [o \in {Org} |-> {}]
    BY DEF Init
  <2> HIDE DEF b
  <2>. QED  BY <2>1, <2>2 DEF PL!TypeOK, ChainInv
<1>3. TypeOK
  BY <1>2, IdleType, EmptySeq, BoundsAssumption DEF Init, TypeOK, Tx
<1>4. TxInv
  BY IdleHeld DEF TxInv, Init
<1>5. Room
  <2>1. Pending = {}
    BY DEF Init, Pending, Uncommitted, Idle, Procs
  <2>2. Cardinality(Pending) = 0
    BY <2>1, FS_EmptySet
  <2>. QED  BY <1>1, <2>2, PendingFinite, BoundsAssumption DEF Room
<1>. QED  BY <1>1, <1>2, <1>3, <1>4, <1>5
          DEF IInv, RowsInv, LeavesInv, ConfirmedIsOnChain, NoLeafStranded

\* A step of process p on its own copy: what it holds afterwards is as it
\* should be, and a row it newly holds fits within the bound.
LEMMA OwnStep ==
    ASSUME IInv, NEW p \in Procs, NEW t \in Tx, HeldBy(p, t),
           tx' = [tx EXCEPT ![p] = t], UNCHANGED <<ledger, leaves, rows>>,
           net' \subseteq PL!Call, fresh' \subseteq 1 .. MaxRows,
           enabled' \in BOOLEAN, faults' \in 0 .. MaxFaults,
           \/ p \in Workers \/ t.row = NoRow \/ tx[p].row # NoRow
           \/ RowsTaken < MaxRows
    PROVE  IInv'
<1>1. /\ books' = books /\ seals' = seals /\ leaves' = leaves /\ rows' = rows
  BY DEF ledger
<1>2. tx \in [Procs -> Tx] /\ tx' \in [Procs -> Tx]
  BY DEF IInv, TypeOK, Tx
<1>3. TypeOK'
  BY <1>1, <1>2 DEF IInv, TypeOK, Tx, PL!TypeOK
<1>4. TxInv'
  <2> SUFFICES ASSUME NEW q \in Procs PROVE HeldBy(q, tx[q])'
    BY DEF TxInv
  <2>1. PICK s : s = tx'[q]
    OBVIOUS
  <2>2. HeldBy(q, tx[q]) /\ s = IF q = p THEN t ELSE tx[q]
    BY <1>2, <2>1 DEF IInv, TxInv
  <2>3. HeldBy(q, s)
    BY <2>2
  <2>4. HeldBy(q, s)'
    BY <1>1, <2>3 DEF HeldBy, BatchOK, CopyOK, OwnOK
  <2>. QED  BY <2>1, <2>4 DEF HeldBy, BatchOK, CopyOK, OwnOK
<1>5. Room'
  <2>0. Len(rows) \in Nat
    BY LenProperties DEF IInv, TypeOK
  <2>1. \A q \in Requests : q # p => (Uncommitted(q)' <=> Uncommitted(q))
    BY <1>2 DEF Uncommitted, Procs
  <2>2. CASE RowsTaken < MaxRows
    <3>1. Pending' \subseteq Pending \cup {p}
      BY <2>1 DEF Pending
    <3>2. Cardinality(Pending') <= Cardinality(Pending) + 1
      BY <3>1, PendingGrowsByOne
    <3>. QED  BY <2>2, <3>2, <1>1, <2>0, PendingFinite, PendingFiniteNext,
                 BoundsAssumption
              DEF Room
  <2>3. CASE p \in Workers \/ t.row = NoRow \/ tx[p].row # NoRow
    <3>1. Uncommitted(p)' => Uncommitted(p)
      BY <2>3, <1>2, ProcsAssumption DEF Uncommitted
    <3>2. Pending' \subseteq Pending
      BY <2>1, <3>1 DEF Pending
    <3>. QED  BY <3>2, <1>1, PendingShrinks, PendingFinite,
                 PendingFiniteNext, <2>0, BoundsAssumption
              DEF Room, IInv
  <2>. QED  BY <2>2, <2>3
<1>6. RowsInv' /\ LeavesInv' /\ ChainInv'
  BY <1>1 DEF IInv, RowsInv, LeavesInv, ChainInv
<1>7. ConfirmedIsOnChain' /\ NoLeafStranded'
  BY <1>1 DEF IInv, ConfirmedIsOnChain, NoLeafStranded, OnChain, PL!verify, IsLive
<1>. QED  BY <1>3, <1>4, <1>5, <1>6, <1>7 DEF IInv

----------------------------------------------------------------------------
(* Steps that change the tables.                                           *)

\* The leaf table with the leaves of B naming seal id.
Stamped(ls, B, id) ==
    [n \in DOMAIN ls |->
        IF n \in B THEN [ls[n] EXCEPT !.seal = id] ELSE ls[n]]

\* Both updates of the leaf table have that form, and leave it a leaf table.
LEMMA LeafUpdates ==
    ASSUME NEW ls \in Seq(LeafRow), NEW id \in 0 .. MaxRows, NEW B
    PROVE  /\ Stamped(ls, B, id) \in Seq(LeafRow)
           /\ DOMAIN Stamped(ls, B, id) = DOMAIN ls
           /\ \A n \in DOMAIN ls : Stamped(ls, B, id)[n].seal =
                  IF n \in B THEN id ELSE ls[n].seal
<1>1. Len(ls) \in Nat /\ DOMAIN ls = 1 .. Len(ls)
  BY LenProperties
<1>2. \A n \in DOMAIN ls : ls[n] \in LeafRow
  BY <1>1, ElementOfSeq
<1>3. ASSUME NEW n \in DOMAIN ls
      PROVE  /\ [ls[n] EXCEPT !.seal = id] \in LeafRow
             /\ [ls[n] EXCEPT !.seal = id].seal = id
  BY <1>2 DEF LeafRow
<1> DEFINE f == [n \in 1 .. Len(ls) |->
                   IF n \in B THEN [ls[n] EXCEPT !.seal = id] ELSE ls[n]]
<1>4. \A n \in 1 .. Len(ls) : f[n] \in LeafRow
  BY <1>1, <1>2, <1>3
<1>5. f \in Seq(LeafRow)
  BY <1>1, <1>4, IsASeq
<1>. QED  BY <1>1, <1>3, <1>5 DEF Stamped

\* release_from_seal() is the second of them, with no seal.
LEMMA ReleasedLeaves ==
    ASSUME NEW ls \in Seq(LeafRow), NEW id
    PROVE  /\ Released(ls, id) \in Seq(LeafRow)
           /\ DOMAIN Released(ls, id) = DOMAIN ls
           /\ \A n \in DOMAIN ls : Released(ls, id)[n].seal =
                  IF ls[n].seal = id THEN 0 ELSE ls[n].seal
<1> DEFINE B == {n \in DOMAIN ls : ls[n].seal = id}
<1>1. Released(ls, id) = Stamped(ls, B, 0)
  BY DEF Released, Stamped
<1>2. 0 \in 0 .. MaxRows
  BY BoundsAssumption
<1>3. \A n \in DOMAIN ls : n \in B <=> ls[n].seal = id
  OBVIOUS
<1> HIDE DEF B
<1>4. /\ Released(ls, id) \in Seq(LeafRow)
      /\ DOMAIN Released(ls, id) = DOMAIN ls
      /\ \A n \in DOMAIN ls : Released(ls, id)[n].seal =
             IF n \in B THEN 0 ELSE ls[n].seal
  BY <1>1, <1>2, LeafUpdates
<1>. QED  BY <1>3, <1>4

\* assign_to_seal().
LEMMA AssignedLeaves ==
    ASSUME leaves \in Seq(LeafRow), NEW id \in 0 .. MaxRows, NEW B
    PROVE  /\ Assigned(B, id) \in Seq(LeafRow)
           /\ DOMAIN Assigned(B, id) = DOMAIN leaves
           /\ \A n \in DOMAIN leaves : Assigned(B, id)[n].seal =
                  IF n \in B THEN id ELSE leaves[n].seal
  BY LeafUpdates DEF Assigned, Stamped

\* A step on the tables that only ends transactions: rows keep their numbers
\* and roots, so what is held elsewhere stays as it should be.
LEMMA TableStep ==
    ASSUME IInv, rows' \in Seq(Row), Len(rows) <= Len(rows'),
           \A j \in DOMAIN rows : /\ rows'[j].seq = rows[j].seq
                                  /\ rows'[j].root = rows[j].root,
           leaves' \in Seq(LeafRow), DOMAIN leaves \subseteq DOMAIN leaves',
           tx' \in [Procs -> Tx],
           \A q \in Procs : tx'[q] = Idle \/ tx'[q] = tx[q],
           UNCHANGED <<ledger, net, fresh, enabled>>,
           faults' \in 0 .. MaxFaults
    PROVE  TypeOK' /\ ChainInv' /\ TxInv'
<1>1. /\ books' = books /\ seals' = seals /\ net' = net /\ fresh' = fresh
      /\ enabled' = enabled
  BY DEF ledger
<1>4. TypeOK'
  BY <1>1 DEF IInv, TypeOK, Tx, LeafRow, PL!TypeOK
<1>5. ChainInv'
  BY <1>1 DEF IInv, ChainInv
<1>6. /\ Len(rows) \in Nat /\ Len(rows') \in Nat
      /\ DOMAIN rows = 1 .. Len(rows) /\ DOMAIN rows' = 1 .. Len(rows')
  BY LenProperties DEF IInv, TypeOK
<1>7. DOMAIN rows \subseteq DOMAIN rows'
  BY <1>6
<1>8. TxInv'
  <2> SUFFICES ASSUME NEW q \in Procs PROVE HeldBy(q, tx[q])'
    BY DEF TxInv
  <2>1. PICK s : s = tx'[q]
    OBVIOUS
  <2>2. HeldBy(q, tx[q]) /\ (s = Idle \/ s = tx[q])
    BY <2>1 DEF IInv, TxInv
  <2>3. HeldBy(q, s)
    BY <2>2, IdleHeld
  <2>4. BatchOK(s) => BatchOK(s)'
    BY DEF BatchOK
  <2>5. CopyOK(s) => CopyOK(s)'
    BY <1>7 DEF CopyOK
  <2>6. OwnOK(s) => OwnOK(s)'
    BY <2>4, <1>6 DEF OwnOK
  <2>7. HeldBy(q, s)'
    BY <2>3, <2>4, <2>5, <2>6 DEF HeldBy
  <2>. QED  BY <2>1, <2>7 DEF HeldBy, BatchOK, CopyOK, OwnOK
<1>. QED  BY <1>4, <1>5, <1>8

\* A process that stops holding its row takes up no more room.
LEMMA EndsNoNew ==
    ASSUME IInv, NEW p \in Procs, tx' = tx \/ tx' = [tx EXCEPT ![p] = Idle]
    PROVE  /\ tx' \in [Procs -> Tx]
           /\ \A q \in Procs : tx'[q] = Idle \/ tx'[q] = tx[q]
           /\ Pending' \subseteq Pending
           /\ tx' = [tx EXCEPT ![p] = Idle] => Pending' \subseteq Pending \ {p}
<1>1. tx \in [Procs -> Tx]
  BY DEF IInv, TypeOK, Tx
<1>2. Idle.row = NoRow
  BY DEF Idle
<1>3. /\ tx' \in [Procs -> Tx]
      /\ \A q \in Procs : tx'[q] = Idle \/ tx'[q] = tx[q]
  BY <1>1, IdleType
<1>. QED  BY <1>1, <1>2, <1>3 DEF Pending, Uncommitted, Procs

\* Updating one seal row's status and attempts: _confirm(), _fail() and the
\* rest of _apply_outcome(), and reconcile().
LEMMA UpdateStep ==
    ASSUME IInv, NEW i \in DOMAIN rows,
           NEW s \in {"pending", "submitted", "confirmed", "failed"},
           NEW a \in Nat,
           s = "confirmed" => OnChain(rows[i]),
           rows' = [rows EXCEPT ![i].status = s, ![i].attempts = a],
           \/ leaves' = Released(leaves, i)
           \/ leaves' = leaves /\ (s = "failed" => rows[i].status = "failed"),
           NEW p \in Procs, tx' = tx \/ tx' = [tx EXCEPT ![p] = Idle],
           UNCHANGED <<ledger, net, fresh, enabled>>,
           faults' \in 0 .. MaxFaults
    PROVE  IInv'
<1>1. /\ rows \in Seq(Row) /\ Len(rows) \in Nat /\ DOMAIN rows = 1 .. Len(rows)
      /\ leaves \in Seq(LeafRow)
      /\ \A j \in DOMAIN rows : rows[j] \in Row
  BY LenProperties, ElementOfSeq DEF IInv, TypeOK, LeafRow
<1>2. PICK r : r = [rows[i] EXCEPT !.status = s, !.attempts = a]
  OBVIOUS
<1>3. /\ r \in Row /\ r.seq = rows[i].seq /\ r.root = rows[i].root
      /\ r.status = s
  BY <1>1, <1>2 DEF Row
<1>4. rows' = [rows EXCEPT ![i] = r]
  BY <1>1, <1>2
<1>5. /\ rows' \in Seq(Row) /\ Len(rows') = Len(rows)
      /\ DOMAIN rows' = DOMAIN rows
      /\ \A j \in DOMAIN rows : rows'[j] = IF j = i THEN r ELSE rows[j]
  <2>1. rows \in Seq(Row) /\ i \in 1 .. Len(rows) /\ r \in Row
    BY <1>1, <1>3
  <2>2. /\ [rows EXCEPT ![i] = r] \in Seq(Row)
        /\ Len([rows EXCEPT ![i] = r]) = Len(rows)
    BY <2>1, ExceptSeq
  <2>. QED  BY <1>4, <2>2
<1>6. /\ leaves' \in Seq(LeafRow) /\ DOMAIN leaves' = DOMAIN leaves
      /\ \A n \in DOMAIN leaves :
             leaves'[n].seal = leaves[n].seal \/ leaves'[n].seal = 0
  BY <1>1, ReleasedLeaves
<1>7. TypeOK' /\ ChainInv' /\ TxInv'
  BY <1>1, <1>3, <1>5, <1>6, EndsNoNew, TableStep
<1>8. RowsInv'
  <2> SUFFICES ASSUME NEW j \in DOMAIN rows
               PROVE  /\ rows'[j].seq \in 1 .. j
                      /\ rows'[j].root # {}
                      /\ rows'[j].root \subseteq DOMAIN leaves
                      /\ rows'[j].status # "none"
    BY <1>5, <1>6 DEF RowsInv
  <2>1. CASE j = i
    BY <2>1, <1>3, <1>5 DEF IInv, RowsInv
  <2>2. CASE j # i
    BY <2>2, <1>5 DEF IInv, RowsInv
  <2>. QED  BY <2>1, <2>2
<1>9. Room'
  BY <1>1, <1>5, EndsNoNew, PendingShrinks, PendingFinite, PendingFiniteNext,
     BoundsAssumption
  DEF IInv, Room
<1>10. LeavesInv'
  <2>1. /\ DOMAIN leaves' \subseteq 1 .. MaxLeaves
        /\ \A n \in DOMAIN leaves : leaves[n].seal \in 0 .. Len(rows)
    BY <1>6 DEF IInv, LeavesInv
  <2>2. 0 \in 0 .. Len(rows)
    BY <1>1
  <2>3. \A n \in DOMAIN leaves' : leaves'[n].seal \in 0 .. Len(rows')
    BY <2>1, <2>2, <1>5, <1>6
  <2>. QED  BY <2>1, <2>3 DEF LeavesInv
<1>11. seals' = seals
  BY DEF ledger
<1>12. ConfirmedIsOnChain'
  <2> SUFFICES ASSUME NEW j \in DOMAIN rows, rows'[j].status = "confirmed"
               PROVE  \E x \in seals[Org] : /\ x.seq = rows'[j].seq
                                            /\ x.root = rows'[j].root
    BY <1>5, <1>11 DEF ConfirmedIsOnChain, OnChain, PL!verify
  <2>1. OnChain(rows[j])
    BY <1>3, <1>5 DEF IInv, ConfirmedIsOnChain
  <2>. QED  BY <2>1, <1>3, <1>5 DEF OnChain, PL!verify
<1>13. NoLeafStranded'
  <2> SUFFICES ASSUME NEW n \in DOMAIN leaves, leaves'[n].seal # 0
               PROVE  rows'[leaves'[n].seal].status # "failed"
    BY <1>6 DEF NoLeafStranded, IsLive
  <2>1. /\ leaves'[n].seal = leaves[n].seal /\ leaves[n].seal \in DOMAIN rows
        /\ rows[leaves[n].seal].status # "failed"
    BY <1>1, <1>6 DEF IInv, LeavesInv, NoLeafStranded, IsLive
  <2>2. CASE leaves[n].seal # i
    BY <2>1, <2>2, <1>5
  <2>3. CASE leaves[n].seal = i
    <3>1. s # "failed"
      BY <1>1, <2>1, <2>3, ReleasedLeaves
    <3>. QED  BY <3>1, <2>1, <2>3, <1>3, <1>5
  <2>. QED  BY <2>2, <2>3
<1>. QED  BY <1>7, <1>8, <1>9, <1>10, <1>12, <1>13 DEF IInv

\* Committing a new row with its leaves, in the status it ended in.
LEMMA AppendStep ==
    ASSUME IInv, NEW r \in Row, NEW B \in SUBSET (1 .. MaxLeaves),
           r.seq \in 1 .. Len(rows) + 1, r.root = B, B # {},
           B \subseteq DOMAIN leaves, r.status # "none",
           r.status = "confirmed" => OnChain(r),
           rows' = Append(rows, r),
           leaves' = IF r.status = "failed"
                     THEN Released(Assigned(B, Len(rows) + 1), Len(rows) + 1)
                     ELSE Assigned(B, Len(rows) + 1),
           NEW p \in Procs, tx' = [tx EXCEPT ![p] = Idle],
           p \in Pending \/ RowsTaken < MaxRows,
           UNCHANGED <<ledger, net, fresh, enabled>>,
           faults' \in 0 .. MaxFaults
    PROVE  IInv'
<1> DEFINE k == Len(rows) + 1
<1>1. /\ rows \in Seq(Row) /\ Len(rows) \in Nat /\ DOMAIN rows = 1 .. Len(rows)
      /\ leaves \in Seq(LeafRow)
  BY LenProperties DEF IInv, TypeOK, LeafRow
<1>2. /\ rows' \in Seq(Row) /\ Len(rows') = k
      /\ \A j \in 1 .. Len(rows) : rows'[j] = rows[j]
      /\ rows'[k] = r
  BY <1>1, AppendProperties
<1>3. DOMAIN rows' = 1 .. k
  BY <1>2, LenProperties
<1>4. Pending' \subseteq Pending \ {p} /\ Pending' \subseteq Pending
  BY EndsNoNew
<1>5. k + Cardinality(Pending') <= MaxRows
  <2>1. CASE p \in Pending
    <3>1. Cardinality(Pending') + 1 <= Cardinality(Pending)
      BY <1>4, <2>1, PendingLosesOne
    <3>2. Len(rows) + Cardinality(Pending) <= MaxRows
      BY PendingFinite DEF IInv, Room
    <3>. QED  BY <3>1, <3>2, <1>1, PendingFinite, PendingFiniteNext,
                 BoundsAssumption
  <2>2. CASE RowsTaken < MaxRows
    <3>1. Cardinality(Pending') <= Cardinality(Pending)
      BY <1>4, PendingShrinks
    <3>2. Len(rows) + Cardinality(Pending) < MaxRows
      BY <2>2, PendingFinite
    <3>. QED  BY <3>1, <3>2, <1>1, PendingFinite, PendingFiniteNext,
                 BoundsAssumption
  <2>. QED  BY <2>1, <2>2
<1>6. Room'
  BY <1>2, <1>5, PendingFiniteNext DEF Room
<1>7. k \in 1 .. MaxRows
  BY <1>1, <1>5, PendingFiniteNext, BoundsAssumption
<1> HIDE DEF k
<1>8. leaves' = IF r.status = "failed" THEN Released(Assigned(B, k), k)
                ELSE Assigned(B, k)
  BY DEF k
<1>9. /\ Assigned(B, k) \in Seq(LeafRow)
      /\ DOMAIN Assigned(B, k) = DOMAIN leaves
      /\ \A n \in DOMAIN leaves : Assigned(B, k)[n].seal =
             IF n \in B THEN k ELSE leaves[n].seal
  BY <1>1, <1>7, AssignedLeaves
<1>10. /\ leaves' \in Seq(LeafRow) /\ DOMAIN leaves' = DOMAIN leaves
       /\ \A n \in DOMAIN leaves :
              \/ leaves'[n].seal = 0
              \/ leaves'[n].seal = leaves[n].seal
              \/ leaves'[n].seal = k /\ r.status # "failed"
  <2>1. CASE r.status = "failed"
    <3>1. leaves' = Released(Assigned(B, k), k)
      BY <2>1, <1>8
    <3>. QED  BY <3>1, <1>9, ReleasedLeaves
  <2>2. CASE r.status # "failed"
    BY <2>2, <1>8, <1>9
  <2>. QED  BY <2>1, <2>2
<1>11. Len(rows) <= Len(rows')
  BY <1>1, <1>2 DEF k
<1>12. TypeOK' /\ ChainInv' /\ TxInv'
  BY <1>1, <1>2, <1>10, <1>11, EndsNoNew, TableStep
<1>13. \A j \in 1 .. k : j \in DOMAIN rows \/ j = k
  BY <1>1 DEF k
<1>14. RowsInv'
  <2> SUFFICES ASSUME NEW j \in 1 .. k
               PROVE  /\ rows'[j].seq \in 1 .. j
                      /\ rows'[j].root # {}
                      /\ rows'[j].root \subseteq DOMAIN leaves
                      /\ rows'[j].status # "none"
    BY <1>3, <1>10 DEF RowsInv
  <2>1. CASE j = k
    BY <2>1, <1>2 DEF k
  <2>2. CASE j \in DOMAIN rows
    BY <2>2, <1>1, <1>2 DEF IInv, RowsInv
  <2>. QED  BY <2>1, <2>2, <1>13
<1>15. LeavesInv'
  <2> SUFFICES ASSUME NEW n \in DOMAIN leaves
               PROVE  leaves'[n].seal \in 0 .. k
    BY <1>2, <1>10 DEF IInv, LeavesInv
  <2>1. leaves[n].seal \in 0 .. Len(rows)
    BY DEF IInv, LeavesInv
  <2>2. leaves[n].seal \in 0 .. k /\ k \in Nat /\ 0 \in 0 .. k /\ k \in 0 .. k
    BY <2>1, <1>1, <1>7 DEF k
  <2>. QED  BY <2>2, <1>10
<1>16. seals' = seals
  BY DEF ledger
<1>17. ConfirmedIsOnChain'
  <2> SUFFICES ASSUME NEW j \in 1 .. k, rows'[j].status = "confirmed"
               PROVE  \E x \in seals[Org] : /\ x.seq = rows'[j].seq
                                            /\ x.root = rows'[j].root
    BY <1>3, <1>16 DEF ConfirmedIsOnChain, OnChain, PL!verify
  <2>1. CASE j = k
    BY <2>1, <1>2 DEF OnChain, PL!verify
  <2>2. CASE j \in DOMAIN rows
    BY <2>2, <1>1, <1>2 DEF IInv, ConfirmedIsOnChain, OnChain, PL!verify
  <2>. QED  BY <2>1, <2>2, <1>13
<1>18. NoLeafStranded'
  <2> SUFFICES ASSUME NEW n \in DOMAIN leaves, leaves'[n].seal # 0
               PROVE  rows'[leaves'[n].seal].status # "failed"
    BY <1>10 DEF NoLeafStranded, IsLive
  <2>1. CASE leaves'[n].seal = leaves[n].seal
    <3>1. /\ leaves[n].seal \in 1 .. Len(rows)
          /\ rows[leaves[n].seal].status # "failed"
      BY <2>1, <1>1 DEF IInv, LeavesInv, NoLeafStranded, IsLive
    <3>. QED  BY <2>1, <3>1, <1>2
  <2>2. CASE leaves'[n].seal = k /\ r.status # "failed"
    BY <2>2, <1>2
  <2>. QED  BY <2>1, <2>2, <1>10
<1>. QED  BY <1>6, <1>12, <1>14, <1>15, <1>17, <1>18 DEF IInv

----------------------------------------------------------------------------
(* The actions.                                                            *)

\* What the invariant says of one process.
LEMMA ProcessFacts ==
    ASSUME IInv, NEW p \in Procs
    PROVE  /\ tx[p] \in Tx /\ tx[p].row \in Row
           /\ HeldBy(p, tx[p])
           /\ net \subseteq PL!Call /\ fresh \subseteq 1 .. MaxRows
           /\ enabled \in BOOLEAN /\ faults \in 0 .. MaxFaults
<1>1. tx[p] \in Tx
  BY DEF IInv, TypeOK, Tx
<1>. QED  BY <1>1 DEF IInv, TypeOK, TxInv, Tx

\* A transaction that is rolled back.
LEMMA RollBack ==
    ASSUME IInv, NEW p \in Procs, tx' = [tx EXCEPT ![p] = Idle],
           UNCHANGED <<ledger, net, fresh, leaves, rows, enabled>>,
           faults' \in 0 .. MaxFaults
    PROVE  IInv'
<1>1. Idle \in Tx /\ HeldBy(p, Idle) /\ Idle.row = NoRow
  BY IdleType, IdleHeld DEF Idle
<1>. QED  BY <1>1, ProcessFacts, OwnStep

\* The end of submit(), whatever the status, as long as "confirmed" is only
\* written for a seal the chain holds.
LEMMA SettleInv ==
    ASSUME IInv, NEW p \in Procs, tx[p].pc \in Submitting,
           NEW status \in {"pending", "submitted", "confirmed", "failed"},
           NEW marked \in BOOLEAN,
           status = "confirmed" => OnChain(tx[p].row),
           Settle(p, status, marked), faults' \in 0 .. MaxFaults
    PROVE  IInv'
<1>1. PICK t : t = tx[p]
  OBVIOUS
<1>2. /\ t \in Tx /\ t.row \in Row /\ t.row.attempts \in Nat
      /\ IF p \in Workers THEN CopyOK(t) ELSE OwnOK(t)
  BY <1>1, ProcessFacts DEF HeldBy, Row
<1>3. tx' = [tx EXCEPT ![p] = Idle] /\ UNCHANGED <<ledger, net, fresh, enabled>>
  BY DEF Settle
<1>4. rows \in Seq(Row) /\ DOMAIN rows = 1 .. Len(rows) /\ Len(rows) \in Nat
  BY LenProperties DEF IInv, TypeOK
<1> DEFINE wrote == t.wrote \/ status # t.row.status
<1>5. CASE p \in Workers
  <2>1. /\ t.id \in DOMAIN rows /\ t.id # 0
        /\ t.row.seq = rows[t.id].seq /\ t.row.root = rows[t.id].root
        /\ IsOpen(t.row)
    BY <1>2, <1>4, <1>5 DEF CopyOK
  <2>2. PICK i : i = t.id
    OBVIOUS
  <2>3. CASE UNCHANGED <<rows, leaves>>
    BY <2>3, <1>3, RollBack
  <2>4. CASE ~ UNCHANGED <<rows, leaves>>
    <3>1. /\ rows' = [rows EXCEPT ![i].status = IF wrote THEN status ELSE @,
                                  ![i].attempts =
                                      IF marked THEN t.row.attempts ELSE @]
          /\ leaves' = IF status = "failed" THEN Released(leaves, i) ELSE leaves
      BY <1>1, <2>1, <2>2, <2>4 DEF Settle
    <3> DEFINE s == IF wrote THEN status ELSE rows[i].status
    <3> DEFINE a == IF marked THEN t.row.attempts ELSE rows[i].attempts
    <3>2. rows[i] \in Row /\ i \in DOMAIN rows
      BY <2>1, <2>2, <1>4, ElementOfSeq
    <3>3. /\ s \in {"pending", "submitted", "confirmed", "failed"}
          /\ a \in Nat
      <4>1. /\ rows[i].status \in {"none", "pending", "submitted",
                                   "confirmed", "failed"}
            /\ rows[i].attempts \in Nat
        BY <3>2 DEF Row
      <4>2. rows[i].status # "none"
        BY <3>2 DEF IInv, RowsInv
      <4>. QED  BY <4>1, <4>2, <1>2
    <3>4. rows' = [rows EXCEPT ![i].status = s, ![i].attempts = a]
      <4>1. PICK r1 : r1 = [rows[i] EXCEPT !.status = s]
        OBVIOUS
      <4>2. r1.attempts = rows[i].attempts
        BY <4>1, <3>2 DEF Row
      <4>. QED  BY <3>1, <3>2, <4>1, <4>2
    <3>5. s = "confirmed" => OnChain(rows[i])
      <4>1. OnChain(t.row) => OnChain(rows[i])
        BY <2>1, <2>2 DEF OnChain
      <4>. QED  BY <4>1, <1>1, <3>2 DEF IInv, ConfirmedIsOnChain
    <3>6. \/ leaves' = Released(leaves, i)
          \/ leaves' = leaves /\ (s = "failed" => rows[i].status = "failed")
      BY <3>1
    <3> HIDE DEF s, a
    <3>. QED  BY <1>3, <3>2, <3>3, <3>4, <3>5, <3>6, UpdateStep
  <2>. QED  BY <2>3, <2>4
<1>6. CASE p \notin Workers
  <2>1. /\ t.id = 0 /\ t.batch # {} /\ t.batch \subseteq DOMAIN leaves
        /\ t.row.root = t.batch /\ t.row.seq \in 1 .. Len(rows) + 1
        /\ IsOpen(t.row)
        /\ t.batch \in SUBSET (1 .. MaxLeaves)
    BY <1>2, <1>6 DEF OwnOK, BatchOK, Tx
  <2>2. PICK r : r = [t.row EXCEPT !.status = status]
    OBVIOUS
  <2>3. /\ r \in Row /\ r.seq = t.row.seq /\ r.root = t.row.root
        /\ r.status = status
    BY <1>2, <2>2 DEF Row
  <2>4. p \in Pending
    <3>1. t.row.status # NoRow.status
      BY <2>1 DEF IsOpen, NoRow
    <3>. QED  BY <3>1, <1>1, <1>6 DEF Pending, Uncommitted, Procs
  <2>5. /\ rows' = Append(rows, r)
        /\ leaves' = IF status = "failed"
                     THEN Released(Assigned(t.batch, Len(rows) + 1),
                                   Len(rows) + 1)
                     ELSE Assigned(t.batch, Len(rows) + 1)
    BY <1>1, <2>1, <2>2 DEF Settle
  <2>6. r.status = "confirmed" => OnChain(r)
    BY <1>1, <2>3 DEF OnChain
  <2>. QED  BY <1>3, <2>1, <2>3, <2>4, <2>5, <2>6, AppendStep
<1>. QED  BY <1>5, <1>6

\* Steps of the network, the clock and the operator: no table changes.
LEMMA QuietStep ==
    ASSUME IInv, UNCHANGED <<ledger, leaves, rows, tx>>,
           net' \subseteq PL!Call, fresh' \subseteq 1 .. MaxRows,
           enabled' \in BOOLEAN, faults' \in 0 .. MaxFaults
    PROVE  IInv'
<1>1. /\ books' = books /\ seals' = seals /\ leaves' = leaves /\ rows' = rows
      /\ tx' = tx
  BY DEF ledger
<1>2. TypeOK'
  BY <1>1 DEF IInv, TypeOK, PL!TypeOK
<1>3. TxInv' /\ RowsInv' /\ LeavesInv' /\ ChainInv'
  BY <1>1 DEF IInv, TxInv, HeldBy, BatchOK, CopyOK, OwnOK, RowsInv, LeavesInv,
              ChainInv
<1>4. Room'
  BY <1>1 DEF IInv, Room, RowsTaken, Uncommitted
<1>5. ConfirmedIsOnChain' /\ NoLeafStranded'
  BY <1>1 DEF IInv, ConfirmedIsOnChain, NoLeafStranded, OnChain, PL!verify, IsLive
<1>. QED  BY <1>2, <1>3, <1>4, <1>5 DEF IInv

\* record_leaf(): the new leaf belongs to no seal.
LEMMA RecordInv == ASSUME IInv, record_leaf PROVE IInv'
<1>1. PICK t \in 0 .. MaxClock :
          leaves' = Append(leaves, [created |-> t, seal |-> 0])
  BY DEF record_leaf
<1>2. PICK l : l = [created |-> t, seal |-> 0]
  OBVIOUS
<1>3. l \in LeafRow /\ l.seal = 0
  BY <1>2, BoundsAssumption DEF LeafRow
<1>4. /\ leaves \in Seq(LeafRow) /\ Len(leaves) \in Nat
      /\ DOMAIN leaves = 1 .. Len(leaves)
      /\ rows \in Seq(Row) /\ Len(rows) \in Nat /\ faults \in 0 .. MaxFaults
  BY LenProperties DEF IInv, TypeOK, LeafRow
<1>5. leaves' = Append(leaves, l)
  BY <1>1, <1>2
<1>6. /\ leaves' \in Seq(LeafRow) /\ Len(leaves') = Len(leaves) + 1
      /\ \A n \in 1 .. Len(leaves) : leaves'[n] = leaves[n]
      /\ leaves'[Len(leaves) + 1] = l
  BY <1>3, <1>4, <1>5, AppendProperties
<1>7. DOMAIN leaves' = 1 .. Len(leaves) + 1
  BY <1>6, LenProperties
<1>8. DOMAIN leaves \subseteq DOMAIN leaves'
  BY <1>4, <1>7
<1>9. \A n \in DOMAIN leaves' :
          leaves'[n].seal = 0 \/ (n \in DOMAIN leaves /\ leaves'[n] = leaves[n])
  BY <1>3, <1>4, <1>6, <1>7
<1>10. /\ rows' = rows /\ tx' = tx /\ books' = books /\ seals' = seals
       /\ faults' = faults /\ UNCHANGED <<ledger, net, fresh, enabled>>
  BY DEF record_leaf, ledger
<1>11. TypeOK' /\ ChainInv' /\ TxInv'
  <2>1. tx' \in [Procs -> Tx]
    BY <1>10 DEF IInv, TypeOK, Tx
  <2>. QED  BY <2>1, <1>4, <1>6, <1>8, <1>10, TableStep
<1>12. RowsInv'
  BY <1>8, <1>10 DEF IInv, RowsInv
<1>13. Room'
  BY <1>10 DEF IInv, Room, RowsTaken, Uncommitted
<1>16. DOMAIN leaves' \subseteq 1 .. MaxLeaves
  BY <1>4, <1>7, BoundsAssumption DEF record_leaf
<1>14. LeavesInv' /\ NoLeafStranded'
  BY <1>4, <1>9, <1>10, <1>16 DEF IInv, LeavesInv, NoLeafStranded, IsLive
<1>15. ConfirmedIsOnChain'
  BY <1>10 DEF IInv, ConfirmedIsOnChain, OnChain, PL!verify
<1>. QED  BY <1>11, <1>12, <1>13, <1>14, <1>15 DEF IInv

\* create_seal() up to its insert, and the insert itself.
LEMMA CreateInv == ASSUME IInv, NEW p \in Procs, Create(p) PROVE IInv'
<1>1. PICK t : t = tx[p]
  OBVIOUS
<1>2. t \in Tx /\ HeldBy(p, t)
  BY <1>1, ProcessFacts
<1>3. /\ leaves \in Seq(LeafRow) /\ DOMAIN leaves = 1 .. Len(leaves)
      /\ rows \in Seq(Row) /\ DOMAIN rows = 1 .. Len(rows) /\ Len(rows) \in Nat
  BY LenProperties DEF IInv, TypeOK, LeafRow
<1>4. CASE create_seal(p)
  <2>1. PICK u : u = [t EXCEPT !.pc = "batch"]
    OBVIOUS
  <2>2. u \in Tx /\ u.pc = "batch" /\ u.row = t.row /\ u.id = t.id
    BY <1>2, <2>1 DEF Tx
  <2>3. t.row = NoRow /\ t.id = 0
    BY <1>1, <1>2, <1>4 DEF create_seal, HeldBy, Submitting
  <2>4. HeldBy(p, u)
    BY <2>2, <2>3 DEF HeldBy, Batching, Submitting
  <2>5. tx' = [tx EXCEPT ![p] = u]
    BY <1>1, <2>1, <1>4 DEF create_seal
  <2>. QED  BY <1>4, <2>2, <2>3, <2>4, <2>5, ProcessFacts, OwnStep
            DEF create_seal, db
<1>5. CASE read_unsealed(p)
  <2>1. CASE Batch = {}
    <3>1. tx' = [tx EXCEPT ![p] = Idle]
      BY <1>5, <2>1 DEF read_unsealed
    <3>. QED  BY <1>5, <3>1, ProcessFacts, RollBack DEF read_unsealed, db
  <2>2. CASE Batch # {}
    <3>1. PICK u : u = [t EXCEPT !.pc = "previous", !.batch = Batch]
      OBVIOUS
    <3>2. Batch \subseteq DOMAIN leaves
      BY DEF Batch, unsealed
    <3>3. u \in Tx /\ u.pc = "previous" /\ u.batch = Batch /\ u.row = t.row
          /\ u.id = t.id
      <4>1. Batch \in SUBSET (1 .. MaxLeaves)
        BY <3>2 DEF IInv, LeavesInv
      <4> HIDE DEF Batch
      <4>. QED  BY <1>2, <3>1, <4>1 DEF Tx
    <3>4. t.row = NoRow /\ t.id = 0
      BY <1>1, <1>2, <1>5 DEF read_unsealed, HeldBy, Submitting
    <3>5. HeldBy(p, u)
      BY <2>2, <3>2, <3>3, <3>4 DEF HeldBy, BatchOK, Batching, Submitting
    <3>6. tx' = [tx EXCEPT ![p] = u]
      BY <1>1, <1>5, <2>2, <3>1 DEF read_unsealed
    <3>. QED  BY <1>5, <3>3, <3>4, <3>5, <3>6, ProcessFacts, OwnStep
              DEF read_unsealed, db
  <2>. QED  BY <2>1, <2>2
<1>6. CASE read_previous(p)
  <2>1. PICK u : u = [t EXCEPT !.pc = "insert", !.previous = latest_confirmed]
    OBVIOUS
  <2>2. latest_confirmed \in Row
    BY LatestType DEF IInv, TypeOK
  <2>3. /\ u \in Tx /\ u.pc = "insert" /\ u.batch = t.batch
        /\ u.row = t.row /\ u.id = t.id
    BY <1>2, <2>1, <2>2 DEF Tx
  <2>4. t.row = NoRow /\ t.id = 0 /\ BatchOK(t)
    BY <1>1, <1>2, <1>6 DEF read_previous, HeldBy, Submitting, Batching
  <2>5. HeldBy(p, u)
    BY <2>3, <2>4 DEF HeldBy, BatchOK, Batching, Submitting
  <2>6. tx' = [tx EXCEPT ![p] = u]
    BY <1>1, <1>6, <2>1 DEF read_previous
  <2>. QED  BY <1>6, <2>3, <2>4, <2>5, <2>6, ProcessFacts, OwnStep
            DEF read_previous, db
<1>7. CASE insert_seal(p)
  <2>1. /\ t.pc = "insert" /\ RowsTaken < MaxRows
        /\ UNCHANGED <<ledger, net, fresh, enabled, faults>>
    BY <1>1, <1>7 DEF insert_seal
  <2>2. BatchOK(t) /\ t.id = 0
    BY <1>2, <2>1 DEF HeldBy, Batching, Submitting
  <2>3. Len(rows) < MaxRows
    BY <1>3, <2>1, PendingFinite, BoundsAssumption
  <2>4. PICK r : r = NewRow(p)
    OBVIOUS
  <2>5. /\ r \in Row /\ r.seq \in 1 .. Len(rows) + 1 /\ r.root = t.batch
        /\ r.status = "pending"
    BY <1>1, <1>2, <1>3, <2>2, <2>3, <2>4, NewRowType DEF IInv
  <2>6. CASE tx' = [tx EXCEPT ![p] = Idle] /\ UNCHANGED <<leaves, rows>>
    BY <2>1, <2>6, ProcessFacts, RollBack
  <2>7. CASE /\ p \in Requests
             /\ tx' = [tx EXCEPT ![p].pc = "submit", ![p].row = NewRow(p),
                                 ![p].wrote = TRUE]
             /\ UNCHANGED <<leaves, rows>>
    <3>1. PICK u : u = [t EXCEPT !.pc = "submit", !.row = r, !.wrote = TRUE]
      OBVIOUS
    <3>2. /\ u \in Tx /\ u.pc = "submit" /\ u.row = r /\ u.batch = t.batch
          /\ u.id = t.id
      BY <1>2, <2>5, <3>1 DEF Tx
    <3>3. OwnOK(u)
      BY <2>2, <2>5, <3>2 DEF OwnOK, BatchOK, IsOpen
    <3>4. HeldBy(p, u)
      BY <2>7, <3>2, <3>3, ProcsAssumption DEF HeldBy, Batching, Submitting
    <3>5. tx' = [tx EXCEPT ![p] = u]
      BY <1>1, <2>4, <2>7, <3>1
    <3>. QED  BY <2>1, <2>7, <3>2, <3>4, <3>5, ProcessFacts, OwnStep
  <2>8. CASE /\ rows' = Append(rows, NewRow(p))
             /\ leaves' = Assigned(tx[p].batch, Len(rows) + 1)
             /\ tx' = [tx EXCEPT ![p] = Idle]
    <3>1. /\ t.batch \in SUBSET (1 .. MaxLeaves)
          /\ t.batch # {} /\ t.batch \subseteq DOMAIN leaves
      BY <1>2, <2>2 DEF Tx, BatchOK
    <3>2. /\ rows' = Append(rows, r)
          /\ leaves' = IF r.status = "failed"
                       THEN Released(Assigned(t.batch, Len(rows) + 1),
                                     Len(rows) + 1)
                       ELSE Assigned(t.batch, Len(rows) + 1)
      BY <1>1, <2>4, <2>5, <2>8
    <3>3. faults' \in 0 .. MaxFaults
      BY <2>1, ProcessFacts
    <3>. QED  BY <2>1, <2>5, <2>8, <3>1, <3>2, <3>3, AppendStep
  <2>. QED  BY <1>7, <2>6, <2>7, <2>8 DEF insert_seal
<1>. QED  BY <1>4, <1>5, <1>6, <1>7 DEF Create

\* drain() takes up a copy of an open row.
LEMMA DrainInv == ASSUME IInv, NEW p \in Workers, drain(p) PROVE IInv'
<1>0. p \in Procs
  BY DEF Procs
<1>1. PICK i \in open_work :
          tx' = [tx EXCEPT ![p] = [Idle EXCEPT !.pc = "submit", !.id = i,
                                               !.row = rows[i]]]
  BY DEF drain
<1>2. PICK u : u = [Idle EXCEPT !.pc = "submit", !.id = i, !.row = rows[i]]
  OBVIOUS
<1>3. /\ Len(rows) \in Nat /\ DOMAIN rows = 1 .. Len(rows)
      /\ Len(rows) <= MaxRows
  <2>1. Len(rows) \in Nat /\ DOMAIN rows = 1 .. Len(rows)
    BY LenProperties DEF IInv, TypeOK
  <2>. QED  BY <2>1, PendingFinite, BoundsAssumption DEF IInv, Room
<1>4. i \in DOMAIN rows /\ i \in 0 .. MaxRows /\ rows[i] \in Row /\ IsOpen(rows[i])
  <2>1. i \in DOMAIN rows /\ IsOpen(rows[i])
    BY DEF open_work
  <2>2. rows[i] \in Row
    BY <2>1, <1>3, ElementOfSeq DEF IInv, TypeOK
  <2>. QED  BY <2>1, <2>2, <1>3, BoundsAssumption
<1>5. u \in Tx /\ u.pc = "submit" /\ u.id = i /\ u.row = rows[i]
  BY <1>2, <1>4, IdleType DEF Tx
<1>6. HeldBy(p, u)
  BY <1>4, <1>5 DEF HeldBy, CopyOK, Batching, Submitting
<1>7. tx' = [tx EXCEPT ![p] = u]
  BY <1>1, <1>2
<1>. QED  BY <1>0, <1>5, <1>6, <1>7, ProcessFacts, OwnStep DEF drain, db

\* A fault is counted.
LEMMA FaultCounted == ASSUME IInv, Fault PROVE faults' \in 0 .. MaxFaults
  BY BoundsAssumption DEF IInv, TypeOK, Fault

\* The statuses submit() settles on; "confirmed" comes from the chain.
LEMMA Statuses ==
    ASSUME IInv, NEW p \in Procs, tx[p].pc \in Submitting
    PROVE  /\ tx[p].row.status \in {"pending", "submitted"}
           /\ Resolution(p) \in {"confirmed", "failed"}
           /\ Resolution(p) = "confirmed" => OnChain(tx[p].row)
<1>1. HeldBy(p, tx[p])
  BY ProcessFacts
<1>. QED  BY <1>1 DEF HeldBy, CopyOK, OwnOK, IsOpen, Resolution

\* _apply_outcome() of a refusal never confirms.
LEMMA RejectedInv ==
    ASSUME IInv, NEW p \in Procs, tx[p].pc \in Submitting, Rejected(p),
           faults' \in 0 .. MaxFaults
    PROVE  IInv'
<1>1. CASE tx[p].row.attempts >= MAX_SEAL_ATTEMPTS
  <2>1. Settle(p, "failed", TRUE)
    BY <1>1 DEF Rejected
  <2>. QED  BY <2>1, SettleInv
<1>2. CASE ~ (tx[p].row.attempts >= MAX_SEAL_ATTEMPTS)
  <2>1. Settle(p, "pending", TRUE)
    BY <1>2 DEF Rejected
  <2>. QED  BY <2>1, SettleInv
<1>. QED  BY <1>1, <1>2

\* submit() before it sends anything, ending the transaction.
LEMMA BeforeSendInv ==
    ASSUME IInv, NEW p \in Procs,
           \/ submit_not_ready(p) \/ submit_unreachable(p) \/ submit_resolve(p)
           \/ submit_wait(p) \/ submit_diverged(p)
    PROVE  IInv'
<1>1. faults \in 0 .. MaxFaults
  BY ProcessFacts
<1>2. CASE submit_not_ready(p)
  <2>1. tx[p].pc \in Submitting /\ Settle(p, "failed", FALSE) /\ faults' = faults
    BY <1>2 DEF submit_not_ready, AskChain, Submitting
  <2>. QED  BY <2>1, <1>1, SettleInv
<1>3. CASE submit_unreachable(p)
  <2>1. /\ tx[p].pc \in Submitting /\ Settle(p, tx[p].row.status, FALSE)
        /\ faults' \in 0 .. MaxFaults
    BY <1>3, FaultCounted DEF submit_unreachable, AskChain, Submitting
  <2>2. tx[p].row.status \in {"pending", "submitted"}
    BY <2>1, Statuses
  <2>. QED  BY <2>1, <2>2, SettleInv
<1>4. CASE submit_resolve(p)
  <2>1. /\ tx[p].pc \in Submitting /\ Settle(p, Resolution(p), FALSE)
        /\ faults' = faults
    BY <1>4 DEF submit_resolve, AskChain, Submitting
  <2>2. /\ Resolution(p) \in {"confirmed", "failed"}
        /\ Resolution(p) = "confirmed" => OnChain(tx[p].row)
    BY <2>1, Statuses
  <2>. QED  BY <2>1, <2>2, <1>1, SettleInv
<1>5. CASE submit_wait(p)
  <2>1. /\ tx[p].pc \in Submitting /\ Settle(p, tx[p].row.status, FALSE)
        /\ faults' = faults
    BY <1>5 DEF submit_wait, AskChain, Submitting
  <2>2. tx[p].row.status \in {"pending", "submitted"}
    BY <2>1, Statuses
  <2>. QED  BY <2>1, <2>2, <1>1, SettleInv
<1>6. CASE submit_diverged(p)
  <2>1. tx[p].pc \in Submitting /\ Settle(p, "failed", FALSE) /\ faults' = faults
    BY <1>6 DEF submit_diverged, AskChain, Submitting
  <2>. QED  BY <2>1, <1>1, SettleInv
<1>. QED  BY <1>2, <1>3, <1>4, <1>5, <1>6

\* The refusals, the polls and the exceptions after it.
LEMMA AfterSendInv ==
    ASSUME IInv, NEW p \in Procs,
           \/ prepare_refused(p) \/ send_refused(p) \/ poll_success(p)
           \/ poll_failed(p) \/ poll_timeout(p) \/ raises(p)
    PROVE  IInv'
<1>1. faults \in 0 .. MaxFaults
  BY ProcessFacts
<1>2. tx[p].pc \in Submitting
  BY DEF prepare_refused, send_refused, poll_success, poll_failed, poll_timeout,
         TimesOut, raises, Submitting
<1>3. faults' \in 0 .. MaxFaults
  BY <1>1, FaultCounted
  DEF prepare_refused, send_refused, poll_success, poll_failed, poll_timeout,
      TimesOut, raises
<1>4. CASE Settle(p, Resolution(p), TRUE)
  <2>1. /\ Resolution(p) \in {"confirmed", "failed"}
        /\ Resolution(p) = "confirmed" => OnChain(tx[p].row)
    BY <1>2, Statuses
  <2>. QED  BY <2>1, <1>2, <1>3, <1>4, SettleInv
<1>5. CASE Rejected(p)
  BY <1>2, <1>3, <1>5, RejectedInv
<1>6. CASE OnChain(tx[p].row) /\ Settle(p, "confirmed", TRUE)
  BY <1>2, <1>3, <1>6, SettleInv
<1>7. CASE Settle(p, "submitted", TRUE)
  BY <1>2, <1>3, <1>7, SettleInv
<1>8. CASE tx' = [tx EXCEPT ![p] = Idle] /\ UNCHANGED <<ledger, net, fresh, db>>
  BY <1>3, <1>8, RollBack DEF db
<1>. QED  BY <1>4, <1>5, <1>6, <1>7, <1>8
          DEF prepare_refused, send_refused, poll_success, poll_failed,
              poll_timeout, TimesOut, raises

\* What a row asks of the contract is a call.
LEMMA CallType == ASSUME NEW r \in Row PROVE CallOf(r) \in PL!Call
<1>1. r.root \in SUBSET (1 .. MaxLeaves)
  BY DEF Row
<1>2. IsFiniteSet(1 .. MaxLeaves) /\ Cardinality(1 .. MaxLeaves) = MaxLeaves
  BY FS_Interval, BoundsAssumption
<1>3. /\ IsFiniteSet(r.root)
      /\ Cardinality(r.root) <= Cardinality(1 .. MaxLeaves)
  BY <1>1, <1>2, FS_Subset
<1>4. Cardinality(r.root) \in 0 .. MaxLeaves
  BY <1>2, <1>3, FS_CardinalityType, BoundsAssumption
<1>. QED  BY <1>4 DEF CallOf, PL!Call, PL!Period, Row

\* submit() getting its row onto the network.
LEMMA SendInv ==
    ASSUME IInv, NEW p \in Procs,
           submit_our_turn(p) \/ mark_submitted(p) \/ send_transaction(p)
    PROVE  IInv'
<1>1. PICK t : t = tx[p]
  OBVIOUS
<1>2. t \in Tx /\ HeldBy(p, t) /\ t.row \in Row /\ t.pc \in Submitting
  BY <1>1, ProcessFacts
  DEF submit_our_turn, mark_submitted, send_transaction, Submitting
<1>3. p \in Workers \/ tx[p].row # NoRow
  <2>1. CASE p \notin Workers
    <3>1. IsOpen(t.row)
      BY <1>2, <2>1 DEF HeldBy, OwnOK
    <3>2. t.row.status # NoRow.status
      BY <3>1 DEF IsOpen, NoRow
    <3>. QED  BY <1>1, <3>2
  <2>. QED  BY <2>1
<1>4. CASE submit_our_turn(p)
  <2>1. PICK u : u = [t EXCEPT !.pc = "mark"]
    OBVIOUS
  <2>2. /\ u \in Tx /\ u.pc = "mark" /\ u.row = t.row /\ u.batch = t.batch
        /\ u.id = t.id
    BY <1>2, <2>1 DEF Tx
  <2>3. HeldBy(p, u)
    BY <1>2, <2>2
    DEF HeldBy, CopyOK, OwnOK, BatchOK, Batching, Submitting
  <2>4. tx' = [tx EXCEPT ![p] = u]
    BY <1>1, <1>4, <2>1 DEF submit_our_turn
  <2>. QED  BY <1>3, <1>4, <2>2, <2>3, <2>4, ProcessFacts, OwnStep
            DEF submit_our_turn, db
<1>5. CASE mark_submitted(p)
  <2>1. CASE tx' = [tx EXCEPT ![p] = Idle]
    BY <1>5, <2>1, ProcessFacts, RollBack DEF mark_submitted, db
  <2>2. CASE tx' # [tx EXCEPT ![p] = Idle]
    <3>1. PICK w : w = (t.wrote \/ t.row.status # "submitted")
      OBVIOUS
    <3>2. PICK u : u = [t EXCEPT !.pc = "send", !.row.status = "submitted",
                                 !.row.attempts = @ + 1, !.wrote = w]
      OBVIOUS
    <3>3. tx' = [tx EXCEPT ![p] = u]
      BY <1>1, <1>5, <2>2, <3>1, <3>2 DEF mark_submitted
    <3>4. PICK r : r = [t.row EXCEPT !.status = "submitted",
                                     !.attempts = @ + 1]
      OBVIOUS
    <3>5. /\ r \in Row /\ r.seq = t.row.seq /\ r.root = t.row.root
          /\ r.status = "submitted"
      <4>1. t.row.attempts \in Nat
        BY <1>2 DEF Row
      <4>2. PICK n \in Nat : n = t.row.attempts + 1
        BY <4>1
      <4>3. r = [t.row EXCEPT !.status = "submitted", !.attempts = n]
        BY <1>2, <3>4, <4>2 DEF Row
      <4>. QED  BY <1>2, <4>2, <4>3 DEF Row
    <3>6. /\ u \in Tx /\ u.pc = "send" /\ u.row = r /\ u.batch = t.batch
          /\ u.id = t.id
      <4>1. w \in BOOLEAN
        BY <3>1
      <4>2. u = [t EXCEPT !.pc = "send", !.row = r, !.wrote = w]
        BY <1>2, <3>2, <3>4 DEF Tx
      <4>. QED  BY <1>2, <3>5, <4>1, <4>2 DEF Tx
    <3>7. HeldBy(p, u)
      BY <1>2, <3>5, <3>6
      DEF HeldBy, CopyOK, OwnOK, BatchOK, IsOpen, Batching, Submitting
    <3>. QED  BY <1>3, <1>5, <3>3, <3>6, <3>7, ProcessFacts, OwnStep
              DEF mark_submitted, db
  <2>. QED  BY <2>1, <2>2
<1>6. CASE send_transaction(p)
  <2>1. PICK u : u = [t EXCEPT !.pc = "poll"]
    OBVIOUS
  <2>2. /\ u \in Tx /\ u.pc = "poll" /\ u.row = t.row /\ u.batch = t.batch
        /\ u.id = t.id
    BY <1>2, <2>1 DEF Tx
  <2>3. HeldBy(p, u)
    BY <1>2, <2>2
    DEF HeldBy, CopyOK, OwnOK, BatchOK, Batching, Submitting
  <2>4. tx' = [tx EXCEPT ![p] = u]
    BY <1>1, <1>6, <2>1 DEF send_transaction
  <2>5. net' \subseteq PL!Call
    <3>1. CallOf(tx[p].row) \in PL!Call
      BY <1>1, <1>2, CallType
    <3>. QED  BY <1>6, <3>1, ProcessFacts DEF send_transaction
  <2>. QED  BY <1>3, <1>6, <2>2, <2>3, <2>4, <2>5, ProcessFacts, OwnStep
            DEF send_transaction, db
<1>. QED  BY <1>4, <1>5, <1>6

\* reconcile() asks the chain about the row itself.
LEMMA ReconcileInv == ASSUME IInv, NEW p \in Workers, reconcile(p) PROVE IInv'
<1>0. p \in Procs
  BY DEF Procs
<1>1. PICK i \in open_work, s \in {"confirmed", "failed"} :
          /\ s = "confirmed" => OnChain(rows[i])
          /\ rows' = [rows EXCEPT ![i].status = s]
          /\ leaves' = IF s = "failed" THEN Released(leaves, i) ELSE leaves
  BY DEF reconcile
<1>2. /\ UNCHANGED <<ledger, net, fresh, enabled>> /\ tx' = tx
      /\ faults' \in 0 .. MaxFaults
  BY <1>0, ProcessFacts DEF reconcile
<1>3. i \in DOMAIN rows /\ rows[i] \in Row
  <2>1. i \in DOMAIN rows
    BY DEF open_work
  <2>. QED  BY <2>1, LenProperties, ElementOfSeq DEF IInv, TypeOK
<1>4. PICK a \in Nat : a = rows[i].attempts
  BY <1>3 DEF Row
<1>5. rows' = [rows EXCEPT ![i].status = s, ![i].attempts = a]
  <2>1. PICK r : r = [rows[i] EXCEPT !.status = s]
    OBVIOUS
  <2>2. r = [r EXCEPT !.attempts = a]
    BY <1>3, <1>4, <2>1 DEF Row
  <2>. QED  BY <1>1, <1>3, <2>1, <2>2
<1>. QED  BY <1>0, <1>1, <1>2, <1>3, <1>5, UpdateStep

\* An accepted seal() call: the book's head moves to it, and it replaces no
\* seal, so the contract still holds whatever it held.
LEMMA LandInv == ASSUME IInv, Land PROVE IInv'
<1>1. PICK c \in net : /\ PL!seal(Org, c, {Signer})
                       /\ net' = net \ {c}
                       /\ fresh' = fresh \cup {c.seq}
  BY DEF Land
<1>2. /\ leaves' = leaves /\ rows' = rows /\ enabled' = enabled /\ tx' = tx
      /\ faults' = faults
  BY DEF Land, db
<1>3. c \in PL!Call /\ net \subseteq PL!Call /\ fresh \subseteq 1 .. MaxRows
  BY DEF IInv, TypeOK
<1>4. /\ books \in [{Org} -> PL!Book \cup {NoBook}]
      /\ seals \in [{Org} -> SUBSET PL!Seal]
      /\ books[Org] \in PL!Book
      /\ \A s \in seals[Org] : s.seq <= books[Org].head
  BY DEF IInv, TypeOK, PL!TypeOK, ChainInv
<1>5. books[Org].head \in Nat /\ c.seq = books[Org].head + 1
  BY <1>1, <1>4
  DEF PL!seal, PL!SealError, PL!SequenceOutOfOrder, PL!Book
<1> DEFINE e == PL!Entry(c)
<1> DEFINE b == PL!Extended(books[Org], e)
<1>6. /\ e \in PL!Seal /\ e.seq = c.seq
  BY <1>3, BoundsAssumption
  DEF PL!Entry, PL!EntryOf, PL!Seal, PL!Call, PL!Period
<1>7. /\ seals' = [seals EXCEPT ![Org] = PL!Stored(Org, e)]
      /\ books' = [books EXCEPT ![Org] = b]
  BY <1>1 DEF PL!seal
<1> HIDE DEF e
<1>8. b \in PL!Book /\ b.head = c.seq
  BY <1>4, <1>6 DEF PL!Extended, PL!ExtendedBy, PL!Book, PL!Seal
<1> HIDE DEF b
<1>9. \A s \in seals[Org] : s.seq # c.seq
  BY <1>4, <1>5 DEF PL!Seal
<1>10. seals'[Org] = seals[Org] \cup {e}
  BY <1>4, <1>6, <1>7, <1>9 DEF PL!Stored
<1>11. books'[Org] = b
  BY <1>4, <1>7
<1>12. seals' \in [{Org} -> SUBSET PL!Seal]
  <2>1. PL!Stored(Org, e) \in SUBSET PL!Seal
    BY <1>4, <1>6 DEF PL!Stored
  <2>. QED  BY <1>4, <1>7, <2>1
<1>13. books' \in [{Org} -> PL!Book \cup {NoBook}]
  BY <1>4, <1>7, <1>8
<1>14. net' \subseteq PL!Call /\ fresh' \subseteq 1 .. MaxRows
  <2>1. c.seq \in 1 .. MaxRows
    BY <1>3, <1>5, BoundsAssumption DEF PL!Call
  <2>. QED  BY <1>1, <1>3, <2>1
<1>15. TypeOK'
  BY <1>2, <1>12, <1>13, <1>14 DEF IInv, TypeOK, PL!TypeOK
<1>16. ChainInv'
  <2>1. \A s \in seals[Org] : s.seq \in Nat
    BY <1>4 DEF PL!Seal
  <2>2. \A s \in seals'[Org] : s.seq <= b.head
    BY <1>4, <1>5, <1>6, <1>8, <1>10, <2>1
  <2>. QED  BY <1>8, <1>11, <2>2 DEF ChainInv
<1>17. TxInv' /\ RowsInv' /\ LeavesInv'
  BY <1>2 DEF IInv, TxInv, HeldBy, BatchOK, CopyOK, OwnOK, RowsInv, LeavesInv
<1>18. Room'
  BY <1>2 DEF IInv, Room, RowsTaken, Uncommitted
<1>19. ConfirmedIsOnChain'
  BY <1>2, <1>10 DEF IInv, ConfirmedIsOnChain, OnChain, PL!verify
<1>20. NoLeafStranded'
  BY <1>2 DEF IInv, NoLeafStranded, IsLive
<1>. QED  BY <1>15, <1>16, <1>17, <1>18, <1>19, <1>20 DEF IInv

\* Every step keeps the invariant.
LEMMA NextInv == IInv /\ [Next]_vars => IInv'
<1> SUFFICES ASSUME IInv, [Next]_vars PROVE IInv'
  OBVIOUS
<1>0. /\ net \subseteq PL!Call /\ fresh \subseteq 1 .. MaxRows
      /\ enabled \in BOOLEAN /\ faults \in 0 .. MaxFaults
  BY DEF IInv, TypeOK
<1>1. CASE UNCHANGED vars
  BY <1>0, <1>1, QuietStep DEF vars, ledger
<1>2. CASE record_leaf
  BY <1>2, RecordInv
<1>3. CASE disable \/ enable
  BY <1>0, <1>3, QuietStep DEF disable, enable
<1>4. CASE \E p \in Procs : Create(p) \/ crash(p)
  BY <1>4, CreateInv, RollBack, FaultCounted DEF crash, db
<1>5. CASE \E p \in Workers : drain(p) \/ reconcile(p)
  BY <1>5, DrainInv, ReconcileInv
<1>6. CASE \E p \in Workers \cup Requests : Submit(p) \/ Misfortune(p)
  BY <1>6, BeforeSendInv, SendInv, AfterSendInv DEF Procs, Submit, Misfortune
<1>7. CASE Land
  BY <1>7, LandInv
<1>8. CASE LandRefused
  BY <1>0, <1>8, QuietStep DEF LandRefused, db
<1>9. CASE Expire
  BY <1>0, <1>9, QuietStep, FaultCounted DEF Expire, db
<1>10. CASE DayTurns
  BY <1>0, <1>10, QuietStep DEF DayTurns, db
<1>. QED  BY <1>1, <1>2, <1>3, <1>4, <1>5, <1>6, <1>7, <1>8, <1>9, <1>10
          DEF Next

\* The invariant holds throughout.
THEOREM Invariance == Spec => []IInv
  BY InitInv, NextInv, PTL DEF Spec

\* _confirm() and _resolve_against_chain(): however many workers and requests
\* act on stale copies of a row, and whatever fails between them, a row says
\* CONFIRMED only for a seal the contract holds.
THEOREM ConfirmedMeansSealed == Spec => []ConfirmedIsOnChain
<1>1. IInv => ConfirmedIsOnChain
  BY DEF IInv
<1>. QED  BY Invariance, <1>1, PTL

\* _fail() and release_from_seal(): a leaf never stays with a seal that was
\* given up, also when another worker gave it up.
THEOREM LeavesFindTheirWay == Spec => []NoLeafStranded
<1>1. IInv => NoLeafStranded
  BY DEF IInv
<1>. QED  BY Invariance, <1>1, PTL

----------------------------------------------------------------------------
(* The outbox and the contract.                                            *)

\* Only an accepted seal() call touches the contract's storage.
LEMMA ContractStep == IInv /\ [Next]_vars => [PL!Next]_(PL!vars)
<1> SUFFICES ASSUME IInv, [Next]_vars PROVE [PL!Next]_(PL!vars)
  OBVIOUS
<1>1. CASE Land
  <2>1. PICK c \in net : PL!seal(Org, c, {Signer})
    BY <1>1 DEF Land
  <2>2. c \in PL!Call
    BY DEF IInv, TypeOK
  <2>. QED  BY <2>1, <2>2 DEF PL!Next
<1>2. CASE ~ Land
  <2>1. UNCHANGED ledger
    <3>1. ASSUME NEW p, NEW s, NEW m, Settle(p, s, m) PROVE UNCHANGED ledger
      BY <3>1 DEF Settle
    <3>2. CASE UNCHANGED vars
      BY <3>2 DEF vars, ledger
    <3>3. CASE record_leaf \/ disable \/ enable
      BY <3>3 DEF record_leaf, disable, enable
    <3>4. CASE \E p \in Procs : Create(p) \/ crash(p)
      BY <3>4
      DEF Create, create_seal, read_unsealed, read_previous, insert_seal, crash
    <3>5. CASE \E p \in Workers : drain(p) \/ reconcile(p)
      BY <3>5 DEF drain, reconcile
    <3>6. CASE \E p \in Workers \cup Requests : Submit(p) \/ Misfortune(p)
      BY <3>1, <3>6
      DEF Submit, Misfortune, submit_not_ready, submit_resolve, submit_wait,
          submit_diverged, submit_our_turn, mark_submitted, send_transaction,
          prepare_refused, poll_success, poll_timeout, TimesOut,
          submit_unreachable, send_refused, poll_failed, Rejected, raises
    <3>7. CASE LandRefused \/ Expire \/ DayTurns
      BY <3>7 DEF LandRefused, Expire, DayTurns
    <3>. QED  BY <1>2, <3>2, <3>3, <3>4, <3>5, <3>6, <3>7 DEF Next
  <2>. QED  BY <2>1 DEF ledger, PL!vars
<1>. QED  BY <1>1, <1>2

\* The outbox reaches the contract only through seal(), with arguments in its
\* range and in the signer's name: every step is one of the contract's or
\* leaves its storage alone.
THEOREM ActsThroughContract == Spec => [][PL!Next]_(PL!vars)
  BY Invariance, ContractStep, PTL DEF Spec
----------------------------------------------------------------------------
(* One worker, whose passes do not overlap, for every bound and any number *)
(* of faults and crashes.                                                  *)
(*                                                                         *)
(* The chain and the database change in different transactions, and a call *)
(* may be applied at any time after the pass that sent it.  The induction  *)
(* says how far they can be apart: the live rows are the chain's seals, in *)
(* order, and at most one row more; that one is the only row open, its     *)
(* call is the only one that can be in flight, and the contract would take *)
(* it.  So a row is given up only when nothing of it can land any more.    *)

\* One worker whose passes do not overlap a transaction's life, no request that
\* seals beside it, and sealing left on: the deployment of the worker run.
Solo == /\ PassesApart /\ ~MayDisable /\ Requests = {}
        /\ \A p, q \in Workers : p = q

Live == {i \in DOMAIN rows : IsLive(rows[i])}
head == books[Org].head

\* The contract's storage, beyond ChainInv.
ChainMarks ==
    /\ books[Org].admin = Signer
    /\ \A s \in seals[Org] : s.seq >= 1
    /\ \A s, t \in seals[Org] : s.seq = t.seq => s = t
    /\ head = 0 => books[Org].root = GENESIS /\ books[Org].covered_to = 0

\* The live rows are the chain, and at most one more.
Mirror ==
    /\ \A i, j \in Live : rows[i].seq = rows[j].seq => i = j
    /\ \A i \in Live : rows[i].seq <= head + 1
    /\ \A i \in Live : rows[i].seq <= head => OnChain(rows[i])
    /\ \A i \in Live : rows[i].seq = head => /\ rows[i].root = books[Org].root
                                             /\ rows[i].to = books[Org].covered_to
    /\ \A n \in 1 .. head : \E i \in Live : rows[i].seq = n

\* One row is open at a time; it is the newest, and the contract would take it
\* unless it has.
OpenRow ==
    /\ \A i, j \in open_work : i = j
    /\ \A i \in open_work : rows[i].seq >= head
    /\ \A i \in open_work : rows[i].seq = head + 1 => ErrorOf(rows[i]) = "ok"

\* What is in flight is the open row's call.
InFlight ==
    \A c \in net : \E i \in open_work :
        c = CallOf(rows[i]) /\ rows[i].seq = head + 1

\* The live rows cover the backlog from its start without skipping.
Tiling ==
    \A i \in Live : \A n \in rows[i].root : \A m \in 1 .. n :
        \/ m \in rows[i].root
        \/ \E j \in Live : rows[j].seq < rows[i].seq /\ m \in rows[j].root

\* What the worker holds: the first of the unsealed leaves, the end of the
\* chain, and then the open row.
HoldsAlone(t) ==
    /\ t.pc \in {"batch", "previous", "insert"} => open_work = {}
    /\ t.pc \in Batching => \A n \in t.batch :
           /\ leaves[n].seal = 0
           /\ \A m \in 1 .. n : m \in t.batch \/ leaves[m].seal # 0
    /\ t.pc = "insert" => /\ t.previous.root = books[Org].root
                          /\ t.previous.to = books[Org].covered_to
    /\ t.pc \in Submitting => /\ IsOpen(rows[t.id])
                              /\ CallOf(t.row) = CallOf(rows[t.id])
    /\ t.pc \in {"submit", "mark", "send"} => net = {}
    /\ t.pc \in {"mark", "send"} => t.row.seq = head + 1

WorkerInv == \A p \in Procs : HoldsAlone(tx[p])

\* The inductive invariant, beside IInv.
SoloInv == /\ enabled
           /\ ChainMarks
           /\ Mirror
           /\ OpenRow
           /\ InFlight
           /\ Tiling
           /\ RowHoldsItsLeaves
           /\ WorkerInv

\* Of a step: what it gives up, the chain does not hold.
GivesUpUnsealed ==
    \A i \in DOMAIN rows :
        IsLive(rows[i]) /\ rows'[i].status = "failed" => ~OnChain(rows[i])

----------------------------------------------------------------------------
(* Rows and calls.                                                         *)

\* A call names its row's number, root, predecessor and window.
LEMMA CallFields ==
    ASSUME NEW r, NEW s, CallOf(r) = CallOf(s)
    PROVE  /\ r.seq = s.seq /\ r.root = s.root /\ r.prev = s.prev
           /\ r.from = s.from /\ r.to = s.to
  BY DEF CallOf

\* Rows with the same call meet the same answer of the contract.
LEMMA SameAnswer ==
    ASSUME NEW r, NEW s, CallOf(r) = CallOf(s)
    PROVE  ErrorOf(r) = ErrorOf(s) /\ (OnChain(r) <=> OnChain(s))
  BY CallFields DEF ErrorOf, OnChain

\* The contract's answer depends on the call and the book only.
LEMMA AnswerStays ==
    ASSUME NEW k, books' = books, CallOf(rows[k])' = CallOf(rows[k])
    PROVE  ErrorOf(rows[k])' = ErrorOf(rows[k])
<1>1. PICK c : c = CallOf(rows[k])
  OBVIOUS
<1>2. CallOf(rows[k])' = c
  BY <1>1
<1> USE DEF PL!SealError, PL!is_registered, PL!Unauthorised, PL!RootIsSentinel,
            PL!SequenceOutOfOrder, PL!ChainBroken, PL!WindowReachesBack
<1>3. ErrorOf(rows[k]) = PL!SealError(Org, c, {Signer})
  BY <1>1 DEF ErrorOf
<1>4. ErrorOf(rows[k])' = PL!SealError(Org, c, {Signer})
  BY <1>2 DEF ErrorOf
<1>. QED  BY <1>3, <1>4

\* Numbers are numbers.
LEMMA SoloTypes ==
    ASSUME IInv
    PROVE  /\ head \in Nat
           /\ rows \in Seq(Row) /\ Len(rows) \in Nat
           /\ DOMAIN rows = 1 .. Len(rows)
           /\ \A i \in DOMAIN rows : rows[i] \in Row /\ rows[i].seq \in Nat
           /\ leaves \in Seq(LeafRow) /\ DOMAIN leaves = 1 .. Len(leaves)
           /\ \A s \in seals[Org] : s.seq \in Nat /\ s.seq <= head
           /\ open_work \subseteq Live /\ Live \subseteq DOMAIN rows
<1>1. /\ rows \in Seq(Row) /\ Len(rows) \in Nat /\ DOMAIN rows = 1 .. Len(rows)
      /\ leaves \in Seq(LeafRow) /\ DOMAIN leaves = 1 .. Len(leaves)
  BY LenProperties DEF IInv, TypeOK, LeafRow
<1>2. \A i \in DOMAIN rows : rows[i] \in Row
  BY <1>1, ElementOfSeq
<1>3. \A i \in DOMAIN rows : rows[i].seq \in Nat
  BY <1>2, BoundsAssumption DEF Row
<1>4. head \in Nat
  BY DEF IInv, ChainInv, head, PL!Book
<1>5. \A s \in seals[Org] : s.seq \in Nat /\ s.seq <= head
  <2>1. seals[Org] \subseteq PL!Seal
    BY DEF IInv, TypeOK, PL!TypeOK
  <2>. QED  BY <2>1 DEF IInv, ChainInv, head, PL!Seal
<1>6. open_work \subseteq Live /\ Live \subseteq DOMAIN rows
  BY DEF open_work, Live, IsOpen, IsLive
<1>. QED  BY <1>1, <1>2, <1>3, <1>4, <1>5, <1>6

\* A row that is live and not open is confirmed, so on the chain.
LEMMA ConfirmedBelow ==
    ASSUME IInv, NEW i \in Live, i \notin open_work
    PROVE  rows[i].status = "confirmed" /\ rows[i].seq <= head
<1>1. rows[i] \in Row /\ rows[i].status # "none" /\ i \in DOMAIN rows
  BY SoloTypes DEF IInv, RowsInv, Live
<1>2. rows[i].status = "confirmed"
  BY <1>1 DEF Live, open_work, IsOpen, IsLive, Row
<1>3. OnChain(rows[i])
  BY <1>1, <1>2 DEF IInv, ConfirmedIsOnChain
<1>. QED  BY <1>2, <1>3, SoloTypes DEF OnChain, PL!verify

\* No seal lies beyond the head.
LEMMA BeyondHead ==
    ASSUME IInv, NEW r, r.seq = head + 1
    PROVE  ~OnChain(r)
  BY SoloTypes DEF OnChain, PL!verify

\* One worker: the others are it.
LEMMA Alone ==
    ASSUME Solo
    PROVE  /\ Procs = Workers /\ \A p, q \in Procs : p = q
           /\ Pending = {} /\ RowsTaken = Len(rows)
<1>1. Procs = Workers /\ \A p, q \in Procs : p = q
  BY DEF Solo, Procs
<1>2. Pending = {}
  BY DEF Solo, Pending
<1>3. Cardinality(Pending) = 0
  BY <1>2, FS_EmptySet
<1>. QED  BY <1>1, <1>2, <1>3, PendingFinite DEF Solo

----------------------------------------------------------------------------
(* Steps.                                                                  *)

\* Between transactions nothing is claimed.
LEMMA IdleAlone == HoldsAlone(Idle)
  BY DEF HoldsAlone, Idle, Batching, Submitting

\* The initial state satisfies the invariant.
LEMMA SoloInit == Solo /\ Init => SoloInv
<1> SUFFICES ASSUME Solo, Init PROVE SoloInv
  OBVIOUS
<1>1. DOMAIN rows = {} /\ DOMAIN leaves = {}
  BY EmptySeq DEF Init
<1>2. open_work = {} /\ Live = {}
  BY <1>1 DEF open_work, Live
<1>3. /\ books[Org].head = 0 /\ books[Org].root = GENESIS
      /\ books[Org].covered_to = 0 /\ books[Org].admin = Signer
      /\ seals[Org] = {} /\ net = {} /\ enabled
  BY DEF Init
<1>4. ChainMarks
  BY <1>3 DEF ChainMarks, head
<1>5. Mirror /\ OpenRow /\ InFlight /\ Tiling /\ RowHoldsItsLeaves
  BY <1>1, <1>2, <1>3
  DEF Mirror, OpenRow, InFlight, Tiling, RowHoldsItsLeaves, head
<1>6. WorkerInv
  BY IdleAlone DEF WorkerInv, Init
<1>. QED  BY <1>3, <1>4, <1>5, <1>6 DEF SoloInv

\* A step that changes neither the contract's storage nor the rows, and takes
\* nothing new into flight, except for what it does to the leaves.
LEMMA StillMirrors ==
    ASSUME SoloInv, books' = books, seals' = seals, rows' = rows,
           enabled' = enabled, net' \subseteq net
    PROVE  /\ enabled' /\ ChainMarks' /\ Mirror' /\ OpenRow' /\ InFlight'
           /\ Tiling' /\ Live' = Live /\ open_work' = open_work
           /\ head' = head
<1>1. Live' = Live /\ open_work' = open_work /\ head' = head
  BY DEF Live, open_work, head
<1>2. ChainMarks'
  BY <1>1 DEF SoloInv, ChainMarks
<1>3. \A r : OnChain(r)' <=> OnChain(r)
  BY DEF OnChain, PL!verify
<1>4. Mirror'
  BY <1>1 DEF SoloInv, Mirror, OnChain, PL!verify
<1>5. OpenRow'
  <2>1. ASSUME NEW i \in open_work PROVE ErrorOf(rows[i])' = ErrorOf(rows[i])
    BY DEF ErrorOf, PL!SealError, CallOf, PL!is_registered, PL!Unauthorised,
           PL!RootIsSentinel, PL!SequenceOutOfOrder, PL!ChainBroken,
           PL!WindowReachesBack
  <2>. QED  BY <1>1, <2>1 DEF SoloInv, OpenRow
<1>6. InFlight'
  BY <1>1 DEF SoloInv, InFlight, CallOf
<1>7. Tiling'
  BY <1>1 DEF SoloInv, Tiling
<1>. QED  BY <1>1, <1>2, <1>4, <1>5, <1>6, <1>7 DEF SoloInv

\* A step of the worker on what it holds.
LEMMA SoloOwnStep ==
    ASSUME Solo, SoloInv, NEW p \in Procs, tx \in [Procs -> Tx],
           NEW t, HoldsAlone(t), tx' = [tx EXCEPT ![p] = t],
           UNCHANGED <<ledger, net, leaves, rows, enabled>>
    PROVE  SoloInv'
<1>1. books' = books /\ seals' = seals /\ rows' = rows /\ leaves' = leaves
      /\ net' = net /\ enabled' = enabled
  BY DEF ledger
<1>2. /\ enabled' /\ ChainMarks' /\ Mirror' /\ OpenRow' /\ InFlight' /\ Tiling'
      /\ open_work' = open_work /\ head' = head
  BY <1>1, StillMirrors
<1>3. RowHoldsItsLeaves'
  BY <1>1 DEF SoloInv, RowHoldsItsLeaves, IsLive
<1>4. ASSUME NEW q \in Procs PROVE HoldsAlone(tx[q])'
  <2>1. tx'[q] = t
    BY Alone
  <2>2. HoldsAlone(t)'
    BY <1>1, <1>2 DEF HoldsAlone, CallOf
  <2>. QED  BY <2>1, <2>2 DEF HoldsAlone, CallOf
<1>. QED  BY <1>2, <1>3, <1>4 DEF SoloInv, WorkerInv

\* A transaction that is rolled back.
LEMMA SoloRollBack ==
    ASSUME Solo, IInv, SoloInv, NEW p \in Procs, tx' = [tx EXCEPT ![p] = Idle],
           UNCHANGED <<ledger, net, leaves, rows, enabled>>
    PROVE  SoloInv'
<1>1. tx \in [Procs -> Tx]
  BY DEF IInv, TypeOK, Tx
<1>. QED  BY <1>1, IdleAlone, SoloOwnStep

\* Calls that are refused or expire: less is in flight.
LEMMA SoloQuiet ==
    ASSUME Solo, SoloInv, UNCHANGED <<ledger, leaves, rows, enabled, tx>>,
           net' \subseteq net
    PROVE  SoloInv'
<1>1. /\ books' = books /\ seals' = seals /\ rows' = rows /\ leaves' = leaves
      /\ enabled' = enabled /\ tx' = tx
  BY DEF ledger
<1>2. /\ enabled' /\ ChainMarks' /\ Mirror' /\ OpenRow' /\ InFlight' /\ Tiling'
      /\ open_work' = open_work /\ head' = head
  BY <1>1, StillMirrors
<1>3. RowHoldsItsLeaves'
  BY <1>1 DEF SoloInv, RowHoldsItsLeaves, IsLive
<1>4. ASSUME NEW q \in Procs PROVE HoldsAlone(tx[q])'
  <2>1. HoldsAlone(tx[q])
    BY DEF SoloInv, WorkerInv
  <2>. QED  BY <1>1, <1>2, <2>1 DEF HoldsAlone, CallOf
<1>. QED  BY <1>2, <1>3, <1>4 DEF SoloInv, WorkerInv

\* record_leaf(): the new leaf is behind every batch.
LEMMA SoloRecord == ASSUME Solo, IInv, SoloInv, record_leaf PROVE SoloInv'
<1>1. /\ books' = books /\ seals' = seals /\ rows' = rows /\ net' = net
      /\ enabled' = enabled /\ tx' = tx
  BY DEF record_leaf, ledger
<1>2. PICK l : leaves' = Append(leaves, l) /\ l.seal = 0 /\ l \in LeafRow
  BY BoundsAssumption DEF record_leaf, LeafRow
<1>3. leaves \in Seq(LeafRow) /\ DOMAIN leaves = 1 .. Len(leaves)
      /\ Len(leaves) \in Nat
  BY SoloTypes, LenProperties
<1>4. /\ Len(leaves') = Len(leaves) + 1 /\ leaves' \in Seq(LeafRow)
      /\ \A n \in 1 .. Len(leaves) : leaves'[n] = leaves[n]
      /\ leaves'[Len(leaves) + 1] = l
  BY <1>2, <1>3, AppendProperties
<1>5. DOMAIN leaves' = 1 .. Len(leaves) + 1
  BY <1>4, LenProperties
<1>6. /\ enabled' /\ ChainMarks' /\ Mirror' /\ OpenRow' /\ InFlight' /\ Tiling'
      /\ open_work' = open_work /\ head' = head
  BY <1>1, StillMirrors
<1>7. RowHoldsItsLeaves'
  <2> SUFFICES ASSUME NEW i \in DOMAIN rows, IsLive(rows[i])
               PROVE  {n \in DOMAIN leaves' : leaves'[n].seal = i} = rows[i].root
    BY <1>1 DEF RowHoldsItsLeaves, IsLive
  <2>1. {n \in DOMAIN leaves : leaves[n].seal = i} = rows[i].root
    BY DEF SoloInv, RowHoldsItsLeaves
  <2>2. i # 0
    BY SoloTypes
  <2>3. \A n : n \in DOMAIN leaves' <=>
                   n \in DOMAIN leaves \/ n = Len(leaves) + 1
    BY <1>3, <1>5
  <2>. QED  BY <1>2, <1>3, <1>4, <2>1, <2>2, <2>3
<1>8. ASSUME NEW q \in Procs PROVE HoldsAlone(tx[q])'
  <2>1. HoldsAlone(tx[q]) /\ HeldBy(q, tx[q])
    BY DEF SoloInv, WorkerInv, IInv, TxInv
  <2>2. PICK t : t = tx[q]
    OBVIOUS
  <2>3. t.pc \in Batching => \A n \in t.batch :
            /\ leaves'[n].seal = 0
            /\ \A m \in 1 .. n : m \in t.batch \/ leaves'[m].seal # 0
    <3> SUFFICES ASSUME t.pc \in Batching, NEW n \in t.batch
                 PROVE  /\ leaves'[n].seal = 0
                        /\ \A m \in 1 .. n : m \in t.batch \/ leaves'[m].seal # 0
      OBVIOUS
    <3>1. n \in 1 .. Len(leaves)
      BY <1>3, <2>1, <2>2 DEF HeldBy, BatchOK
    <3>2. \A m \in 1 .. n : m \in 1 .. Len(leaves)
      BY <1>3, <3>1
    <3>. QED  BY <1>4, <2>1, <2>2, <3>1, <3>2 DEF HoldsAlone
  <2>4. HoldsAlone(t)'
    BY <1>1, <1>6, <2>1, <2>2, <2>3 DEF HoldsAlone, CallOf
  <2>. QED  BY <1>1, <2>2, <2>4
<1>. QED  BY <1>6, <1>7, <1>8 DEF SoloInv, WorkerInv

\* The open row is the newest of the live ones.
LEMMA OpenIsNewest ==
    ASSUME IInv, SoloInv, NEW i \in open_work, NEW k \in Live, k # i
    PROVE  /\ k \notin open_work /\ rows[k].seq <= head
           /\ rows[k].seq < rows[i].seq
<1>1. k \notin open_work /\ i \in Live
  BY SoloTypes DEF SoloInv, OpenRow
<1>2. rows[k].seq <= head
  BY <1>1, ConfirmedBelow
<1>3. rows[i].seq >= head /\ rows[k].seq # rows[i].seq
  BY <1>1 DEF SoloInv, OpenRow, Mirror
<1>4. /\ head \in Nat /\ rows[i].seq \in Nat /\ rows[k].seq \in Nat
  BY <1>1, SoloTypes
<1>. QED  BY <1>1, <1>2, <1>3, <1>4

\* The open row changes its status: it stays open, or is confirmed because the
\* chain has it, or is given up when it is not there and nothing is in flight.
LEMMA SoloUpdate ==
    ASSUME Solo, IInv, SoloInv, NEW i \in open_work,
           NEW s \in {"pending", "submitted", "confirmed", "failed"},
           NEW a \in Nat,
           s = "confirmed" => OnChain(rows[i]),
           s = "failed" => ~OnChain(rows[i]) /\ net = {},
           rows' = [rows EXCEPT ![i].status = s, ![i].attempts = a],
           leaves' = IF s = "failed" THEN Released(leaves, i) ELSE leaves,
           \A q \in Procs : tx'[q].pc = "idle",
           UNCHANGED <<ledger, net, enabled>>
    PROVE  SoloInv' /\ GivesUpUnsealed
<1>1. /\ books' = books /\ seals' = seals /\ net' = net /\ enabled' = enabled
      /\ head' = head
  BY DEF ledger, head
<1>2. i \in DOMAIN rows /\ i \in Live /\ rows[i] \in Row
  BY SoloTypes
<1>3. PICK r : r = [rows[i] EXCEPT !.status = s, !.attempts = a]
  OBVIOUS
<1>4. /\ r.seq = rows[i].seq /\ r.root = rows[i].root /\ r.prev = rows[i].prev
      /\ r.from = rows[i].from /\ r.to = rows[i].to /\ r.status = s
  BY <1>2, <1>3 DEF Row
<1>5. /\ DOMAIN rows' = DOMAIN rows
      /\ \A j \in DOMAIN rows : rows'[j] = IF j = i THEN r ELSE rows[j]
  BY <1>2, <1>3, SoloTypes
<1>6. \A j \in DOMAIN rows :
          /\ rows'[j].seq = rows[j].seq /\ rows'[j].root = rows[j].root
          /\ rows'[j].prev = rows[j].prev /\ rows'[j].from = rows[j].from
          /\ rows'[j].to = rows[j].to
          /\ rows'[j].status = IF j = i THEN s ELSE rows[j].status
  BY <1>4, <1>5
<1>7. /\ Live' = IF s = "failed" THEN Live \ {i} ELSE Live
      /\ open_work' = IF s \in {"pending", "submitted"} THEN open_work ELSE {}
  <2>1. Live' = IF s = "failed" THEN Live \ {i} ELSE Live
    BY <1>2, <1>5, <1>6 DEF Live, IsLive
  <2>2. \A k \in open_work : k = i
    BY DEF SoloInv, OpenRow
  <2>3. open_work' = {k \in DOMAIN rows : IsOpen(rows'[k])}
    BY <1>5 DEF open_work, IsOpen
  <2>4. \A k \in DOMAIN rows : k # i => (IsOpen(rows'[k]) <=> IsOpen(rows[k]))
    BY <1>5
  <2>5. \A k \in DOMAIN rows : k # i => ~IsOpen(rows'[k])
    BY <2>2, <2>4 DEF open_work
  <2>6. IsOpen(rows'[i]) <=> s \in {"pending", "submitted"}
    BY <1>2, <1>6 DEF IsOpen
  <2>. QED  BY <1>2, <2>1, <2>2, <2>3, <2>5, <2>6
<1>8. Live' \subseteq Live /\ open_work' \subseteq open_work
  BY <1>2, <1>7
<1>9. s = "failed" => rows[i].seq = head + 1
  <2>1. rows[i].seq <= head + 1 /\ (rows[i].seq <= head => OnChain(rows[i]))
    BY <1>2 DEF SoloInv, Mirror
  <2>2. rows[i].seq \in Nat /\ head \in Nat
    BY <1>2, SoloTypes
  <2>. QED  BY <2>1, <2>2
<1>10. s = "confirmed" => net = {}
  <2> SUFFICES ASSUME s = "confirmed", NEW c \in net PROVE FALSE
    OBVIOUS
  <2>1. PICK k \in open_work : rows[k].seq = head + 1
    BY DEF SoloInv, InFlight
  <2>2. k = i
    BY DEF SoloInv, OpenRow
  <2>3. \E x \in seals[Org] : x.seq = rows[i].seq
    BY DEF OnChain, PL!verify
  <2>. QED  BY <2>1, <2>2, <2>3, SoloTypes
<1>11. ChainMarks'
  BY <1>1 DEF SoloInv, ChainMarks
<1>12. Mirror'
  <2>1. \A k, j \in Live' : rows'[k].seq = rows'[j].seq => k = j
    BY <1>6, <1>8, SoloTypes DEF SoloInv, Mirror
  <2>2. \A k \in Live' :
            /\ rows'[k].seq <= head + 1
            /\ rows'[k].seq = head => /\ rows'[k].root = books[Org].root
                                      /\ rows'[k].to = books[Org].covered_to
    BY <1>6, <1>8, SoloTypes DEF SoloInv, Mirror
  <2>3. ASSUME NEW k \in Live', rows'[k].seq <= head
        PROVE  \E x \in seals[Org] : /\ x.seq = rows'[k].seq
                                     /\ x.root = rows'[k].root
    <3>1. /\ k \in Live /\ k \in DOMAIN rows
          /\ rows'[k].seq = rows[k].seq /\ rows'[k].root = rows[k].root
      BY <1>6, <1>8, SoloTypes
    <3>2. OnChain(rows[k])
      BY <2>3, <3>1 DEF SoloInv, Mirror
    <3>. QED  BY <3>1, <3>2 DEF OnChain, PL!verify
  <2>4. ASSUME NEW n \in 1 .. head PROVE \E k \in Live' : rows'[k].seq = n
    <3>1. PICK k \in Live : rows[k].seq = n
      BY DEF SoloInv, Mirror
    <3>2. s = "failed" => k # i
      BY <1>9, <3>1, SoloTypes
    <3>. QED  BY <1>6, <1>7, <3>1, <3>2, SoloTypes
  <2>5. \A k \in Live' : rows'[k].seq <= head' => OnChain(rows[k])'
    BY <1>1, <2>3 DEF OnChain, PL!verify
  <2>. QED  BY <1>1, <2>1, <2>2, <2>4, <2>5 DEF Mirror
<1>13. OpenRow'
  <2>1. \A k \in open_work' : rows'[k].seq >= head
    BY <1>6, <1>8, SoloTypes DEF SoloInv, OpenRow
  <2>2. ASSUME NEW k \in open_work', rows'[k].seq = head + 1
        PROVE  ErrorOf(rows[k])' = "ok"
    <3>1. k \in open_work /\ k \in DOMAIN rows
      BY <1>8, SoloTypes
    <3>2. ErrorOf(rows[k]) = "ok"
      BY <1>6, <2>2, <3>1 DEF SoloInv, OpenRow
    <3>3. CallOf(rows[k])' = CallOf(rows[k])
      BY <1>6, <3>1 DEF CallOf
    <3>. QED  BY <1>1, <3>2, <3>3, AnswerStays
  <2>. QED  BY <1>1, <1>8, <2>1, <2>2 DEF SoloInv, OpenRow
<1>14. InFlight'
  <2>1. CASE s \in {"pending", "submitted"}
    <3>1. \A k \in open_work : CallOf(rows[k])' = CallOf(rows[k])
      BY <1>6, SoloTypes DEF CallOf
    <3> SUFFICES ASSUME NEW c \in net'
                 PROVE  \E k \in open_work' :
                            c = CallOf(rows[k])' /\ rows'[k].seq = head' + 1
      BY DEF InFlight
    <3>2. PICK k \in open_work : c = CallOf(rows[k]) /\ rows[k].seq = head + 1
      BY <1>1 DEF SoloInv, InFlight
    <3>3. k \in open_work' /\ rows'[k].seq = head' + 1
      BY <1>1, <1>6, <1>7, <2>1, <3>2, SoloTypes
    <3>4. c = CallOf(rows[k])'
      BY <3>1, <3>2
    <3>. QED  BY <3>3, <3>4
  <2>2. CASE s \notin {"pending", "submitted"}
    BY <1>1, <1>10, <2>2 DEF InFlight
  <2>. QED  BY <2>1, <2>2
<1>15. Tiling'
  <2> SUFFICES ASSUME NEW k \in Live', NEW n \in rows'[k].root, NEW m \in 1 .. n
               PROVE  \/ m \in rows'[k].root
                      \/ \E j \in Live' : /\ rows'[j].seq < rows'[k].seq
                                          /\ m \in rows'[j].root
    BY DEF Tiling
  <2>1. k \in Live /\ k \in DOMAIN rows /\ n \in rows[k].root
    BY <1>6, <1>8, SoloTypes
  <2>2. CASE m \in rows[k].root
    BY <1>6, <2>1, <2>2
  <2>3. CASE m \notin rows[k].root
    <3>1. PICK j \in Live : rows[j].seq < rows[k].seq /\ m \in rows[j].root
      BY <2>1, <2>3 DEF SoloInv, Tiling
    <3>2. j \in DOMAIN rows /\ rows[j].seq \in Nat /\ rows[k].seq \in Nat
      BY <2>1, SoloTypes
    <3>3. s = "failed" => j # i
      <4> SUFFICES ASSUME s = "failed", j = i PROVE FALSE
        OBVIOUS
      <4>1. k # i
        BY <1>7
      <4>2. rows[k].seq < rows[i].seq
        BY <2>1, <4>1, OpenIsNewest
      <4>. QED  BY <3>1, <3>2, <4>2
    <3>4. j \in Live'
      BY <1>7, <3>3
    <3>. QED  BY <1>6, <2>1, <3>1, <3>2, <3>4
  <2>. QED  BY <2>2, <2>3
<1>16. RowHoldsItsLeaves'
  <2> SUFFICES ASSUME NEW k \in Live'
               PROVE  {n \in DOMAIN leaves' : leaves'[n].seal = k} = rows'[k].root
    BY DEF RowHoldsItsLeaves, Live
  <2>1. k \in Live /\ k \in DOMAIN rows
    BY <1>8, SoloTypes
  <2>2. {n \in DOMAIN leaves : leaves[n].seal = k} = rows[k].root
    BY <2>1 DEF SoloInv, RowHoldsItsLeaves, Live
  <2>3. CASE s # "failed"
    BY <1>6, <2>1, <2>2, <2>3
  <2>4. CASE s = "failed"
    <3>1. k # i /\ k # 0
      BY <1>7, <2>1, <2>4, SoloTypes
    <3>2. /\ DOMAIN leaves' = DOMAIN leaves
          /\ \A n \in DOMAIN leaves : leaves'[n].seal =
                 IF leaves[n].seal = i THEN 0 ELSE leaves[n].seal
      BY <2>4, ReleasedLeaves, SoloTypes
    <3>. QED  BY <1>6, <2>1, <2>2, <3>1, <3>2
  <2>. QED  BY <2>3, <2>4
<1>17. WorkerInv'
  BY DEF WorkerInv, HoldsAlone, Batching, Submitting
<1>18. GivesUpUnsealed
  BY <1>6 DEF GivesUpUnsealed, IsLive
<1>. QED  BY <1>1, <1>11, <1>12, <1>13, <1>14, <1>15, <1>16, <1>17, <1>18
          DEF SoloInv

\* What the worker submits is the open row.
LEMMA Submits ==
    ASSUME Solo, IInv, SoloInv, NEW p \in Procs, tx[p].pc \in Submitting
    PROVE  /\ p \in Workers /\ tx[p] \in Tx /\ tx[p].row \in Row
           /\ tx[p].id \in open_work /\ tx[p].id # 0
           /\ IsOpen(tx[p].row)
           /\ CallOf(tx[p].row) = CallOf(rows[tx[p].id])
           /\ tx[p].row.seq = rows[tx[p].id].seq
           /\ tx[p].row.prev = rows[tx[p].id].prev
           /\ OnChain(tx[p].row) <=> OnChain(rows[tx[p].id])
           /\ ErrorOf(tx[p].row) = ErrorOf(rows[tx[p].id])
<1>1. p \in Workers /\ tx[p] \in Tx /\ tx[p].row \in Row /\ CopyOK(tx[p])
  BY Alone, ProcessFacts DEF HeldBy
<1>2. IsOpen(rows[tx[p].id]) /\ CallOf(tx[p].row) = CallOf(rows[tx[p].id])
  BY DEF SoloInv, WorkerInv, HoldsAlone
<1>3. tx[p].id \in open_work /\ tx[p].id # 0 /\ IsOpen(tx[p].row)
  BY <1>1, <1>2, SoloTypes DEF CopyOK, open_work
<1>. QED  BY <1>1, <1>2, <1>3, CallFields, SameAnswer

\* A transaction that ends: confirmed when the chain has the seal, given up
\* when it has not and nothing is in flight.
LEMMA SoloSettle ==
    ASSUME Solo, IInv, SoloInv, NEW p \in Procs, tx[p].pc \in Submitting,
           NEW status \in {"pending", "submitted", "confirmed", "failed"},
           NEW marked \in BOOLEAN,
           status = "confirmed" => OnChain(tx[p].row),
           status = "failed" => ~OnChain(tx[p].row) /\ net = {},
           Settle(p, status, marked)
    PROVE  SoloInv' /\ GivesUpUnsealed
<1>1. PICK t : t = tx[p]
  OBVIOUS
<1>2. PICK i : i = t.id
  OBVIOUS
<1>3. /\ t \in Tx /\ t.row \in Row /\ IsOpen(t.row)
      /\ i \in open_work /\ i # 0 /\ i \in DOMAIN rows /\ rows[i] \in Row
      /\ IsOpen(rows[i])
      /\ OnChain(t.row) <=> OnChain(rows[i])
  BY <1>1, <1>2, Submits, SoloTypes DEF open_work
<1>4. tx' = [tx EXCEPT ![p] = Idle] /\ UNCHANGED <<ledger, net, enabled>>
  BY DEF Settle
<1>5. CASE UNCHANGED <<rows, leaves>>
  BY <1>4, <1>5, SoloRollBack DEF GivesUpUnsealed, IsLive
<1>6. CASE ~ UNCHANGED <<rows, leaves>>
  <2> DEFINE wrote == t.wrote \/ status # t.row.status
  <2>1. /\ rows' = [rows EXCEPT ![i].status = IF wrote THEN status ELSE @,
                                ![i].attempts =
                                    IF marked THEN t.row.attempts ELSE @]
        /\ leaves' = IF status = "failed" THEN Released(leaves, i) ELSE leaves
    BY <1>1, <1>2, <1>3, <1>6 DEF Settle
  <2> DEFINE s == IF wrote THEN status ELSE rows[i].status
  <2> DEFINE a == IF marked THEN t.row.attempts ELSE rows[i].attempts
  <2>2. rows[i].status \in {"pending", "submitted"} /\ rows[i].attempts \in Nat
        /\ t.row.attempts \in Nat /\ t.row.status \in {"pending", "submitted"}
    BY <1>3 DEF Row, IsOpen
  <2>3. s \in {"pending", "submitted", "confirmed", "failed"} /\ a \in Nat
    BY <2>2
  <2>4. rows' = [rows EXCEPT ![i].status = s, ![i].attempts = a]
    <3>1. PICK r1 : r1 = [rows[i] EXCEPT !.status = s]
      OBVIOUS
    <3>2. r1.attempts = rows[i].attempts
      BY <3>1, <1>3 DEF Row
    <3>. QED  BY <2>1, <1>3, <3>1, <3>2
  <2>5. s = "confirmed" => OnChain(rows[i])
    BY <1>1, <1>3, <2>2
  <2>6. s = "failed" <=> status = "failed"
    BY <2>2
  <2>7. s = "failed" => ~OnChain(rows[i]) /\ net = {}
    BY <1>1, <1>3, <2>6
  <2>8. leaves' = IF s = "failed" THEN Released(leaves, i) ELSE leaves
    BY <2>1, <2>6
  <2>9. \A q \in Procs : tx'[q].pc = "idle"
    <3>1. tx \in [Procs -> Tx] /\ \A q \in Procs : q = p
      BY Alone DEF IInv, TypeOK, Tx
    <3>. QED  BY <1>4, <3>1 DEF Idle
  <2> HIDE DEF s, a
  <2>. QED  BY <1>3, <1>4, <2>3, <2>4, <2>5, <2>7, <2>8, <2>9, SoloUpdate
<1>. QED  BY <1>5, <1>6

\* _apply_outcome() of a refusal.
LEMMA SoloRejected ==
    ASSUME Solo, IInv, SoloInv, NEW p \in Procs, tx[p].pc \in Submitting,
           Rejected(p), ~OnChain(tx[p].row), net = {}
    PROVE  SoloInv' /\ GivesUpUnsealed
<1>1. CASE tx[p].row.attempts >= MAX_SEAL_ATTEMPTS
  <2>1. Settle(p, "failed", TRUE)
    BY <1>1 DEF Rejected
  <2>. QED  BY <2>1, SoloSettle
<1>2. CASE ~ (tx[p].row.attempts >= MAX_SEAL_ATTEMPTS)
  <2>1. Settle(p, "pending", TRUE)
    BY <1>2 DEF Rejected
  <2>. QED  BY <2>1, SoloSettle
<1>. QED  BY <1>1, <1>2

\* The chain decides what a row the head has reached becomes.
LEMMA SoloResolved ==
    ASSUME Solo, IInv, SoloInv, NEW p \in Procs, tx[p].pc \in Submitting,
           NEW marked \in BOOLEAN, Settle(p, Resolution(p), marked), net = {}
    PROVE  SoloInv' /\ GivesUpUnsealed
<1>1. CASE OnChain(tx[p].row)
  BY <1>1, SoloSettle DEF Resolution
<1>2. CASE ~ OnChain(tx[p].row)
  BY <1>2, SoloSettle DEF Resolution
<1>. QED  BY <1>1, <1>2

\* submit() before anything is sent.
LEMMA SoloBeforeSend ==
    ASSUME Solo, IInv, SoloInv, NEW p \in Procs,
           \/ submit_not_ready(p) \/ submit_unreachable(p) \/ submit_resolve(p)
           \/ submit_wait(p) \/ submit_diverged(p)
    PROVE  SoloInv' /\ GivesUpUnsealed
<1>1. tx[p].pc = "submit" /\ tx[p].pc \in Submitting
  BY DEF submit_not_ready, submit_unreachable, submit_resolve, submit_wait,
         submit_diverged, AskChain, Submitting
<1>2. net = {} /\ enabled
  BY <1>1 DEF SoloInv, WorkerInv, HoldsAlone
<1>3. tx[p].row.status \in {"pending", "submitted"}
  BY <1>1, Statuses
<1>4. CASE submit_unreachable(p)
  BY <1>1, <1>3, <1>4, SoloSettle DEF submit_unreachable
<1>5. CASE submit_resolve(p)
  BY <1>1, <1>2, <1>5, SoloResolved DEF submit_resolve
<1>6. CASE submit_wait(p)
  BY <1>1, <1>3, <1>6, SoloSettle DEF submit_wait
<1>7. CASE submit_diverged(p)
  <2>1. tx[p].row.seq \in Nat
    BY <1>1, Submits, SoloTypes, BoundsAssumption DEF Row
  <2>2. ~OnChain(tx[p].row)
    BY <1>7, <2>1, BeyondHead, SoloTypes DEF submit_diverged, head
  <2>. QED  BY <1>1, <1>2, <1>7, <2>2, SoloSettle DEF submit_diverged
<1>. QED  BY <1>2, <1>4, <1>5, <1>6, <1>7 DEF submit_not_ready

\* submit() after it has marked its row: a refusal is met while nothing is in
\* flight, so the row can be given up.
LEMMA SoloAfterSend ==
    ASSUME Solo, IInv, SoloInv, NEW p \in Procs,
           \/ prepare_refused(p) \/ send_refused(p) \/ poll_success(p)
           \/ poll_failed(p) \/ poll_timeout(p) \/ raises(p)
    PROVE  SoloInv' /\ GivesUpUnsealed
<1>1. tx[p].pc \in {"send", "poll"} /\ tx[p].pc \in Submitting
  BY DEF prepare_refused, send_refused, poll_success, poll_failed,
         poll_timeout, TimesOut, raises, Submitting
<1>2. tx[p].pc = "send" => net = {} /\ ~OnChain(tx[p].row)
  <2>1. tx[p].pc = "send" => net = {} /\ tx[p].row.seq = head + 1
    BY DEF SoloInv, WorkerInv, HoldsAlone
  <2>. QED  BY <2>1, BeyondHead
<1>3. CASE prepare_refused(p)
  BY <1>1, <1>2, <1>3, SoloResolved, SoloRejected DEF prepare_refused
<1>4. CASE send_refused(p)
  BY <1>1, <1>2, <1>4, SoloRejected DEF send_refused
<1>5. CASE poll_success(p)
  BY <1>1, <1>5, SoloSettle DEF poll_success
<1>6. CASE poll_failed(p)
  <2>1. CallOf(tx[p].row) \notin net /\ ~OnChain(tx[p].row)
    BY <1>6 DEF poll_failed, Solo
  <2>2. net = {}
    <3> SUFFICES ASSUME NEW c \in net PROVE FALSE
      OBVIOUS
    <3>1. PICK k \in open_work : c = CallOf(rows[k])
      BY DEF SoloInv, InFlight
    <3>2. k = tx[p].id
      BY <1>1, Submits DEF SoloInv, OpenRow
    <3>. QED  BY <1>1, <2>1, <3>1, <3>2, Submits
  <2>. QED  BY <1>1, <1>6, <2>1, <2>2, SoloResolved, SoloRejected
            DEF poll_failed
<1>7. CASE poll_timeout(p)
  BY <1>1, <1>7, SoloSettle DEF poll_timeout, TimesOut
<1>8. CASE raises(p)
  <2>1. p \in Workers
    BY Alone
  <2>. QED  BY <1>1, <1>8, <2>1, SoloSettle DEF raises
<1>. QED  BY <1>3, <1>4, <1>5, <1>6, <1>7, <1>8

\* drain() takes up the open row when nothing of it is in flight.
LEMMA SoloDrain ==
    ASSUME Solo, IInv, SoloInv, NEW p \in Procs, drain(p) PROVE SoloInv'
<1>1. PICK i \in open_work :
          /\ CallOf(rows[i]) \notin net
          /\ tx' = [tx EXCEPT ![p] = [Idle EXCEPT !.pc = "submit", !.id = i,
                                                  !.row = rows[i]]]
  BY DEF drain, Solo
<1>2. PICK u : u = [Idle EXCEPT !.pc = "submit", !.id = i, !.row = rows[i]]
  OBVIOUS
<1>3. u.pc = "submit" /\ u.id = i /\ u.row = rows[i]
  BY <1>2 DEF Idle
<1>4. net = {}
  BY <1>1 DEF SoloInv, OpenRow, InFlight
<1>5. HoldsAlone(u)
  BY <1>3, <1>4 DEF HoldsAlone, Batching, Submitting, open_work
<1>6. tx \in [Procs -> Tx] /\ tx' = [tx EXCEPT ![p] = u]
  BY <1>1, <1>2 DEF IInv, TypeOK, Tx
<1>7. UNCHANGED <<ledger, net, leaves, rows, enabled>>
  BY DEF drain, db
<1>. QED  BY <1>5, <1>6, <1>7, SoloOwnStep

\* submit() finds it is its turn, and marks the row.
LEMMA SoloMark ==
    ASSUME Solo, IInv, SoloInv, NEW p \in Procs,
           submit_our_turn(p) \/ mark_submitted(p)
    PROVE  SoloInv'
<1>1. PICK t : t = tx[p]
  OBVIOUS
<1>2. t.pc \in {"submit", "mark"}
  BY <1>1 DEF submit_our_turn, mark_submitted
<1>3. /\ t \in Tx /\ t.row \in Row /\ t.row.seq \in Nat /\ HoldsAlone(t)
      /\ IsOpen(rows[t.id]) /\ CallOf(t.row) = CallOf(rows[t.id])
      /\ net = {} /\ tx \in [Procs -> Tx]
  <2>1. t \in Tx /\ t.row \in Row /\ HoldsAlone(t) /\ tx \in [Procs -> Tx]
    BY <1>1, ProcessFacts DEF SoloInv, WorkerInv, IInv, TypeOK, Tx
  <2>2. t.row.seq \in Nat
    BY <2>1, BoundsAssumption DEF Row
  <2>. QED  BY <1>2, <2>1, <2>2 DEF HoldsAlone, Submitting
<1>4. CASE submit_our_turn(p)
  <2>1. PICK u : u = [t EXCEPT !.pc = "mark"]
    OBVIOUS
  <2>2. u.pc = "mark" /\ u.row = t.row /\ u.id = t.id
    BY <1>3, <2>1 DEF Tx
  <2>3. t.row.seq = head + 1
    BY <1>1, <1>3, <1>4, SoloTypes DEF submit_our_turn, head
  <2>4. HoldsAlone(u)
    BY <1>3, <2>2, <2>3 DEF HoldsAlone, Batching, Submitting
  <2>5. tx' = [tx EXCEPT ![p] = u]
    BY <1>1, <1>4, <2>1 DEF submit_our_turn
  <2>6. UNCHANGED <<ledger, net, leaves, rows, enabled>>
    BY <1>4 DEF submit_our_turn, db
  <2>. QED  BY <1>3, <2>4, <2>5, <2>6, SoloOwnStep
<1>5. CASE mark_submitted(p)
  <2>0. UNCHANGED <<ledger, net, leaves, rows, enabled>>
    BY <1>5 DEF mark_submitted, db
  <2>1. CASE tx' = [tx EXCEPT ![p] = Idle]
    BY <2>0, <2>1, SoloRollBack
  <2>2. CASE tx' # [tx EXCEPT ![p] = Idle]
    <3>1. PICK w : w = (t.wrote \/ t.row.status # "submitted")
      OBVIOUS
    <3>2. PICK u : u = [t EXCEPT !.pc = "send", !.row.status = "submitted",
                                 !.row.attempts = @ + 1, !.wrote = w]
      OBVIOUS
    <3>3. tx' = [tx EXCEPT ![p] = u]
      BY <1>1, <1>5, <2>2, <3>1, <3>2 DEF mark_submitted
    <3>4. PICK r : r = [t.row EXCEPT !.status = "submitted",
                                     !.attempts = @ + 1]
      OBVIOUS
    <3>5. /\ r.seq = t.row.seq /\ r.root = t.row.root /\ r.prev = t.row.prev
          /\ r.from = t.row.from /\ r.to = t.row.to
      BY <1>3, <3>4 DEF Row
    <3>6. CallOf(r) = CallOf(t.row)
      BY <3>5 DEF CallOf
    <3>7. u.pc = "send" /\ u.row = r /\ u.id = t.id
      BY <1>3, <3>2, <3>4 DEF Tx
    <3>8. t.row.seq = head + 1
      BY <1>1, <1>3, <1>5 DEF mark_submitted, HoldsAlone
    <3>9. HoldsAlone(u)
      BY <1>3, <3>5, <3>6, <3>7, <3>8 DEF HoldsAlone, Batching, Submitting
    <3>. QED  BY <1>3, <2>0, <3>3, <3>9, SoloOwnStep
  <2>. QED  BY <2>1, <2>2
<1>. QED  BY <1>4, <1>5

\* _invoke(): the open row's call goes into flight, alone.
LEMMA SoloSend ==
    ASSUME Solo, IInv, SoloInv, NEW p \in Procs, send_transaction(p)
    PROVE  SoloInv'
<1>1. PICK t : t = tx[p]
  OBVIOUS
<1>2. tx[p].pc = "send" /\ tx[p].pc \in Submitting
  BY DEF send_transaction, Submitting
<1>3. /\ t \in Tx /\ tx \in [Procs -> Tx] /\ t.row.seq = head + 1 /\ net = {}
      /\ t.id \in open_work /\ CallOf(t.row) = CallOf(rows[t.id])
      /\ rows[t.id].seq = t.row.seq /\ IsOpen(rows[t.id])
  <2>1. t.row.seq = head + 1 /\ net = {}
    BY <1>1, <1>2 DEF SoloInv, WorkerInv, HoldsAlone
  <2>. QED  BY <1>1, <1>2, <2>1, Submits DEF IInv, TypeOK, Tx, open_work
<1>4. PICK u : u = [t EXCEPT !.pc = "poll"]
  OBVIOUS
<1>5. u.pc = "poll" /\ u.row = t.row /\ u.id = t.id
  BY <1>3, <1>4 DEF Tx
<1>6. /\ books' = books /\ seals' = seals /\ rows' = rows /\ leaves' = leaves
      /\ enabled' = enabled /\ net' = {CallOf(t.row)}
      /\ tx' = [tx EXCEPT ![p] = u]
  BY <1>1, <1>3, <1>4 DEF send_transaction, ledger, db
<1>7. Live' = Live /\ open_work' = open_work /\ head' = head
  BY <1>6 DEF Live, open_work, head
<1>8. ChainMarks' /\ Mirror' /\ Tiling'
  BY <1>6, <1>7 DEF SoloInv, ChainMarks, Mirror, Tiling, OnChain, PL!verify
<1>9. OpenRow'
  <2>1. ASSUME NEW k \in open_work PROVE ErrorOf(rows[k])' = ErrorOf(rows[k])
    <3>1. CallOf(rows[k])' = CallOf(rows[k])
      BY <1>6 DEF CallOf
    <3>. QED  BY <1>6, <3>1, AnswerStays
  <2>. QED  BY <1>6, <1>7, <2>1 DEF SoloInv, OpenRow
<1>10. InFlight'
  <2>1. CallOf(rows[t.id])' = CallOf(t.row)
    BY <1>3, <1>6 DEF CallOf
  <2>2. t.id \in open_work' /\ rows'[t.id].seq = head' + 1
    BY <1>3, <1>6, <1>7
  <2>3. \A c \in net' : c = CallOf(t.row)
    BY <1>6
  <2>. QED  BY <2>1, <2>2, <2>3 DEF InFlight
<1>11. RowHoldsItsLeaves'
  BY <1>6 DEF SoloInv, RowHoldsItsLeaves, IsLive
<1>12. WorkerInv'
  <2> SUFFICES ASSUME NEW q \in Procs PROVE HoldsAlone(tx[q])'
    BY DEF WorkerInv
  <2>1. tx'[q] = u
    BY <1>3, <1>6, Alone
  <2>2. IsOpen(rows'[u.id]) /\ CallOf(u.row) = CallOf(rows[u.id])'
    BY <1>3, <1>5, <1>6 DEF CallOf
  <2>3. HoldsAlone(u)'
    BY <1>5, <2>2 DEF HoldsAlone, Batching, Submitting, CallOf, IsOpen
  <2>. QED  BY <2>1, <2>3 DEF HoldsAlone, CallOf
<1>. QED  BY <1>6, <1>8, <1>9, <1>10, <1>11, <1>12 DEF SoloInv

\* reconcile(): a row the head has reached is the seal the chain has there.
LEMMA SoloReconcile ==
    ASSUME Solo, IInv, SoloInv, NEW p \in Procs, reconcile(p)
    PROVE  SoloInv' /\ GivesUpUnsealed
<1>1. PICK i \in open_work :
          /\ head >= rows[i].seq
          /\ rows' = [rows EXCEPT ![i].status =
                         IF OnChain(rows[i]) THEN "confirmed" ELSE "failed"]
          /\ leaves' = IF ~OnChain(rows[i]) THEN Released(leaves, i) ELSE leaves
  BY DEF reconcile, head
<1>2. i \in Live /\ rows[i] \in Row /\ i \in DOMAIN rows
  BY SoloTypes
<1>3. OnChain(rows[i])
  BY <1>1, <1>2 DEF SoloInv, Mirror
<1>4. PICK a \in Nat : a = rows[i].attempts
  BY <1>2 DEF Row
<1>5. rows' = [rows EXCEPT ![i].status = "confirmed", ![i].attempts = a]
  <2>1. PICK r : r = [rows[i] EXCEPT !.status = "confirmed"]
    OBVIOUS
  <2>2. r = [r EXCEPT !.attempts = a]
    BY <1>2, <1>4, <2>1 DEF Row
  <2>. QED  BY <1>1, <1>2, <1>3, <2>1, <2>2
<1>6. leaves' = leaves /\ UNCHANGED <<ledger, net, enabled>>
  BY <1>1, <1>3 DEF reconcile
<1>7. \A q \in Procs : tx'[q].pc = "idle"
  BY Alone DEF reconcile
<1>. QED  BY <1>3, <1>5, <1>6, <1>7, SoloUpdate

\* The open row's call is applied: the chain grows by that row.
LEMMA SoloLand == ASSUME Solo, IInv, SoloInv, Land PROVE SoloInv'
<1>1. PICK c \in net : /\ PL!seal(Org, c, {Signer})
                       /\ net' = net \ {c}
  BY DEF Land
<1>2. /\ leaves' = leaves /\ rows' = rows /\ enabled' = enabled /\ tx' = tx
  BY DEF Land, db
<1>3. PICK k \in open_work : c = CallOf(rows[k]) /\ rows[k].seq = head + 1
  BY DEF SoloInv, InFlight
<1>4. /\ k \in Live /\ k \in DOMAIN rows /\ rows[k] \in Row /\ head \in Nat
      /\ \A j \in Live : rows[j].seq \in Nat
  BY SoloTypes
<1>5. \A j \in open_work : j = k
  BY DEF SoloInv, OpenRow
<1>6. net' = {}
  BY <1>1, <1>3, <1>5 DEF SoloInv, InFlight
<1>7. PICK e : e = PL!Entry(c)
  OBVIOUS
<1>8. /\ e.seq = head + 1 /\ e.root = rows[k].root /\ e.to = rows[k].to
  BY <1>3, <1>7 DEF PL!Entry, PL!EntryOf, CallOf
<1>9. /\ seals \in [{Org} -> SUBSET PL!Seal]
      /\ books \in [{Org} -> PL!Book \cup {NoBook}]
      /\ \A s \in seals[Org] : s.seq \in Nat /\ s.seq <= head
  BY SoloTypes DEF IInv, TypeOK, PL!TypeOK
<1>10. seals'[Org] = seals[Org] \cup {e}
  <2>1. seals'[Org] = PL!Stored(Org, e)
    BY <1>1, <1>7, <1>9 DEF PL!seal
  <2>2. \A s \in seals[Org] : s.seq # e.seq
    BY <1>4, <1>8, <1>9
  <2>. QED  BY <2>1, <2>2 DEF PL!Stored
<1>11. /\ books'[Org].head = head + 1 /\ books'[Org].root = rows[k].root
       /\ books'[Org].covered_to = rows[k].to
       /\ books'[Org].admin = books[Org].admin
  <2>1. books'[Org] = PL!Extended(books[Org], e)
    BY <1>1, <1>7, <1>9 DEF PL!seal
  <2>. QED  BY <1>8, <2>1 DEF PL!Extended, PL!ExtendedBy
<1>12. Live' = Live /\ open_work' = open_work /\ head' = head + 1
  BY <1>2, <1>11 DEF Live, open_work, head
<1>13. ChainMarks'
  <2>1. books'[Org].admin = Signer
    BY <1>11 DEF SoloInv, ChainMarks
  <2>2. \A s \in seals'[Org] : s.seq >= 1
    BY <1>4, <1>8, <1>10 DEF SoloInv, ChainMarks
  <2>3. \A s, t \in seals'[Org] : s.seq = t.seq => s = t
    BY <1>4, <1>8, <1>9, <1>10 DEF SoloInv, ChainMarks
  <2>4. head' # 0
    BY <1>4, <1>12
  <2>. QED  BY <2>1, <2>2, <2>3, <2>4 DEF ChainMarks
<1>14. Mirror'
  <2>1. \A j \in Live : rows[j].seq <= head + 1
                        /\ (rows[j].seq = head + 1 => j = k)
    BY <1>3, <1>4 DEF SoloInv, Mirror
  <2>2. \A i, j \in Live' : rows'[i].seq = rows'[j].seq => i = j
    BY <1>2, <1>12 DEF SoloInv, Mirror
  <2>3. \A i \in Live' : rows'[i].seq <= head' + 1
    BY <1>2, <1>4, <1>12, <2>1
  <2>4. ASSUME NEW i \in Live', rows'[i].seq <= head'
        PROVE  \E s \in seals'[Org] : /\ s.seq = rows'[i].seq
                                      /\ s.root = rows'[i].root
    <3>1. CASE i = k
      BY <1>2, <1>3, <1>8, <1>10, <3>1
    <3>2. CASE i # k
      <4>1. i \in Live /\ rows[i].seq <= head
        BY <1>4, <1>12, <2>1, <3>2
      <4>. QED  BY <1>2, <1>10, <4>1 DEF SoloInv, Mirror, OnChain, PL!verify
    <3>. QED  BY <3>1, <3>2
  <2>5. \A i \in Live' : rows'[i].seq <= head' => OnChain(rows[i])'
    BY <2>4 DEF OnChain, PL!verify
  <2>6. \A i \in Live' : rows'[i].seq = head' =>
            /\ rows'[i].root = books'[Org].root
            /\ rows'[i].to = books'[Org].covered_to
    BY <1>2, <1>11, <1>12, <2>1
  <2>7. ASSUME NEW n \in 1 .. head' PROVE \E i \in Live' : rows'[i].seq = n
    <3>1. n \in 1 .. head \/ n = head + 1
      BY <1>4, <1>12
    <3>. QED  BY <1>2, <1>3, <1>4, <1>12, <3>1 DEF SoloInv, Mirror
  <2>. QED  BY <2>2, <2>3, <2>5, <2>6, <2>7 DEF Mirror
<1>15. OpenRow'
  <2>1. \A i \in open_work' : rows'[i].seq = head' /\ rows'[i].seq # head' + 1
    BY <1>2, <1>3, <1>4, <1>5, <1>12
  <2>2. \A i \in open_work' : rows'[i].seq >= head'
    BY <1>4, <1>12, <2>1
  <2>. QED  BY <1>5, <1>12, <2>1, <2>2 DEF OpenRow
<1>16. InFlight'
  BY <1>6 DEF InFlight
<1>17. Tiling' /\ RowHoldsItsLeaves'
  BY <1>2, <1>12 DEF SoloInv, Tiling, RowHoldsItsLeaves, IsLive
<1>18. WorkerInv'
  <2> SUFFICES ASSUME NEW q \in Procs PROVE HoldsAlone(tx[q])'
    BY DEF WorkerInv
  <2>1. PICK t : t = tx[q]
    OBVIOUS
  <2>2. HoldsAlone(t) /\ t \in Tx
    BY <2>1, ProcessFacts DEF SoloInv, WorkerInv
  <2>3. t.pc \in {"idle", "poll"}
    BY <1>1, <1>3, <2>2 DEF HoldsAlone, Tx
  <2>4. HoldsAlone(t)'
    BY <1>2, <2>2, <2>3 DEF HoldsAlone, Batching, Submitting, CallOf, IsOpen
  <2>. QED  BY <1>2, <2>1, <2>4
<1>. QED  BY <1>2, <1>13, <1>14, <1>15, <1>16, <1>17, <1>18 DEF SoloInv

----------------------------------------------------------------------------
(* create_seal().                                                          *)

\* unsealed() takes the backlog from its front: what lies before a leaf of the
\* batch is in it or sealed.
LEMMA BatchIsFront ==
    ASSUME IInv, NEW n \in Batch
    PROVE  /\ leaves[n].seal = 0
           /\ \A m \in 1 .. n : m \in Batch \/ leaves[m].seal # 0
<1>1. n \in unsealed /\ leaves[n].seal = 0 /\ n \in DOMAIN leaves
  BY DEF Batch, unsealed
<1>2. Len(leaves) \in Nat /\ DOMAIN leaves = 1 .. Len(leaves)
  BY SoloTypes, LenProperties
<1>3. ASSUME NEW m \in 1 .. n, leaves[m].seal = 0 PROVE m \in Batch
  <2>1. m \in unsealed /\ n \in Nat /\ m \in Nat /\ m <= n
    BY <1>1, <1>2, <1>3 DEF unsealed
  <2> DEFINE upto(k) == {j \in unsealed : j <= k}
  <2>2. IsFiniteSet(upto(n))
    <3>1. IsFiniteSet(1 .. Len(leaves))
      BY <1>2, FS_Interval
    <3>2. upto(n) \subseteq 1 .. Len(leaves)
      BY <1>2 DEF unsealed
    <3> HIDE DEF upto
    <3>. QED  BY <3>1, <3>2, FS_Subset
  <2>3. upto(m) \subseteq upto(n)
    <3>1. \A j \in unsealed : j \in Nat
      BY <1>2 DEF unsealed
    <3>2. \A j \in Nat : j <= m => j <= n
      BY <2>1
    <3>3. \A j \in upto(m) : j \in unsealed /\ j <= m
      OBVIOUS
    <3>4. \A j \in upto(m) : j \in unsealed /\ j <= n
      BY <3>1, <3>2, <3>3
    <3>. QED  BY <3>4
  <2>4. Cardinality(upto(m)) <= Cardinality(upto(n))
        /\ IsFiniteSet(upto(m))
    <3> HIDE DEF upto
    <3>. QED  BY <2>2, <2>3, FS_Subset
  <2>5. Cardinality(upto(m)) \in Nat /\ Cardinality(upto(n)) \in Nat
    <3> HIDE DEF upto
    <3>. QED  BY <2>2, <2>4, FS_CardinalityType
  <2>6. Cardinality(upto(n)) <= seal_max_batch
    BY DEF Batch
  <2>7. Cardinality(upto(m)) <= seal_max_batch
    <3> HIDE DEF upto
    <3>. QED  BY <2>4, <2>5, <2>6, LimitsAssumption
  <2>. QED  BY <2>1, <2>7 DEF Batch
<1>. QED  BY <1>1, <1>3

\* latest_confirmed() is the end of the chain when no row is open.
LEMMA LatestIsHead ==
    ASSUME IInv, SoloInv, open_work = {}
    PROVE  /\ latest_confirmed.root = books[Org].root
           /\ latest_confirmed.to = books[Org].covered_to
<1>1. \A i \in confirmed : /\ i \in Live /\ rows[i].seq \in Nat
                           /\ rows[i].seq >= 1 /\ rows[i].seq <= head
  <2>1. \A i \in confirmed : i \in Live /\ rows[i].seq \in Nat
    BY SoloTypes DEF confirmed, Live, IsLive
  <2>2. \A i \in confirmed : OnChain(rows[i])
    BY DEF confirmed, IInv, ConfirmedIsOnChain
  <2>3. \A i \in confirmed : rows[i].seq >= 1 /\ rows[i].seq <= head
    BY <2>2, SoloTypes DEF SoloInv, ChainMarks, OnChain, PL!verify
  <2>. QED  BY <2>1, <2>3
<1>2. head \in Nat
  BY SoloTypes
<1>3. CASE head = 0
  <2>1. confirmed = {}
    BY <1>1, <1>3
  <2>2. latest_confirmed.root = GENESIS /\ latest_confirmed.to = 0
    BY <2>1 DEF latest_confirmed, NoRow
  <2>. QED  BY <1>3, <2>2 DEF SoloInv, ChainMarks
<1>4. CASE head # 0
  <2>1. PICK i \in Live : rows[i].seq = head
    <3>1. head \in 1 .. head
      BY <1>2, <1>4
    <3>. QED  BY <3>1 DEF SoloInv, Mirror
  <2>2. i \in confirmed
    BY ConfirmedBelow, SoloTypes DEF confirmed
  <2> DEFINE k == CHOOSE x \in confirmed :
                      \A j \in confirmed : rows[j].seq <= rows[x].seq
  <2>3. \A j \in confirmed : rows[j].seq <= rows[i].seq
    BY <1>1, <2>1
  <2>4. k \in confirmed /\ \A j \in confirmed : rows[j].seq <= rows[k].seq
    BY <2>2, <2>3
  <2>5. latest_confirmed = rows[k]
    BY <2>2 DEF latest_confirmed
  <2> HIDE DEF k
  <2>6. k \in Live /\ rows[k].seq = head
    BY <1>1, <1>2, <2>1, <2>2, <2>4
  <2>. QED  BY <2>5, <2>6 DEF SoloInv, Mirror
<1>. QED  BY <1>3, <1>4

\* highest_live_seq is the head when no row is open.
LEMMA HighestIsHead ==
    ASSUME IInv, SoloInv, open_work = {}
    PROVE  highest_live_seq = head
<1> DEFINE S == {0} \cup live_seqs
<1>1. head \in Nat /\ \A i \in Live : rows[i].seq \in Nat /\ rows[i].seq <= head
  BY SoloTypes, ConfirmedBelow
<1>2. live_seqs = {rows[i].seq : i \in Live}
  BY DEF live_seqs, Live
<1>3. \A n \in S : n \in Nat /\ n <= head
  BY <1>1, <1>2
<1>4. head \in S
  <2>1. CASE head = 0
    BY <2>1
  <2>2. CASE head # 0
    <3>1. head \in 1 .. head
      BY <1>1, <2>2
    <3>2. PICK i \in Live : rows[i].seq = head
      BY <3>1 DEF SoloInv, Mirror
    <3>. QED  BY <1>2, <3>2
  <2>. QED  BY <2>1, <2>2
<1>5. highest_live_seq = CHOOSE n \in S : \A m \in S : m <= n
  BY DEF highest_live_seq
<1> HIDE DEF S
<1>6. /\ highest_live_seq \in S /\ \A m \in S : m <= highest_live_seq
  BY <1>3, <1>4, <1>5
<1>. QED  BY <1>1, <1>3, <1>4, <1>6

\* The row create_seal() writes is the one the contract expects next.
LEMMA NewRowIsNext ==
    ASSUME Solo, IInv, SoloInv, NEW p \in Procs, tx[p].pc = "insert",
           Len(rows) < MaxRows
    PROVE  /\ NewRow(p) \in Row /\ NewRow(p).seq = head + 1
           /\ NewRow(p).root = tx[p].batch
           /\ NewRow(p).status = "pending" /\ ErrorOf(NewRow(p)) = "ok"
<1>1. PICK t : t = tx[p]
  OBVIOUS
<1>2. /\ t \in Tx /\ BatchOK(t) /\ HoldsAlone(t) /\ t.pc = "insert"
  BY <1>1, ProcessFacts DEF SoloInv, WorkerInv, HeldBy, Batching
<1>3. /\ open_work = {} /\ t.previous.root = books[Org].root
      /\ t.previous.to = books[Org].covered_to
  BY <1>2 DEF HoldsAlone
<1>4. PICK r : r = NewRow(p)
  OBVIOUS
<1>5. r \in Row /\ r.root = t.batch /\ r.status = "pending"
  BY <1>1, <1>2, <1>4, NewRowType, SoloTypes DEF IInv
<1>6. r.seq = head + 1 /\ r.prev = books[Org].root
  BY <1>1, <1>3, <1>4, HighestIsHead DEF NewRow
<1>7. /\ r.from \in Nat /\ r.to \in Nat
      /\ books[Org].covered_to <= r.from /\ r.from <= r.to
  <2>1. /\ t.batch \in SUBSET (1 .. MaxLeaves) /\ t.batch # {}
        /\ t.batch \subseteq DOMAIN leaves /\ t.previous.to \in Nat
    BY <1>2, BoundsAssumption DEF Tx, BatchOK, Row
  <2>2. first(t.batch) \in DOMAIN leaves /\ last(t.batch) \in DOMAIN leaves
    BY <2>1, BatchEnds
  <2>3. \A n \in DOMAIN leaves : leaves[n].created \in Nat
    <3>1. \A n \in DOMAIN leaves : leaves[n] \in LeafRow
      BY SoloTypes, ElementOfSeq, LenProperties
    <3>. QED  BY <3>1, BoundsAssumption DEF LeafRow
  <2>4. PICK start \in Nat, end \in Nat :
            /\ start = leaves[first(t.batch)].created
            /\ end = leaves[last(t.batch)].created
    BY <2>2, <2>3
  <2>5. r.from = covered_window(t.batch, t.previous).from
        /\ r.to = covered_window(t.batch, t.previous).to
    BY <1>1, <1>4 DEF NewRow
  <2>6. r.from = IF start < t.previous.to THEN t.previous.to ELSE start
    BY <2>4, <2>5 DEF covered_window
  <2>7. r.to = IF end < r.from THEN r.from ELSE end
    BY <2>4, <2>5, <2>6 DEF covered_window
  <2>8. r.from \in Nat /\ t.previous.to <= r.from
    BY <2>1, <2>4, <2>6
  <2>. QED  BY <1>3, <2>4, <2>7, <2>8
<1>8. ErrorOf(r) = "ok"
  <2>1. PICK c : c = CallOf(r)
    OBVIOUS
  <2>2. /\ c.seq = head + 1 /\ c.root = t.batch /\ c.prev = books[Org].root
        /\ c.from = r.from /\ c.to = r.to /\ c.count = Cardinality(t.batch)
    BY <1>5, <1>6, <2>1 DEF CallOf
  <2>3. c.count # 0
    <3>1. t.batch \in SUBSET (1 .. MaxLeaves) /\ t.batch # {}
      BY <1>2 DEF Tx, BatchOK
    <3>2. IsFiniteSet(1 .. MaxLeaves)
      BY FS_Interval, BoundsAssumption
    <3>3. IsFiniteSet(t.batch)
      BY <3>1, <3>2, FS_Subset
    <3>. QED  BY <2>2, <3>1, <3>3, FS_EmptySet
  <2>4. c.root # GENESIS
    BY <1>2, <2>2 DEF BatchOK, GENESIS
  <2>5. PL!is_registered(Org) /\ ~PL!Unauthorised(Org, {Signer})
    BY NoBookAssumption
    DEF PL!is_registered, PL!Unauthorised, IInv, ChainInv, SoloInv, ChainMarks
  <2>6. ~PL!RootIsSentinel(c) /\ ~PL!SequenceOutOfOrder(Org, c)
        /\ ~PL!ChainBroken(Org, c)
    BY <2>2, <2>4
    DEF PL!RootIsSentinel, PL!SequenceOutOfOrder, PL!ChainBroken, head
  <2>7. books[Org].covered_to \in Nat
    <3>1. t.previous.to \in Nat
      BY <1>2, BoundsAssumption DEF Tx, Row
    <3>. QED  BY <1>3, <3>1
  <2>8. ~(c.to < c.from) /\ ~PL!WindowReachesBack(Org, c)
    BY <1>7, <2>2, <2>7 DEF PL!WindowReachesBack
  <2>. QED  BY <2>1, <2>3, <2>5, <2>6, <2>8 DEF ErrorOf, PL!SealError
<1>. QED  BY <1>1, <1>4, <1>5, <1>6, <1>8

\* create_seal() up to its insert.
LEMMA SoloReads ==
    ASSUME Solo, IInv, SoloInv, NEW p \in Procs,
           create_seal(p) \/ read_unsealed(p) \/ read_previous(p)
    PROVE  SoloInv'
<1>1. PICK t : t = tx[p]
  OBVIOUS
<1>2. t \in Tx /\ HoldsAlone(t) /\ tx \in [Procs -> Tx]
  BY <1>1, ProcessFacts DEF SoloInv, WorkerInv, IInv, TypeOK, Tx
<1>3. UNCHANGED <<ledger, net, leaves, rows, enabled>>
  BY DEF create_seal, read_unsealed, read_previous, db
<1>4. CASE create_seal(p)
  <2>1. PICK u : u = [t EXCEPT !.pc = "batch"]
    OBVIOUS
  <2>2. u.pc = "batch" /\ tx' = [tx EXCEPT ![p] = u]
    BY <1>1, <1>2, <1>4, <2>1 DEF create_seal, Tx
  <2>3. HoldsAlone(u)
    BY <1>4, <2>2 DEF create_seal, exists_open, HoldsAlone, Batching, Submitting
  <2>. QED  BY <1>2, <1>3, <2>2, <2>3, SoloOwnStep
<1>5. CASE read_unsealed(p)
  <2>1. CASE Batch = {}
    <3>1. tx' = [tx EXCEPT ![p] = Idle]
      BY <1>5, <2>1 DEF read_unsealed
    <3>. QED  BY <1>3, <3>1, SoloRollBack
  <2>2. CASE Batch # {}
    <3>1. PICK b : b = Batch
      OBVIOUS
    <3>2. PICK u : u = [t EXCEPT !.pc = "previous", !.batch = b]
      OBVIOUS
    <3>3. u.pc = "previous" /\ u.batch = b
      BY <1>2, <3>2 DEF Tx
    <3>4. tx' = [tx EXCEPT ![p] = u]
      BY <1>1, <1>5, <2>2, <3>1, <3>2 DEF read_unsealed
    <3>5. open_work = {}
      BY <1>1, <1>2, <1>5 DEF read_unsealed, HoldsAlone
    <3>6. \A n \in b : /\ leaves[n].seal = 0
                       /\ \A m \in 1 .. n : m \in b \/ leaves[m].seal # 0
      BY <3>1, BatchIsFront
    <3>7. HoldsAlone(u)
      BY <3>3, <3>5, <3>6 DEF HoldsAlone, Batching, Submitting
    <3>. QED  BY <1>2, <1>3, <3>4, <3>7, SoloOwnStep
  <2>. QED  BY <2>1, <2>2
<1>6. CASE read_previous(p)
  <2>1. PICK l : l = latest_confirmed
    OBVIOUS
  <2>2. PICK u : u = [t EXCEPT !.pc = "insert", !.previous = l]
    OBVIOUS
  <2>3. u.pc = "insert" /\ u.previous = l /\ u.batch = t.batch
    BY <1>2, <2>2 DEF Tx
  <2>4. tx' = [tx EXCEPT ![p] = u]
    BY <1>1, <1>6, <2>1, <2>2 DEF read_previous
  <2>5. t.pc = "previous" /\ open_work = {}
    BY <1>1, <1>2, <1>6 DEF read_previous, HoldsAlone
  <2>6. l.root = books[Org].root /\ l.to = books[Org].covered_to
    BY <2>1, <2>5, LatestIsHead
  <2>7. HoldsAlone(u)
    BY <1>2, <2>3, <2>5, <2>6 DEF HoldsAlone, Batching, Submitting
  <2>. QED  BY <1>2, <1>3, <2>4, <2>7, SoloOwnStep
<1>. QED  BY <1>4, <1>5, <1>6

\* The insert: the new row takes over the front of the backlog.
LEMMA SoloAppend ==
    ASSUME Solo, IInv, SoloInv, NEW p \in Procs, tx[p].pc = "insert",
           Len(rows) < MaxRows,
           rows' = Append(rows, NewRow(p)),
           leaves' = Assigned(tx[p].batch, Len(rows) + 1),
           tx' = [tx EXCEPT ![p] = Idle],
           UNCHANGED <<ledger, net, enabled>>
    PROVE  SoloInv'
<1>1. PICK r : r = NewRow(p)
  OBVIOUS
<1>2. /\ r \in Row /\ r.seq = head + 1 /\ r.root = tx[p].batch
      /\ r.status = "pending" /\ ErrorOf(r) = "ok"
  BY <1>1, NewRowIsNext
<1>3. /\ open_work = {}
      /\ \A n \in r.root : /\ leaves[n].seal = 0
                           /\ \A m \in 1 .. n : m \in r.root \/ leaves[m].seal # 0
      /\ r.root \subseteq DOMAIN leaves
  <2>1. HoldsAlone(tx[p]) /\ BatchOK(tx[p])
    BY ProcessFacts DEF SoloInv, WorkerInv, HeldBy, Batching
  <2>. QED  BY <1>2, <2>1 DEF HoldsAlone, Batching, BatchOK
<1>4. /\ rows \in Seq(Row) /\ Len(rows) \in Nat /\ DOMAIN rows = 1 .. Len(rows)
      /\ DOMAIN leaves = 1 .. Len(leaves) /\ leaves \in Seq(LeafRow)
      /\ head \in Nat /\ Live \subseteq DOMAIN rows
      /\ \A i \in DOMAIN rows : rows[i].seq \in Nat
  BY SoloTypes
<1>5. PICK k : k = Len(rows) + 1
  OBVIOUS
<1>6. /\ Len(rows') = k /\ rows' \in Seq(Row) /\ rows'[k] = r
      /\ \A i \in DOMAIN rows : rows'[i] = rows[i]
  BY <1>1, <1>2, <1>4, <1>5, AppendProperties
<1>7. /\ k \notin DOMAIN rows
      /\ \A i : i \in DOMAIN rows' <=> i \in DOMAIN rows \/ i = k
  <2>1. DOMAIN rows' = 1 .. k
    BY <1>6, LenProperties
  <2>. QED  BY <1>4, <1>5, <2>1
<1>8. /\ books' = books /\ seals' = seals /\ net' = net /\ enabled' = enabled
      /\ head' = head
  BY DEF ledger, head
<1>9. net = {}
  BY <1>3 DEF SoloInv, InFlight
<1>10. Live' = Live \cup {k} /\ open_work' = {k}
  <2>1. \A i \in DOMAIN rows : IsOpen(rows'[i]) <=> IsOpen(rows[i])
    BY <1>6
  <2>2. \A i \in DOMAIN rows : ~IsOpen(rows[i])
    BY <1>3 DEF open_work
  <2>3. \A i \in DOMAIN rows : IsLive(rows'[i]) <=> IsLive(rows[i])
    BY <1>6
  <2>4. IsOpen(rows'[k]) /\ IsLive(rows'[k])
    BY <1>2, <1>6 DEF IsOpen, IsLive
  <2>5. open_work' = {i \in DOMAIN rows' : IsOpen(rows'[i])}
        /\ Live' = {i \in DOMAIN rows' : IsLive(rows'[i])}
    BY DEF open_work, Live, IsOpen, IsLive
  <2>6. open_work' = {k}
    BY <1>7, <2>1, <2>2, <2>4, <2>5
  <2>7. Live' = Live \cup {k}
    BY <1>7, <2>3, <2>4, <2>5 DEF Live
  <2>. QED  BY <2>6, <2>7
<1>11. \A i \in Live : rows'[i] = rows[i] /\ rows[i].seq <= head /\ i # k
  BY <1>3, <1>4, <1>6, <1>7, ConfirmedBelow
<1>12. ChainMarks'
  BY <1>8 DEF SoloInv, ChainMarks
<1>13. Mirror'
  <2>1. \A i, j \in Live' : rows'[i].seq = rows'[j].seq => i = j
    <3>1. \A i \in Live : rows'[i].seq # rows'[k].seq
      BY <1>2, <1>4, <1>6, <1>11
    <3>2. \A i, j \in Live : rows'[i].seq = rows'[j].seq => i = j
      <4>1. \A i, j \in Live : rows[i].seq = rows[j].seq => i = j
        BY DEF SoloInv, Mirror
      <4>. QED  BY <1>11, <4>1
    <3>3. \A i \in Live' : i \in Live \/ i = k
      BY <1>10
    <3>. QED  BY <3>1, <3>2, <3>3
  <2>2. \A i \in Live' : rows'[i].seq <= head' + 1
    BY <1>2, <1>4, <1>6, <1>8, <1>10, <1>11
  <2>3. \A i \in Live' : rows'[i].seq <= head' => i \in Live
    BY <1>2, <1>4, <1>6, <1>8, <1>10
  <2>4. ASSUME NEW i \in Live', rows'[i].seq <= head'
        PROVE  OnChain(rows[i])'
    <3>1. i \in Live /\ OnChain(rows[i]) /\ rows'[i] = rows[i]
      BY <1>11, <2>3, <2>4 DEF SoloInv, Mirror
    <3>. QED  BY <1>8, <3>1 DEF OnChain, PL!verify
  <2>5. \A i \in Live' : rows'[i].seq = head' =>
            /\ rows'[i].root = books'[Org].root
            /\ rows'[i].to = books'[Org].covered_to
    <3> SUFFICES ASSUME NEW i \in Live', rows'[i].seq = head'
                 PROVE  /\ rows'[i].root = books'[Org].root
                        /\ rows'[i].to = books'[Org].covered_to
      OBVIOUS
    <3>1. i = k \/ i \in Live
      BY <1>10
    <3>2. i # k
      BY <1>2, <1>4, <1>6, <1>8
    <3>3. i \in Live /\ rows[i].seq = head /\ rows'[i] = rows[i]
      BY <1>8, <1>11, <3>1, <3>2
    <3>. QED  BY <1>8, <3>3 DEF SoloInv, Mirror
  <2>6. ASSUME NEW n \in 1 .. head' PROVE \E i \in Live' : rows'[i].seq = n
    <3>1. PICK i \in Live : rows[i].seq = n
      BY <1>8 DEF SoloInv, Mirror
    <3>. QED  BY <1>10, <1>11, <3>1
  <2>. QED  BY <2>1, <2>2, <2>4, <2>5, <2>6 DEF Mirror
<1>14. OpenRow'
  <2>1. ErrorOf(rows[k])' = "ok"
    <3>1. PICK c : c = CallOf(r)
      OBVIOUS
    <3>2. CallOf(rows[k])' = c
      BY <1>6, <3>1 DEF CallOf
    <3>3. PL!SealError(Org, c, {Signer}) = "ok"
      BY <1>2, <3>1 DEF ErrorOf
    <3>. QED  BY <1>8, <3>2, <3>3
              DEF ErrorOf, PL!SealError, PL!is_registered, PL!Unauthorised,
                  PL!RootIsSentinel, PL!SequenceOutOfOrder, PL!ChainBroken,
                  PL!WindowReachesBack
  <2>2. rows'[k].seq >= head'
    BY <1>2, <1>4, <1>6, <1>8
  <2>. QED  BY <1>10, <2>1, <2>2 DEF OpenRow
<1>15. InFlight'
  BY <1>8, <1>9 DEF InFlight
<1>16. \A m \in DOMAIN leaves : leaves[m].seal # 0 =>
           /\ leaves[m].seal \in Live
           /\ m \in rows[leaves[m].seal].root
  <2> SUFFICES ASSUME NEW m \in DOMAIN leaves, leaves[m].seal # 0
               PROVE  /\ leaves[m].seal \in Live
                      /\ m \in rows[leaves[m].seal].root
    OBVIOUS
  <2>1. leaves[m].seal \in DOMAIN rows
    BY <1>4 DEF IInv, LeavesInv
  <2>2. IsLive(rows[leaves[m].seal])
    BY DEF IInv, NoLeafStranded
  <2>. QED  BY <2>1, <2>2 DEF Live, SoloInv, RowHoldsItsLeaves
<1>17. Tiling'
  <2> SUFFICES ASSUME NEW i \in Live', NEW n \in rows'[i].root, NEW m \in 1 .. n
               PROVE  \/ m \in rows'[i].root
                      \/ \E j \in Live' : /\ rows'[j].seq < rows'[i].seq
                                          /\ m \in rows'[j].root
    BY DEF Tiling
  <2>1. CASE i \in Live
    <3>1. \/ m \in rows[i].root
          \/ \E j \in Live : rows[j].seq < rows[i].seq /\ m \in rows[j].root
      BY <1>11, <2>1 DEF SoloInv, Tiling
    <3>. QED  BY <1>10, <1>11, <2>1, <3>1
  <2>2. CASE i = k /\ m \notin r.root
    <3>1. n \in r.root /\ n \in DOMAIN leaves /\ leaves[m].seal # 0
      BY <1>3, <1>6, <2>2
    <3>2. m \in DOMAIN leaves
      BY <1>4, <3>1
    <3>3. leaves[m].seal \in Live /\ m \in rows[leaves[m].seal].root
      BY <1>16, <3>1, <3>2
    <3>4. PICK j \in Live : m \in rows[j].root
      BY <3>3
    <3>5. rows[j].seq < r.seq
      BY <1>2, <1>4, <1>11
    <3>. QED  BY <1>6, <1>10, <1>11, <2>2, <3>4, <3>5
  <2>. QED  BY <1>6, <1>10, <2>1, <2>2
<1>18. RowHoldsItsLeaves'
  <2>1. /\ DOMAIN leaves' = DOMAIN leaves
        /\ \A n \in DOMAIN leaves : leaves'[n].seal =
               IF n \in r.root THEN k ELSE leaves[n].seal
    <3>1. k \in 0 .. MaxRows
      BY <1>4, <1>5, BoundsAssumption
    <3>. QED  BY <1>2, <1>4, <1>5, <3>1, AssignedLeaves
  <2> SUFFICES ASSUME NEW i \in Live'
               PROVE  {n \in DOMAIN leaves' : leaves'[n].seal = i} = rows'[i].root
    BY DEF RowHoldsItsLeaves, Live
  <2>2. CASE i = k
    <3>1. \A n \in DOMAIN leaves : leaves[n].seal # k
      BY <1>4, <1>5 DEF IInv, LeavesInv
    <3>. QED  BY <1>3, <1>6, <2>1, <2>2, <3>1
  <2>3. CASE i \in Live
    <3>1. {n \in DOMAIN leaves : leaves[n].seal = i} = rows[i].root
      BY <2>3 DEF SoloInv, RowHoldsItsLeaves, Live
    <3>2. i # 0 /\ i # k
      BY <1>4, <1>11, <2>3
    <3>. QED  BY <1>3, <1>11, <2>1, <2>3, <3>1, <3>2
  <2>. QED  BY <1>10, <2>2, <2>3
<1>19. WorkerInv'
  <2>1. \A q \in Procs : tx'[q] = Idle
    BY Alone DEF IInv, TypeOK
  <2>. QED  BY <2>1 DEF WorkerInv, HoldsAlone, Idle, Batching, Submitting
<1>. QED  BY <1>8, <1>12, <1>13, <1>14, <1>15, <1>17, <1>18, <1>19 DEF SoloInv

\* The whole of create_seal().
LEMMA SoloCreate ==
    ASSUME Solo, IInv, SoloInv, NEW p \in Procs, Create(p)
    PROVE  SoloInv' /\ GivesUpUnsealed
<1>1. CASE create_seal(p) \/ read_unsealed(p) \/ read_previous(p)
  <2>1. rows' = rows
    BY <1>1 DEF create_seal, read_unsealed, read_previous, db
  <2>. QED  BY <1>1, <2>1, SoloReads DEF GivesUpUnsealed, IsLive
<1>2. CASE insert_seal(p)
  <2>1. /\ tx[p].pc = "insert" /\ RowsTaken < MaxRows /\ p \notin Requests
        /\ UNCHANGED <<ledger, net, enabled>>
    BY <1>2 DEF insert_seal, Solo
  <2>2. Len(rows) < MaxRows
    BY <2>1, Alone
  <2>3. CASE tx' = [tx EXCEPT ![p] = Idle] /\ UNCHANGED <<leaves, rows>>
    BY <2>1, <2>3, SoloRollBack DEF GivesUpUnsealed, IsLive
  <2>4. CASE /\ rows' = Append(rows, NewRow(p))
             /\ leaves' = Assigned(tx[p].batch, Len(rows) + 1)
             /\ tx' = [tx EXCEPT ![p] = Idle]
    <3>1. \A i \in DOMAIN rows : rows'[i] = rows[i]
      <4>1. NewRow(p) \in Row
        BY <2>1, <2>2, NewRowIsNext
      <4>. QED  BY <2>4, <4>1, SoloTypes, AppendProperties
    <3>. QED  BY <2>1, <2>2, <2>4, <3>1, SoloAppend DEF GivesUpUnsealed, IsLive
  <2>. QED  BY <1>2, <2>1, <2>3, <2>4 DEF insert_seal
<1>. QED  BY <1>1, <1>2 DEF Create

----------------------------------------------------------------------------
(* The theorems.                                                           *)

\* Every step keeps the invariant, and gives up only what did not land.
LEMMA SoloNext ==
    ASSUME Solo, IInv, SoloInv, [Next]_vars
    PROVE  SoloInv' /\ GivesUpUnsealed
<1>1. rows' = rows => GivesUpUnsealed
  BY DEF GivesUpUnsealed, IsLive
<1>2. CASE UNCHANGED vars
  BY <1>1, <1>2, SoloQuiet DEF vars, ledger
<1>3. CASE record_leaf
  BY <1>1, <1>3, SoloRecord DEF record_leaf
<1>4. CASE disable \/ enable
  BY <1>4 DEF disable, enable, Solo, SoloInv
<1>5. CASE \E p \in Procs : Create(p)
  BY <1>5, SoloCreate
<1>6. CASE \E p \in Procs : crash(p)
  BY <1>1, <1>6, SoloRollBack DEF crash, db
<1>7. CASE \E p \in Workers : drain(p)
  BY <1>1, <1>7, SoloDrain DEF drain, db, Procs
<1>8. CASE \E p \in Workers : reconcile(p)
  BY <1>8, SoloReconcile DEF Procs
<1>9. CASE \E p \in Workers \cup Requests : Submit(p) \/ Misfortune(p)
  <2>1. PICK p \in Procs : Submit(p) \/ Misfortune(p)
    BY <1>9 DEF Procs
  <2>2. CASE submit_our_turn(p) \/ mark_submitted(p)
    BY <1>1, <2>2, SoloMark DEF submit_our_turn, mark_submitted, db
  <2>3. CASE send_transaction(p)
    BY <1>1, <2>3, SoloSend DEF send_transaction, db
  <2>. QED  BY <2>1, <2>2, <2>3, SoloBeforeSend, SoloAfterSend
            DEF Submit, Misfortune
<1>10. CASE Land
  BY <1>1, <1>10, SoloLand DEF Land, db
<1>11. CASE LandRefused
  BY <1>1, <1>11, SoloQuiet DEF LandRefused, db
<1>12. CASE Expire
  BY <1>1, <1>12, SoloQuiet DEF Expire, db
<1>13. CASE DayTurns
  BY <1>1, <1>13, SoloQuiet DEF DayTurns, db
<1>. QED  BY <1>2, <1>3, <1>4, <1>5, <1>6, <1>7, <1>8, <1>9, <1>10, <1>11,
             <1>12, <1>13
          DEF Next

\* Every seal on the chain is a live row's.
LEMMA SealsAreRows ==
    ASSUME IInv, SoloInv, NEW s \in seals[Org]
    PROVE  \E i \in Live : rows[i].seq = s.seq /\ rows[i].root = s.root
<1>1. s.seq \in 1 .. head
  BY SoloTypes DEF SoloInv, ChainMarks
<1>2. PICK i \in Live : rows[i].seq = s.seq
  BY <1>1 DEF SoloInv, Mirror
<1>3. OnChain(rows[i])
  BY <1>1, <1>2 DEF SoloInv, Mirror
<1>4. PICK t \in seals[Org] : t.seq = rows[i].seq /\ t.root = rows[i].root
  BY <1>3 DEF OnChain, PL!verify
<1>5. t = s
  BY <1>2, <1>4 DEF SoloInv, ChainMarks
<1>. QED  BY <1>2, <1>4, <1>5

\* The rows' order is the chain's.
LEMMA ChainTiles == ASSUME IInv, SoloInv PROVE SealsTileBacklog
<1> SUFFICES ASSUME NEW t \in seals[Org], NEW n \in t.root, NEW m \in 1 .. n,
                    m \notin t.root
             PROVE  \E s \in seals[Org] : s.seq < t.seq /\ m \in s.root
  BY DEF SealsTileBacklog
<1>1. PICK i \in Live : rows[i].seq = t.seq /\ rows[i].root = t.root
  BY SealsAreRows
<1>2. PICK j \in Live : rows[j].seq < rows[i].seq /\ m \in rows[j].root
  BY <1>1 DEF SoloInv, Tiling
<1>3. rows[j].seq <= head
  BY <1>1, <1>2, SoloTypes
<1>4. PICK s \in seals[Org] : s.seq = rows[j].seq /\ s.root = rows[j].root
  BY <1>3 DEF SoloInv, Mirror, OnChain, PL!verify
<1>. QED  BY <1>1, <1>2, <1>4

\* The invariant holds throughout, for one worker.
THEOREM SoloInvariance == ASSUME Solo PROVE Spec => [](IInv /\ SoloInv)
<1>1. Init => IInv /\ SoloInv
  BY InitInv, SoloInit
<1>2. IInv /\ SoloInv /\ [Next]_vars => (IInv /\ SoloInv)'
  BY NextInv, SoloNext
<1>. QED  BY <1>1, <1>2, PTL DEF Spec

\* create_seal(), assign_to_seal(), _fail(): the chain covers the backlog in
\* leaf_seq order without skipping a leaf, and every live row holds exactly the
\* leaves its root was computed over.
THEOREM LeavesInOrder == ASSUME Solo PROVE Spec => []LeavesSealedInOrder
<1>1. IInv /\ SoloInv => LeavesSealedInOrder
  BY ChainTiles DEF LeavesSealedInOrder, IInv, SoloInv
<1>. QED  BY <1>1, SoloInvariance, PTL

\* submit() and reconcile(): whatever is lost, late or restarted, a seal the
\* contract accepted is a live row of the database.
THEOREM ChainIsKnown == ASSUME Solo PROVE Spec => []NoOrphan
<1>1. IInv /\ SoloInv => NoOrphan
  BY SealsAreRows DEF NoOrphan, Live
<1>. QED  BY <1>1, SoloInvariance, PTL

\* covered_window(), latest_confirmed() and highest_live_seq(): the contract
\* accepts the row whose turn has come.
THEOREM TurnIsAccepted == ASSUME Solo PROVE Spec => []OurTurnIsAccepted
<1>1. IInv /\ SoloInv => OurTurnIsAccepted
  BY DEF SoloInv, OpenRow, OurTurnIsAccepted, head
<1>. QED  BY <1>1, SoloInvariance, PTL

\* _fail(): a row is given up only if the contract does not hold its seal.
THEOREM GivenUpNeverLanded == ASSUME Solo PROVE Spec => FailedNeverLanded
<1>1. IInv /\ SoloInv /\ [Next]_vars => [GivesUpUnsealed]_vars
  BY SoloNext
<1>. QED  BY <1>1, SoloInvariance, PTL
          DEF Spec, FailedNeverLanded, GivesUpUnsealed
=============================================================================
