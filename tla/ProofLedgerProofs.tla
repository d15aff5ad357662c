------------------------- MODULE ProofLedgerProofs -------------------------
(***************************************************************************)
(* Proofs about the ProofLedger contract, for every set of namespaces,     *)
(* accounts and roots and every bound.                                     *)
(*                                                                         *)
(* The chain properties hold of every reachable state because the book's   *)
(* summary (head, root, covered_to, sealed_at) is an exact digest of the   *)
(* chain: seal() compares its arguments with that digest only, so the      *)
(* induction needs HeadAgrees and Bounded beside what is claimed.          *)
(*                                                                         *)
(* The reads follow from the chain: with no number missing a page is an    *)
(* interval, and the running total is a function that seal() extends.      *)
(*                                                                         *)
(* The second part is about the days on which the worker extends the       *)
(* chain, the last about what it seals: the posting engine's entries and   *)
(* the leaves recorded with them.                                          *)
(***************************************************************************)
EXTENDS ProofLedger, DailyWindow, Posting, FiniteSetTheorems, SequenceTheorems,
        WellFoundedInduction, TLAPS

\* The book's marks bound every stored seal, not only the newest.
Bounded ==
    \A o \in Orgs : \A s \in seals[o] :
        /\ s.to <= books[o].covered_to
        /\ s.at <= books[o].sealed_at

\* The inductive invariant.
IInv == /\ TypeOK
        /\ NoGaps
        /\ Linked
        /\ HeadAgrees
        /\ WellFormed
        /\ GenesisOnlyFirst
        /\ WindowsTile
        /\ Bounded

\* What SealError = "ok" means of an accepted call.
LEMMA AcceptedCall ==
    ASSUME NEW o \in Orgs, NEW c \in Call, NEW auth \in SUBSET Addresses,
           SealError(o, c, auth) = "ok"
    PROVE  /\ is_registered(o)
           /\ books[o].admin \in auth
           /\ c.root # GENESIS
           /\ c.count # 0
           /\ ~ (c.to < c.from)
           /\ c.seq = books[o].head + 1
           /\ c.prev = books[o].root
           /\ ~ (books[o].head > 0 /\ c.from < books[o].covered_to)
  BY DEF SealError, Unauthorised, RootIsSentinel, SequenceOutOfOrder,
         ChainBroken, WindowReachesBack

\* A book extended by a seal is a book whose marks are the seal's.
LEMMA ExtendedBook ==
    ASSUME NEW b \in Book, NEW e \in Seal
    PROVE  /\ Extended(b, e) \in Book
           /\ Extended(b, e).head = e.seq
           /\ Extended(b, e).root = e.root
           /\ Extended(b, e).covered_to = e.to
           /\ Extended(b, e).sealed_at = e.at
  BY DEF Extended, ExtendedBy, Book, Seal

\* The initial state satisfies the invariant.
LEMMA InitInv == Init => IInv
  BY BoundsAssumption
  DEF Init, IInv, TypeOK, NoGaps, Linked, HeadAgrees, WellFormed,
      GenesisOnlyFirst, WindowsTile, Bounded, is_registered

\* register() keeps the invariant: an unregistered namespace holds no seals.
LEMMA RegisterInv ==
    ASSUME IInv, NEW o \in Orgs, NEW a \in Addresses, register(o, a)
    PROVE  IInv'
<1> DEFINE b == [admin |-> a, head |-> 0, root |-> GENESIS, sealed_at |-> 0,
                 covered_to |-> 0, entries |-> 0]
<1>1. b \in Book
  BY GenesisAssumption DEF Book
<1>2. b # NoBook
  BY <1>1, NoBookAssumption
<1>3. /\ books' = [books EXCEPT ![o] = b]
      /\ seals' = seals /\ now' = now
      /\ seals[o] = {}
  BY DEF register, IInv, NoGaps
<1> HIDE DEF b
<1>4. /\ b.head = 0 /\ b.root = GENESIS /\ b.covered_to = 0
      /\ b.sealed_at = 0
  BY DEF b
<1>5. TypeOK'
  BY <1>1, <1>3 DEF IInv, TypeOK
<1>6. NoGaps'
  <2> SUFFICES ASSUME NEW p \in Orgs
               PROVE  IF books'[p] # NoBook
                      THEN /\ \A s \in seals'[p] : s.seq \in 1 .. books'[p].head
                           /\ \A n \in 1 .. books'[p].head :
                                  \E s \in seals'[p] : s.seq = n
                           /\ \A s, t \in seals'[p] : s.seq = t.seq => s = t
                      ELSE seals'[p] = {}
    BY DEF NoGaps, is_registered
  <2>1. CASE p = o
    BY <2>1, <1>2, <1>3, <1>4 DEF IInv, TypeOK
  <2>2. CASE p # o
    <3>1. books'[p] = books[p] /\ seals'[p] = seals[p]
      BY <2>2, <1>3 DEF IInv, TypeOK
    <3>. QED  BY <3>1 DEF IInv, NoGaps, is_registered
  <2>. QED  BY <2>1, <2>2
<1>7. Linked' /\ WellFormed' /\ GenesisOnlyFirst' /\ WindowsTile'
  BY <1>3 DEF IInv, Linked, WellFormed, GenesisOnlyFirst, WindowsTile
<1>8. HeadAgrees' /\ Bounded'
  BY <1>3, <1>4 DEF IInv, TypeOK, HeadAgrees, Bounded, is_registered
<1>. QED  BY <1>5, <1>6, <1>7, <1>8 DEF IInv

\* seal() keeps the invariant: the call was matched against the book's digest,
\* so the new entry takes a free key and extends the chain at its end.
LEMMA SealInv ==
    ASSUME IInv, NEW o \in Orgs, NEW c \in Call, NEW auth \in SUBSET Addresses,
           seal(o, c, auth)
    PROVE  IInv'
<1> DEFINE e == Entry(c)
<1> DEFINE b == books[o]
<1> DEFINE x == Extended(b, e)
<1>1. /\ b \in Book /\ b # NoBook /\ seals[o] \subseteq Seal /\ now \in Nat
      /\ now \in 0 .. MaxTime
  BY AcceptedCall, BoundsAssumption DEF seal, is_registered, IInv, TypeOK
<1>2. /\ e \in Seal
      /\ e.seq = b.head + 1 /\ e.root # GENESIS /\ e.prev = b.root
      /\ e.count > 0 /\ e.from <= e.to /\ e.at = now
      /\ b.head > 0 => b.covered_to <= e.from
  BY <1>1, AcceptedCall, BoundsAssumption
  DEF seal, Entry, EntryOf, Seal, Call, Period, Book
<1>3. /\ x \in Book
      /\ x.head = e.seq /\ x.root = e.root /\ x.covered_to = e.to
      /\ x.sealed_at = e.at
  BY <1>1, <1>2, ExtendedBook
<1>4. x # NoBook
  BY <1>3, NoBookAssumption
<1>5. /\ \A s \in seals[o] : s.seq \in 1 .. b.head
      /\ \A n \in 1 .. b.head : \E s \in seals[o] : s.seq = n
      /\ \A s, t \in seals[o] : s.seq = t.seq => s = t
  BY <1>1 DEF IInv, NoGaps, is_registered
<1>6. /\ books' = [books EXCEPT ![o] = x]
      /\ seals' = [seals EXCEPT ![o] = Stored(o, e)]
      /\ now' = now
  BY DEF seal
<1>7. Stored(o, e) = seals[o] \cup {e}
  <2>1. \A s \in seals[o] : s.seq # e.seq
    BY <1>1, <1>2, <1>5 DEF Book, Seal
  <2>. QED  BY <2>1 DEF Stored
<1>8. /\ books'[o] = x /\ seals'[o] = seals[o] \cup {e}
      /\ \A p \in Orgs : p # o => books'[p] = books[p] /\ seals'[p] = seals[p]
  BY <1>6, <1>7 DEF IInv, TypeOK
<1>9. /\ \A s \in seals[o] : s.to <= b.covered_to /\ s.at <= b.sealed_at
      /\ \A s \in seals[o] : s.at <= now
      /\ \A s \in seals[o] : s.seq = b.head => b.root = s.root
      /\ b.head = 0 => b.root = GENESIS
  BY <1>1 DEF IInv, Bounded, WellFormed, HeadAgrees, is_registered
<1>10. \A s \in seals[o] : s.to <= e.from /\ s.at <= e.at /\ s.seq < e.seq
  BY <1>1, <1>2, <1>5, <1>9 DEF Book, Seal
<1>11. b.root = GENESIS => b.head = 0
  <2> SUFFICES ASSUME b.head # 0
               PROVE  b.root # GENESIS
    OBVIOUS
  <2>1. PICK s \in seals[o] : s.seq = b.head
    BY <1>1, <1>5 DEF Book
  <2>. QED  BY <2>1, <1>9 DEF IInv, WellFormed
<1> HIDE DEF e, b, x
<1>12. TypeOK'
  BY <1>1, <1>2, <1>3, <1>6, <1>7 DEF IInv, TypeOK
<1>13. NoGaps'
  <2> SUFFICES ASSUME NEW p \in Orgs
               PROVE  IF books'[p] # NoBook
                      THEN /\ \A s \in seals'[p] : s.seq \in 1 .. books'[p].head
                           /\ \A n \in 1 .. books'[p].head :
                                  \E s \in seals'[p] : s.seq = n
                           /\ \A s, t \in seals'[p] : s.seq = t.seq => s = t
                      ELSE seals'[p] = {}
    BY DEF NoGaps, is_registered
  <2>1. CASE p = o
    <3>1. \A s \in seals'[o] : s.seq \in 1 .. x.head
      BY <1>1, <1>2, <1>3, <1>5, <1>8 DEF Book, Seal
    <3>2. \A n \in 1 .. x.head : \E s \in seals'[o] : s.seq = n
      <4> SUFFICES ASSUME NEW n \in 1 .. x.head
                   PROVE  \E s \in seals'[o] : s.seq = n
        OBVIOUS
      <4>1. n \in 1 .. b.head \/ n = e.seq
        BY <1>1, <1>2, <1>3 DEF Book
      <4>. QED  BY <4>1, <1>5, <1>8
    <3>3. \A s, t \in seals'[o] : s.seq = t.seq => s = t
      BY <1>1, <1>2, <1>5, <1>8, <1>10 DEF Seal
    <3>. QED  BY <2>1, <1>4, <1>8, <3>1, <3>2, <3>3
  <2>2. CASE p # o
    BY <2>2, <1>8 DEF IInv, NoGaps, is_registered
  <2>. QED  BY <2>1, <2>2
<1>14. Linked'
  <2> SUFFICES ASSUME NEW p \in Orgs, NEW s \in seals'[p], NEW t \in seals'[p],
                      t.seq = s.seq + 1
               PROVE  t.prev = s.root /\ s.to <= t.from /\ s.at <= t.at
    BY DEF Linked
  <2>1. CASE p # o \/ (s # e /\ t # e)
    BY <2>1, <1>8 DEF IInv, Linked
  <2>2. CASE p = o /\ t = e /\ s # e
    <3>1. s \in seals[o] /\ s.seq = b.head
      BY <2>2, <1>1, <1>2, <1>8 DEF Book, Seal
    <3>. QED  BY <2>2, <3>1, <1>2, <1>9, <1>10
  <2>3. CASE p = o /\ s = e
    <3>1. t \in seals[o] \/ t = e
      BY <2>3, <1>8
    <3>. QED  BY <2>3, <3>1, <1>1, <1>2, <1>10 DEF Seal
  <2>. QED  BY <2>1, <2>2, <2>3
<1>15. HeadAgrees'
  <2> SUFFICES ASSUME NEW p \in Orgs, books'[p] # NoBook
               PROVE  /\ books'[p].head = 0 =>
                             /\ books'[p].root = GENESIS
                             /\ books'[p].covered_to = 0
                             /\ books'[p].sealed_at = 0
                      /\ \A s \in seals'[p] : s.seq = books'[p].head =>
                             /\ books'[p].root = s.root
                             /\ books'[p].covered_to = s.to
                             /\ books'[p].sealed_at = s.at
    BY DEF HeadAgrees, is_registered
  <2>1. CASE p = o
    <3>1. x.head # 0
      BY <1>1, <1>2, <1>3 DEF Book
    <3>2. \A s \in seals'[o] : s.seq = x.head => s = e
      BY <1>1, <1>2, <1>3, <1>8, <1>10 DEF Seal
    <3>. QED  BY <2>1, <3>1, <3>2, <1>3, <1>8
  <2>2. CASE p # o
    BY <2>2, <1>8 DEF IInv, HeadAgrees, is_registered
  <2>. QED  BY <2>1, <2>2
<1>16. WellFormed'
  <2> SUFFICES ASSUME NEW p \in Orgs, NEW s \in seals'[p]
               PROVE  /\ s.root # GENESIS /\ s.count > 0
                      /\ s.from <= s.to /\ s.at <= now
    BY <1>6 DEF WellFormed
  <2>1. CASE s \in seals[p]
    BY <2>1 DEF IInv, WellFormed
  <2>2. CASE s \notin seals[p]
    <3>1. s = e
      BY <2>2, <1>8
    <3>. QED  BY <3>1, <1>1, <1>2
  <2>. QED  BY <2>1, <2>2
<1>17. GenesisOnlyFirst'
  <2> SUFFICES ASSUME NEW p \in Orgs, NEW s \in seals'[p]
               PROVE  s.prev = GENESIS <=> s.seq = 1
    BY DEF GenesisOnlyFirst
  <2>1. CASE p # o \/ s # e
    BY <2>1, <1>8 DEF IInv, GenesisOnlyFirst
  <2>2. CASE p = o /\ s = e
    BY <2>2, <1>1, <1>2, <1>9, <1>11 DEF Book
  <2>. QED  BY <2>1, <2>2
<1>18. WindowsTile'
  <2> SUFFICES ASSUME NEW p \in Orgs, NEW s \in seals'[p], NEW t \in seals'[p],
                      s.seq < t.seq
               PROVE  s.to <= t.from /\ s.at <= t.at
    BY DEF WindowsTile
  <2>1. CASE p # o \/ (s # e /\ t # e)
    BY <2>1, <1>8 DEF IInv, WindowsTile
  <2>2. CASE p = o /\ t = e /\ s # e
    BY <2>2, <1>8, <1>10
  <2>3. CASE p = o /\ s = e
    <3>1. t \in seals[o] \/ t = e
      BY <2>3, <1>8
    <3>. QED  BY <2>3, <3>1, <1>1, <1>2, <1>10 DEF Seal
  <2>. QED  BY <2>1, <2>2, <2>3
<1>19. Bounded'
  <2> SUFFICES ASSUME NEW p \in Orgs, NEW s \in seals'[p]
               PROVE  /\ s.to <= books'[p].covered_to
                      /\ s.at <= books'[p].sealed_at
    BY DEF Bounded
  <2>1. CASE p # o
    BY <2>1, <1>8 DEF IInv, Bounded
  <2>2. CASE p = o /\ s = e
    BY <2>2, <1>2, <1>3, <1>8 DEF Seal
  <2>3. CASE p = o /\ s # e
    <3>1. s \in seals[o] /\ s \in Seal
      BY <2>3, <1>1, <1>8
    <3>2. s.to <= e.from /\ e.from <= e.to /\ s.at <= e.at
      BY <3>1, <1>2, <1>10
    <3>. QED  BY <2>3, <3>1, <3>2, <1>2, <1>3, <1>8 DEF Seal
  <2>. QED  BY <2>1, <2>2, <2>3
<1>. QED
  BY <1>12, <1>13, <1>14, <1>15, <1>16, <1>17, <1>18, <1>19 DEF IInv

\* rotate() keeps the invariant: only the admin field changes.
LEMMA RotateInv ==
    ASSUME IInv, NEW o \in Orgs, NEW a \in Addresses,
           NEW auth \in SUBSET Addresses, rotate(o, a, auth)
    PROVE  IInv'
<1> DEFINE x == [books[o] EXCEPT !.admin = a]
<1>1. books[o] \in Book /\ books[o] # NoBook
  BY DEF rotate, is_registered, IInv, TypeOK
<1>2. /\ x \in Book
      /\ x.head = books[o].head /\ x.root = books[o].root
      /\ x.covered_to = books[o].covered_to
      /\ x.sealed_at = books[o].sealed_at
  BY <1>1 DEF Book
<1>3. x # NoBook
  BY <1>2, NoBookAssumption
<1>4. /\ books' = [books EXCEPT ![o] = x] /\ seals' = seals /\ now' = now
  BY DEF rotate
<1> HIDE DEF x
<1>5. /\ books'[o] = x
      /\ \A p \in Orgs : p # o => books'[p] = books[p]
  BY <1>4 DEF IInv, TypeOK
<1>6. TypeOK'
  BY <1>2, <1>4 DEF IInv, TypeOK
<1>7. \A p \in Orgs : /\ books'[p] # NoBook <=> books[p] # NoBook
                      /\ books[p] # NoBook =>
                             /\ books'[p].head = books[p].head
                             /\ books'[p].root = books[p].root
                             /\ books'[p].covered_to = books[p].covered_to
                             /\ books'[p].sealed_at = books[p].sealed_at
  BY <1>1, <1>2, <1>3, <1>5
<1>8. NoGaps'
  BY <1>4, <1>7 DEF IInv, NoGaps, is_registered
<1>9. Linked' /\ WellFormed' /\ GenesisOnlyFirst' /\ WindowsTile'
  BY <1>4 DEF IInv, Linked, WellFormed, GenesisOnlyFirst, WindowsTile
<1>10. HeadAgrees'
  BY <1>4, <1>7 DEF IInv, HeadAgrees, is_registered
<1>11. Bounded'
  BY <1>4, <1>7 DEF IInv, Bounded, NoGaps, is_registered
<1>. QED  BY <1>6, <1>8, <1>9, <1>10, <1>11 DEF IInv

\* A later ledger keeps the invariant: timestamps only fall further behind.
LEMMA LedgerCloseInv ==
    ASSUME IInv, LedgerClose
    PROVE  IInv'
<1>1. /\ books' = books /\ seals' = seals
      /\ now' = now + 1 /\ now' \in 0 .. MaxTime
  BY BoundsAssumption DEF LedgerClose, IInv, TypeOK
<1>2. TypeOK'
  BY <1>1 DEF IInv, TypeOK
<1>3. WellFormed'
  <2> SUFFICES ASSUME NEW o \in Orgs, NEW s \in seals[o]
               PROVE  s.at <= now + 1
    BY <1>1 DEF IInv, WellFormed
  <2>1. s \in Seal /\ now \in Nat
    BY BoundsAssumption DEF IInv, TypeOK
  <2>2. s.at <= now
    BY DEF IInv, WellFormed
  <2>. QED  BY <2>1, <2>2 DEF Seal
<1>4. /\ NoGaps' /\ Linked' /\ HeadAgrees' /\ GenesisOnlyFirst'
      /\ WindowsTile' /\ Bounded'
  BY <1>1 DEF IInv, NoGaps, Linked, HeadAgrees, GenesisOnlyFirst,
              WindowsTile, Bounded, is_registered
<1>. QED  BY <1>2, <1>3, <1>4 DEF IInv

\* Every step of the contract keeps the invariant.
LEMMA NextInv == IInv /\ [Next]_vars => IInv'
<1> SUFFICES ASSUME IInv, [Next]_vars
             PROVE  IInv'
  OBVIOUS
<1>1. CASE UNCHANGED vars
  BY <1>1 DEF vars, IInv, TypeOK, NoGaps, Linked, HeadAgrees, WellFormed,
              GenesisOnlyFirst, WindowsTile, Bounded, is_registered
<1>2. CASE \E o \in Orgs, a \in Addresses : register(o, a)
  BY <1>2, RegisterInv
<1>3. CASE \E o \in Orgs, c \in Call, auth \in SUBSET Addresses :
               seal(o, c, auth)
  BY <1>3, SealInv
<1>4. CASE \E o \in Orgs, a \in Addresses, auth \in SUBSET Addresses :
               rotate(o, a, auth)
  BY <1>4, RotateInv
<1>5. CASE LedgerClose
  BY <1>5, LedgerCloseInv
<1>. QED  BY <1>1, <1>2, <1>3, <1>4, <1>5 DEF Next

\* The invariant holds in every reachable state of the contract.
THEOREM Invariance == Spec => []IInv
  BY InitInv, NextInv, PTL DEF Spec

\* Type correctness of the contract's storage.
THEOREM TypeCorrect == Spec => []TypeOK
<1>1. IInv => TypeOK
  BY DEF IInv
<1>. QED  BY Invariance, <1>1, PTL

\* seal() keeps every book's chain whole: numbered 1..head, each seal naming
\* its predecessor's root, and described by the book.
THEOREM ChainIsContinuous == Spec => []ChainContinuous
<1>1. IInv => ChainContinuous
  BY DEF IInv, ChainContinuous
<1>. QED  BY Invariance, <1>1, PTL

\* seal()'s sentinel check: GENESIS is the predecessor of seal 1 and of no
\* other.
THEOREM GenesisIsFirst == Spec => []GenesisOnlyFirst
<1>1. IInv => GenesisOnlyFirst
  BY DEF IInv
<1>. QED  BY Invariance, <1>1, PTL

\* seal()'s period checks: over any distance in a chain windows and timestamps
\* follow the sequence numbers.
THEOREM WindowsAreTiled == Spec => []WindowsTile
<1>1. IInv => WindowsTile
  BY DEF IInv
<1>. QED  BY Invariance, <1>1, PTL

\* seal()'s sequence check: an accepted call is refused ever after, so a
\* caller that does not know the outcome may submit again.
THEOREM RetryIsRefused == Spec => []RetryRefused
<1>1. IInv => RetryRefused
  <2> SUFFICES ASSUME IInv, NEW o \in Orgs, is_registered(o), NEW s \in seals[o]
               PROVE  SealError(o, [seq |-> s.seq, root |-> s.root,
                                    prev |-> s.prev, count |-> s.count,
                                    from |-> s.from, to |-> s.to],
                                {books[o].admin}) = "sequence_out_of_order"
    BY DEF RetryRefused
  <2>1. s \in Seal /\ books[o] \in Book
    BY DEF IInv, TypeOK, is_registered
  <2>2. s.seq \in 1 .. books[o].head
    BY DEF IInv, NoGaps
  <2>3. /\ s.root # GENESIS /\ s.count # 0 /\ ~ (s.to < s.from)
        /\ s.seq # books[o].head + 1
    BY <2>1, <2>2 DEF IInv, WellFormed, Seal, Book
  <2>. QED  BY <2>3 DEF SealError, Unauthorised, RootIsSentinel, SequenceOutOfOrder
<1>. QED  BY Invariance, <1>1, PTL

\* Every step is append-only: no accepted seal is ever rewritten or dropped.
THEOREM IsAppendOnly == Spec => AppendOnly
<1>1. ASSUME IInv, [Next]_vars, NEW o \in Orgs
      PROVE  /\ seals[o] \subseteq seals'[o]
             /\ is_registered(o) => /\ books'[o] # NoBook
                                    /\ books'[o].head \in {books[o].head,
                                                           books[o].head + 1}
  <2>1. CASE UNCHANGED vars
    BY <2>1 DEF vars, is_registered
  <2>2. CASE \E p \in Orgs, a \in Addresses : register(p, a)
    BY <1>1, <2>2 DEF register, is_registered, IInv, TypeOK
  <2>3. ASSUME NEW p \in Orgs, NEW c \in Call, NEW auth \in SUBSET Addresses,
               seal(p, c, auth)
        PROVE  /\ seals[o] \subseteq seals'[o]
               /\ is_registered(o) => /\ books'[o] # NoBook
                                      /\ books'[o].head \in {books[o].head,
                                                             books[o].head + 1}
    <3>1. CASE o # p
      BY <1>1, <2>3, <3>1 DEF seal, is_registered, IInv, TypeOK
    <3>2. CASE o = p
      <4>1. /\ is_registered(o) /\ c.seq = books[o].head + 1
            /\ books[o] \in Book /\ seals[o] \subseteq Seal
        BY <1>1, <2>3, <3>2, AcceptedCall
        DEF seal, is_registered, IInv, TypeOK
      <4>2. \A s \in seals[o] : s.seq # c.seq
        BY <1>1, <4>1 DEF IInv, NoGaps, Seal, Book
      <4>3. seals[o] \subseteq seals'[o]
        BY <1>1, <2>3, <3>2, <4>2 DEF seal, Stored, Entry, EntryOf, IInv, TypeOK
      <4>4. books'[o] = Extended(books[o], Entry(c))
        BY <1>1, <2>3, <3>2 DEF seal, IInv, TypeOK
      <4>5. books'[o].head = books[o].head + 1
        BY <4>1, <4>4 DEF Extended, ExtendedBy, Entry, EntryOf, Book
      <4>6. Entry(c) \in Seal
        BY <1>1, BoundsAssumption
        DEF Entry, EntryOf, Seal, Call, Period, IInv, TypeOK
      <4>7. books'[o] \in Book
        BY <4>1, <4>4, <4>6, ExtendedBook
      <4>. QED  BY <4>3, <4>5, <4>7, NoBookAssumption
    <3>. QED  BY <3>1, <3>2
  <2>4. ASSUME NEW p \in Orgs, NEW a \in Addresses,
               NEW auth \in SUBSET Addresses, rotate(p, a, auth)
        PROVE  /\ seals[o] \subseteq seals'[o]
               /\ is_registered(o) => /\ books'[o] # NoBook
                                      /\ books'[o].head \in {books[o].head,
                                                             books[o].head + 1}
    <3>1. CASE o # p
      BY <1>1, <2>4, <3>1 DEF rotate, is_registered, IInv, TypeOK
    <3>2. CASE o = p
      <4>1. books[o] \in Book
        BY <1>1, <2>4, <3>2 DEF rotate, is_registered, IInv, TypeOK
      <4>2. books'[o] = [books[o] EXCEPT !.admin = a] /\ seals' = seals
        BY <1>1, <2>4, <3>2 DEF rotate, IInv, TypeOK
      <4>3. books'[o] \in Book /\ books'[o].head = books[o].head
        BY <4>1, <4>2 DEF Book
      <4>. QED  BY <4>2, <4>3, NoBookAssumption
    <3>. QED  BY <3>1, <3>2
  <2>5. CASE LedgerClose
    BY <2>5 DEF LedgerClose, is_registered
  <2>. QED  BY <1>1, <2>1, <2>2, <2>3, <2>4, <2>5 DEF Next
<1>2. IInv /\ [Next]_vars =>
        [\A o \in Orgs :
            /\ seals[o] \subseteq seals'[o]
            /\ is_registered(o) => /\ books'[o] # NoBook
                                   /\ books'[o].head \in {books[o].head,
                                                          books[o].head + 1}]_vars
  BY <1>1
<1>. QED  BY Invariance, <1>2, PTL DEF Spec, AppendOnly

----------------------------------------------------------------------------
(* The reads.                                                              *)

\* get() finds the seal of that number.
LEMMA GetIsSeal ==
    ASSUME IInv, NEW o \in Orgs, is_registered(o),
           NEW n \in 1 .. books[o].head
    PROVE  /\ get(o, n) \in seals[o] /\ get(o, n).seq = n
           /\ get(o, n) \in Seal
           /\ \A s \in seals[o] : s.seq = n => s = get(o, n)
<1>1. \E s \in seals[o] : s.seq = n
  BY DEF IInv, NoGaps
<1>2. get(o, n) \in seals[o] /\ get(o, n).seq = n
  BY <1>1 DEF get
<1>. QED  BY <1>2 DEF IInv, NoGaps, TypeOK

\* How many seals history() is asked for.
Limit(limit) == IF limit \in 1 .. MAX_PAGE THEN limit ELSE MAX_PAGE

\* history(): the k-th seal of a page that begins at `start` is the one k - 1
\* below it, since no number is missing.
LEMMA PageIsRun ==
    ASSUME IInv, NEW o \in Orgs, is_registered(o),
           NEW start \in 0 .. books[o].head, NEW limit \in Nat
    PROVE  \E len \in Nat :
               /\ len = IF Limit(limit) < start THEN Limit(limit) ELSE start
               /\ Page(o, start, limit) =
                      [k \in 1 .. len |-> get(o, start - k + 1)]
<1> DEFINE take == IF limit = 0 \/ limit > MAX_PAGE THEN MAX_PAGE ELSE limit
<1> DEFINE found == {n \in 1 .. start : \E s \in seals[o] : s.seq = n}
<1> DEFINE len == IF take < Cardinality(found) THEN take ELSE Cardinality(found)
<1> DEFINE nth(k) == CHOOSE n \in found :
                         Cardinality({m \in found : m >= n}) = k
<1>1. books[o].head \in Nat /\ start \in Nat
  BY DEF IInv, TypeOK, is_registered, Book
<1>2. take \in Nat /\ take = Limit(limit)
  BY DEF MAX_PAGE, Limit
<1>3. found = 1 .. start
  BY <1>1 DEF IInv, NoGaps
<1>4. Cardinality(found) = start
  <2>1. Cardinality(1 .. start) = IF 1 > start THEN 0 ELSE start - 1 + 1
    BY <1>1, FS_Interval
  <2> HIDE DEF found
  <2>. QED  BY <1>1, <1>3, <2>1
<1>5. len \in Nat /\ len <= start
      /\ len = IF Limit(limit) < start THEN Limit(limit) ELSE start
  BY <1>1, <1>2, <1>4
<1>6. ASSUME NEW k \in 1 .. len PROVE nth(k) = start - k + 1
  <2>1. k \in Nat /\ start - k + 1 \in 1 .. start
    BY <1>1, <1>5
  <2>2. ASSUME NEW n \in found
        PROVE  Cardinality({m \in found : m >= n}) = start - n + 1
    <3>1. n \in Nat /\ n >= 1 /\ n <= start
      BY <1>1, <1>3
    <3>2. {m \in found : m >= n} = n .. start
      BY <1>1, <1>3, <3>1
    <3>3. Cardinality(n .. start) = IF n > start THEN 0 ELSE start - n + 1
      BY <1>1, <3>1, FS_Interval
    <3>4. Cardinality(n .. start) = start - n + 1
      BY <1>1, <3>1, <3>3
    <3>. QED  BY <3>2, <3>4
  <2>3. \A n \in found : Cardinality({m \in found : m >= n}) = k
                             <=> n = start - k + 1
    BY <1>1, <1>3, <2>1, <2>2
  <2>4. start - k + 1 \in found
    BY <1>3, <2>1
  <2> HIDE DEF found
  <2>. QED  BY <2>3, <2>4
<1>7. Page(o, start, limit) = [k \in 1 .. len |-> get(o, nth(k))]
  BY DEF Page
<1> HIDE DEF len, nth
<1>8. Page(o, start, limit) = [k \in 1 .. len |-> get(o, start - k + 1)]
  BY <1>6, <1>7
<1>. QED  BY <1>5, <1>8

\* Pages are runs of the chain.
LEMMA PagesAreRight == ASSUME IInv PROVE HistoryIsWindow
<1> SUFFICES ASSUME NEW o \in Orgs, is_registered(o),
                    NEW before \in 0 .. MaxSeq + 1, NEW limit \in 0 .. MaxSeq + 1
             PROVE  LET h == history(o, before, limit)
                        n == Cardinality(DOMAIN h)
                    IN  /\ n > 0 => h[1].seq = IF before \in 1 .. books[o].head
                                               THEN before ELSE books[o].head
                        /\ \A k \in 1 .. n - 1 : h[k].prev = h[k + 1].root
                        /\ n # Limit(limit) =>
                               \/ n = 0 /\ books[o].head = 0
                               \/ n > 0 /\ h[n].seq = 1
  BY DEF HistoryIsWindow, Limit
<1>1. books[o].head \in Nat /\ before \in Nat /\ limit \in Nat
  BY BoundsAssumption DEF IInv, TypeOK, is_registered, Book
<1>2. PICK start : start = IF FromHead(o, before) THEN books[o].head ELSE before
  OBVIOUS
<1>3. /\ start \in 0 .. books[o].head
      /\ start = IF before \in 1 .. books[o].head THEN before ELSE books[o].head
      /\ start = 0 => books[o].head = 0
  BY <1>1, <1>2 DEF FromHead
<1>4. history(o, before, limit) = Page(o, start, limit)
  BY <1>2 DEF history
<1>5. PICK len \in Nat :
          /\ len = IF Limit(limit) < start THEN Limit(limit) ELSE start
          /\ Page(o, start, limit) = [k \in 1 .. len |-> get(o, start - k + 1)]
  BY <1>1, <1>3, PageIsRun
<1>6. PICK h : h = history(o, before, limit)
  OBVIOUS
<1>7. /\ DOMAIN h = 1 .. len
      /\ \A k \in 1 .. len : h[k] = get(o, start - k + 1)
  BY <1>4, <1>5, <1>6
<1>8. Cardinality(DOMAIN h) = len
  <2>1. Cardinality(1 .. len) = IF 1 > len THEN 0 ELSE len - 1 + 1
    BY FS_Interval
  <2>2. Cardinality(1 .. len) = len
    BY <2>1
  <2>. QED  BY <1>7, <2>2
<1>9. len <= start /\ start \in Nat /\ Limit(limit) \in Nat
  <2>1. start \in Nat /\ Limit(limit) \in Nat
    BY <1>1, <1>3 DEF Limit, MAX_PAGE
  <2>. QED  BY <1>5, <2>1
<1>10. \A k \in 1 .. len : /\ start - k + 1 \in 1 .. books[o].head
                           /\ h[k] \in seals[o] /\ h[k].seq = start - k + 1
  <2> SUFFICES ASSUME NEW k \in 1 .. len
               PROVE  /\ start - k + 1 \in 1 .. books[o].head
                      /\ h[k] \in seals[o] /\ h[k].seq = start - k + 1
    OBVIOUS
  <2>1. start - k + 1 \in 1 .. books[o].head
    BY <1>1, <1>3, <1>9
  <2>. QED  BY <1>7, <2>1, GetIsSeal
<1>11. len > 0 => h[1].seq = start
  <2> SUFFICES ASSUME len > 0 PROVE h[1].seq = start
    OBVIOUS
  <2>1. 1 \in 1 .. len /\ start - 1 + 1 = start
    BY <1>9
  <2>. QED  BY <1>10, <2>1
<1>12. ASSUME NEW k \in 1 .. len - 1 PROVE h[k].prev = h[k + 1].root
  <2>1. k \in 1 .. len /\ k + 1 \in 1 .. len
    OBVIOUS
  <2>2. h[k].seq = h[k + 1].seq + 1 /\ h[k] \in seals[o] /\ h[k + 1] \in seals[o]
    <3>1. h[k].seq = start - k + 1 /\ h[k + 1].seq = start - (k + 1) + 1
      BY <1>10, <2>1
    <3>. QED  BY <1>9, <1>10, <2>1, <3>1
  <2>. QED  BY <2>2 DEF IInv, Linked
<1>13. len # Limit(limit) => \/ len = 0 /\ books[o].head = 0
                             \/ len > 0 /\ h[len].seq = 1
  <2> SUFFICES ASSUME len # Limit(limit), len > 0 PROVE h[len].seq = 1
    BY <1>3, <1>5, <1>9
  <2>1. len \in 1 .. len /\ start - len + 1 = 1
    BY <1>5, <1>9
  <2>. QED  BY <1>10, <2>1
<1>. QED  BY <1>3, <1>6, <1>8, <1>11, <1>12, <1>13

\* f is the running total of the counts of o's seals.
Totals(f, o) ==
    /\ f \in [0 .. books[o].head -> Nat]
    /\ f[0] = 0
    /\ \A n \in 1 .. books[o].head : f[n] = f[n - 1] + get(o, n).count
    /\ books[o].entries = f[books[o].head]

\* Every book has its running total.  Stated with a function that exists, which
\* seal() extends by one number; what the recursion computes follows from it.
Totalled == \A o \in Orgs : is_registered(o) => \E f : Totals(f, o)

\* A namespace a step leaves alone keeps its total.
LEMMA TotalKept ==
    ASSUME NEW o \in Orgs, NEW f, Totals(f, o), seals'[o] = seals[o],
           books'[o].head = books[o].head, books'[o].entries = books[o].entries
    PROVE  \E g : Totals(g, o)'
<1>1. \A n : get(o, n)' = get(o, n)
  BY DEF get
<1>2. Totals(f, o)'
  BY <1>1 DEF Totals
<1>. QED  BY <1>2

\* seal() adds its count.
LEMMA SealTotalled ==
    ASSUME IInv, Totalled, NEW p \in Orgs, NEW c \in Call,
           NEW auth \in SUBSET Addresses, seal(p, c, auth)
    PROVE  Totalled'
<1> SUFFICES ASSUME NEW o \in Orgs, is_registered(o)'
             PROVE  \E g : Totals(g, o)'
  BY DEF Totalled
<1>1. CASE o # p
  <2>1. books'[o] = books[o] /\ seals'[o] = seals[o]
    BY <1>1 DEF seal, IInv, TypeOK
  <2>2. is_registered(o)
    BY <2>1 DEF is_registered
  <2>. QED  BY <2>1, <2>2, TotalKept DEF Totalled
<1>2. CASE o = p
  <2>1. is_registered(o) /\ c.seq = books[o].head + 1
    BY <1>2, AcceptedCall DEF seal
  <2>2. PICK f : Totals(f, o)
    BY <2>1 DEF Totalled
  <2>3. books[o] \in Book /\ books[o].head \in Nat /\ seals[o] \subseteq Seal
        /\ books[o].entries \in Nat
    BY <2>1 DEF IInv, TypeOK, is_registered, Book
  <2>4. PICK h \in Nat : h = books[o].head
    BY <2>3
  <2>5. PICK e : e = Entry(c)
    OBVIOUS
  <2>6. e.seq = h + 1 /\ e.count = c.count /\ c.count \in Nat
    BY <2>1, <2>4, <2>5, BoundsAssumption DEF Entry, EntryOf, Call
  <2>7. books'[o].head = h + 1 /\ books'[o].entries = books[o].entries + c.count
    <3>1. books'[o] = Extended(books[o], e)
      BY <1>2, <2>5 DEF seal, IInv, TypeOK
    <3>. QED  BY <2>6, <3>1 DEF Extended, ExtendedBy
  <2>8. \A s \in seals[o] : s.seq \in 1 .. h
    BY <2>1, <2>4 DEF IInv, NoGaps
  <2>9. seals'[o] = seals[o] \cup {e}
    <3>1. seals'[o] = Stored(o, e)
      BY <1>2, <2>5 DEF seal, IInv, TypeOK
    <3>2. \A s \in seals[o] : s.seq # e.seq
      BY <2>6, <2>8
    <3>. QED  BY <3>1, <3>2 DEF Stored
  <2>10. ASSUME NEW n \in 1 .. h PROVE get(o, n)' = get(o, n)
    <3>1. /\ get(o, n) \in seals[o] /\ get(o, n).seq = n
          /\ \A s \in seals[o] : s.seq = n => s = get(o, n)
      BY <2>1, <2>4, GetIsSeal
    <3>2. n # e.seq
      BY <2>6
    <3>3. PICK g : g = get(o, n)
      OBVIOUS
    <3>4. g \in seals'[o] /\ g.seq = n
          /\ \A s \in seals'[o] : s.seq = n => s = g
      BY <2>9, <3>1, <3>2, <3>3
    <3>5. (CHOOSE s \in seals'[o] : s.seq = n) = g
      BY <3>4
    <3>. QED  BY <3>3, <3>5 DEF get
  <2>11. get(o, h + 1)' = e
    <3>1. e \in seals'[o] /\ \A s \in seals'[o] : s.seq = h + 1 => s = e
      BY <2>6, <2>8, <2>9
    <3>2. (CHOOSE s \in seals'[o] : s.seq = h + 1) = e
      BY <2>6, <3>1
    <3>. QED  BY <3>2 DEF get
  <2>12. /\ f \in [0 .. h -> Nat] /\ f[0] = 0 /\ books[o].entries = f[h]
         /\ \A n \in 1 .. h : f[n] = f[n - 1] + get(o, n).count
    BY <2>2, <2>4 DEF Totals
  <2>13. PICK g : g = [n \in 0 .. h + 1 |->
                          IF n = h + 1 THEN f[h] + c.count ELSE f[n]]
    OBVIOUS
  <2>14. \A n \in 0 .. h : g[n] = f[n] /\ f[n] \in Nat
    <3>1. \A n \in 0 .. h : n \in 0 .. h + 1 /\ n # h + 1
      BY <2>4
    <3>2. \A n \in 0 .. h : g[n] = f[n]
      BY <2>13, <3>1
    <3>. QED  BY <2>12, <3>2
  <2>15. g[h + 1] = f[h] + c.count /\ f[h] \in Nat
    BY <2>4, <2>12, <2>13
  <2>16. g \in [0 .. h + 1 -> Nat]
    <3>1. \A n \in 0 .. h + 1 : n = h + 1 \/ n \in 0 .. h
      BY <2>4
    <3>. QED  BY <2>6, <2>13, <2>14, <2>15, <3>1
  <2>17. ASSUME NEW n \in 1 .. h + 1
         PROVE  g[n] = g[n - 1] + get(o, n)'.count
    <3>1. CASE n \in 1 .. h
      <4>1. n \in 0 .. h /\ n - 1 \in 0 .. h
        BY <3>1
      <4>. QED  BY <2>10, <2>12, <2>14, <3>1, <4>1
    <3>2. CASE n = h + 1
      <4>1. n - 1 = h /\ h \in 0 .. h
        BY <3>2, <2>4
      <4>. QED  BY <2>6, <2>11, <2>14, <2>15, <3>2, <4>1
    <3>. QED  BY <3>1, <3>2
  <2>18. g[0] = 0 /\ books'[o].entries = g[h + 1]
    BY <2>4, <2>7, <2>12, <2>14, <2>15
  <2>19. \A n \in 1 .. books'[o].head : g[n] = g[n - 1] + get(o, n)'.count
    BY <2>7, <2>17
  <2>20. Totals(g, o)'
    BY <2>7, <2>16, <2>18, <2>19 DEF Totals
  <2>. QED  BY <2>20
<1>. QED  BY <1>1, <1>2

\* Every step keeps the totals.
LEMMA NextTotalled == ASSUME IInv, Totalled, [Next]_vars PROVE Totalled'
<1>1. CASE UNCHANGED vars \/ LedgerClose
  <2>1. books' = books /\ seals' = seals
    BY <1>1 DEF vars, LedgerClose
  <2> SUFFICES ASSUME NEW o \in Orgs, is_registered(o)
               PROVE  \E g : Totals(g, o)'
    BY <2>1 DEF Totalled, is_registered
  <2>. QED  BY <2>1, TotalKept DEF Totalled
<1>2. ASSUME NEW p \in Orgs, NEW a \in Addresses, register(p, a)
      PROVE  Totalled'
  <2> SUFFICES ASSUME NEW o \in Orgs, is_registered(o)'
               PROVE  \E g : Totals(g, o)'
    BY DEF Totalled
  <2>1. CASE o # p
    <3>1. books'[o] = books[o] /\ seals'[o] = seals[o]
      BY <1>2, <2>1 DEF register, IInv, TypeOK
    <3>2. is_registered(o)
      BY <3>1 DEF is_registered
    <3>. QED  BY <3>1, <3>2, TotalKept DEF Totalled
  <2>2. CASE o = p
    <3>1. books'[o].head = 0 /\ books'[o].entries = 0
      BY <1>2, <2>2 DEF register, IInv, TypeOK
    <3>2. PICK g : g = [n \in 0 .. 0 |-> 0]
      OBVIOUS
    <3>3. g \in [0 .. 0 -> Nat] /\ g[0] = 0
      BY <3>2
    <3>4. 1 .. 0 = {}
      OBVIOUS
    <3>5. Totals(g, o)'
      BY <3>1, <3>3, <3>4 DEF Totals
    <3>. QED  BY <3>5
  <2>. QED  BY <2>1, <2>2
<1>3. ASSUME NEW p \in Orgs, NEW a \in Addresses, NEW auth \in SUBSET Addresses,
             rotate(p, a, auth)
      PROVE  Totalled'
  <2> SUFFICES ASSUME NEW o \in Orgs, is_registered(o)'
               PROVE  \E g : Totals(g, o)'
    BY DEF Totalled
  <2>1. CASE o # p
    <3>1. books'[o] = books[o] /\ seals'[o] = seals[o]
      BY <1>3, <2>1 DEF rotate, IInv, TypeOK
    <3>2. is_registered(o)
      BY <3>1 DEF is_registered
    <3>. QED  BY <3>1, <3>2, TotalKept DEF Totalled
  <2>2. CASE o = p
    <3>1. is_registered(o) /\ books[o] \in Book
      BY <1>3, <2>2 DEF rotate, is_registered, IInv, TypeOK
    <3>2. books'[o] = [books[o] EXCEPT !.admin = a] /\ seals' = seals
      BY <1>3, <2>2 DEF rotate, IInv, TypeOK
    <3>3. books'[o].head = books[o].head /\ books'[o].entries = books[o].entries
      BY <3>1, <3>2 DEF Book
    <3>. QED  BY <3>1, <3>2, <3>3, TotalKept DEF Totalled
  <2>. QED  BY <2>1, <2>2
<1>. QED  BY <1>1, <1>2, <1>3, SealTotalled DEF Next

\* What the recursion of EntriesIsTotal computes: it has one solution, since a
\* number at which two differ would have a least one.
LEMMA TotalsAreRight == ASSUME IInv, Totalled PROVE EntriesIsTotal
<1> SUFFICES ASSUME NEW o \in Orgs, is_registered(o)
             PROVE  LET upTo[n \in 0 .. books[o].head] ==
                            IF n = 0 THEN 0 ELSE upTo[n - 1] + get(o, n).count
                    IN  books[o].entries = upTo[books[o].head]
  BY DEF EntriesIsTotal
<1>1. PICK f : Totals(f, o)
  BY DEF Totalled
<1>2. PICK h \in Nat : h = books[o].head
  BY DEF IInv, TypeOK, is_registered, Book
<1> DEFINE upTo[n \in 0 .. books[o].head] ==
               IF n = 0 THEN 0 ELSE upTo[n - 1] + get(o, n).count
<1>4. /\ f \in [0 .. h -> Nat] /\ f[0] = 0 /\ books[o].entries = f[h]
      /\ \A n \in 1 .. h : f[n] = f[n - 1] + get(o, n).count
  BY <1>1, <1>2 DEF Totals
<1>5. f = [n \in 0 .. h |-> IF n = 0 THEN 0 ELSE f[n - 1] + get(o, n).count]
  <2>1. \A n \in 0 .. h : n # 0 => n \in 1 .. h
    OBVIOUS
  <2>. QED  BY <1>4, <2>1
<1>6. upTo = [n \in 0 .. h |-> IF n = 0 THEN 0 ELSE upTo[n - 1] + get(o, n).count]
  BY <1>2, <1>5
<1> HIDE DEF upTo
<1>7. upTo[0] = 0 /\ \A n \in 1 .. h : upTo[n] = upTo[n - 1] + get(o, n).count
  <2>1. 0 \in 0 .. h /\ \A n \in 1 .. h : n \in 0 .. h /\ n # 0
    OBVIOUS
  <2>. QED  BY <1>6, <2>1
<1>8. upTo[h] = f[h]
  <2> DEFINE S == {n \in 0 .. h : f[n] # upTo[n]}
  <2> SUFFICES ASSUME S # {} PROVE FALSE
    OBVIOUS
  <2>1. S \in SUBSET Nat
    OBVIOUS
  <2> HIDE DEF S
  <2>2. PICK n \in S : \A m \in S : ~ (<<m, n>> \in OpToRel(<, Nat))
    BY <2>1, NatLessThanWellFounded, WFMin
  <2>3. n \in 0 .. h /\ f[n] # upTo[n]
    BY <2>2 DEF S
  <2>4. n # 0
    BY <1>4, <1>7, <2>3
  <2>5. n - 1 \in 0 .. h /\ n \in 1 .. h /\ n - 1 < n /\ n - 1 \in Nat
        /\ n \in Nat
    BY <2>3, <2>4
  <2>6. f[n - 1] # upTo[n - 1]
    BY <1>4, <1>7, <2>3, <2>5
  <2>7. n - 1 \in S
    BY <2>5, <2>6 DEF S
  <2>. QED  BY <2>2, <2>5, <2>7 DEF OpToRel
<1>. QED  BY <1>2, <1>4, <1>8 DEF upTo

\* latest() and history(): the total a book shows is the number of entries its
\* seals cover together, and a page is a run of the chain from where the caller
\* asked, for chains of any length and pages up to MAX_PAGE.
THEOREM ReadsAreTrue == Spec => []ReadsAreRight
<1>1. Init => Totalled
  BY DEF Init, Totalled, is_registered
<1>2. IInv /\ Totalled /\ [Next]_vars => Totalled'
  BY NextTotalled
<1>3. IInv /\ Totalled => ReadsAreRight
  BY PagesAreRight, TotalsAreRight DEF ReadsAreRight
<1>. QED  BY Invariance, <1>1, <1>2, <1>3, PTL DEF Spec
----------------------------------------------------------------------------
(* The daily schedule, for days of any number of slots, every zone up to a *)
(* day from UTC, every hour and every length of a behaviour.               *)
(*                                                                         *)
(* A pass decides at one instant and its seal is accepted at another.  The *)
(* induction carries the decision across: a scheduled seal in flight was   *)
(* prepared on a local day after the last seal's UTC date, and that stays  *)
(* so because the clock only advances and no other seal is confirmed.      *)

\* What the last pass decided still holds until something else happens.
Decided == passed /\ up /\ backlog /\ ~exists_open => ~daily_window_open

\* A scheduled seal in flight was due.
FlightInv == open = "schedule" /\ sealed # 0 => local_today > last_date

\* The inductive invariant.
DayInv == DayTypeOK /\ Decided /\ FlightInv

----------------------------------------------------------------------------
(* Dates.                                                                  *)

\* A slot lies in the day its date names.
LEMMA DateBounds ==
    ASSUME NEW t \in Int
    PROVE  /\ date(t) \in Int
           /\ date(t) * SlotsPerDay <= t
           /\ t < (date(t) + 1) * SlotsPerDay
  BY DayAssumption DEF date

\* Dates follow the clock.
LEMMA DateMonotone ==
    ASSUME NEW s \in Int, NEW t \in Int, s <= t
    PROVE  date(s) <= date(t)
<1> DEFINE a == date(s)
<1> DEFINE b == date(t)
<1>1. /\ a \in Int /\ b \in Int
      /\ a * SlotsPerDay <= s
      /\ t < (b + 1) * SlotsPerDay
  BY DateBounds
<1> HIDE DEF a, b
<1>2. a * SlotsPerDay < (b + 1) * SlotsPerDay
  BY <1>1, DayAssumption
<1>3. a < b + 1
  BY <1>1, <1>2, DayAssumption
<1>4. a <= b
  BY <1>1, <1>3
<1>. QED  BY <1>4 DEF a, b

----------------------------------------------------------------------------
(* The invariant.                                                          *)

\* Offsets and clocks are numbers.
LEMMA DayNumbers ==
    ASSUME DayTypeOK
    PROVE  /\ offset \in Int /\ utc \in Int /\ sealed \in Int /\ due \in Int
           /\ offset <= SlotsPerDay /\ sealed <= utc
           /\ local(utc) \in Int /\ local(sealed) \in Int
  BY DayAssumption, OffsetsAssumption DEF DayTypeOK, local

\* The initial state satisfies the invariant.
LEMMA DayInitInv == DayInit => DayInv
<1> SUFFICES ASSUME DayInit PROVE DayInv
  OBVIOUS
<1>1. utc \in Nat /\ sealed \in 0 .. utc
  BY DayAssumption DEF DayInit
<1>2. DayTypeOK
  BY <1>1, Zenon DEF DayInit, DayTypeOK
<1>. QED  BY <1>2 DEF DayInit, DayInv, Decided, FlightInv

\* Every step keeps it; only the clock moves the local date.
LEMMA DayNextInv == DayInv /\ [DayNext]_DayVars => DayInv'
<1> SUFFICES ASSUME DayInv, [DayNext]_DayVars PROVE DayInv'
  OBVIOUS
<1> USE DEF DayInv
<1>1. CASE UNCHANGED DayVars
  BY <1>1 DEF DayVars, DayTypeOK, Decided, FlightInv, exists_open, daily_window_open,
              local_today, last_date, slot_now, local
<1>2. CASE seal_due
  <2>1. DayTypeOK'
    BY <1>2 DEF seal_due, DayTypeOK
  <2>2. Decided'
    BY <1>2 DEF seal_due, Decided, exists_open
  <2>3. sealed # 0 => local_today > last_date
    BY <1>2 DEF seal_due, Due, daily_window_open
  <2>4. /\ sealed' = sealed /\ local_today' = local_today
        /\ last_date' = last_date
    BY <1>2 DEF seal_due, local_today, last_date, local
  <2>5. FlightInv'
    BY <2>3, <2>4 DEF FlightInv
  <2>. QED  BY <2>1, <2>2, <2>5
<1>3. CASE nothing_due
  <2>1. DayTypeOK'
    BY <1>3 DEF nothing_due, DayTypeOK
  <2>2. /\ UNCHANGED <<offset, due, utc, sealed, open, backlog, up>>
        /\ daily_window_open' <=> daily_window_open
        /\ local_today' = local_today /\ last_date' = last_date
    BY <1>3 DEF nothing_due, local_today, last_date, local, daily_window_open,
                slot_now
  <2>3. Decided'
    BY <1>3, <2>2 DEF nothing_due, Due, Decided, exists_open
  <2>4. FlightInv'
    BY <2>2 DEF FlightInv
  <2>. QED  BY <2>1, <2>3, <2>4
<1>4. CASE seal_otherwise
  BY <1>4 DEF seal_otherwise, DayTypeOK, Decided, FlightInv
<1>5. CASE confirm
  <2>0. sealed' \in 0 .. utc' /\ utc' \in Nat
    BY <1>5 DEF confirm, sealed_at, DayTypeOK
  <2>1. DayTypeOK'
    BY <1>5, <2>0, Zenon DEF confirm, DayTypeOK
  <2>. QED  BY <1>5, <2>1 DEF confirm, Decided, FlightInv
<1>6. CASE post \/ StopOrStart
  <2>1. /\ DayTypeOK' /\ passed' = FALSE /\ open' = open /\ sealed' = sealed
        /\ utc' = utc /\ offset' = offset
    BY <1>6 DEF post, StopOrStart, DayTypeOK
  <2>2. local_today' = local_today /\ last_date' = last_date
    BY <2>1 DEF local_today, last_date, local
  <2>. QED  BY <2>1, <2>2 DEF Decided, FlightInv
<1>7. CASE Tick
  <2>1. /\ utc' = utc + 1 /\ passed' = FALSE
        /\ UNCHANGED <<offset, due, sealed, open, backlog, up>>
    BY <1>7 DEF Tick
  <2>0. sealed' \in 0 .. utc' /\ utc' \in Nat
    BY <2>1 DEF DayTypeOK
  <2>2. DayTypeOK'
    BY <2>0, <2>1, Zenon DEF DayTypeOK
  <2>3. last_date' = last_date
    BY <2>1 DEF last_date
  <2>4. local_today <= local_today'
    <3>1. /\ local(utc) \in Int /\ local(utc) + 1 \in Int
          /\ local(utc) <= local(utc) + 1
      BY DayNumbers
    <3>2. local_today' = date(local(utc) + 1)
      BY <2>1, DayNumbers DEF local_today, local
    <3>. QED  BY <3>1, <3>2, DateMonotone DEF local_today
  <2>5. /\ local_today \in Int /\ local_today' \in Int /\ last_date \in Int
    <3>1. local_today \in Int /\ last_date \in Int
      BY DayNumbers, DateBounds DEF local_today, last_date
    <3>2. local(utc)' \in Int
      BY <2>2, DayNumbers, <2>1 DEF local
    <3>. QED  BY <3>1, <3>2, DateBounds DEF local_today
  <2>6. FlightInv'
    BY <2>1, <2>3, <2>4, <2>5 DEF FlightInv
  <2>. QED  BY <2>1, <2>2, <2>6 DEF Decided
<1>. QED  BY <1>1, <1>2, <1>3, <1>4, <1>5, <1>6, <1>7 DEF DayNext

\* The invariant holds throughout.
THEOREM DayInvariance == DaySpec => []DayInv
  BY DayInitInv, DayNextInv, PTL DEF DaySpec

----------------------------------------------------------------------------
(* What follows.                                                           *)

\* A pass that leaves entries waiting found that the window was not open.
LEMMA WaitsForADate ==
    ASSUME DayInv, passed, up, backlog, ~exists_open
    PROVE  /\ local_today \in Int /\ last_date \in Int
           /\ \/ local_today <= last_date
              \/ slot_now < due /\ local_today <= last_date + 1
<1>1. local_today \in Int /\ last_date \in Int
  BY DayNumbers, DateBounds DEF DayInv, local_today, last_date
<1>2. slot_now \in Int /\ due \in Int
  BY DayNumbers, DayAssumption DEF DayInv, slot_now, slot
<1>3. ~daily_window_open
  BY DEF DayInv, Decided
<1>. QED  BY <1>1, <1>2, <1>3 DEF daily_window_open

\* _daily_window_open() and the cadence pass, in every zone and for every hour:
\* at UTC and east of it no local day is skipped, and anywhere a pass after an
\* outage seals what is two days old.
THEOREM EveryDayIsSealed == DaySpec => []DaysAreSealed
<1>1. DayInv => DaysAreSealed
  <2> SUFFICES ASSUME DayInv PROVE NoDaySkippedEast /\ CatchesUp
    BY DEF DayInv, DaysAreSealed
  <2>1. NoDaySkippedEast
    <3> SUFFICES ASSUME offset >= 0, passed, up, backlog, ~exists_open
                 PROVE  local_today <= date(local(sealed)) \/ slot_now < due
      BY DEF NoDaySkippedEast, NoDaySkipped
    <3>1. last_date <= date(local(sealed))
      <4>1. sealed \in Int /\ local(sealed) \in Int /\ sealed <= local(sealed)
        BY DayNumbers DEF DayInv, local
      <4>. QED  BY <4>1, DateMonotone DEF last_date
    <3>2. date(local(sealed)) \in Int
      BY DayNumbers, DateBounds DEF DayInv
    <3>. QED  BY <3>1, <3>2, WaitsForADate
  <2>2. CatchesUp
    <3> SUFFICES ASSUME passed, up, backlog, ~exists_open
                 PROVE  utc - sealed < 2 * SlotsPerDay
                                         + (IF offset < 0 THEN -offset ELSE 0)
      BY DEF CatchesUp
    <3>1. /\ local_today \in Int /\ last_date \in Int
          /\ local_today <= last_date + 1
      BY WaitsForADate
    <3>2. /\ utc + offset < (local_today + 1) * SlotsPerDay
          /\ last_date * SlotsPerDay <= sealed
      BY DayNumbers, DateBounds DEF DayInv, local_today, last_date, local
    <3>3. (local_today + 1) * SlotsPerDay <= (last_date + 2) * SlotsPerDay
      BY <3>1, DayAssumption
    <3>4. (last_date + 2) * SlotsPerDay
              = last_date * SlotsPerDay + 2 * SlotsPerDay
      BY <3>1, DayAssumption
    <3> DEFINE x == last_date * SlotsPerDay
    <3> DEFINE y == (local_today + 1) * SlotsPerDay
    <3>5. x \in Int /\ y \in Int
      BY <3>1, DayAssumption
    <3>6. utc + offset < y /\ x <= sealed /\ y <= x + 2 * SlotsPerDay
      BY <3>2, <3>3, <3>4
    <3> HIDE DEF x, y
    <3>. QED  BY <3>5, <3>6, DayNumbers, DayAssumption DEF DayInv
  <2>. QED  BY <2>1, <2>2
<1>. QED  BY DayInvariance, <1>1, PTL

\* _daily_window_open() compares the local date with a UTC date: at UTC and west
\* of it a scheduled seal is still accepted on a later local day than the seal
\* before it, however long it was in flight.
THEOREM OncePerDay == DaySpec => OncePerLocalDayWest
<1>1. ASSUME DayInv, offset <= 0, open = "schedule", sealed # 0
      PROVE  local_today > date(local(sealed))
  <2>1. local_today > last_date
    BY <1>1 DEF DayInv, FlightInv
  <2>2. date(local(sealed)) <= last_date
    <3>1. sealed \in Int /\ local(sealed) \in Int /\ local(sealed) <= sealed
      BY <1>1, DayNumbers DEF DayInv, local
    <3>. QED  BY <3>1, DateMonotone DEF last_date
  <2>3. /\ local_today \in Int /\ last_date \in Int
        /\ date(local(sealed)) \in Int
    BY <1>1, DayNumbers, DateBounds DEF DayInv, local_today, last_date
  <2>. QED  BY <2>1, <2>2, <2>3
<1>2. DayInv => (offset <= 0 /\ confirm /\ open = "schedule" /\ sealed # 0 =>
                   local_today > date(local(sealed)))
  BY <1>1
<1>. QED  BY DayInvariance, <1>2, PTL DEF OncePerLocalDayWest

----------------------------------------------------------------------------
(* The posting engine, for any number of requests, entries, periods and    *)
(* amounts, and any workload.                                              *)
(*                                                                         *)
(* Numbers have no gap because the sequence row has one holder at a time,  *)
(* whose entry carries the value of the row, and because what a request    *)
(* read of a draft is still true when it commits; the latter is what needs *)
(* OneEditor.  That history stands needs more: a request that saw an open  *)
(* period, or a posted original, must find them so when it commits.        *)

Row == [status: Status, number: Nat, date: Int, amount: Int, reverses: Nat]
LeafRow == [number: Nat, date: Int, amount: Int]
PCs == {"idle", "update", "delete", "period", "number", "insert", "flush",
        "period_status"}
Transaction == [pc: PCs, id: Int, entry: Row, period: Int,
                to: {"open", "closed", "locked", "same"}]

Types ==
    /\ entries \in Seq(Row)
    /\ leaves \in Seq(LeafRow)
    /\ Len(leaves) = Len(entries)
    /\ sequence \in Nat
    /\ periods \in [Periods -> {"open", "closed", "locked"}]
    /\ tx \in [Requests -> Transaction]
    /\ serves \in Workloads

Edits(t) == t.pc \in {"update", "delete"}
Posts(t) == t.pc \in {"period", "number", "insert", "flush"}

\* What a transaction refers to exists: rows never go.
Refers(t) ==
    /\ Edits(t) => t.id \in DOMAIN entries
    /\ Posts(t) => /\ t.id \in {0} \cup DOMAIN entries
                   /\ t.entry.reverses \in {0} \cup DOMAIN entries
    /\ t.pc = "period_status" => t.period \in Periods
References ==
    /\ \A i \in DOMAIN entries : entries[i].reverses \in {0} \cup DOMAIN entries
    /\ \A p \in Requests : Refers(tx[p])

\* The sequence row has one holder, whose entry has the next number.
HasNext(t) ==
    t.pc = "flush" => /\ t.entry.number = IF sequence = 0 THEN 1 ELSE sequence
                      /\ t.entry.status = "posted"
Sequenced ==
    /\ \A p, q \in Requests : Holds(p) /\ Holds(q) => p = q
    /\ \A p \in Requests : HasNext(tx[p])

\* A process is busy with an operation that it serves.
Busy(p) ==
    /\ tx[p].pc # "idle" => serves[p] # {}
    /\ Edits(tx[p]) => HandlesDrafts(p)
    /\ Posts(tx[p]) /\ tx[p].id # 0 => HandlesDrafts(p)
Serving == \A p \in Requests : Busy(p)

\* What a draft and a deleted row do not have yet.
Unposted ==
    \A i \in DOMAIN entries :
        ~is_posted(entries[i]) => entries[i].number = 0 /\ leaves[i] = NoLeaf

\* What a request read of a draft is true: nobody else touched it.
DraftStands(t) ==
    /\ Edits(t) => entries[t.id].status = "draft"
    /\ Posts(t) /\ t.id # 0 => /\ entries[t.id].status = "draft"
                               /\ entries[t.id].date = t.entry.date
                               /\ entries[t.id].amount = t.entry.amount
    /\ Posts(t) /\ t.id = 0 /\ t.entry.reverses # 0 =>
            is_posted(entries[t.entry.reverses])
DraftsStand == \A p \in Requests : DraftStands(tx[p])

EditorInv == OneEditor => Unposted /\ DraftsStand

\* What a request read of a period and of the entry it reverses is true.
Current(t) ==
    /\ t.pc \in {"number", "insert", "flush"} => accepts_postings(t.entry.date)
    /\ t.pc = "period_status" => ~IsLocked(t.period)
    /\ Posts(t) /\ t.id = 0 /\ t.entry.reverses # 0 =>
            /\ entries[t.entry.reverses].status = "posted"
            /\ t.entry.amount = -entries[t.entry.reverses].amount
    /\ Posts(t) /\ t.id # 0 => t.entry.reverses = 0
OnlyPostedReverse ==
    \A i \in DOMAIN entries :
        /\ ~is_posted(entries[i]) => entries[i].reverses = 0
        /\ entries[i].reverses # 0 => is_posted(entries[entries[i].reverses])

SoloInv == OneAtATime => OnlyPostedReverse /\ \A p \in Requests : Current(tx[p])

\* What the leaves of the books say; that nothing else has one is in Unposted.
LeavesHold ==
    OneEditor => \A i \in InBooks :
        leaves[i] # NoLeaf => leaves[i] = LeafOf(entries[i])

PostingInv == /\ Types
        /\ References
        /\ Sequenced
        /\ Serving
        /\ EditorInv
        /\ SoloInv
        /\ NumbersGapFree
        /\ LeavesHold
        /\ ReversedOnce

----------------------------------------------------------------------------
(* Lemmas.                                                                 *)

\* Requests one at a time are a case of one editor.
LEMMA SoloIsOneEditor == OneAtATime => OneEditor
  BY DEF OneAtATime, OneEditor, HandlesDrafts

\* While requests come one at a time, only one of them is under way.
LEMMA OthersIdle ==
    ASSUME Serving, OneAtATime, NEW p \in Requests, tx[p].pc # "idle",
           NEW q \in Requests, q # p
    PROVE  tx[q].pc = "idle"
  BY DEF Serving, Busy, OneAtATime

\* Only the one editor has a transaction on a draft.
LEMMA OthersLeaveDrafts ==
    ASSUME Serving, OneEditor, NEW p \in Requests, HandlesDrafts(p),
           NEW q \in Requests, q # p
    PROVE  ~Edits(tx[q]) /\ ~(Posts(tx[q]) /\ tx[q].id # 0)
  BY DEF Serving, Busy, OneEditor

\* A request that has not begun, or is over.
LEMMA IdleIsFine ==
    /\ Idle \in Transaction /\ Idle.pc = "idle"
    /\ Refers(Idle) /\ HasNext(Idle) /\ DraftStands(Idle) /\ Current(Idle)
    /\ ~Edits(Idle) /\ ~Posts(Idle)
  BY DEF Idle, NoEntry, Transaction, Row, Status, PCs, Refers, HasNext,
         DraftStands, Current, Edits, Posts

\* The initial state satisfies the invariant.
LEMMA PostingInitInv == PostingInit => PostingInv
<1> SUFFICES ASSUME PostingInit PROVE PostingInv
  OBVIOUS
<1>1. Types
  BY IdleIsFine, EmptySeq DEF PostingInit, Types
<1>2. DOMAIN entries = {}
  BY DEF PostingInit
<1>3. \A p \in Requests : tx[p] = Idle
  BY DEF PostingInit
<1>4. References /\ Sequenced /\ Serving
  BY <1>2, <1>3, IdleIsFine DEF References, Sequenced, Holds, Serving, Busy
<1>5. EditorInv /\ SoloInv
  BY <1>2, <1>3, IdleIsFine
  DEF EditorInv, Unposted, DraftsStand, SoloInv, OnlyPostedReverse
<1>6. NumbersGapFree /\ LeavesHold /\ ReversedOnce
  <2>1. InBooks = {}
    BY <1>2 DEF InBooks
  <2>2. 1 .. sequence - 1 = {}
    BY DEF PostingInit
  <2>. QED  BY <2>1, <2>2 DEF NumbersGapFree, LeavesHold, ReversedOnce
<1>. QED  BY <1>1, <1>4, <1>5, <1>6 DEF PostingInv

\* A step that changes nothing but the transaction of p keeps the invariant if
\* what p now holds is true.
LEMMA OwnStep ==
    ASSUME PostingInv, NEW p \in Requests, NEW t \in Transaction,
           tx' = [tx EXCEPT ![p] = t],
           UNCHANGED <<entries, sequence, periods, leaves, serves>>,
           Refers(t),
           t.pc = "flush" => SequenceFree(p) /\ HasNext(t),
           t.pc # "idle" => serves[p] # {},
           Edits(t) \/ (Posts(t) /\ t.id # 0) => HandlesDrafts(p),
           OneEditor => DraftStands(t),
           OneAtATime => Current(t)
    PROVE  PostingInv'
<1>1. Types'
  BY DEF PostingInv, Types
<1>2. tx'[p] = t /\ \A q \in Requests : q # p => tx'[q] = tx[q]
  BY DEF PostingInv, Types
<1>3. References'
  BY <1>2 DEF PostingInv, References, Refers, Edits, Posts
<1>4. Sequenced'
  BY <1>2 DEF PostingInv, Sequenced, Holds, SequenceFree, HasNext
<1>5. Serving'
  BY <1>2 DEF PostingInv, Serving, Busy, HandlesDrafts, Edits, Posts
<1>6. EditorInv'
  BY <1>2 DEF PostingInv, EditorInv, OneEditor, HandlesDrafts, Unposted, DraftsStand,
              DraftStands, Edits, Posts
<1>7. SoloInv'
  BY <1>2 DEF PostingInv, SoloInv, OneAtATime, OnlyPostedReverse, Current, Posts,
              accepts_postings, IsLocked
<1>8. (NumbersGapFree /\ LeavesHold /\ ReversedOnce)'
  BY DEF PostingInv, NumbersGapFree, LeavesHold, ReversedOnce, InBooks, OneEditor,
         HandlesDrafts, OneAtATime
<1>. QED  BY <1>1, <1>3, <1>4, <1>5, <1>6, <1>7, <1>8 DEF PostingInv

----------------------------------------------------------------------------
(* Requests that begin, go on or end without a write.                      *)

\* Loading a row for an edit, a deletion or a posting.
LEMMA LoadInv ==
    ASSUME PostingInv, NEW p \in Requests, UNCHANGED serves,
           update_entry(p) \/ delete_draft(p) \/ post_entry(p)
    PROVE  PostingInv'
<1>1. ASSUME NEW i \in DOMAIN entries, NEW pc \in {"update", "delete", "period"},
             NEW e \in Row,
             entries[i].status = "draft",
             pc = "period" => e = entries[i],
             HandlesDrafts(p),
             Begin(p, pc, i, e),
             UNCHANGED <<entries, sequence, periods, leaves>>
      PROVE  PostingInv'
  <2>0. i \in Nat \ {0} /\ entries[i] \in Row
    BY DEF PostingInv, Types
  <2>2. PICK t : /\ t = [Idle EXCEPT !.pc = pc, !.id = i, !.entry = e]
                 /\ tx' = [tx EXCEPT ![p] = t]
    BY <1>1 DEF Begin
  <2>1. t \in Transaction /\ t.pc = pc /\ t.id = i /\ t.entry = e
    <3>1. t = [pc |-> pc, id |-> i, entry |-> e, period |-> 1, to |-> "open"]
      BY <2>2 DEF Idle
    <3>. QED  BY <2>0, <3>1 DEF Transaction, PCs
  <2>3. Refers(t) /\ (OneAtATime => Current(t))
    BY <1>1, <2>1
    DEF Refers, Current, Edits, Posts, PostingInv, References, SoloInv,
        OnlyPostedReverse, is_posted
  <2>4. DraftStands(t)
    BY <1>1, <2>0, <2>1 DEF DraftStands, Edits, Posts
  <2>5. serves[p] # {}
    BY <1>1 DEF HandlesDrafts
  <2>. QED  BY <1>1, <2>0, <2>1, <2>2, <2>3, <2>4, <2>5, OwnStep
<1>2. CASE update_entry(p)
  <2>1. PICK i \in DOMAIN entries, d \in Periods, a \in Amounts :
            /\ entries[i].status = "draft"
            /\ Begin(p, "update", i, [entries[i] EXCEPT !.date = d, !.amount = a])
    BY <1>2 DEF update_entry, is_editable
  <2>2. HandlesDrafts(p)
    BY <1>2 DEF update_entry, Uses, HandlesDrafts
  <2>3. [entries[i] EXCEPT !.date = d, !.amount = a] \in Row
    <3>1. entries[i] \in Row /\ d \in Int /\ a \in Int
      BY PostingBounds DEF PostingInv, Types, Periods, Amounts
    <3>. QED  BY <3>1 DEF Row
  <2>. QED  BY <1>1, <1>2, <2>1, <2>2, <2>3 DEF update_entry
<1>3. CASE delete_draft(p)
  <2>1. PICK i \in DOMAIN entries :
            entries[i].status = "draft" /\ Begin(p, "delete", i, entries[i])
    BY <1>3 DEF delete_draft
  <2>2. HandlesDrafts(p) /\ entries[i] \in Row
    BY <1>3 DEF delete_draft, Uses, HandlesDrafts, PostingInv, Types
  <2>. QED  BY <1>1, <1>3, <2>1, <2>2 DEF delete_draft
<1>4. CASE post_entry(p)
  <2>1. PICK i \in DOMAIN entries :
            /\ ~is_posted(entries[i]) /\ entries[i].status # "deleted"
            /\ Begin(p, "period", i, entries[i])
    BY <1>4 DEF post_entry
  <2>2. HandlesDrafts(p) /\ entries[i] \in Row
    BY <1>4 DEF post_entry, Uses, HandlesDrafts, PostingInv, Types
  <2>3. entries[i].status = "draft"
    BY <2>1, <2>2 DEF is_posted, Row, Status
  <2>. QED  BY <1>1, <1>4, <2>1, <2>2, <2>3 DEF post_entry
<1>. QED  BY <1>2, <1>3, <1>4

\* Beginning a posting that will write a row of its own: a new document or the
\* mirror of a posted entry.
LEMMA DocumentInv ==
    ASSUME PostingInv, NEW p \in Requests, UNCHANGED serves,
           create_posted(p) \/ reverse_entry(p)
    PROVE  PostingInv'
<1>1. ASSUME NEW e \in Row, Begin(p, "period", 0, e),
             UNCHANGED <<entries, sequence, periods, leaves>>,
             serves[p] # {},
             e.reverses = 0 \/
                 /\ e.reverses \in DOMAIN entries
                 /\ entries[e.reverses].status = "posted"
                 /\ e.amount = -entries[e.reverses].amount
      PROVE  PostingInv'
  <2>2. PICK t : /\ t = [Idle EXCEPT !.pc = "period", !.id = 0, !.entry = e]
                 /\ tx' = [tx EXCEPT ![p] = t]
    BY <1>1 DEF Begin
  <2>1. t \in Transaction /\ t.pc = "period" /\ t.id = 0 /\ t.entry = e
    <3>1. t = [pc |-> "period", id |-> 0, entry |-> e, period |-> 1, to |-> "open"]
      BY <2>2 DEF Idle
    <3>. QED  BY <3>1 DEF Transaction, PCs
  <2>3. Refers(t) /\ Current(t) /\ DraftStands(t)
    BY <1>1, <2>1 DEF Refers, Current, DraftStands, Edits, Posts, is_posted
  <2>. QED  BY <1>1, <2>1, <2>2, <2>3, OwnStep DEF Edits, Posts
<1>2. CASE create_posted(p)
  <2>1. PICK d \in Periods, a \in Amounts : Begin(p, "period", 0, Draft(d, a, 0))
    BY <1>2 DEF create_posted
  <2>2. Draft(d, a, 0) \in Row /\ Draft(d, a, 0).reverses = 0
    BY PostingBounds DEF Draft, Row, Status, Periods, Amounts
  <2>3. serves[p] # {}
    BY <1>2 DEF create_posted, Uses
  <2>. QED  BY <1>1, <1>2, <2>1, <2>2, <2>3 DEF create_posted
<1>3. CASE reverse_entry(p)
  <2>1. PICK i \in DOMAIN entries, d \in Periods :
            /\ entries[i].status = "posted"
            /\ Begin(p, "period", 0, Draft(d, Mirrored(entries[i]), i))
    BY <1>3 DEF reverse_entry, IsReversible
  <2> DEFINE e == Draft(d, Mirrored(entries[i]), i)
  <2>2. entries[i] \in Row /\ i \in Nat
    BY DEF PostingInv, Types
  <2>3. e \in Row /\ e.reverses = i /\ e.amount = -entries[i].amount
    BY <2>2, PostingBounds DEF Draft, Mirrored, Row, Status, Periods
  <2>4. serves[p] # {}
    BY <1>3 DEF reverse_entry, Uses
  <2>. QED  BY <1>1, <1>3, <2>1, <2>3, <2>4 DEF reverse_entry
<1>. QED  BY <1>2, <1>3

\* Checking the period again.
LEMMA RecheckInv ==
    ASSUME PostingInv, NEW p \in Requests, UNCHANGED serves, recheck_period(p)
    PROVE  PostingInv'
<1>1. tx[p] \in Transaction /\ Refers(tx[p]) /\ Busy(p)
  BY DEF PostingInv, Types, References, Serving
<1>2. CASE StillOpen(tx[p].entry.date)
  <2> DEFINE t == [tx[p] EXCEPT !.pc = "number"]
  <2>1. /\ t \in Transaction /\ t.pc = "number" /\ t.id = tx[p].id
        /\ t.entry = tx[p].entry
    BY <1>1 DEF Transaction, PCs
  <2>2. tx' = [tx EXCEPT ![p] = t]
    BY <1>2 DEF recheck_period, Goto, PostingInv, Types
  <2> HIDE DEF t
  <2>3. Refers(t) /\ ~Edits(t) /\ (OneEditor => DraftStands(t))
    BY <1>1, <2>1
    DEF recheck_period, Refers, Edits, Posts, PostingInv, EditorInv, DraftsStand,
        DraftStands
  <2>4. OneAtATime => Current(t)
    BY <1>2, <2>1
    DEF recheck_period, StillOpen, PostingInv, SoloInv, Current, Posts
  <2>5. serves[p] # {} /\ (Posts(t) /\ t.id # 0 => HandlesDrafts(p))
    BY <1>1, <2>1 DEF recheck_period, Busy, Posts
  <2>. QED  BY <2>1, <2>2, <2>3, <2>4, <2>5, OwnStep DEF recheck_period
<1>3. CASE ~StillOpen(tx[p].entry.date)
  BY <1>3, IdleIsFine, OwnStep DEF recheck_period, Ends
<1>. QED  BY <1>2, <1>3

\* Taking the sequence row, or inserting it: nobody else holds it.
LEMMA NumberInv ==
    ASSUME PostingInv, NEW p \in Requests, UNCHANGED serves,
           next_number(p) \/ insert_sequence(p)
    PROVE  PostingInv'
<1>1. tx[p] \in Transaction /\ Refers(tx[p]) /\ Busy(p)
  BY DEF PostingInv, Types, References, Serving
<1>2. tx[p].pc \in {"number", "insert"}
      /\ UNCHANGED <<entries, sequence, periods, leaves>>
  BY DEF next_number, insert_sequence
<1>3. CASE SequenceFree(p) /\ Numbered(p)
  <2> DEFINE n == IF sequence = 0 THEN 1 ELSE sequence
             t == [tx[p] EXCEPT !.pc = "flush", !.entry.number = n,
                                !.entry.status = "posted"]
  <2>1. /\ t \in Transaction /\ t.pc = "flush" /\ t.id = tx[p].id
        /\ t.entry.number = n /\ t.entry.status = "posted"
        /\ t.entry.date = tx[p].entry.date /\ t.entry.amount = tx[p].entry.amount
        /\ t.entry.reverses = tx[p].entry.reverses
    BY <1>1 DEF Transaction, PCs, Row, Status, PostingInv, Types
  <2>2. tx' = [tx EXCEPT ![p] = t]
    BY <1>3 DEF Numbered, PostingInv, Types
  <2>3. HasNext(t)
    BY <2>1 DEF HasNext
  <2> HIDE DEF t
  <2>4. Refers(t) /\ ~Edits(t) /\ (OneEditor => DraftStands(t))
    BY <1>1, <1>2, <2>1
    DEF Refers, Edits, Posts, PostingInv, EditorInv, DraftsStand, DraftStands
  <2>5. OneAtATime => Current(t)
    BY <1>2, <2>1 DEF PostingInv, SoloInv, Current, Posts
  <2>6. serves[p] # {} /\ (Posts(t) /\ t.id # 0 => HandlesDrafts(p))
    BY <1>1, <1>2, <2>1 DEF Busy, Posts
  <2>. QED  BY <1>2, <1>3, <2>1, <2>2, <2>3, <2>4, <2>5, <2>6, OwnStep
<1>4. CASE Goto(p, "insert")
  <2> DEFINE t == [tx[p] EXCEPT !.pc = "insert"]
  <2>1. /\ t \in Transaction /\ t.pc = "insert" /\ t.id = tx[p].id
        /\ t.entry = tx[p].entry
    BY <1>1 DEF Transaction, PCs
  <2>2. tx' = [tx EXCEPT ![p] = t]
    BY <1>4 DEF Goto, PostingInv, Types
  <2> HIDE DEF t
  <2>3. Refers(t) /\ ~Edits(t) /\ (OneEditor => DraftStands(t))
    BY <1>1, <1>2, <2>1
    DEF Refers, Edits, Posts, PostingInv, EditorInv, DraftsStand, DraftStands
  <2>4. OneAtATime => Current(t)
    BY <1>2, <2>1 DEF PostingInv, SoloInv, Current, Posts
  <2>5. serves[p] # {} /\ (Posts(t) /\ t.id # 0 => HandlesDrafts(p))
    BY <1>1, <1>2, <2>1 DEF Busy, Posts
  <2>. QED  BY <1>2, <2>1, <2>2, <2>3, <2>4, <2>5, OwnStep
<1>5. CASE Ends(p)
  BY <1>2, <1>5, IdleIsFine, OwnStep DEF Ends
<1>. QED  BY <1>3, <1>4, <1>5 DEF next_number, insert_sequence, MayLock

\* Beginning to close or reopen a period that is not locked.
LEMMA PeriodInv ==
    ASSUME PostingInv, NEW p \in Requests, UNCHANGED serves,
           close_period(p) \/ reopen_period(p)
    PROVE  PostingInv'
<1>1. PICK d \in Periods, s \in {"open", "closed", "locked"} :
          ~IsLocked(d) /\ BeginPeriod(p, d, s)
  BY DEF close_period, reopen_period
<1>2. UNCHANGED <<entries, sequence, periods, leaves>> /\ serves[p] # {}
  BY DEF close_period, reopen_period, Uses
<1>3. PICK to, t :
          /\ to = IF s = periods[d] THEN "same" ELSE s
          /\ t = [Idle EXCEPT !.pc = "period_status", !.id = -1, !.period = d,
                             !.to = to]
          /\ tx' = [tx EXCEPT ![p] = t]
  BY <1>1 DEF BeginPeriod
<1>4. t \in Transaction /\ t.pc = "period_status" /\ t.period = d
  <2>1. NoEntry \in Row /\ d \in Int
    BY PostingBounds DEF NoEntry, Row, Status, Periods
  <2>2. to \in {"open", "closed", "locked", "same"}
    BY <1>3
  <2>3. t = [pc |-> "period_status", id |-> -1, entry |-> NoEntry, period |-> d,
             to |-> to]
    BY <1>3 DEF Idle
  <2>. QED  BY <2>1, <2>2, <2>3 DEF Transaction, PCs
<1>5. Refers(t) /\ Current(t) /\ DraftStands(t) /\ ~Edits(t) /\ ~Posts(t)
  BY <1>1, <1>4 DEF Refers, Current, DraftStands, Edits, Posts
<1>. QED  BY <1>2, <1>3, <1>4, <1>5, OwnStep

\* The request fails.
LEMMA RollbackInv ==
    ASSUME PostingInv, NEW p \in Requests, UNCHANGED serves, rollback(p)
    PROVE  PostingInv'
  BY IdleIsFine, OwnStep DEF rollback, Ends

----------------------------------------------------------------------------
(* Requests that write.                                                    *)

\* A new draft: nothing refers to its row yet.
LEMMA CreateInv ==
    ASSUME PostingInv, NEW p \in Requests, UNCHANGED serves, create_entry(p)
    PROVE  PostingInv'
<1>1. PICK e \in Row :
          /\ e.status = "draft" /\ e.number = 0 /\ e.reverses = 0
          /\ entries' = Append(entries, e)
          /\ leaves' = Append(leaves, NoLeaf)
          /\ UNCHANGED <<sequence, periods, tx>>
  <2>1. PICK d \in Periods, a \in Amounts : entries' = Append(entries, Draft(d, a, 0))
    BY DEF create_entry
  <2>2. /\ Draft(d, a, 0) \in Row /\ Draft(d, a, 0).status = "draft"
        /\ Draft(d, a, 0).number = 0 /\ Draft(d, a, 0).reverses = 0
    BY PostingBounds DEF Draft, Row, Status, Periods, Amounts
  <2>. QED  BY <2>1, <2>2 DEF create_entry
<1> DEFINE n == Len(entries) + 1
<1>2. /\ entries \in Seq(Row) /\ leaves \in Seq(LeafRow) /\ NoLeaf \in LeafRow
      /\ n \in Nat /\ Len(leaves) = Len(entries)
      /\ DOMAIN entries = 1 .. n - 1 /\ DOMAIN leaves = 1 .. n - 1
  BY DEF PostingInv, Types, NoLeaf, LeafRow
<1>3. /\ entries' \in Seq(Row) /\ leaves' \in Seq(LeafRow)
      /\ Len(entries') = n /\ Len(leaves') = n
      /\ DOMAIN entries' = DOMAIN entries \cup {n} /\ n \notin DOMAIN entries
      /\ entries'[n] = e /\ leaves'[n] = NoLeaf
      /\ \A i \in DOMAIN entries : entries'[i] = entries[i] /\ leaves'[i] = leaves[i]
  BY <1>1, <1>2
<1>4. InBooks' = InBooks /\ \A i \in InBooks : i \in DOMAIN entries
  BY <1>1, <1>3 DEF InBooks, is_posted
<1> HIDE DEF n
<1>5. Types'
  BY <1>1, <1>3 DEF PostingInv, Types
<1>6. (References /\ Sequenced /\ Serving)'
  BY <1>1, <1>3
  DEF PostingInv, References, Refers, Edits, Posts, Sequenced, Holds, HasNext, Serving,
      Busy, HandlesDrafts
<1>7. EditorInv'
  <2> SUFFICES ASSUME OneEditor, Unposted, DraftsStand, References
               PROVE  Unposted' /\ DraftsStand'
    BY DEF PostingInv, EditorInv, OneEditor, HandlesDrafts
  <2>1. Unposted'
    BY <1>1, <1>3 DEF Unposted, NoLeaf, is_posted
  <2>2. DraftsStand'
    BY <1>1, <1>3 DEF DraftsStand, DraftStands, References, Refers, Edits, Posts, is_posted
  <2>. QED  BY <2>1, <2>2
<1>8. SoloInv'
  <2> SUFFICES ASSUME OnlyPostedReverse, \A q \in Requests : Current(tx[q]), References
               PROVE  OnlyPostedReverse' /\ \A q \in Requests : Current(tx[q])'
    BY <1>1 DEF PostingInv, SoloInv, OneAtATime
  <2>1. OnlyPostedReverse'
    BY <1>1, <1>3 DEF OnlyPostedReverse, References, is_posted
  <2>2. \A q \in Requests : Current(tx[q])'
    BY <1>1, <1>3
    DEF Current, References, Refers, Posts, accepts_postings, IsLocked
  <2>. QED  BY <2>1, <2>2
<1>9. (NumbersGapFree /\ LeavesHold)'
  <2>1. OneEditor' <=> OneEditor
    BY DEF OneEditor, HandlesDrafts
  <2>2. NumbersGapFree'
    BY <1>1, <1>3, <1>4, <2>1 DEF PostingInv, NumbersGapFree
  <2>3. LeavesHold'
    BY <1>3, <1>4, <2>1 DEF PostingInv, LeavesHold
  <2>. QED  BY <2>2, <2>3
<1>10. ReversedOnce'
  <2>1. OneAtATime' <=> OneAtATime
    BY DEF OneAtATime
  <2>2. \A i \in InBooks : entries'[i] = entries[i]
    BY <1>3, <1>4
  <2>3. \A i \in InBooks : {j \in InBooks' : entries'[j].reverses = i}
                            = {j \in InBooks : entries[j].reverses = i}
    BY <1>4, <2>2
  <2>. QED  BY <1>4, <2>1, <2>2, <2>3 DEF PostingInv, ReversedOnce
<1>. QED  BY <1>5, <1>6, <1>7, <1>8, <1>9, <1>10 DEF PostingInv

\* The end of an edit or a deletion.  With one editor the row is still a draft,
\* so no other request, and nothing in the books, depends on it.
LEMMA DraftWriteInv ==
    ASSUME PostingInv, NEW p \in Requests, UNCHANGED serves,
           Edits(tx[p]), Ends(p), UNCHANGED <<sequence, periods, leaves>>,
           NEW e \in Row,
           entries' = [entries EXCEPT ![tx[p].id] = e],
           e.reverses \in {0, entries[tx[p].id].reverses},
           OneEditor => e.status \in {"draft", "deleted"} /\ e.number = 0
    PROVE  PostingInv'
<1> DEFINE n == tx[p].id
<1>1. /\ n \in DOMAIN entries /\ entries \in Seq(Row) /\ entries[n] \in Row
      /\ leaves \in Seq(LeafRow) /\ DOMAIN leaves = DOMAIN entries
      /\ tx[p].pc # "idle" /\ HandlesDrafts(p)
  BY DEF PostingInv, Types, References, Refers, Serving, Busy, Edits
<1>2. /\ entries' \in Seq(Row) /\ Len(entries') = Len(entries)
      /\ DOMAIN entries' = DOMAIN entries
      /\ entries'[n] = e
      /\ \A i \in DOMAIN entries : i # n => entries'[i] = entries[i]
  BY <1>1
<1>3. /\ tx'[p] = Idle
      /\ \A q \in Requests : q # p => tx'[q] = tx[q]
  BY DEF Ends, PostingInv, Types
<1> HIDE DEF n
<1>4. Types'
  BY <1>2, IdleIsFine DEF PostingInv, Types, Ends
<1>5. (References /\ Sequenced /\ Serving)'
  <2>1. References'
    BY <1>1, <1>2, <1>3, IdleIsFine DEF PostingInv, References, Refers, Edits, Posts, n
  <2>2. Sequenced'
    BY <1>3, IdleIsFine DEF PostingInv, Sequenced, Holds, HasNext
  <2>3. Serving'
    BY <1>3, IdleIsFine DEF PostingInv, Serving, Busy, HandlesDrafts, Edits, Posts
  <2>. QED  BY <2>1, <2>2, <2>3
<1>6. ASSUME OneEditor
      PROVE  /\ Unposted' /\ DraftsStand'
             /\ InBooks' = InBooks /\ \A i \in InBooks : i \in DOMAIN entries /\ i # n
  <2>1. Unposted /\ DraftsStand
    BY <1>6 DEF PostingInv, EditorInv
  <2>2. entries[n].status = "draft" /\ e.status \in {"draft", "deleted"}
        /\ e.number = 0 /\ leaves[n] = NoLeaf
    BY <2>1, <1>1, <1>6 DEF DraftsStand, DraftStands, Unposted, is_posted, n
  <2>3. Unposted'
    BY <2>1, <2>2, <1>1, <1>2 DEF Unposted, NoLeaf, is_posted
  <2>4. InBooks' = InBooks /\ \A i \in InBooks : i \in DOMAIN entries /\ i # n
    BY <2>2, <1>1, <1>2 DEF InBooks, is_posted
  <2>5. ASSUME NEW q \in Requests PROVE DraftStands(tx[q])'
    <3>1. CASE q = p
      BY <3>1, <1>3, IdleIsFine DEF DraftStands, Edits, Posts
    <3>2. CASE q # p
      <4>1. ~Edits(tx[q]) /\ ~(Posts(tx[q]) /\ tx[q].id # 0)
        BY <3>2, <1>1, <1>6, OthersLeaveDrafts DEF PostingInv
      <4>2. Posts(tx[q]) => tx[q].entry.reverses \in {0} \cup DOMAIN entries
        BY DEF PostingInv, References, Refers
      <4>. QED  BY <4>1, <4>2, <3>2, <1>2, <1>3, <2>1, <2>2
                DEF DraftsStand, DraftStands, Edits, Posts, is_posted
    <3>. QED  BY <3>1, <3>2
  <2>. QED  BY <2>3, <2>4, <2>5 DEF DraftsStand
<1>7. EditorInv'
  BY <1>6 DEF EditorInv, OneEditor, HandlesDrafts
<1>8. (NumbersGapFree /\ LeavesHold)'
  BY <1>2, <1>6 DEF PostingInv, NumbersGapFree, LeavesHold, OneEditor, HandlesDrafts
<1>9. ASSUME OneAtATime PROVE (OnlyPostedReverse /\ \A q \in Requests : Current(tx[q]))'
  <2>1. OnlyPostedReverse /\ OneEditor
    BY <1>9, SoloIsOneEditor DEF PostingInv, SoloInv
  <2>2. entries[n].status = "draft"
    BY <2>1 DEF PostingInv, EditorInv, DraftsStand, DraftStands, n
  <2>3. OnlyPostedReverse'
    BY <2>1, <2>2, <1>1, <1>2 DEF OnlyPostedReverse, is_posted, n
  <2>4. \A q \in Requests : tx'[q].pc = "idle"
    BY <1>1, <1>3, <1>9, OthersIdle, IdleIsFine DEF PostingInv
  <2>. QED  BY <2>3, <2>4 DEF Current, Posts
<1>10. SoloInv'
  BY <1>9 DEF SoloInv, OneAtATime
<1>11. ReversedOnce'
  <2> SUFFICES ASSUME OneAtATime PROVE ReversedOnce'
    BY DEF ReversedOnce, OneAtATime
  <2>1. InBooks' = InBooks /\ \A i \in InBooks : entries'[i] = entries[i]
    BY <1>2, <1>6, SoloIsOneEditor
  <2>. QED  BY <2>1 DEF PostingInv, ReversedOnce, OneAtATime
<1>. QED  BY <1>4, <1>5, <1>7, <1>8, <1>10, <1>11 DEF PostingInv

\* Both ends of an edit, as instances of the lemma before.
LEMMA CommitDraftInv ==
    ASSUME PostingInv, NEW p \in Requests, UNCHANGED serves,
           commit_update(p) \/ commit_delete(p)
    PROVE  PostingInv'
<1> DEFINE n == tx[p].id
<1>1. /\ Edits(tx[p]) /\ Ends(p) /\ UNCHANGED <<sequence, periods, leaves>>
      /\ n \in DOMAIN entries /\ entries[n] \in Row /\ tx[p].entry \in Row
  BY DEF commit_update, commit_delete, Edits, PostingInv, Types, References, Refers,
         Transaction
<1>2. CASE entries' = entries
  BY <1>1, <1>2, IdleIsFine, OwnStep DEF Ends
<1>3. OneEditor => entries[n].status = "draft" /\ entries[n].number = 0
  BY <1>1 DEF PostingInv, EditorInv, DraftsStand, DraftStands, Unposted, is_posted
<1>4. CASE commit_update(p) /\ entries' # entries
  <2> DEFINE e == [entries[n] EXCEPT !.date = tx[p].entry.date,
                                     !.amount = tx[p].entry.amount]
  <2>1. /\ e \in Row /\ e.status = entries[n].status
        /\ e.number = entries[n].number /\ e.reverses = entries[n].reverses
    BY <1>1 DEF Row
  <2>2. entries' = [entries EXCEPT ![n] = e]
    BY <1>1, <1>4 DEF commit_update
  <2> HIDE DEF e
  <2>. QED  BY <1>1, <1>3, <2>1, <2>2, DraftWriteInv
<1>5. CASE commit_delete(p) /\ entries' # entries
  <2>1. NoEntry \in Row /\ NoEntry.status = "deleted" /\ NoEntry.number = 0
        /\ NoEntry.reverses = 0
    BY DEF NoEntry, Row, Status
  <2>2. entries' = [entries EXCEPT ![n] = NoEntry]
    BY <1>5 DEF commit_delete
  <2>. QED  BY <1>1, <2>1, <2>2, DraftWriteInv
<1>. QED  BY <1>2, <1>4, <1>5

\* What the commit of a posting writes.  n is the row that enters the books: the
\* draft, or a new one, in which case an original may be marked as reversed.
LEMMA CommitPostWrites ==
    ASSUME PostingInv, NEW p \in Requests, commit_post(p),
           ~(NumberTaken(p) \/ (tx[p].id # 0 /\ entries[tx[p].id].status = "deleted"))
    PROVE  \E n \in Nat \ {0} : LET t == tx[p] IN
           /\ n = IF t.id = 0 THEN Len(entries) + 1 ELSE t.id
           /\ entries' \in Seq(Row) /\ leaves' \in Seq(LeafRow)
           /\ Len(entries') = Len(leaves')
           /\ DOMAIN entries' = DOMAIN entries \cup {n}
           /\ t.id = 0 <=> n \notin DOMAIN entries
           /\ entries'[n].status = "posted"
           /\ entries'[n].number = t.entry.number
           /\ t.id = 0 => entries'[n] = t.entry
           /\ t.id # 0 => /\ entries'[n].reverses = entries[n].reverses
                          /\ entries'[n].date = entries[n].date
                          /\ entries'[n].amount = entries[n].amount
           /\ \A i \in DOMAIN entries : i # n =>
                 IF t.id = 0 /\ i = t.entry.reverses
                 THEN entries'[i] = [entries[i] EXCEPT !.status = "reversed"]
                 ELSE entries'[i] = entries[i]
           /\ IF t.id # 0 /\ leaves[n] # NoLeaf THEN leaves'[n] = leaves[n]
              ELSE leaves'[n] \in {NoLeaf, LeafOf(t.entry)}
           /\ \A i \in DOMAIN entries : i # n => leaves'[i] = leaves[i]
           /\ sequence' = t.entry.number + 1
<1> DEFINE t == tx[p]
           e == tx[p].entry
<1>1. /\ entries \in Seq(Row) /\ leaves \in Seq(LeafRow) /\ Len(leaves) = Len(entries)
      /\ t.id \in {0} \cup DOMAIN entries /\ e.reverses \in {0} \cup DOMAIN entries
      /\ e \in Row /\ e.status = "posted" /\ LeafOf(e) \in LeafRow
  BY DEF PostingInv, Types, References, Refers, Posts, Sequenced, HasNext, commit_post,
         Transaction, LeafOf, LeafRow, Row
<1>. NoLeaf \in LeafRow
  BY DEF NoLeaf, LeafRow
<1>2. sequence' = e.number + 1
  BY DEF commit_post, Incremented
<1>3. CASE t.id = 0
  <2> DEFINE n == Len(entries) + 1
             w == Append(entries, e)
  <2>1. /\ n \in Nat \ {0} /\ n \notin DOMAIN entries
        /\ w \in Seq(Row) /\ Len(w) = n /\ DOMAIN w = DOMAIN entries \cup {n}
        /\ w[n] = e /\ \A i \in DOMAIN entries : w[i] = entries[i]
    BY <1>1
  <2>2. /\ leaves' \in Seq(LeafRow) /\ Len(leaves') = n
        /\ leaves'[n] \in {NoLeaf, LeafOf(e)}
        /\ \A i \in DOMAIN entries : leaves'[i] = leaves[i]
    <3>1. Len(leaves) + 1 \notin DOMAIN leaves
      BY <1>1
    <3>2. PICK l \in {NoLeaf, LeafOf(e)} : leaves' = Append(leaves, l)
      BY <1>3, <3>1 DEF commit_post, Leaf
    <3>3. l \in LeafRow
      BY <1>1
    <3>. QED  BY <1>1, <3>2, <3>3
  <2>3. entries' = IF e.reverses = 0 THEN w
                   ELSE [w EXCEPT ![e.reverses].status = "reversed"]
    BY <1>3 DEF commit_post
  <2> HIDE DEF w
  <2>4. CASE e.reverses = 0
    <3>1. e.reverses \notin DOMAIN entries
      BY <2>4, <1>1
    <3>. QED  BY <1>1, <1>2, <1>3, <2>1, <2>2, <2>3, <2>4, <3>1
  <2>5. CASE e.reverses # 0
    <3>1. /\ e.reverses \in DOMAIN entries /\ e.reverses # n
          /\ w[e.reverses] = entries[e.reverses] /\ entries[e.reverses] \in Row
      BY <1>1, <2>1, <2>5
    <3> DEFINE x == [entries[e.reverses] EXCEPT !.status = "reversed"]
    <3>2. x \in Row
      BY <1>1, <3>1 DEF Row, Status
    <3>3. entries' = [w EXCEPT ![e.reverses] = x]
      BY <2>1, <2>3, <2>5, <3>1
    <3> HIDE DEF x
    <3>4. /\ entries' \in Seq(Row) /\ Len(entries') = n
          /\ DOMAIN entries' = DOMAIN entries \cup {n}
          /\ entries'[n] = e
          /\ entries'[e.reverses] = x
          /\ \A i \in DOMAIN entries : i # e.reverses => entries'[i] = entries[i]
      BY <1>1, <2>1, <3>1, <3>2, <3>3
    <3>. QED  BY <1>1, <1>2, <1>3, <2>1, <2>2, <3>4 DEF x
  <2>. QED  BY <2>4, <2>5
<1>4. CASE t.id # 0
  <2> DEFINE n == t.id
  <2>1. n \in DOMAIN entries /\ n \in Nat \ {0} /\ entries[n] \in Row
    BY <1>1, <1>4
  <2>2. PICK x : x = [[entries[n] EXCEPT !.status = e.status]
                          EXCEPT !.number = e.number]
    OBVIOUS
  <2>3. /\ x \in Row /\ x.status = "posted" /\ x.number = e.number
        /\ x.reverses = entries[n].reverses /\ x.date = entries[n].date
        /\ x.amount = entries[n].amount
    BY <1>1, <2>1, <2>2 DEF Row
  <2>4. entries' = [entries EXCEPT ![n].status = e.status, ![n].number = e.number]
    BY <1>4 DEF commit_post
  <2>5. entries' = [entries EXCEPT ![n] = x]
    BY <2>1, <2>2, <2>4
  <2>6. /\ entries' \in Seq(Row) /\ Len(entries') = Len(entries)
        /\ DOMAIN entries' = DOMAIN entries
        /\ entries'[n] = x /\ \A i \in DOMAIN entries : i # n => entries'[i] = entries[i]
    BY <1>1, <2>1, <2>3, <2>5
  <2>7. PICK l \in LeafRow : /\ IF leaves[n] # NoLeaf THEN l = leaves[n]
                                ELSE l \in {NoLeaf, LeafOf(e)}
                             /\ leaves' = [leaves EXCEPT ![n] = l]
    BY <1>1, <1>4, <2>1 DEF commit_post, Leaf
  <2>8. /\ leaves' \in Seq(LeafRow) /\ Len(leaves') = Len(entries)
        /\ leaves'[n] = l /\ \A i \in DOMAIN entries : i # n => leaves'[i] = leaves[i]
    BY <1>1, <2>1, <2>7
  <2>. QED  BY <1>1, <1>2, <1>4, <2>1, <2>3, <2>6, <2>7, <2>8
<1>. QED  BY <1>3, <1>4

\* The commit of a posting keeps the invariant: the row that enters the books
\* was not in them, and takes the first number that is free.
LEMMA CommitPostInv ==
    ASSUME PostingInv, NEW p \in Requests, UNCHANGED serves, commit_post(p)
    PROVE  PostingInv'
<1> DEFINE t == tx[p]
<1>1. t.pc = "flush" /\ Ends(p) /\ UNCHANGED periods
  BY DEF commit_post
<1>2. CASE NumberTaken(p) \/ (t.id # 0 /\ entries[t.id].status = "deleted")
  BY <1>1, <1>2, IdleIsFine, OwnStep DEF commit_post, Ends
<1>3. CASE ~(NumberTaken(p) \/ (t.id # 0 /\ entries[t.id].status = "deleted"))
  <2>1. PICK n \in Nat \ {0} :
           /\ n = IF t.id = 0 THEN Len(entries) + 1 ELSE t.id
           /\ entries' \in Seq(Row) /\ leaves' \in Seq(LeafRow)
           /\ Len(entries') = Len(leaves')
           /\ DOMAIN entries' = DOMAIN entries \cup {n}
           /\ t.id = 0 <=> n \notin DOMAIN entries
           /\ entries'[n].status = "posted"
           /\ entries'[n].number = t.entry.number
           /\ t.id = 0 => entries'[n] = t.entry
           /\ t.id # 0 => /\ entries'[n].reverses = entries[n].reverses
                          /\ entries'[n].date = entries[n].date
                          /\ entries'[n].amount = entries[n].amount
           /\ \A i \in DOMAIN entries : i # n =>
                 IF t.id = 0 /\ i = t.entry.reverses
                 THEN entries'[i] = [entries[i] EXCEPT !.status = "reversed"]
                 ELSE entries'[i] = entries[i]
           /\ IF t.id # 0 /\ leaves[n] # NoLeaf THEN leaves'[n] = leaves[n]
              ELSE leaves'[n] \in {NoLeaf, LeafOf(t.entry)}
           /\ \A i \in DOMAIN entries : i # n => leaves'[i] = leaves[i]
           /\ sequence' = t.entry.number + 1
    BY <1>3, CommitPostWrites
  <2>2. /\ tx'[p] = Idle
        /\ \A q \in Requests : q # p => tx'[q] = tx[q]
    BY <1>1 DEF Ends, PostingInv, Types
  <2>3. /\ t.id \in {0} \cup DOMAIN entries /\ t.entry.reverses \in {0} \cup DOMAIN entries
        /\ t.entry \in Row /\ sequence \in Nat
        /\ t.entry.number = IF sequence = 0 THEN 1 ELSE sequence
        /\ \A i \in DOMAIN entries : i \in Nat \ {0} /\ entries[i] \in Row
        /\ t.pc # "idle" /\ Posts(t)
    BY <1>1 DEF PostingInv, Types, References, Refers, Posts, Sequenced, HasNext, Transaction
  <2> HIDE DEF t
  \* What becomes of the rows that were there.
  <2>4. \A i \in DOMAIN entries : i # n =>
            /\ entries'[i].number = entries[i].number
            /\ entries'[i].date = entries[i].date
            /\ entries'[i].amount = entries[i].amount
            /\ entries'[i].reverses = entries[i].reverses
            /\ entries'[i].status =
                  IF t.id = 0 /\ i = t.entry.reverses THEN "reversed" ELSE entries[i].status
    <3> SUFFICES ASSUME NEW i \in DOMAIN entries, i # n
                 PROVE  /\ entries'[i].number = entries[i].number
                        /\ entries'[i].date = entries[i].date
                        /\ entries'[i].amount = entries[i].amount
                        /\ entries'[i].reverses = entries[i].reverses
                        /\ entries'[i].status =
                              IF t.id = 0 /\ i = t.entry.reverses THEN "reversed"
                              ELSE entries[i].status
      OBVIOUS
    <3>1. CASE t.id = 0 /\ i = t.entry.reverses
      <4>1. entries'[i] = [entries[i] EXCEPT !.status = "reversed"] /\ entries[i] \in Row
        BY <3>1, <2>1, <2>3
      <4>. QED  BY <3>1, <4>1 DEF Row
    <3>2. CASE ~(t.id = 0 /\ i = t.entry.reverses)
      BY <3>2, <2>1
    <3>. QED  BY <3>1, <3>2
  <2>5. Types'
    <3>1. sequence' \in Nat
      BY <2>1, <2>3
    <3>. QED  BY <1>1, <2>1, <3>1, IdleIsFine DEF PostingInv, Types, Ends
  <2>6. References'
    <3>1. \A i \in DOMAIN entries' : entries'[i].reverses \in {0} \cup DOMAIN entries'
      BY <2>1, <2>3, <2>4 DEF PostingInv, References
    <3>2. \A q \in Requests : Refers(tx[q])'
      BY <2>1, <2>2, IdleIsFine DEF PostingInv, References, Refers, Edits, Posts
    <3>. QED  BY <3>1, <3>2 DEF References
  <2>7. Sequenced'
    BY <1>1, <2>2, IdleIsFine DEF PostingInv, Sequenced, Holds, HasNext, t
  <2>8. Serving'
    BY <2>2, IdleIsFine DEF PostingInv, Serving, Busy, HandlesDrafts, Edits, Posts
  <2>9. ASSUME OneEditor
        PROVE  /\ n \notin InBooks /\ InBooks' = InBooks \cup {n}
               /\ InBooks \subseteq DOMAIN entries
               /\ t.id # 0 => /\ leaves[n] = NoLeaf /\ entries[n].date = t.entry.date
                              /\ entries[n].amount = t.entry.amount
                              /\ entries[n].status = "draft"
               /\ t.id = 0 /\ t.entry.reverses # 0 => t.entry.reverses \in InBooks
    <3>1. Unposted /\ DraftStands(t)
      BY <2>9 DEF PostingInv, EditorInv, DraftsStand, t
    <3>2. t.id = 0 /\ t.entry.reverses # 0 => t.entry.reverses \in InBooks
      BY <3>1, <2>3 DEF DraftStands, InBooks
    <3>3. t.id # 0 => /\ leaves[n] = NoLeaf /\ entries[n].date = t.entry.date
                      /\ entries[n].amount = t.entry.amount
                      /\ entries[n].status = "draft"
      BY <3>1, <2>1, <2>3 DEF DraftStands, Unposted, is_posted
    <3>4. n \notin InBooks
      BY <3>3, <2>1 DEF InBooks, is_posted
    <3>5. \A i \in DOMAIN entries : i # n => (is_posted(entries'[i]) <=> is_posted(entries[i]))
      <4> SUFFICES ASSUME NEW i \in DOMAIN entries, i # n
                   PROVE  is_posted(entries'[i]) <=> is_posted(entries[i])
        OBVIOUS
      <4>1. CASE t.id = 0 /\ i = t.entry.reverses
        <5>1. is_posted(entries[i])
          BY <4>1, <2>3, <3>2 DEF InBooks
        <5>. QED  BY <4>1, <5>1, <2>4 DEF is_posted
      <4>2. CASE ~(t.id = 0 /\ i = t.entry.reverses)
        BY <4>2, <2>1
      <4>. QED  BY <4>1, <4>2
    <3>6. InBooks' = InBooks \cup {n}
      BY <3>5, <2>1 DEF InBooks, is_posted
    <3>. QED  BY <3>2, <3>3, <3>4, <3>6 DEF InBooks
  <2>10. EditorInv'
    <3> SUFFICES ASSUME OneEditor PROVE Unposted' /\ DraftsStand'
      BY DEF EditorInv, OneEditor, HandlesDrafts
    <3>1. Unposted /\ DraftsStand
      BY DEF PostingInv, EditorInv
    <3>2. Unposted'
      <4> SUFFICES ASSUME NEW i \in DOMAIN entries', ~is_posted(entries'[i])
                   PROVE  entries'[i].number = 0 /\ leaves'[i] = NoLeaf
        BY DEF Unposted, NoLeaf, is_posted
      <4>1. i # n /\ i \in DOMAIN entries
        BY <2>1 DEF is_posted
      <4>2. ~is_posted(entries[i])
        BY <4>1, <2>4 DEF is_posted
      <4>. QED  BY <4>1, <4>2, <3>1, <2>1, <2>4 DEF Unposted
    <3>3. ASSUME NEW q \in Requests PROVE DraftStands(tx[q])'
      <4>1. CASE q = p
        BY <4>1, <2>2, IdleIsFine DEF DraftStands, Edits, Posts
      <4>2. CASE q # p
        <5>1. tx'[q] = tx[q] /\ DraftStands(tx[q]) /\ Refers(tx[q])
          BY <4>2, <2>2, <3>1 DEF DraftsStand, PostingInv, References
        <5>2. t.id # 0 => ~Edits(tx[q]) /\ ~(Posts(tx[q]) /\ tx[q].id # 0)
          <6>1. t.id # 0 => HandlesDrafts(p)
            BY <2>3 DEF PostingInv, Serving, Busy, t
          <6>. QED  BY <6>1, <4>2, OthersLeaveDrafts DEF PostingInv
        <5>3. \A i \in DOMAIN entries : is_posted(entries[i]) => is_posted(entries'[i])
          BY <2>1, <2>4 DEF is_posted
        <5>4. ASSUME t.id = 0, NEW i \in DOMAIN entries, entries[i].status = "draft"
              PROVE  entries'[i] = entries[i]
          <6>1. i \notin InBooks /\ i \in Nat \ {0}
            BY <5>4, <2>3 DEF InBooks, is_posted
          <6>2. i # t.entry.reverses
            BY <5>4, <6>1, <2>9
          <6>. QED  BY <5>4, <6>2, <2>1
        <5>5. Edits(tx[q]) => entries'[tx[q].id].status = "draft"
          BY <5>1, <5>2, <5>4 DEF DraftStands, Refers
        <5>6. Posts(tx[q]) /\ tx[q].id # 0 =>
                  /\ entries'[tx[q].id].status = "draft"
                  /\ entries'[tx[q].id].date = tx[q].entry.date
                  /\ entries'[tx[q].id].amount = tx[q].entry.amount
          BY <5>1, <5>2, <5>4 DEF DraftStands, Refers
        <5>7. Posts(tx[q]) /\ tx[q].id = 0 /\ tx[q].entry.reverses # 0 =>
                  is_posted(entries'[tx[q].entry.reverses])
          BY <5>1, <5>3 DEF DraftStands, Refers
        <5>. QED  BY <5>1, <5>5, <5>6, <5>7 DEF DraftStands, Edits, Posts, is_posted
      <4>. QED  BY <4>1, <4>2
    <3>. QED  BY <3>2, <3>3 DEF DraftsStand
  <2>11. NumbersGapFree'
    <3> SUFFICES ASSUME OneEditor PROVE NumbersGapFree'
      BY DEF NumbersGapFree, OneEditor, HandlesDrafts
    <3> DEFINE k == t.entry.number
    <3>1. /\ {entries[i].number : i \in InBooks} = 1 .. sequence - 1
          /\ \A i, j \in InBooks : entries[i].number = entries[j].number => i = j
      BY DEF PostingInv, NumbersGapFree
    <3>2. /\ k \in Nat /\ k \notin 1 .. sequence - 1
          /\ 1 .. sequence' - 1 = (1 .. sequence - 1) \cup {k}
      BY <2>1, <2>3
    <3>3. \A i \in InBooks : entries'[i].number = entries[i].number
      BY <2>4, <2>9
    <3>4. entries'[n].number = k
      BY <2>1
    <3>5. \A i \in InBooks : entries[i].number # k
      BY <3>1, <3>2
    <3>6. {entries'[i].number : i \in InBooks'} = 1 .. sequence' - 1
      BY <2>9, <3>1, <3>2, <3>3, <3>4
    <3>7. \A i, j \in InBooks' : entries'[i].number = entries'[j].number => i = j
      BY <2>9, <3>1, <3>3, <3>4, <3>5
    <3>. QED  BY <3>6, <3>7 DEF NumbersGapFree
  <2>12. LeavesHold'
    <3> SUFFICES ASSUME OneEditor, NEW i \in InBooks', leaves'[i] # NoLeaf
                 PROVE  leaves'[i] = LeafOf(entries'[i])
      BY DEF LeavesHold, OneEditor, HandlesDrafts, LeafOf, NoLeaf
    <3>1. CASE i = n
      BY <3>1, <2>1, <2>9 DEF LeafOf
    <3>2. CASE i # n
      <4>1. i \in InBooks /\ i \in DOMAIN entries
        BY <3>2, <2>9
      <4>2. leaves'[i] = leaves[i] /\ leaves[i] = LeafOf(entries[i])
        BY <3>2, <4>1, <2>1 DEF PostingInv, LeavesHold
      <4>3. LeafOf(entries'[i]) = LeafOf(entries[i])
        BY <3>2, <4>1, <2>4 DEF LeafOf
      <4>. QED  BY <4>2, <4>3
    <3>. QED  BY <3>1, <3>2
  \* With requests one at a time the original was posted and not yet reversed.
  <2>13. ASSUME OneAtATime
         PROVE  /\ OnlyPostedReverse
                /\ t.id # 0 => entries'[n].reverses = 0
                /\ t.id = 0 /\ t.entry.reverses # 0 =>
                      /\ entries[t.entry.reverses].status = "posted"
                      /\ t.entry.amount = -entries[t.entry.reverses].amount
    <3>1. OnlyPostedReverse /\ Current(t)
      BY <2>13 DEF PostingInv, SoloInv, t
    <3>2. t.id # 0 => entries[n].status = "draft" /\ n \in DOMAIN entries
      BY <2>1, <2>9, <2>13, SoloIsOneEditor
    <3>. QED  BY <3>1, <3>2, <2>1, <2>3 DEF Current, OnlyPostedReverse, is_posted
  <2>14. SoloInv'
    <3> SUFFICES ASSUME OneAtATime
                 PROVE  OnlyPostedReverse' /\ \A q \in Requests : Current(tx[q])'
      BY DEF SoloInv, OneAtATime
    <3>1. \A q \in Requests : tx'[q].pc = "idle"
      BY <2>2, <2>3, OthersIdle, IdleIsFine DEF PostingInv, t
    <3>2. \A i \in DOMAIN entries : is_posted(entries[i]) => is_posted(entries'[i])
      BY <2>1, <2>4 DEF is_posted
    <3>3. ASSUME NEW i \in DOMAIN entries'
          PROVE  /\ ~is_posted(entries'[i]) => entries'[i].reverses = 0
                 /\ entries'[i].reverses # 0 => is_posted(entries'[entries'[i].reverses])
      <4>1. CASE i = n
        <5>1. is_posted(entries'[n])
          BY <2>1 DEF is_posted
        <5>2. CASE t.id # 0
          BY <4>1, <5>1, <5>2, <2>13
        <5>3. CASE t.id = 0
          <6>1. entries'[n].reverses = t.entry.reverses
            BY <5>3, <2>1
          <6>. QED  BY <4>1, <5>1, <5>3, <6>1, <2>3, <2>13, <3>2 DEF is_posted
        <5>. QED  BY <5>2, <5>3
      <4>2. CASE i # n
        <5>1. i \in DOMAIN entries /\ entries'[i].reverses = entries[i].reverses
              /\ (is_posted(entries[i]) => is_posted(entries'[i]))
          BY <4>2, <2>1, <2>4, <3>2
        <5>2. entries[i].reverses \in {0} \cup DOMAIN entries
          BY <5>1 DEF PostingInv, References
        <5>. QED  BY <5>1, <5>2, <2>13, <3>2 DEF OnlyPostedReverse
      <4>. QED  BY <4>1, <4>2
    <3>. QED  BY <3>1, <3>3 DEF OnlyPostedReverse, Current, Posts, is_posted
  <2>15. ReversedOnce'
    <3> SUFFICES ASSUME OneAtATime, NEW i \in InBooks'
                 PROVE  LET R == {j \in InBooks' : entries'[j].reverses = i}
                        IN  /\ entries'[i].status = "posted" => R = {}
                            /\ entries'[i].status = "reversed" =>
                                  \E j \in R : /\ R = {j}
                                               /\ entries'[i].amount + entries'[j].amount = 0
      BY DEF ReversedOnce, OneAtATime
    <3> DEFINE S == {j \in InBooks' : entries'[j].reverses = i}
               R == {j \in InBooks : entries[j].reverses = i}
    <3>1. /\ n \notin InBooks /\ InBooks' = InBooks \cup {n}
          /\ InBooks \subseteq DOMAIN entries
      BY <2>9, SoloIsOneEditor
    <3>2. \A j \in InBooks : entries'[j].reverses = entries[j].reverses
      BY <3>1, <2>4
    <3>3. CASE i = n
      <4>1. S = {}
        <5>1. \A j \in InBooks : entries[j].reverses # n
          <6> SUFFICES ASSUME NEW j \in InBooks, entries[j].reverses = n PROVE FALSE
            OBVIOUS
          <6>1. is_posted(entries[n]) /\ n \in DOMAIN entries
            BY <2>1, <2>13, <3>1 DEF OnlyPostedReverse, PostingInv, References
          <6>. QED  BY <6>1, <3>1 DEF InBooks
        <5>2. entries'[n].reverses # n
          BY <2>1, <2>3, <2>13
        <5>. QED  BY <5>1, <5>2, <3>1, <3>2, <3>3
      <4>. QED  BY <4>1, <3>3, <2>1
    <3>4. CASE i # n /\ t.id = 0 /\ t.entry.reverses = i
      <4>1. i \in InBooks /\ entries[i].status = "posted"
        BY <3>1, <3>4, <2>3, <2>13
      <4>2. R = {}
        BY <4>1 DEF PostingInv, ReversedOnce
      <4>3. entries'[n].reverses = i /\ entries'[n].amount = -entries[i].amount
        <5>1. entries'[n] = t.entry /\ t.entry.reverses = i /\ i # 0
          BY <3>4, <4>1, <2>1, <2>3, <3>1
        <5>. QED  BY <5>1, <3>4, <2>13
      <4>4. S = {n}
        BY <4>2, <4>3, <3>1, <3>2
      <4>5. entries'[i].status = "reversed" /\ entries'[i].amount = entries[i].amount
            /\ entries[i].amount \in Int
        BY <4>1, <3>1, <3>4, <2>3, <2>4 DEF Row
      <4>. QED  BY <4>3, <4>4, <4>5
    <3>5. CASE i # n /\ ~(t.id = 0 /\ t.entry.reverses = i)
      <4>1. i \in InBooks /\ i \in DOMAIN entries /\ i # 0
        BY <3>1, <3>5, <2>3
      <4>2. entries'[n].reverses # i
        BY <4>1, <3>5, <2>1, <2>13
      <4>3. S = R
        BY <4>2, <3>1, <3>2
      <4>4. entries'[i].status = entries[i].status
            /\ \A j \in InBooks : entries'[j].amount = entries[j].amount
        BY <4>1, <3>1, <3>5, <2>4
      <4>. QED  BY <4>1, <4>3, <4>4 DEF PostingInv, ReversedOnce
    <3>. QED  BY <3>3, <3>4, <3>5
  <2>. QED  BY <2>5, <2>6, <2>7, <2>8, <2>10, <2>11, <2>12, <2>14, <2>15 DEF PostingInv
<1>. QED  BY <1>2, <1>3

\* The commit of a closing or a reopening: with requests one at a time, nobody
\* is left who relies on the period.
LEMMA CommitPeriodInv ==
    ASSUME PostingInv, NEW p \in Requests, UNCHANGED serves, commit_period(p)
    PROVE  PostingInv'
<1>1. /\ tx[p].pc = "period_status" /\ Ends(p) /\ UNCHANGED <<entries, sequence, leaves>>
      /\ periods' \in [Periods -> {"open", "closed", "locked"}]
  BY DEF commit_period, PostingInv, Types, References, Refers, Transaction
<1>2. tx'[p] = Idle /\ \A q \in Requests : q # p => tx'[q] = tx[q]
  BY <1>1 DEF Ends, PostingInv, Types
<1>3. Types'
  BY <1>1, IdleIsFine DEF PostingInv, Types, Ends
<1>4. (References /\ Sequenced /\ Serving)'
  <2>1. References'
    BY <1>1, <1>2, IdleIsFine DEF PostingInv, References, Refers, Edits, Posts
  <2>2. Sequenced'
    BY <1>1, <1>2, IdleIsFine DEF PostingInv, Sequenced, Holds, HasNext
  <2>3. Serving'
    BY <1>2, IdleIsFine DEF PostingInv, Serving, Busy, HandlesDrafts, Edits, Posts
  <2>. QED  BY <2>1, <2>2, <2>3
<1>5. EditorInv'
  BY <1>1, <1>2, IdleIsFine
  DEF PostingInv, EditorInv, OneEditor, HandlesDrafts, Unposted, DraftsStand, DraftStands,
      Edits, Posts
<1>6. SoloInv'
  <2> SUFFICES ASSUME OneAtATime
               PROVE  OnlyPostedReverse' /\ \A q \in Requests : Current(tx[q])'
    BY DEF SoloInv, OneAtATime
  <2>1. \A q \in Requests : tx'[q].pc = "idle"
    BY <1>1, <1>2, OthersIdle, IdleIsFine DEF PostingInv
  <2>2. OnlyPostedReverse'
    BY <1>1 DEF PostingInv, SoloInv, OnlyPostedReverse
  <2>. QED  BY <2>1, <2>2 DEF Current, Posts
<1>7. (NumbersGapFree /\ LeavesHold /\ ReversedOnce)'
  BY <1>1 DEF PostingInv, NumbersGapFree, LeavesHold, ReversedOnce, InBooks, OneEditor,
              HandlesDrafts, OneAtATime
<1>. QED  BY <1>3, <1>4, <1>5, <1>6, <1>7 DEF PostingInv

----------------------------------------------------------------------------
(* Theorems.                                                               *)

\* Every step of every request keeps the invariant.
LEMMA PostingNextInv == PostingInv /\ [PostingNext]_postingVars => PostingInv'
<1> SUFFICES ASSUME PostingInv, [PostingNext]_postingVars PROVE PostingInv'
  OBVIOUS
<1>1. CASE UNCHANGED postingVars
  <2>1. Types'
    BY <1>1 DEF postingVars, PostingInv, Types
  <2>2. (References /\ Sequenced)'
    BY <1>1 DEF postingVars, PostingInv, References, Refers, Sequenced, Holds, HasNext
  <2>3. Serving'
    BY <1>1 DEF postingVars, PostingInv, Serving, Busy, HandlesDrafts, Edits, Posts
  <2>4. EditorInv'
    BY <1>1 DEF postingVars, PostingInv, EditorInv, OneEditor, HandlesDrafts, Unposted, DraftsStand,
                DraftStands, Edits, Posts
  <2>5. SoloInv'
    BY <1>1 DEF postingVars, PostingInv, SoloInv, OneAtATime, OnlyPostedReverse, Current,
                accepts_postings, IsLocked
  <2>6. (NumbersGapFree /\ LeavesHold /\ ReversedOnce)'
    BY <1>1 DEF postingVars, PostingInv, NumbersGapFree, LeavesHold, ReversedOnce, InBooks,
                is_posted, OneEditor, HandlesDrafts, OneAtATime
  <2>. QED  BY <2>1, <2>2, <2>3, <2>4, <2>5, <2>6 DEF PostingInv
<1>2. ASSUME NEW p \in Requests, UNCHANGED serves,
             \/ create_entry(p) \/ update_entry(p) \/ commit_update(p)
             \/ delete_draft(p) \/ commit_delete(p)
             \/ post_entry(p) \/ create_posted(p) \/ reverse_entry(p)
             \/ recheck_period(p) \/ next_number(p) \/ insert_sequence(p)
             \/ commit_post(p)
             \/ close_period(p) \/ reopen_period(p) \/ commit_period(p)
             \/ rollback(p)
      PROVE  PostingInv'
  BY <1>2, CreateInv, LoadInv, CommitDraftInv, DocumentInv, RecheckInv, NumberInv,
     CommitPostInv, PeriodInv, CommitPeriodInv, RollbackInv
<1>. QED  BY <1>1, <1>2 DEF PostingNext, Step

\* The inductive invariant holds in every reachable state.
THEOREM PostingInvariance == PostingSpec => []PostingInv
  BY PostingInitInv, PostingNextInv, PTL DEF PostingSpec

\* However many requests post and reverse documents at once, while at most one
\* of them handles drafts, the entries in the books are numbered 1, 2, ... up to
\* the sequence, each number once: next_number()'s row lock suffices.
THEOREM BooksAreGapFree == PostingSpec => []NumbersGapFree
<1>1. PostingInv => NumbersGapFree
  BY DEF PostingInv
<1>. QED  BY <1>1, PostingInvariance, PTL

\* Under the same condition a leaf that record_leaf() wrote with a posting commits
\* to an entry of the books, as the books have it, now and later.  It does not
\* say that an entry has one: record_leaf() may fail or be switched off.
THEOREM LeavesAreTrue == PostingSpec => []LeafMatchesEntry
<1>1. PostingInv => LeafMatchesEntry
  BY DEF PostingInv, Types, EditorInv, Unposted, InBooks, LeavesHold, LeafMatchesEntry
<1>. QED  BY <1>1, PostingInvariance, PTL

\* With requests one at a time, an entry marked reversed has exactly one
\* reversal in the books, of the opposite amount, and any other entry none.
THEOREM ReversalsCancel == PostingSpec => []ReversedOnce
<1>1. PostingInv => ReversedOnce
  BY DEF PostingInv
<1>. QED  BY <1>1, PostingInvariance, PTL

\* What HistoryStands says of one step.
StepStands ==
    OneAtATime =>
        /\ \A i \in InBooks :
            entries'[i] \in {entries[i], [entries[i] EXCEPT !.status = "reversed"]}
        /\ \A i \in DOMAIN entries' :
            is_posted(entries'[i]) /\ (i \in DOMAIN entries => i \notin InBooks) =>
                accepts_postings(entries'[i].date)
        /\ \A d \in Periods : periods[d] = "locked" => periods'[d] = "locked"

\* Steps that write no entry and no period.
LEMMA QuietStands ==
    ASSUME UNCHANGED <<entries, periods>>
    PROVE  StepStands
  BY DEF StepStands, InBooks, accepts_postings

LEMMA StepsStand == PostingInv /\ [PostingNext]_postingVars => StepStands
<1> SUFFICES ASSUME PostingInv, [PostingNext]_postingVars, OneAtATime PROVE StepStands
  BY DEF StepStands
<1>0. OneEditor
  BY SoloIsOneEditor
<1>1. CASE UNCHANGED postingVars
  BY <1>1, QuietStands DEF postingVars
<1>2. ASSUME NEW p \in Requests, create_entry(p) PROVE StepStands
  <2>1. PICK d \in Periods, a \in Amounts : entries' = Append(entries, Draft(d, a, 0))
    BY <1>2 DEF create_entry
  <2>2. Draft(d, a, 0).status = "draft" /\ Draft(d, a, 0) \in Row
    BY PostingBounds DEF Draft, Row, Status, Periods, Amounts
  <2> DEFINE e == Draft(d, a, 0)
             n == Len(entries) + 1
  <2> HIDE DEF e
  <2>3. /\ DOMAIN entries' = DOMAIN entries \cup {n}
        /\ entries'[n] = e /\ \A i \in DOMAIN entries : entries'[i] = entries[i]
    BY <2>1, <2>2 DEF PostingInv, Types, e
  <2>4. UNCHANGED periods
    BY <1>2 DEF create_entry
  <2>. QED  BY <2>2, <2>3, <2>4 DEF StepStands, InBooks, is_posted, e
<1>3. ASSUME NEW p \in Requests, commit_update(p) \/ commit_delete(p) PROVE StepStands
  <2> DEFINE n == tx[p].id
  <2>1. /\ n \in DOMAIN entries /\ entries[n].status = "draft" /\ entries[n] \in Row
        /\ tx[p].entry \in Row
    BY <1>0, <1>3
    DEF commit_update, commit_delete, PostingInv, References, Refers, Edits, EditorInv,
        DraftsStand, DraftStands, Types, Transaction
  <2>2. PICK e \in Row : /\ entries' = [entries EXCEPT ![n] = e]
                         /\ e.status \in {"draft", "deleted"}
    <3>1. CASE commit_update(p)
      <4> DEFINE e == [entries[n] EXCEPT !.date = tx[p].entry.date,
                                         !.amount = tx[p].entry.amount]
      <4>1. e \in Row /\ e.status = "draft"
        BY <2>1 DEF Row
      <4>2. entries' = [entries EXCEPT ![n] = e]
        BY <2>1, <3>1 DEF commit_update
      <4> HIDE DEF e
      <4>. QED  BY <4>1, <4>2
    <3>2. CASE commit_delete(p)
      <4>1. NoEntry \in Row /\ NoEntry.status = "deleted"
        BY DEF NoEntry, Row, Status
      <4>2. entries' = entries \/ entries' = [entries EXCEPT ![n] = NoEntry]
        BY <3>2 DEF commit_delete
      <4>3. entries = [entries EXCEPT ![n] = entries[n]]
        BY <2>1 DEF PostingInv, Types
      <4>. QED  BY <2>1, <4>1, <4>2, <4>3
    <3>. QED  BY <1>3, <3>1, <3>2
  <2>3. /\ DOMAIN entries' = DOMAIN entries
        /\ entries'[n] = e /\ \A i \in DOMAIN entries : i # n => entries'[i] = entries[i]
    BY <2>1, <2>2
  <2>4. UNCHANGED periods
    BY <1>3 DEF commit_update, commit_delete
  <2>. QED  BY <2>1, <2>2, <2>3, <2>4 DEF StepStands, InBooks, is_posted
<1>4. ASSUME NEW p \in Requests, commit_post(p) PROVE StepStands
  <2> DEFINE t == tx[p]
  <2>1. UNCHANGED periods /\ t.pc = "flush"
    BY <1>4 DEF commit_post
  <2>2. CASE NumberTaken(p) \/ (t.id # 0 /\ entries[t.id].status = "deleted")
    BY <1>4, <2>1, <2>2, QuietStands DEF commit_post
  <2>3. CASE ~(NumberTaken(p) \/ (t.id # 0 /\ entries[t.id].status = "deleted"))
    <3>1. PICK n \in Nat \ {0} :
             /\ n = IF t.id = 0 THEN Len(entries) + 1 ELSE t.id
             /\ DOMAIN entries' = DOMAIN entries \cup {n}
             /\ t.id = 0 <=> n \notin DOMAIN entries
             /\ t.id = 0 => entries'[n] = t.entry
             /\ t.id # 0 => entries'[n].date = entries[n].date
             /\ \A i \in DOMAIN entries : i # n =>
                   IF t.id = 0 /\ i = t.entry.reverses
                   THEN entries'[i] = [entries[i] EXCEPT !.status = "reversed"]
                   ELSE entries'[i] = entries[i]
      BY <1>4, <2>3, CommitPostWrites
    <3>2. DraftStands(t) /\ Current(t) /\ Posts(t)
      BY <1>0, <2>1 DEF PostingInv, EditorInv, DraftsStand, SoloInv, Posts
    <3>3. t.id # 0 => entries[n].status = "draft" /\ entries[n].date = t.entry.date
      BY <3>1, <3>2 DEF DraftStands
    <3>4. accepts_postings(t.entry.date) /\ entries'[n].date = t.entry.date
      BY <2>1, <3>1, <3>2, <3>3 DEF Current
    <3>5. t.id = 0 /\ t.entry.reverses # 0 => t.entry.reverses \in InBooks
      BY <3>2 DEF DraftStands, InBooks, PostingInv, References, Refers
    <3>6. n \notin InBooks
      BY <3>1, <3>3 DEF InBooks, is_posted
    <3>7. \A i \in InBooks :
              entries'[i] \in {entries[i], [entries[i] EXCEPT !.status = "reversed"]}
      BY <3>1, <3>6 DEF InBooks
    <3>8. ASSUME NEW i \in DOMAIN entries', is_posted(entries'[i]),
                 i \in DOMAIN entries => i \notin InBooks
          PROVE  accepts_postings(entries'[i].date)
      <4>1. CASE i = n
        BY <4>1, <3>4
      <4>2. CASE i # n
        <5>1. i \in DOMAIN entries /\ ~is_posted(entries[i]) /\ i # 0
          BY <4>2, <3>1, <3>8 DEF InBooks, PostingInv, Types
        <5>2. entries'[i] = entries[i]
          BY <4>2, <5>1, <3>1, <3>5 DEF InBooks
        <5>. QED  BY <5>1, <5>2, <3>8
      <4>. QED  BY <4>1, <4>2
    <3>. QED  BY <2>1, <3>7, <3>8 DEF StepStands
  <2>. QED  BY <2>2, <2>3
<1>5. ASSUME NEW p \in Requests, commit_period(p) PROVE StepStands
  <2>1. /\ UNCHANGED entries /\ tx[p].period \in Periods /\ ~IsLocked(tx[p].period)
        /\ periods' = [periods EXCEPT ![tx[p].period] =
                           IF tx[p].to = "same" THEN periods[tx[p].period] ELSE tx[p].to]
    BY <1>5 DEF commit_period, PostingInv, References, Refers, SoloInv, Current
  <2>. QED  BY <2>1 DEF StepStands, InBooks, IsLocked, PostingInv, Types
<1>6. ASSUME NEW p \in Requests,
             \/ update_entry(p) \/ delete_draft(p) \/ post_entry(p) \/ create_posted(p)
             \/ reverse_entry(p) \/ recheck_period(p) \/ next_number(p)
             \/ insert_sequence(p) \/ close_period(p) \/ reopen_period(p) \/ rollback(p)
      PROVE  StepStands
  BY <1>6, QuietStands
  DEF update_entry, delete_draft, post_entry, create_posted, reverse_entry,
      recheck_period, next_number, insert_sequence, close_period, reopen_period, rollback
<1>. QED  BY <1>1, <1>2, <1>3, <1>4, <1>5, <1>6 DEF PostingNext, Step

\* With requests one at a time: an entry in the books changes in no step, except
\* that it is marked as reversed; what enters the books has a date in a period
\* that is open at that moment; and a locked period stays locked.
THEOREM BooksStand == PostingSpec => HistoryStands
<1>1. PostingInv /\ [PostingNext]_postingVars => StepStands
  BY StepsStand
<1>2. HistoryStands <=> [][StepStands]_postingVars
  BY DEF HistoryStands, StepStands
<1>. QED  BY <1>1, <1>2, PostingInvariance, PTL DEF PostingSpec
=============================================================================
