------------------------------- MODULE Merkle ------------------------------
(***************************************************************************)
(* The Merkle tree of backend/app/modules/attestation/merkle.py and the    *)
(* life of one inclusion proof: inclusion_proof() walks down to a leaf,    *)
(* verify_inclusion() folds a claimed leaf back up.                        *)
(*                                                                         *)
(* Hashes are symbolic and free of collisions: a leaf digest is <<n>>, the *)
(* digest of a node the pair of its children's, so no leaf is a node (the  *)
(* domain separation of the 0x00 and 0x01 prefixes).  Positions count from *)
(* 1.  Malformed digests and steps, which verify_inclusion() refuses       *)
(* before it folds, are left out.                                          *)
(*                                                                         *)
(* An operator named Mut_... is a plausible mistake in the operator after  *)
(* it; nothing here uses it.                                               *)
(***************************************************************************)
EXTENDS Integers, Sequences, SequencesExt

CONSTANTS
    MaxDistinct,    \* longest list of distinct leaves
    MaxRepeated     \* longest list over two leaf values

VARIABLES
    leaves, index,      \* the sealed batch and the leaf to prove
    working, position,  \* where inclusion_proof() has come to
    path,               \* the siblings so far, then the path to be folded
    claimed,            \* the leaf presented to verify_inclusion()
    acc,                \* what it has folded the claim into
    pc

vars == <<leaves, index, working, position, path, claimed, acc, pc>>

Leaf(n) == <<n>>
node_hash(left, right) == <<left, right>>

Distinct(n) == [i \in 1 .. n |-> Leaf(i)]
Lists == {Distinct(n) : n \in 1 .. MaxDistinct}
             \cup UNION {[1 .. n -> {Leaf(1), Leaf(2)}] : n \in 1 .. MaxRepeated}

----------------------------------------------------------------------------
bit_length(n) == CHOOSE k \in 0 .. n : n < 2^k /\ \A j \in 0 .. k - 1 : 2^j <= n

Mut_Halves(n) == n \div 2
largest_power_of_two_below(n) == 2^(bit_length(n - 1) - 1)

Take(s, k) == SubSeq(s, 1, k)
Drop(s, k) == SubSeq(s, k + 1, Len(s))

\* One level of a pairwise fold.
Pairs(level) == [i \in 1 .. Len(level) \div 2 |->
                     node_hash(level[2 * i - 1], level[2 * i])]

RECURSIVE perfect_root(_)
perfect_root(level) == IF Len(level) = 1 THEN level[1]
                       ELSE perfect_root(Pairs(level))

\* The other well-known tree: a pairwise fold that doubles an odd last node.
RECURSIVE Mut_DoublesLast(_)
Mut_DoublesLast(s) ==
    IF Len(s) = 1 THEN s[1]
    ELSE Mut_DoublesLast(Pairs(IF Len(s) % 2 = 0 THEN s
                               ELSE Append(s, s[Len(s)])))

RECURSIVE merkle_root(_)
merkle_root(s) ==
    IF Len(s) = 1 THEN s[1]
    ELSE LET split == largest_power_of_two_below(Len(s))
         IN  node_hash(perfect_root(Take(s, split)), merkle_root(Drop(s, split)))

\* One step of verify_inclusion().
Folded(a, step) == IF step.side = "left" THEN node_hash(step.hash, a)
                   ELSE node_hash(a, step.hash)

----------------------------------------------------------------------------
Init ==
    /\ leaves \in Lists
    /\ index \in 1 .. Len(leaves)
    /\ working = leaves
    /\ position = index
    /\ path = <<>>
    /\ claimed = Leaf(0)
    /\ acc = Leaf(0)
    /\ pc = "descend"

Split == largest_power_of_two_below(Len(working))

SiblingSide(left) == IF left THEN "right" ELSE "left"

descend ==
    /\ pc = "descend"
    /\ Len(working) > 1
    /\ LET left  == position <= Split
           lower == Take(working, Split)
           upper == Drop(working, Split)
       IN  /\ path' = Append(path, [side |-> SiblingSide(left),
                                    hash |-> merkle_root(IF left THEN upper
                                                         ELSE lower)])
           /\ working' = IF left THEN lower ELSE upper
           /\ position' = IF left THEN position ELSE position - Split
    /\ UNCHANGED <<leaves, index, claimed, acc, pc>>

Mut_OutermostFirst(p) == p
InnermostFirst(p) == Reverse(p)

\* The path is turned round, and some leaf of the batch presented with it.
present ==
    /\ pc = "descend"
    /\ Len(working) = 1
    /\ path' = InnermostFirst(path)
    /\ claimed' \in Range(leaves)
    /\ acc' = claimed'
    /\ pc' = "fold"
    /\ UNCHANGED <<leaves, index, working, position>>

fold ==
    /\ pc = "fold"
    /\ path # <<>>
    /\ acc' = Folded(acc, Head(path))
    /\ path' = Tail(path)
    /\ UNCHANGED <<leaves, index, working, position, claimed, pc>>

verify_inclusion ==
    /\ pc = "fold"
    /\ path = <<>>
    /\ pc' = IF acc = merkle_root(leaves) THEN "accepted" ELSE "refused"
    /\ UNCHANGED <<leaves, index, working, position, path, claimed, acc>>

Next == descend \/ present \/ fold \/ verify_inclusion

Spec == Init /\ [][Next]_vars

----------------------------------------------------------------------------
(* RFC 6962, section 2.1, as it is stated there.                           *)

RECURSIVE MTH(_)
MTH(D) ==
    IF Len(D) = 1 THEN D[1]
    ELSE LET powers == {2^x : x \in 0 .. Len(D)}
             k == CHOOSE p \in powers : p < Len(D) /\ Len(D) <= 2 * p
         IN  <<MTH(Take(D, k)), MTH(Drop(D, k))>>

----------------------------------------------------------------------------
(* Properties.                                                             *)

\* merkle_root(), with its fold of the left subtree, is RFC 6962's MTH.
RootIsRFC6962 == merkle_root(leaves) = MTH(leaves)

\* The construction "is unambiguous for every n": no other list of leaves has
\* the same root, so no proof for one batch is a proof for another.
RootNamesTheBatch ==
    \A other \in Lists : merkle_root(other) = merkle_root(leaves) =>
                             other = leaves

\* A proof convinces verify_inclusion() of the leaf it was made for, and of no
\* other leaf of the batch.
VerdictIsRight ==
    /\ pc = "accepted" => claimed = leaves[index]
    /\ pc = "refused" => claimed # leaves[index]
=============================================================================
