-------------------------------- MODULE Sums --------------------------------
(***************************************************************************)
(* Sums over finite sets.  Account balances, document totals and the       *)
(* figures of the screens are all SumFunctionOnSet(g, S), which the        *)
(* library defines by a fold that takes the elements in some chosen order. *)
(* These lemmas say what such a sum does when a term is added, changed or  *)
(* taken out, for integers and whatever the order.                         *)
(*                                                                         *)
(* There is no induction in them: a statement that failed for some subset  *)
(* would fail for a smallest one, which SmallestSet provides.              *)
(***************************************************************************)
EXTENDS Gst, FiniteSetTheorems, WellFoundedInduction, TLAPS

\* h is the fold of g, taken element by element, on the subsets of S.
Folds(h, g, S) ==
    h = [s \in SUBSET S |->
            IF s = {} THEN 0
            ELSE LET x == CHOOSE x \in s : TRUE IN g[x] + h[s \ {x}]]

\* A collection of numbers that is not empty has a smallest one.
LEMMA SmallestNumber ==
    ASSUME NEW C \in SUBSET Nat, C # {}
    PROVE  \E n \in C : \A m \in C : ~(m < n)
<1>1. PICK n \in C : \A m \in C : ~(<<m, n>> \in OpToRel(<, Nat))
  BY NatLessThanWellFounded, WFMin
<1>2. \A m \in C : ~(m < n)
  BY <1>1 DEF OpToRel
<1>. QED  BY <1>2

\* A non-empty collection of finite sets has a smallest one.
LEMMA SmallestSet ==
    ASSUME NEW C, C # {}, \A s \in C : IsFiniteSet(s)
    PROVE  \E s \in C : \A t \in C : ~(Cardinality(t) < Cardinality(s))
<1> DEFINE T == {Cardinality(s) : s \in C}
<1>1. T \subseteq Nat /\ T # {}
  BY FS_CardinalityType
<1>2. PICK n \in T : \A m \in T : ~(m < n)
  BY <1>1, SmallestNumber
<1>. QED  BY <1>2

\* A proper part of a finite set is finite and smaller.
LEMMA Smaller ==
    ASSUME NEW S, IsFiniteSet(S), NEW T \in SUBSET S, T # S
    PROVE  IsFiniteSet(T) /\ Cardinality(T) < Cardinality(S)
<1>1. /\ IsFiniteSet(T) /\ Cardinality(T) <= Cardinality(S)
      /\ Cardinality(S) # Cardinality(T)
  BY FS_Subset
<1>2. Cardinality(S) \in Nat /\ Cardinality(T) \in Nat
  BY <1>1, FS_CardinalityType
<1>. QED  BY <1>1, <1>2

\* There is at most one fold of g on a finite set.
LEMMA FoldsUnique ==
    ASSUME NEW S, IsFiniteSet(S), NEW g, NEW h, NEW k, Folds(h, g, S), Folds(k, g, S)
    PROVE  h = k
<1> DEFINE C == {s \in SUBSET S : h[s] # k[s]}
<1>1. C = {}
  <2> SUFFICES ASSUME C # {} PROVE FALSE
    OBVIOUS
  <2>1. \A s \in C : IsFiniteSet(s)
    BY FS_Subset
  <2>2. PICK s \in C : \A t \in C : ~(Cardinality(t) < Cardinality(s))
    BY <2>1, SmallestSet
  <2>3. CASE s = {}
    BY <2>3, <2>2 DEF Folds
  <2>4. CASE s # {}
    <3> DEFINE x == CHOOSE x \in s : TRUE
    <3>1. x \in s
      BY <2>4
    <3>2. s \ {x} \in SUBSET S /\ s \ {x} \notin C
      BY <2>1, <2>2, <3>1, Smaller
    <3>3. h[s \ {x}] = k[s \ {x}]
      BY <3>2
    <3>4. h[s] = g[x] + h[s \ {x}] /\ k[s] = g[x] + k[s \ {x}]
      BY <2>4 DEF Folds
    <3>. QED  BY <3>3, <3>4
  <2>. QED  BY <2>3, <2>4
<1>. QED  BY <1>1 DEF Folds

\* A fold on S, cut down to the subsets of T, is the fold on T.
LEMMA FoldsBelow ==
    ASSUME NEW S, NEW g, NEW h, Folds(h, g, S), NEW T \in SUBSET S
    PROVE  Folds([s \in SUBSET T |-> h[s]], g, T)
<1> DEFINE k == [s \in SUBSET T |-> h[s]]
<1>1. \A s \in SUBSET T : k[s] = IF s = {} THEN 0
            ELSE LET x == CHOOSE x \in s : TRUE IN g[x] + k[s \ {x}]
  <2> SUFFICES ASSUME NEW s \in SUBSET T, s # {}
               PROVE  k[s] = LET x == CHOOSE x \in s : TRUE IN g[x] + k[s \ {x}]
    BY DEF Folds
  <2> DEFINE x == CHOOSE x \in s : TRUE
  <2>1. s \in SUBSET S /\ s \ {x} \in SUBSET T
    OBVIOUS
  <2>2. h[s] = g[x] + h[s \ {x}]
    BY <2>1 DEF Folds
  <2>. QED  BY <2>1, <2>2
<1>. QED  BY <1>1 DEF Folds

\* There is a fold of g on every finite set: on the smallest set without one,
\* it could be put together from the folds on the smaller sets.
LEMMA FoldsExist ==
    ASSUME NEW S, IsFiniteSet(S), NEW g
    PROVE  \E h : Folds(h, g, S)
<1> DEFINE C == {s \in SUBSET S : ~\E h : Folds(h, g, s)}
<1>1. C = {}
  <2> SUFFICES ASSUME C # {} PROVE FALSE
    OBVIOUS
  <2>1. \A s \in C : IsFiniteSet(s)
    BY FS_Subset
  <2>2. PICK s \in C : \A t \in C : ~(Cardinality(t) < Cardinality(s))
    BY <2>1, SmallestSet
  <2> HIDE DEF C
  <2> DEFINE F(t) == CHOOSE h : Folds(h, g, t)
             c == CHOOSE x \in s : TRUE
             v == IF s = {} THEN 0 ELSE g[c] + F(s \ {c})[s \ {c}]
             k == [t \in SUBSET s |-> IF t = s THEN v ELSE F(t)[t]]
  <2>3. IsFiniteSet(s) /\ s \in SUBSET S /\ ~\E h : Folds(h, g, s)
    BY <2>1 DEF C
  <2>4. ASSUME NEW t \in SUBSET s, t # s PROVE Folds(F(t), g, t) /\ IsFiniteSet(t)
    <3>1. IsFiniteSet(t) /\ Cardinality(t) < Cardinality(s)
      BY <2>3, <2>4, Smaller
    <3>2. t \notin C
      BY <3>1, <2>2
    <3>. QED  BY <2>3, <3>1, <3>2 DEF C
  <2>5. ASSUME NEW t \in SUBSET s
        PROVE  k[t] = IF t = {} THEN 0
                      ELSE LET x == CHOOSE x \in t : TRUE IN g[x] + k[t \ {x}]
    <3>1. CASE t = {}
      <4>1. t # s => Folds(F(t), g, t)
        BY <2>4
      <4> HIDE DEF F
      <4>. QED  BY <3>1, <4>1 DEF Folds
    <3>2. CASE t # {}
      <4> DEFINE x == CHOOSE x \in t : TRUE
                 u == t \ {x}
      <4>1. x \in t /\ u \in SUBSET s /\ u # s /\ u # t /\ u \in SUBSET t
        BY <3>2
      <4>2. k[u] = F(u)[u] /\ Folds(F(u), g, u) /\ IsFiniteSet(u)
        BY <4>1, <2>4
      <4>3. CASE t = s
        <5>1. x = c /\ k[t] = v
          BY <4>3
        <5>. QED  BY <3>2, <4>2, <4>3, <5>1
      <4>4. CASE t # s
        <5>1. k[t] = F(t)[t] /\ Folds(F(t), g, t)
          BY <4>4, <2>4
        <5>2. F(t)[t] = g[x] + F(t)[u]
          <6> HIDE DEF F
          <6>. QED  BY <5>1, <3>2 DEF Folds
        <5>3. Folds([w \in SUBSET u |-> F(t)[w]], g, u)
          <6> HIDE DEF F
          <6>. QED  BY <5>1, <4>1, FoldsBelow
        <5>4. [w \in SUBSET u |-> F(t)[w]] = F(u)
          <6> HIDE DEF F
          <6>. QED  BY <5>3, <4>2, FoldsUnique
        <5>5. F(t)[u] = F(u)[u]
          <6> HIDE DEF F
          <6>1. [w \in SUBSET u |-> F(t)[w]][u] = F(t)[u]
            OBVIOUS
          <6>. QED  BY <6>1, <5>4
        <5>. QED  BY <3>2, <4>2, <5>1, <5>2, <5>5
      <4>. QED  BY <4>3, <4>4
    <3>. QED  BY <3>1, <3>2
  <2>6. Folds(k, g, s)
    <3> HIDE DEF F, v
    <3>1. k = [t \in SUBSET s |-> k[t]]
      OBVIOUS
    <3> HIDE DEF k
    <3>. QED  BY <2>5, <3>1 DEF Folds
  <2>. QED  BY <2>3, <2>6
<1>. QED  BY <1>1

----------------------------------------------------------------------------

\* A sum is the fold of the function it sums.
LEMMA SumIsFold ==
    ASSUME NEW S, IsFiniteSet(S), NEW g, NEW h, Folds(h, g, S)
    PROVE  SumFunctionOnSet(g, S) = h[S]
<1> DEFINE k == CHOOSE k : k = [s \in SUBSET S |->
                        IF s = {} THEN 0
                        ELSE LET x == CHOOSE x \in s : TRUE IN g[x] + k[s \ {x}]]
<1>1. Folds(k, g, S)
  BY DEF Folds
<1>2. k = h
  BY <1>1, FoldsUnique
<1>3. SumFunctionOnSet(g, S) = k[S]
  BY DEF SumFunctionOnSet, FoldFunctionOnSet, MapThenFoldSet
<1>. QED  BY <1>2, <1>3

\* The values of g on S are numbers.
IntOn(g, S) == \A x \in S : g[x] \in Int

\* The sum over nothing.
LEMMA SumEmpty == \A g : SumFunctionOnSet(g, {}) = 0
<1> TAKE g
<1>1. IsFiniteSet({})
  BY FS_EmptySet
<1>2. PICK h : Folds(h, g, {})
  BY <1>1, FoldsExist
<1>3. SumFunctionOnSet(g, {}) = h[{}]
  BY <1>1, <1>2, SumIsFold
<1>. QED  BY <1>2, <1>3 DEF Folds

\* The equation of the sum, with the element that the fold happens to take.
LEMMA SumChosen ==
    ASSUME NEW S, IsFiniteSet(S), S # {}, NEW g
    PROVE  \E x \in S : SumFunctionOnSet(g, S) = g[x] + SumFunctionOnSet(g, S \ {x})
<1>0. PICK x \in S : x = CHOOSE y \in S : TRUE
  OBVIOUS
<1>a. S \ {x} \in SUBSET S /\ IsFiniteSet(S \ {x})
  BY FS_Subset
<1>1. PICK T \in SUBSET S : T = S \ {x} /\ IsFiniteSet(T)
  BY <1>a
<1>2. PICK h : Folds(h, g, S)
  BY FoldsExist
<1> DEFINE k == [s \in SUBSET T |-> h[s]]
<1>3. Folds(k, g, T)
  BY <1>2, FoldsBelow
<1>4. k[T] = h[T]
  OBVIOUS
<1>5. h[S] = g[x] + h[T]
  BY <1>0, <1>1, <1>2 DEF Folds
<1> HIDE DEF k
<1>6. SumFunctionOnSet(g, S) = h[S] /\ SumFunctionOnSet(g, T) = k[T]
  BY <1>1, <1>2, <1>3, SumIsFold
<1>7. SumFunctionOnSet(g, S) = g[x] + SumFunctionOnSet(g, T)
  BY <1>4, <1>5, <1>6
<1>. QED  BY <1>1, <1>7

\* A sum of integers is one.
LEMMA SumInt ==
    ASSUME NEW S, IsFiniteSet(S), NEW g, IntOn(g, S)
    PROVE  SumFunctionOnSet(g, S) \in Int
<1> DEFINE C == {s \in SUBSET S : SumFunctionOnSet(g, s) \notin Int}
<1>1. C = {}
  <2> SUFFICES ASSUME C # {} PROVE FALSE
    OBVIOUS
  <2>1. \A s \in C : IsFiniteSet(s)
    BY FS_Subset
  <2>2. PICK s \in C : \A t \in C : ~(Cardinality(t) < Cardinality(s))
    BY <2>1, SmallestSet
  <2>3. IsFiniteSet(s) /\ s # {}
    BY <2>1, SumEmpty
  <2>4. PICK x \in s : SumFunctionOnSet(g, s) = g[x] + SumFunctionOnSet(g, s \ {x})
    BY <2>3, SumChosen
  <2>5. s \ {x} \notin C /\ s \ {x} \in SUBSET S
    BY <2>2, <2>3, Smaller
  <2>6. SumFunctionOnSet(g, s \ {x}) \in Int /\ g[x] \in Int
    BY <2>5 DEF IntOn
  <2>. QED  BY <2>4, <2>6
<1>. QED  BY <1>1

\* Any element may be taken out of a sum.
LEMMA SumTake ==
    ASSUME NEW S, IsFiniteSet(S), NEW g, IntOn(g, S), NEW x \in S
    PROVE  SumFunctionOnSet(g, S) = g[x] + SumFunctionOnSet(g, S \ {x})
<1> DEFINE Sum(s) == SumFunctionOnSet(g, s)
           C == {s \in SUBSET S : \E y \in s : Sum(s) # g[y] + Sum(s \ {y})}
<1>1. C = {}
  <2> SUFFICES ASSUME C # {} PROVE FALSE
    OBVIOUS
  <2>1. \A s \in C : IsFiniteSet(s)
    BY FS_Subset
  <2>2. PICK s \in C : \A t \in C : ~(Cardinality(t) < Cardinality(s))
    BY <2>1, SmallestSet
  <2>3. PICK y \in s : Sum(s) # g[y] + Sum(s \ {y})
    OBVIOUS
  <2>4. IsFiniteSet(s) /\ s # {} /\ s \in SUBSET S
    BY <2>1
  <2>5. PICK c \in s : Sum(s) = g[c] + Sum(s \ {c})
    BY <2>4, SumChosen
  <2>6. c # y
    BY <2>3, <2>5
  <2>7. ASSUME NEW e \in s PROVE s \ {e} \notin C /\ s \ {e} \in SUBSET S
    <3>1. s \ {e} \in SUBSET s /\ s \ {e} # s
      OBVIOUS
    <3>2. Cardinality(s \ {e}) < Cardinality(s)
      BY <2>4, <3>1, Smaller
    <3>. QED  BY <2>2, <2>4, <3>2
  <2>8. Sum(s \ {c}) = g[y] + Sum((s \ {c}) \ {y}) /\ Sum(s \ {y}) = g[c] + Sum((s \ {y}) \ {c})
    BY <2>6, <2>7
  <2>9. PICK u : u = (s \ {c}) \ {y} /\ u = (s \ {y}) \ {c}
    OBVIOUS
  <2>10. g[c] \in Int /\ g[y] \in Int /\ Sum(u) \in Int
    <3>1. IsFiniteSet(u) /\ IntOn(g, u)
      BY <2>4, <2>9, FS_Subset DEF IntOn
    <3>. QED  BY <2>4, <3>1, SumInt DEF IntOn
  <2>11. Sum(s) = g[c] + (g[y] + Sum(u)) /\ Sum(s \ {y}) = g[c] + Sum(u)
    BY <2>5, <2>8, <2>9, Zenon
  <2>12. Sum(s) # g[y] + (g[c] + Sum(u))
    BY <2>3, <2>11, Zenon
  <2> HIDE DEF Sum
  <2>. QED  BY <2>10, <2>11, <2>12
<1>. QED  BY <1>1

\* One more term.
LEMMA SumExtend ==
    ASSUME NEW S, IsFiniteSet(S), NEW x, x \notin S, NEW g, IntOn(g, S), g[x] \in Int
    PROVE  SumFunctionOnSet(g, S \cup {x}) = SumFunctionOnSet(g, S) + g[x]
<1>1. PICK T : T = S \cup {x}
  OBVIOUS
<1>2. IsFiniteSet(T) /\ IntOn(g, T) /\ x \in T /\ T \ {x} = S
  BY <1>1, FS_AddElement DEF IntOn
<1>3. SumFunctionOnSet(g, T) = g[x] + SumFunctionOnSet(g, T \ {x})
  BY <1>2, SumTake
<1>4. SumFunctionOnSet(g, T) = g[x] + SumFunctionOnSet(g, S)
  BY <1>2, <1>3, Zenon
<1>5. SumFunctionOnSet(g, S) \in Int
  BY SumInt
<1>. QED  BY <1>1, <1>4, <1>5

\* A sum of sums, term by term.
LEMMA SumAdd ==
    ASSUME NEW S, IsFiniteSet(S), NEW f, NEW g, NEW h, IntOn(f, S), IntOn(g, S),
           \A x \in S : h[x] = f[x] + g[x]
    PROVE  SumFunctionOnSet(h, S) = SumFunctionOnSet(f, S) + SumFunctionOnSet(g, S)
<1> DEFINE Sum(k, s) == SumFunctionOnSet(k, s)
           C == {s \in SUBSET S : Sum(h, s) # Sum(f, s) + Sum(g, s)}
<1>1. C = {}
  <2> SUFFICES ASSUME C # {} PROVE FALSE
    OBVIOUS
  <2>1. \A s \in C : IsFiniteSet(s)
    BY FS_Subset
  <2>2. PICK s \in C : \A t \in C : ~(Cardinality(t) < Cardinality(s))
    BY <2>1, SmallestSet
  <2>3. IsFiniteSet(s) /\ s \in SUBSET S /\ Sum(h, s) # Sum(f, s) + Sum(g, s)
    BY <2>1
  <2>4. s # {}
    BY <2>3, SumEmpty
  <2>5. PICK x : x \in s
    BY <2>4
  <2> DEFINE t == s \ {x}
  <2>6. t \notin C /\ t \in SUBSET S /\ IsFiniteSet(t)
    BY <2>2, <2>3, <2>5, Smaller
  <2>7. Sum(h, t) = Sum(f, t) + Sum(g, t)
    BY <2>6
  <2>8. /\ IntOn(f, s) /\ IntOn(g, s) /\ IntOn(h, s) /\ IntOn(f, t) /\ IntOn(g, t)
        /\ h[x] = f[x] + g[x] /\ f[x] \in Int /\ g[x] \in Int
    BY <2>3, <2>5 DEF IntOn
  <2>9. Sum(h, s) = h[x] + Sum(h, t) /\ Sum(f, s) = f[x] + Sum(f, t) /\ Sum(g, s) = g[x] + Sum(g, t)
    BY <2>3, <2>5, <2>8, SumTake
  <2>10. Sum(f, t) \in Int /\ Sum(g, t) \in Int
    BY <2>6, <2>8, SumInt
  <2> HIDE DEF Sum, t
  <2>. QED  BY <2>3, <2>7, <2>8, <2>9, <2>10
<1>. QED  BY <1>1

\* Terms that are zero do not count, and what is summed is all that matters.
LEMMA SumZero ==
    ASSUME NEW S, IsFiniteSet(S), NEW g, \A x \in S : g[x] = 0
    PROVE  SumFunctionOnSet(g, S) = 0
<1>1. IntOn(g, S) /\ \A x \in S : g[x] = g[x] + g[x]
  BY DEF IntOn
<1>2. SumFunctionOnSet(g, S) = SumFunctionOnSet(g, S) + SumFunctionOnSet(g, S)
  BY <1>1, SumAdd
<1>3. PICK v \in Int : v = SumFunctionOnSet(g, S)
  BY <1>1, SumInt
<1>4. v = v + v
  BY <1>2, <1>3
<1>5. v = 0
  BY <1>4
<1>. QED  BY <1>3, <1>5, Zenon

\* Equal terms have equal sums.
LEMMA SumSame ==
    ASSUME NEW S, IsFiniteSet(S), NEW g, NEW h, IntOn(g, S), \A x \in S : h[x] = g[x]
    PROVE  SumFunctionOnSet(h, S) = SumFunctionOnSet(g, S)
<1> DEFINE z == [x \in S |-> 0]
<1>1. /\ IntOn(z, S) /\ SumFunctionOnSet(z, S) = 0
      /\ \A x \in S : h[x] = g[x] + z[x]
  BY SumZero DEF IntOn
<1> HIDE DEF z
<1>2. SumFunctionOnSet(h, S) = SumFunctionOnSet(g, S) + SumFunctionOnSet(z, S)
  BY <1>1, SumAdd
<1>3. SumFunctionOnSet(g, S) \in Int
  BY SumInt
<1>. QED  BY <1>1, <1>2, <1>3

\* The sum over a set is the sum over a part and over the rest.
LEMMA SumSplit ==
    ASSUME NEW S, IsFiniteSet(S), NEW g, IntOn(g, S), NEW T \in SUBSET S
    PROVE  SumFunctionOnSet(g, S) = SumFunctionOnSet(g, T) + SumFunctionOnSet(g, S \ T)
<1> DEFINE Sum(s) == SumFunctionOnSet(g, s)
           C == {s \in SUBSET T : Sum(s) + Sum(S \ s) # Sum(S)}
<1>0. IsFiniteSet(T)
  BY FS_Subset
<1>1. C = {}
  <2> SUFFICES ASSUME C # {} PROVE FALSE
    OBVIOUS
  <2>1. \A s \in C : IsFiniteSet(s)
    BY <1>0, FS_Subset
  <2>2. PICK s \in C : \A t \in C : ~(Cardinality(t) < Cardinality(s))
    BY <2>1, SmallestSet
  <2>3. IsFiniteSet(s) /\ s \in SUBSET T /\ Sum(s) + Sum(S \ s) # Sum(S)
    BY <2>1
  <2>4. s # {}
    <3>1. Sum({}) = 0 /\ Sum(S) \in Int
      BY SumEmpty, SumInt
    <3>2. S \ {} = S
      OBVIOUS
    <3>3. Sum({}) + Sum(S \ {}) = Sum(S)
      BY <3>1, <3>2
    <3> HIDE DEF Sum
    <3>. QED  BY <2>3, <3>3, Zenon
  <2>5. PICK x : x \in s
    BY <2>4
  <2>6. PICK t \in SUBSET s : t = s \ {x}
    OBVIOUS
  <2>7. t \notin C /\ t \in SUBSET T /\ IsFiniteSet(t)
    BY <2>2, <2>3, <2>5, <2>6, Smaller
  <2>8. PICK r : r = S \ t
    OBVIOUS
  <2>9. r \ {x} = S \ s /\ x \in r /\ r \subseteq S
    BY <2>3, <2>5, <2>6, <2>8
  <2>10. IsFiniteSet(r) /\ IntOn(g, r) /\ IntOn(g, s) /\ IntOn(g, t) /\ IntOn(g, S \ s) /\ g[x] \in Int
    BY <2>3, <2>5, <2>6, <2>9, FS_Subset DEF IntOn
  <2>11. Sum(s) = g[x] + Sum(s \ {x}) /\ Sum(r) = g[x] + Sum(r \ {x})
    BY <2>3, <2>5, <2>9, <2>10, SumTake
  <2>12. Sum(t) + Sum(S \ t) = Sum(S)
    BY <2>7
  <2>13. IsFiniteSet(S \ s)
    BY FS_Subset
  <2>14. Sum(t) \in Int /\ Sum(S \ s) \in Int
    BY <2>7, <2>10, <2>13, SumInt
  <2> HIDE DEF Sum, C
  <2>15. Sum(s) = g[x] + Sum(t) /\ Sum(r) = g[x] + Sum(S \ s) /\ Sum(t) + Sum(r) = Sum(S)
    BY <2>6, <2>8, <2>9, <2>11, <2>12, Zenon
  <2>16. Sum(s) + Sum(S \ s) = Sum(S)
    BY <2>10, <2>14, <2>15
  <2>. QED  BY <2>3, <2>16, Zenon
<1>2. Sum(T) + Sum(S \ T) = Sum(S)
  BY <1>1
<1>. QED  BY <1>2

\* Terms that are zero may be left out.
LEMMA SumPart ==
    ASSUME NEW S, IsFiniteSet(S), NEW g, IntOn(g, S), NEW T \in SUBSET S,
           \A x \in S \ T : g[x] = 0
    PROVE  SumFunctionOnSet(g, S) = SumFunctionOnSet(g, T)
<1>1. SumFunctionOnSet(g, S) = SumFunctionOnSet(g, T) + SumFunctionOnSet(g, S \ T)
  BY SumSplit
<1>2. IsFiniteSet(S \ T) /\ IsFiniteSet(T) /\ IntOn(g, T)
  BY FS_Subset DEF IntOn
<1>3. SumFunctionOnSet(g, S \ T) = 0 /\ SumFunctionOnSet(g, T) \in Int
  BY <1>2, SumZero, SumInt
<1>. QED  BY <1>1, <1>3

\* A sum of terms that are not negative is not negative, and no less than any part.
LEMMA SumNat ==
    ASSUME NEW S, IsFiniteSet(S), NEW g, \A x \in S : g[x] \in Nat
    PROVE  SumFunctionOnSet(g, S) \in Nat
<1> DEFINE C == {s \in SUBSET S : SumFunctionOnSet(g, s) \notin Nat}
<1>1. C = {}
  <2> SUFFICES ASSUME C # {} PROVE FALSE
    OBVIOUS
  <2>1. \A s \in C : IsFiniteSet(s)
    BY FS_Subset
  <2>2. PICK s \in C : \A t \in C : ~(Cardinality(t) < Cardinality(s))
    BY <2>1, SmallestSet
  <2>3. IsFiniteSet(s) /\ s # {}
    BY <2>1, SumEmpty
  <2>4. PICK x \in s : SumFunctionOnSet(g, s) = g[x] + SumFunctionOnSet(g, s \ {x})
    BY <2>3, SumChosen
  <2>5. s \ {x} \notin C /\ s \ {x} \in SUBSET S
    BY <2>2, <2>3, Smaller
  <2>6. SumFunctionOnSet(g, s \ {x}) \in Nat /\ g[x] \in Nat
    BY <2>5
  <2>. QED  BY <2>4, <2>6
<1>. QED  BY <1>1

\* A part of a sum of naturals is no larger than the whole.
LEMMA SumPartLeq ==
    ASSUME NEW S, IsFiniteSet(S), NEW g, \A x \in S : g[x] \in Nat, NEW T \in SUBSET S
    PROVE  SumFunctionOnSet(g, T) <= SumFunctionOnSet(g, S)
<1>1. SumFunctionOnSet(g, S) = SumFunctionOnSet(g, T) + SumFunctionOnSet(g, S \ T)
  BY SumSplit DEF IntOn
<1>2. IsFiniteSet(S \ T) /\ IsFiniteSet(T)
  BY FS_Subset
<1>3. SumFunctionOnSet(g, S \ T) \in Nat /\ SumFunctionOnSet(g, T) \in Nat
  BY <1>2, SumNat
<1>. QED  BY <1>1, <1>3

\* One term changes.
LEMMA SumChange ==
    ASSUME NEW S, IsFiniteSet(S), NEW g, NEW h, NEW x \in S, IntOn(g, S), IntOn(h, S),
           \A y \in S : y # x => h[y] = g[y]
    PROVE  SumFunctionOnSet(h, S) + g[x] = SumFunctionOnSet(g, S) + h[x]
<1>1. PICK T : T = S \ {x}
  OBVIOUS
<1>2. /\ SumFunctionOnSet(g, S) = g[x] + SumFunctionOnSet(g, S \ {x})
      /\ SumFunctionOnSet(h, S) = h[x] + SumFunctionOnSet(h, S \ {x})
  BY SumTake
<1>3. IsFiniteSet(T) /\ IntOn(g, T) /\ \A y \in T : h[y] = g[y]
  BY <1>1, FS_Subset DEF IntOn
<1>4. SumFunctionOnSet(h, T) = SumFunctionOnSet(g, T) /\ SumFunctionOnSet(g, T) \in Int
  BY <1>3, SumSame, SumInt
<1>5. g[x] \in Int /\ h[x] \in Int
  BY DEF IntOn
<1>6. /\ SumFunctionOnSet(g, S) = g[x] + SumFunctionOnSet(g, T)
      /\ SumFunctionOnSet(h, S) = h[x] + SumFunctionOnSet(g, T)
  BY <1>1, <1>2, <1>4, Zenon
<1>. QED  BY <1>4, <1>5, <1>6

----------------------------------------------------------------------------
(* Rows of a table, by id.                                                 *)

\* Append adds a row, and Len counts them.
LEMMA AppendRow ==
    ASSUME NEW n \in Nat, NEW B, B = [a \in 1 .. n |-> B[a]], NEW r
    PROVE  Append(B, r) = [a \in 1 .. n + 1 |-> IF a <= n THEN B[a] ELSE r] /\ Len(B) = n
<1> DEFINE T == {B[a] : a \in 1 .. n} \cup {r}
<1>1. B \in [1 .. n -> T]
  OBVIOUS
<1>2. B \in Seq(T) /\ r \in T
  BY <1>1
<1> HIDE DEF T
<1>3. Len(B) = n
  BY <1>1, <1>2
<1>. QED  BY <1>2, <1>3

\* How many numbers there are up to n.
LEMMA Upto == \A n \in Nat : IsFiniteSet(1 .. n) /\ Cardinality(1 .. n) = n
<1> TAKE n \in Nat
<1>1. IsFiniteSet(1 .. n) /\ Cardinality(1 .. n) = IF 1 > n THEN 0 ELSE n - 1 + 1
  BY FS_Interval
<1>. QED  BY <1>1

\* One row written, be it there already or new.
LEMMA SumRow ==
    ASSUME NEW n \in Nat, NEW m \in Nat, NEW i \in Nat, NEW g, NEW h,
           (m = n /\ i \in 1 .. n) \/ (m = n + 1 /\ i = n + 1),
           IntOn(g, 1 .. n), h[i] \in Int, \A k \in 1 .. n : k # i => h[k] = g[k]
    PROVE  SumFunctionOnSet(h, 1 .. m) =
               SumFunctionOnSet(g, 1 .. n) - (IF i <= n THEN g[i] ELSE 0) + h[i]
<1>1. PICK S, x : S = 1 .. n /\ x = i
  OBVIOUS
<1>2. IsFiniteSet(S) /\ IntOn(g, S)
  BY <1>1, Upto
<1>3. SumFunctionOnSet(g, S) \in Int
  BY <1>2, SumInt
<1>4. CASE m = n /\ i \in 1 .. n
  <2>1. x \in S /\ IntOn(h, S) /\ g[x] \in Int
    BY <1>1, <1>4 DEF IntOn
  <2>2. \A y \in S : y # x => h[y] = g[y]
    BY <1>1
  <2>3. SumFunctionOnSet(h, S) + g[x] = SumFunctionOnSet(g, S) + h[x]
    BY <1>2, <2>1, <2>2, SumChange
  <2>4. SumFunctionOnSet(h, S) \in Int
    BY <1>2, <2>1, SumInt
  <2>5. SumFunctionOnSet(h, S) = SumFunctionOnSet(g, S) - g[x] + h[x]
    BY <1>1, <1>3, <2>1, <2>3, <2>4
  <2>. QED  BY <1>1, <1>4, <2>5
<1>5. CASE m = n + 1 /\ i = n + 1
  <2>1. x \notin S /\ 1 .. m = S \cup {x} /\ h[x] \in Int /\ \A k \in S : h[k] = g[k]
    BY <1>1, <1>5
  <2>2. IntOn(h, S) /\ SumFunctionOnSet(h, S) = SumFunctionOnSet(g, S)
    BY <1>2, <2>1, SumSame DEF IntOn
  <2>a. x \notin S
    BY <2>1
  <2>b. h[x] \in Int
    BY <2>1
  <2>3. SumFunctionOnSet(h, S \cup {x}) = SumFunctionOnSet(h, S) + h[x]
    BY <1>2, <2>a, <2>b, <2>2, SumExtend
  <2>4. SumFunctionOnSet(h, 1 .. m) = SumFunctionOnSet(g, S) + h[x]
    BY <2>1, <2>2, <2>3
  <2>. QED  BY <1>1, <1>3, <1>5, <2>4
<1>. QED  BY <1>4, <1>5

\* A sum over the rows that count is the sum over all rows of what they contribute.
LEMMA CountedRows ==
    ASSUME NEW n \in Nat, NEW T \in SUBSET (1 .. n), NEW f, NEW g,
           \A i \in 1 .. n : g[i] \in Int /\ (i \notin T => g[i] = 0), \A i \in T : f[i] = g[i]
    PROVE  SumFunctionOnSet(f, T) = SumFunctionOnSet(g, 1 .. n)
<1>1. PICK S : S = 1 .. n
  OBVIOUS
<1>2. IsFiniteSet(S) /\ T \in SUBSET S
  BY <1>1, Upto
<1>3. IsFiniteSet(T)
  BY <1>2, FS_Subset
<1>4. IntOn(g, S) /\ IntOn(g, T) /\ \A i \in S \ T : g[i] = 0
  BY <1>1, <1>2 DEF IntOn
<1>5. SumFunctionOnSet(g, S) = SumFunctionOnSet(g, T)
  BY <1>2, <1>4, SumPart
<1>6. SumFunctionOnSet(f, T) = SumFunctionOnSet(g, T)
  BY <1>3, <1>4, SumSame
<1>. QED  BY <1>1, <1>5, <1>6

\* Terms grouped by a key have the same sum.
LEMMA SumByKey ==
    ASSUME NEW S, IsFiniteSet(S), NEW T, IsFiniteSet(T), NEW key, NEW g, IntOn(g, S),
           \A x \in S : key[x] \in T, NEW part,
           \A t \in T : part[t] = {x \in S : key[x] = t}, NEW f,
           \A t \in T : f[t] = SumFunctionOnSet(g, part[t])
    PROVE  SumFunctionOnSet(f, T) = SumFunctionOnSet(g, S)
<1> DEFINE Of(U) == {x \in S : key[x] \in U}
           C == {U \in SUBSET T : SumFunctionOnSet(f, U) # SumFunctionOnSet(g, Of(U))}
<1>0. ASSUME NEW U
      PROVE  /\ IsFiniteSet(Of(U)) /\ IntOn(g, Of(U)) /\ IsFiniteSet({x \in S : key[x] = U})
             /\ IntOn(g, {x \in S : key[x] = U})
  BY FS_Subset DEF IntOn
<1>1. IntOn(f, T)
  <2> SUFFICES ASSUME NEW t \in T PROVE f[t] \in Int
    BY DEF IntOn
  <2>1. PICK V : V = {x \in S : key[x] = t}
    OBVIOUS
  <2>2. V = part[t]
    BY <2>1
  <2>3. f[t] = SumFunctionOnSet(g, V)
    BY <2>2
  <2>4. IsFiniteSet(V) /\ IntOn(g, V)
    BY <1>0, <2>1, Zenon
  <2>. QED  BY <2>3, <2>4, SumInt
<1>2. C = {}
  <2> SUFFICES ASSUME C # {} PROVE FALSE
    OBVIOUS
  <2>1. \A s \in C : IsFiniteSet(s)
    BY FS_Subset
  <2>2. PICK U \in C : \A t \in C : ~(Cardinality(t) < Cardinality(U))
    BY <2>1, SmallestSet
  <2>3. IsFiniteSet(U) /\ U \in SUBSET T /\ IntOn(f, U)
    BY <1>1, <2>1 DEF IntOn
  <2>4. U # {}
    <3>1. Of({}) = {}
      OBVIOUS
    <3>2. SumFunctionOnSet(f, {}) = 0 /\ SumFunctionOnSet(g, {}) = 0
      BY SumEmpty
    <3>3. SumFunctionOnSet(f, {}) = SumFunctionOnSet(g, Of({}))
      BY <3>1, <3>2, Zenon
    <3>4. SumFunctionOnSet(f, U) # SumFunctionOnSet(g, Of(U))
      BY <2>2
    <3> HIDE DEF Of
    <3>. QED  BY <3>3, <3>4, Zenon
  <2>5. PICK t : t \in U
    BY <2>4
  <2>6. PICK W \in SUBSET U : W = U \ {t}
    OBVIOUS
  <2>7. W \notin C /\ W \in SUBSET T /\ IsFiniteSet(W)
    BY <2>2, <2>3, <2>5, <2>6, Smaller
  <2>8. PICK A, B, D : A = Of(U) /\ B = {x \in S : key[x] = t} /\ D = Of(W)
    OBVIOUS
  <2>9. B \in SUBSET A /\ A \ B = D
    BY <2>5, <2>6, <2>8
  <2>10. IsFiniteSet(A) /\ IntOn(g, A) /\ IsFiniteSet(B) /\ IntOn(g, B) /\ IsFiniteSet(D) /\ IntOn(g, D)
    BY <1>0, <2>8
  <2>11. SumFunctionOnSet(g, A) = SumFunctionOnSet(g, B) + SumFunctionOnSet(g, A \ B)
    BY <2>9, <2>10, SumSplit
  <2>12. SumFunctionOnSet(f, U) = f[t] + SumFunctionOnSet(f, U \ {t})
    BY <2>3, <2>5, SumTake
  <2>13. f[t] = SumFunctionOnSet(g, B)
    <3>1. B = part[t] /\ t \in T
      BY <2>3, <2>5, <2>8
    <3>. QED  BY <3>1
  <2>14. SumFunctionOnSet(f, W) = SumFunctionOnSet(g, D)
    BY <2>7, <2>8
  <2>15. SumFunctionOnSet(f, U) = SumFunctionOnSet(g, A)
    BY <2>6, <2>9, <2>11, <2>12, <2>13, <2>14, Zenon
  <2>. QED  BY <2>2, <2>8, <2>15
<1>3. SumFunctionOnSet(f, T) = SumFunctionOnSet(g, Of(T)) /\ Of(T) = S
  BY <1>2
<1> HIDE DEF Of
<1>. QED  BY <1>3

\* A table is a sequence of rows; the row of a request is one that is there or the
\* next one.
Table(A) == A = [k \in 1 .. Len(A) |-> A[k]] /\ Len(A) \in Nat
Wrote(A, B, i) ==
    /\ Table(A) /\ Table(B) /\ i \in 1 .. Len(B)
    /\ Len(B) = Len(A) \/ (Len(B) = Len(A) + 1 /\ i = Len(B))
    /\ \A k \in 1 .. Len(A) : k # i => B[k] = A[k]

\* A row overwritten.
LEMMA WroteExcept ==
    ASSUME NEW A, Table(A), NEW i \in 1 .. Len(A), NEW r, NEW B,
           B = [A EXCEPT ![i] = r]
    PROVE  Wrote(A, B, i) /\ B[i] = r /\ Len(B) = Len(A)
<1>1. PICK n \in Nat : n = Len(A)
  BY DEF Table
<1>2. A = [k \in 1 .. n |-> A[k]]
  BY <1>1 DEF Table
<1>3. B = [k \in 1 .. n |-> B[k]] /\ B[i] = r /\ \A k \in 1 .. n : k # i => B[k] = A[k]
  BY <1>1, <1>2
<1>4. Len(B) = n
  BY <1>3, AppendRow
<1>. QED  BY <1>1, <1>3, <1>4 DEF Wrote, Table

\* A row appended.
LEMMA WroteAppend ==
    ASSUME NEW A, Table(A), NEW r, NEW B, B = Append(A, r)
    PROVE  /\ Wrote(A, B, Len(A) + 1) /\ B[Len(A) + 1] = r /\ Len(B) = Len(A) + 1
           /\ Len(A) + 1 \in Nat
<1>1. PICK n \in Nat : n = Len(A)
  BY DEF Table
<1>2. A = [k \in 1 .. n |-> A[k]]
  BY <1>1 DEF Table
<1>3. B = [a \in 1 .. n + 1 |-> IF a <= n THEN A[a] ELSE r]
  BY <1>2, AppendRow
<1>4. PICK m \in Nat : m = n + 1
  OBVIOUS
<1>5. B = [a \in 1 .. m |-> B[a]] /\ B[m] = r /\ \A k \in 1 .. n : B[k] = A[k]
  BY <1>3, <1>4
<1>6. Len(B) = m
  BY <1>5, AppendRow
<1>. QED  BY <1>1, <1>4, <1>5, <1>6 DEF Wrote, Table

\* A row overwritten, or one past the last.
LEMMA WroteAt ==
    ASSUME NEW A, Table(A), NEW i \in Nat, i \in 1 .. Len(A) \/ i = Len(A) + 1, NEW r, NEW B,
           B = [k \in DOMAIN A \cup {i} |-> IF k = i THEN r ELSE A[k]]
    PROVE  Wrote(A, B, i) /\ B[i] = r
<1>1. PICK n \in Nat : n = Len(A)
  BY DEF Table
<1>2. PICK m \in Nat : m = IF i <= n THEN n ELSE i
  OBVIOUS
<1>3. DOMAIN A = 1 .. n
  BY <1>1 DEF Table
<1>4. (m = n /\ i \in 1 .. n) \/ (m = n + 1 /\ i = m)
  BY <1>1, <1>2
<1>5. DOMAIN A \cup {i} = 1 .. m
  BY <1>3, <1>4
<1>6. B = [k \in 1 .. m |-> IF k = i THEN r ELSE A[k]]
  BY <1>5
<1>7. B = [k \in 1 .. m |-> B[k]]
  BY <1>6
<1>8. Len(B) = m
  BY <1>7, AppendRow
<1>9. B[i] = r /\ \A k \in 1 .. n : k # i => B[k] = A[k]
  BY <1>4, <1>6
<1>10. Table(B)
  BY <1>7, <1>8 DEF Table
<1>11. i \in 1 .. m /\ (m = n \/ (m = n + 1 /\ i = m))
  BY <1>4
<1>. QED  BY <1>1, <1>8, <1>9, <1>10, <1>11 DEF Wrote

\* The row that Wrote() speaks of.
LEMMA WroteRow ==
    ASSUME NEW A, NEW B, NEW i, Wrote(A, B, i)
    PROVE  /\ Len(A) \in Nat /\ Len(B) \in Nat /\ i \in Nat
           /\ (Len(B) = Len(A) /\ i \in 1 .. Len(A)) \/ (Len(B) = Len(A) + 1 /\ i = Len(A) + 1)
           /\ \A k \in 1 .. Len(B) : k = i \/ (k \in 1 .. Len(A) /\ B[k] = A[k])
<1>1. PICK n \in Nat, m \in Nat : n = Len(A) /\ m = Len(B)
  BY DEF Wrote, Table
<1>2. i \in 1 .. m /\ (m = n \/ (m = n + 1 /\ i = m))
  BY <1>1 DEF Wrote
<1>3. \A k \in 1 .. n : k # i => B[k] = A[k]
  BY <1>1 DEF Wrote
<1>4. (m = n /\ i \in 1 .. n) \/ (m = n + 1 /\ i = n + 1)
  BY <1>2
<1>5. \A k \in 1 .. m : k = i \/ (k \in 1 .. n /\ B[k] = A[k])
  BY <1>2, <1>3
<1>. QED  BY <1>1, <1>2, <1>4, <1>5

\* What it does to a sum over the table.
LEMMA SumWrote ==
    ASSUME NEW A, NEW B, NEW i, Wrote(A, B, i), NEW g, NEW h, IntOn(g, 1 .. Len(A)),
           h[i] \in Int, \A k \in 1 .. Len(A) : k # i => h[k] = g[k]
    PROVE  /\ SumFunctionOnSet(h, 1 .. Len(B)) =
                SumFunctionOnSet(g, 1 .. Len(A)) - (IF i <= Len(A) THEN g[i] ELSE 0) + h[i]
           /\ SumFunctionOnSet(g, 1 .. Len(A)) \in Int
<1>1. PICK n \in Nat, m \in Nat, j \in Nat : n = Len(A) /\ m = Len(B) /\ j = i
  BY WroteRow
<1>2. (m = n /\ j \in 1 .. n) \/ (m = n + 1 /\ j = n + 1)
  BY <1>1, WroteRow
<1>3. IntOn(g, 1 .. n)
  BY <1>1
<1>4. h[j] \in Int
  BY <1>1
<1>5. \A k \in 1 .. n : k # j => h[k] = g[k]
  BY <1>1
<1>6. SumFunctionOnSet(h, 1 .. m) =
        SumFunctionOnSet(g, 1 .. n) - (IF j <= n THEN g[j] ELSE 0) + h[j]
  BY <1>2, <1>3, <1>4, <1>5, SumRow
<1>7. SumFunctionOnSet(g, 1 .. n) \in Int
  BY <1>3, Upto, SumInt
<1>. QED  BY <1>1, <1>6, <1>7

----------------------------------------------------------------------------
(* Prices.                                                                 *)

\* A line as submitted: a discount is an amount or a percentage.
LineOK(line) ==
    /\ line.quantity \in Nat /\ line.unit_price \in Nat /\ line.tax_rate \in Nat
    /\ line.discount_percent \in 0 .. 100 /\ line.discount_amount \in Nat \cup {None}

\* What compute_document() promises of the totals of computed lines.
TotalsOK(lines, t) ==
    /\ t \in [taxable: Nat, cgst: Nat, sgst: Nat, igst: Nat, round_off: Int, grand: Nat]
    /\ t.taxable = Total(lines, "taxable")
    /\ t.grand = t.taxable + t.cgst + t.sgst + t.igst + t.round_off

\* A discount is never more than what it is taken off.
LEMMA DiscountBounded ==
    ASSUME NEW line, LineOK(line), NEW gross \in Nat
    PROVE  discount(line, gross) \in 0 .. gross
<1>1. /\ line.discount_amount \in Nat \cup {-1}
      /\ line.discount_percent \in 0 .. 100
  BY DEF LineOK, None
<1>2. CASE line.discount_amount # None
  BY <1>1, <1>2 DEF discount, None
<1>3. CASE line.discount_amount = None
  <2>1. PICK p \in 0 .. 100 : p = line.discount_percent
    BY <1>1
  <2>2. gross * p \in Nat /\ gross * p <= gross * 100
    BY <2>1
  <2>3. PICK x : x = gross * p
    OBVIOUS
  <2>4. x \in Nat /\ x <= 100 * gross
    BY <2>2, <2>3
  <2>5. (2 * x + 100) \div 200 \in 0 .. gross
    BY <2>4
  <2>6. discount(line, gross) = (2 * x + 100) \div (2 * 100)
    BY <1>3, <2>1, <2>3 DEF discount, HalfUp
  <2>. QED  BY <2>5, <2>6
<1>. QED  BY <1>2, <1>3

\* The halves of a tax are no less than nothing, and round to its total.
LEMMA SplitNat ==
    ASSUME NEW taxable \in Nat, NEW rate \in Nat, NEW treatment
    PROVE  split_tax(taxable, rate, treatment) \in [cgst: Nat, sgst: Nat, igst: Nat]
<1>1. PICK x : x = taxable * rate
  OBVIOUS
<1>2. x \in Nat
  BY <1>1
<1>3. PICK m : m = (2 * x + 10000) \div 20000
  OBVIOUS
<1>4. m \in Nat
  BY <1>2, <1>3
<1>5. PICK h : h = (2 * (100 * m) + 200) \div 400
  OBVIOUS
<1>6. h \in Nat /\ h <= m
  BY <1>4, <1>5
<1>7. round_money(taxable * rate, 100) = 100 * m
  BY <1>1, <1>3 DEF round_money, HalfUp, Paisa
<1>8. round_money(100 * m, 2) = 100 * h
  BY <1>5 DEF round_money, HalfUp, Paisa
<1>9. /\ 100 * m \in Nat /\ 100 * h \in Nat /\ 100 * m - 100 * h \in Nat
  BY <1>4, <1>6
<1>10. split_tax(taxable, rate, treatment) \in
         {LineTax(0, 0, 0), LineTax(0, 0, 100 * m), LineTax(100 * h, 100 * m - 100 * h, 0)}
  BY <1>7, <1>8 DEF split_tax
<1>. QED  BY <1>9, <1>10 DEF LineTax

\* compute_line().
LEMMA LinePriced ==
    ASSUME NEW line, LineOK(line), NEW treatment
    PROVE  compute_line(line, treatment) \in
               [account: {line.account}, taxable: Nat, cgst: Nat, sgst: Nat, igst: Nat]
<1>1. line.quantity \in Nat /\ line.unit_price \in Nat /\ line.tax_rate \in Nat
  BY DEF LineOK
<1>2. PICK gross : gross = line.quantity * line.unit_price
  OBVIOUS
<1>3. gross \in Nat
  BY <1>1, <1>2
<1>4. PICK taxable : taxable = gross - discount(line, gross)
  OBVIOUS
<1>5. taxable \in Nat
  BY <1>3, <1>4, DiscountBounded
<1>6. PICK tax : tax = split_tax(taxable, line.tax_rate, treatment)
  OBVIOUS
<1>7. tax \in [cgst: Nat, sgst: Nat, igst: Nat]
  BY <1>1, <1>5, <1>6, SplitNat
<1>8. compute_line(line, treatment) =
        [account |-> line.account, taxable |-> taxable, cgst |-> tax.cgst,
         sgst |-> tax.sgst, igst |-> tax.igst]
  BY <1>2, <1>4, <1>6 DEF compute_line
<1>. QED  BY <1>1, <1>5, <1>7, <1>8

\* The total of a column.
LEMMA TotalNat ==
    ASSUME NEW lines, IsFiniteSet(DOMAIN lines), NEW field,
           \A k \in DOMAIN lines : lines[k][field] \in Nat
    PROVE  Total(lines, field) \in Nat
<1>1. PICK S, g : S = DOMAIN lines /\ g = [k \in S |-> lines[k][field]]
  OBVIOUS
<1>2. Total(lines, field) = SumFunctionOnSet(g, S)
  BY <1>1 DEF Total, SumOf
<1>3. IsFiniteSet(S) /\ \A k \in S : g[k] \in Nat
  BY <1>1
<1>. QED  BY <1>2, <1>3, SumNat

\* compute_document().
LEMMA DocumentTotals ==
    ASSUME NEW lines, IsFiniteSet(DOMAIN lines), NEW whole,
           \A k \in DOMAIN lines : /\ lines[k].taxable \in Nat /\ lines[k].cgst \in Nat
                                   /\ lines[k].sgst \in Nat /\ lines[k].igst \in Nat
    PROVE  TotalsOK(lines, compute_document(lines, whole))
<1>1. PICK x, y, z, w : /\ x = Total(lines, "taxable") /\ y = Total(lines, "cgst")
                        /\ z = Total(lines, "sgst") /\ w = Total(lines, "igst")
  OBVIOUS
<1>2. x \in Nat /\ y \in Nat /\ z \in Nat /\ w \in Nat
  BY <1>1, TotalNat
<1>3. PICK exact, up : exact = x + y + z + w /\ up = Rupee * HalfUp(exact, Rupee)
  OBVIOUS
<1>4. exact \in Nat /\ up \in Nat
  BY <1>2, <1>3 DEF HalfUp, Rupee
<1>5. PICK t : t = compute_document(lines, whole)
  OBVIOUS
<1>6. t = [taxable |-> x, cgst |-> y, sgst |-> z, igst |-> w,
           round_off |-> IF whole THEN up - exact ELSE 0,
           grand |-> IF whole THEN up ELSE exact]
  BY <1>1, <1>3, <1>5 DEF compute_document
<1>7. /\ t \in [taxable: Nat, cgst: Nat, sgst: Nat, igst: Nat, round_off: Int, grand: Nat]
      /\ t.taxable = x /\ t.grand = t.taxable + t.cgst + t.sgst + t.igst + t.round_off
  BY <1>2, <1>3, <1>4, <1>6
<1>. QED  BY <1>1, <1>5, <1>7 DEF TotalsOK
=============================================================================
