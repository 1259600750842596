---------------------------- MODULE SharedProofs -----------------------------
(***************************************************************************)
(* What the proofs about several components rest on.                       *)
(*                                                                         *)
(* What ORDER BY returns, for any finite set of rows and any order on them *)
(* in which rows may tie: without ties there is one such sequence, each    *)
(* row at its place; with ties, one for every way to break them.           *)
(*                                                                         *)
(* Induction and recursion on a measure: the library states them for       *)
(* operators, here they are stated for sets and functions.                 *)
(***************************************************************************)
EXTENDS OrderBy, FiniteSetTheorems, FunctionTheorems, WellFoundedInduction, TLAPS

\* An order without ties, and a sequence that ascends in it.
Total(before, S) ==
    /\ \A x \in S : <<x, x>> \notin before
    /\ NoTies(before, S)
    /\ \A x, y, z \in S : <<x, y>> \in before /\ <<y, z>> \in before => <<x, z>> \in before
Ascends(r, before) == \A i, j \in DOMAIN r : i < j => <<r[i], r[j]>> \in before

\* The place of a row: one after those that come before it.
Earlier(x, S, before) == {y \in S : <<y, x>> \in before}
Place(x, S, before) == Cardinality(Earlier(x, S, before)) + 1

\* Of two rows the earlier one has the lower place.
LEMMA PlaceGrows ==
    ASSUME NEW S, IsFiniteSet(S), NEW before, Total(before, S),
           NEW x \in S, NEW y \in S, <<x, y>> \in before
    PROVE  Place(x, S, before) < Place(y, S, before)
  <1> DEFINE lo == Earlier(x, S, before)
             hi == Earlier(y, S, before)
  <1>1. lo \subseteq hi /\ x \in hi /\ x \notin lo
    BY DEF Total, NoTies, Earlier
  <1>2. IsFiniteSet(hi)
    BY FS_Subset DEF Earlier
  <1>3. IsFiniteSet(lo) /\ Cardinality(lo) \in Nat /\ Cardinality(hi) \in Nat
    BY <1>1, <1>2, FS_Subset, FS_CardinalityType
  <1>4. Cardinality(lo) <= Cardinality(hi) /\ Cardinality(lo) # Cardinality(hi)
    BY <1>1, <1>2, FS_Subset
  <1>. QED  BY <1>3, <1>4 DEF Place

LEMMA PlaceRange ==
    ASSUME NEW S, IsFiniteSet(S), NEW before, Total(before, S), NEW x \in S
    PROVE  Place(x, S, before) \in 1 .. Cardinality(S)
  <1> DEFINE lo == Earlier(x, S, before)
  <1>1. lo \subseteq S \ {x}
    BY DEF Total, NoTies, Earlier
  <1>2. IsFiniteSet(S \ {x}) /\ Cardinality(S \ {x}) = Cardinality(S) - 1
    BY FS_RemoveElement
  <1>3. IsFiniteSet(lo) /\ Cardinality(lo) \in Nat /\ Cardinality(lo) <= Cardinality(S \ {x})
    BY <1>1, <1>2, FS_Subset, FS_CardinalityType
  <1>. QED  BY <1>2, <1>3, FS_CardinalityType DEF Place

\* Hence the places are 1, 2, ..., and the rows by their places are in order.
LEMMA SomeOrder ==
    ASSUME NEW S, IsFiniteSet(S), NEW before, Total(before, S)
    PROVE  \E r \in [1 .. Cardinality(S) -> S] : Ascends(r, before)
  <1> DEFINE n == Cardinality(S)
             place == [x \in S |-> Place(x, S, before)]
  <1>0. n \in Nat /\ IsFiniteSet(1 .. n) /\ Cardinality(1 .. n) = n
    BY FS_CardinalityType, FS_Interval
  <1>1. place \in [S -> 1 .. n]
    BY PlaceRange
  <1>2. \A x, y \in S : <<x, y>> \in before => place[x] < place[y]
    BY PlaceGrows
  <1> HIDE DEF place
  <1>3. \A x, y \in S : place[x] = place[y] => x = y
    <2>1. \A x, y \in S : <<x, y>> \in before => place[x] # place[y]
      BY <1>0, <1>1, <1>2
    <2>. QED  BY <2>1 DEF Total, NoTies
  <1>4. place \in Injection(S, 1 .. n)
    BY <1>1, <1>3, Fun_IsInj
  <1>5. place \in Surjection(S, 1 .. n)
    BY <1>0, <1>4, FS_Injection
  <1>6. \A k \in 1 .. n : \E x \in S : place[x] = k
    BY <1>5, Fun_SurjectionProperties
  <1> DEFINE r == [k \in 1 .. n |-> CHOOSE x \in S : place[x] = k]
  <1>7. r \in [1 .. n -> S] /\ \A k \in 1 .. n : place[r[k]] = k
    BY <1>6
  <1> HIDE DEF r
  <1>8. ASSUME NEW i \in 1 .. n, NEW j \in 1 .. n, i < j
        PROVE  <<r[i], r[j]>> \in before
    <2>1. r[i] \in S /\ r[j] \in S /\ place[r[i]] < place[r[j]]
      BY <1>7, <1>8
    <2>2. r[i] # r[j] /\ <<r[j], r[i]>> \notin before
      BY <1>0, <1>1, <1>2, <2>1
    <2>. QED  BY <2>1, <2>2 DEF Total, NoTies
  <1>. QED  BY <1>7, <1>8 DEF Ascends

LEMMA TotalOrders ==
    ASSUME NEW S, NEW before, Orders(before, S), NoTies(before, S)
    PROVE  Total(before, S)
  BY DEF Orders, NoTies, Total

\* Ties can be broken, by any numbering of the rows.
LEMMA TiesBreak ==
    ASSUME NEW S, IsFiniteSet(S), NEW before, Orders(before, S)
    PROVE  \E full : Total(full, S) /\ \A x, y \in S : <<x, y>> \in before => <<x, y>> \in full
  <1>1. PICK n \in Nat : ExistsBijection(1 .. n, S)
    BY FS_NatBijection
  <1>2. PICK num : num \in Bijection(S, 1 .. n)
    BY <1>1, Fun_ExistsBijSymmetric DEF ExistsBijection
  <1>3. /\ \A x \in S : num[x] \in Int
        /\ \A x, y \in S : num[x] = num[y] => x = y
    BY <1>2 DEF Bijection, Injection, IsInjective
  <1> DEFINE tie(x, y) == <<x, y>> \notin before /\ <<y, x>> \notin before
             full == {p \in S \X S : p \in before \/ (tie(p[1], p[2]) /\ num[p[1]] < num[p[2]])}
  <1>4. \A x, y \in S : <<x, y>> \in full <=> <<x, y>> \in before \/ (tie(x, y) /\ num[x] < num[y])
    OBVIOUS
  <1> HIDE DEF full
  <1>5. Total(full, S)
    <2>1. \A x \in S : <<x, x>> \notin full
      BY <1>3, <1>4 DEF Orders
    <2>2. NoTies(full, S)
      BY <1>3, <1>4 DEF NoTies
    <2>3. ASSUME NEW x \in S, NEW y \in S, NEW z \in S, <<x, y>> \in full, <<y, z>> \in full
          PROVE  <<x, z>> \in full
      <3>1. num[x] \in Int /\ num[y] \in Int /\ num[z] \in Int
        BY <1>3
      <3>2. \/ <<x, y>> \in before
            \/ tie(x, y) /\ num[x] < num[y]
        BY <1>4, <2>3
      <3>3. \/ <<y, z>> \in before
            \/ tie(y, z) /\ num[y] < num[z]
        BY <1>4, <2>3
      <3>4. num[x] < num[y] /\ num[y] < num[z] => num[x] < num[z]
        BY <3>1
      <3> DEFINE xy == <<x, y>> \in before
                 yx == <<y, x>> \in before
                 yz == <<y, z>> \in before
                 zy == <<z, y>> \in before
                 xz == <<x, z>> \in before
                 zx == <<z, x>> \in before
      <3>5. /\ (xy => ~ yx) /\ (yz => ~ zy) /\ (xz => xy \/ yz) /\ (zx => zy \/ yx)
            /\ (xy => xz \/ zy) /\ (yz => yx \/ xz)
        BY DEF Orders
      <3>6. xz \/ (~ xz /\ ~ zx /\ num[x] < num[z])
        BY <3>2, <3>3, <3>4, <3>5
      <3>. QED  BY <1>4, <3>6
    <2>. QED  BY <2>1, <2>2, <2>3 DEF Total
  <1>. QED  BY <1>4, <1>5

\* A query returns every row once, in the order of its ORDER BY clause.
THEOREM OrderByReturns ==
    ASSUME NEW S, IsFiniteSet(S), NEW before, Orders(before, S)
    PROVE  /\ OrderBy(S, before) \in [1 .. Cardinality(S) -> S]
           /\ InOrder(OrderBy(S, before), before)
           /\ \A i, j \in 1 .. Cardinality(S) :
                 OrderBy(S, before)[i] = OrderBy(S, before)[j] => i = j
           /\ \A x \in S : \E i \in 1 .. Cardinality(S) : OrderBy(S, before)[i] = x
  <1> DEFINE n == Cardinality(S)
             r == OrderBy(S, before)
  <1>0. n \in Nat /\ IsFiniteSet(1 .. n) /\ Cardinality(1 .. n) = n
    BY FS_CardinalityType, FS_Interval
  <1>1. r \in [1 .. n -> S] /\ InOrder(r, before)
    <2>1. PICK full : Total(full, S) /\ \A x, y \in S : <<x, y>> \in before => <<x, y>> \in full
      BY TiesBreak
    <2>2. PICK t \in [1 .. n -> S] : Ascends(t, full)
      BY <2>1, SomeOrder
    <2>3. InOrder(t, before)
      <3>1. SUFFICES ASSUME NEW i \in 1 .. n, NEW j \in 1 .. n, i < j
                     PROVE  t[i] # t[j] /\ <<t[j], t[i]>> \notin before
        BY <2>2 DEF InOrder
      <3>2. t[i] \in S /\ t[j] \in S /\ <<t[i], t[j]>> \in full
        BY <2>2, <3>1 DEF Ascends
      <3>. QED  BY <2>1, <3>2 DEF Total
    <2>. QED  BY <2>3 DEF OrderBy
  <1> HIDE DEF r
  <1>2. \A i, j \in 1 .. n : r[i] = r[j] => i = j
    <2>1. ASSUME NEW i \in 1 .. n, NEW j \in 1 .. n, i < j PROVE r[i] # r[j]
      BY <1>1, <2>1 DEF InOrder
    <2>. QED  BY <1>0, <2>1
  <1>3. r \in Injection(1 .. n, S)
    BY <1>1, <1>2, Fun_IsInj
  <1>4. r \in Surjection(1 .. n, S)
    BY <1>0, <1>3, FS_Injection
  <1>5. \A x \in S : \E i \in 1 .. n : r[i] = x
    BY <1>4 DEF Surjection
  <1>. QED  BY <1>1, <1>2, <1>5 DEF r

\* Where no rows tie, each is at its place.
THEOREM OrderByPlaces ==
    ASSUME NEW S, IsFiniteSet(S), NEW before, Orders(before, S), NoTies(before, S),
           NEW k \in 1 .. Cardinality(S)
    PROVE  Place(OrderBy(S, before)[k], S, before) = k
  <1> DEFINE n == Cardinality(S)
             r == OrderBy(S, before)
  <1>0. n \in Nat
    BY FS_CardinalityType
  <1>1. /\ r \in [1 .. n -> S] /\ InOrder(r, before)
        /\ \A i, j \in 1 .. n : r[i] = r[j] => i = j
        /\ \A x \in S : \E i \in 1 .. n : r[i] = x
    BY OrderByReturns
  <1> HIDE DEF r
  <1> DEFINE lo == Earlier(r[k], S, before)
             f == [i \in 1 .. k - 1 |-> r[i]]
  <1>2. \A i, j \in 1 .. n : i < j => <<r[i], r[j]>> \in before /\ <<r[j], r[i]>> \notin before
    BY <1>1 DEF InOrder, NoTies
  <1>3. \A i \in 1 .. n : r[i] \in lo <=> i < k
    <2>1. SUFFICES ASSUME NEW i \in 1 .. n PROVE <<r[i], r[k]>> \in before <=> i < k
      BY <1>1 DEF Earlier
    <2>2. i = k => <<r[i], r[k]>> \notin before
      BY <1>1 DEF Orders
    <2>3. k \in 1 .. n /\ (i < k \/ i = k \/ k < i)
      BY <1>0
    <2>. QED  BY <1>2, <2>2, <2>3
  <1>4. f \in [1 .. k - 1 -> lo]
    BY <1>0, <1>3
  <1>5. \A i, j \in 1 .. k - 1 : f[i] = f[j] => i = j
    BY <1>0, <1>1
  <1>6. \A x \in lo : \E i \in 1 .. k - 1 : f[i] = x
    <2>1. SUFFICES ASSUME NEW x \in lo PROVE \E i \in 1 .. k - 1 : f[i] = x
      OBVIOUS
    <2>2. PICK i \in 1 .. n : r[i] = x
      BY <1>1 DEF Earlier
    <2>. QED  BY <1>0, <1>3, <2>2
  <1>7. f \in Bijection(1 .. k - 1, lo)
    BY <1>4, <1>5, <1>6, Fun_IsBij
  <1>8. ExistsBijection(1 .. k - 1, lo) /\ k - 1 \in Nat
    BY <1>0, <1>7 DEF ExistsBijection
  <1>9. Cardinality(lo) = k - 1
    BY <1>8, FS_CountingElements
  <1>. QED  BY <1>9 DEF Place, r

-----------------------------------------------------------------------------
(***************************************************************************)
(* A set of naturals has a least element.                                  *)
(***************************************************************************)
LEMMA LeastElement ==
    ASSUME NEW T, T \subseteq Nat, T # {}
    PROVE  \E x \in T : \A y \in T : x <= y
<1> DEFINE less == OpToRel(<, Nat)
<1>1. IsWellFoundedOn(less, Nat)
    BY NatLessThanWellFounded
<1>2. \A x, y \in Nat : <<x, y>> \in less <=> x < y
    BY DEF OpToRel
<1> HIDE DEF less
<1>3. PICK m \in T : \A k \in T : <<k, m>> \notin less
    BY <1>1, WFMin
<1>4. \A y \in T : ~ (y < m)
    BY <1>2, <1>3
<1> QED
    BY <1>4

(***************************************************************************)
(* Induction on the natural numbers, for a set of them: a least number     *)
(* outside it would not be zero, nor the successor of another.             *)
(***************************************************************************)
LEMMA SetInduction ==
    ASSUME NEW T \in SUBSET Nat, 0 \in T, \A n \in T : n + 1 \in T
    PROVE  \A n \in Nat : n \in T
<1> DEFINE out == Nat \ T
<1>1. SUFFICES ASSUME out # {} PROVE FALSE
    OBVIOUS
<1>2. PICK m \in out : \A y \in out : m <= y
    BY <1>1, LeastElement
<1>3. m \in Nat /\ m # 0 /\ m \notin T
    OBVIOUS
<1>4. m - 1 \in Nat /\ ~ (m <= m - 1) /\ (m - 1) + 1 = m
    BY <1>3
<1>5. m - 1 \in T
    BY <1>2, <1>4
<1> QED
    BY <1>3, <1>4, <1>5

(***************************************************************************)
(* Induction on a measure.                                                 *)
(***************************************************************************)
LEMMA MeasureInduction ==
    ASSUME NEW X, NEW mu \in [X -> Nat], NEW T \in SUBSET X,
           \A x \in X : (\A y \in X : mu[y] < mu[x] => y \in T) => x \in T
    PROVE  X = T
<1> DEFINE out == X \ T
           N == {mu[x] : x \in out}
<1>1. SUFFICES ASSUME out # {} PROVE FALSE
    OBVIOUS
<1>2. N \subseteq Nat /\ N # {}
    BY <1>1
<1>3. PICK m \in N : \A y \in N : m <= y
    BY <1>2, LeastElement
<1>4. PICK x \in out : mu[x] = m
    OBVIOUS
<1>5. ASSUME NEW y \in X, mu[y] < mu[x], y \notin T PROVE FALSE
    BY <1>3, <1>4, <1>5, SMTT(60)
<1> QED
    BY <1>4, <1>5

(***************************************************************************)
(* Recursion on a measure.  next computes a function from another; if what *)
(* it computes at a place depends only on places of a smaller measure,     *)
(* there is a function that it leaves as it is.                            *)
(***************************************************************************)
FunctionsOn(X, F) == F # {} /\ \A f \in F : f = [x \in X |-> f[x]]
Causal(X, mu, F, next) ==
    \A f, g \in F, x \in X :
        (\A y \in X : mu[y] < mu[x] => f[y] = g[y]) => next[f][x] = next[g][x]

LEMMA Recursion ==
    ASSUME NEW X, NEW N \in Nat, NEW mu \in [X -> 0 .. N], NEW F, FunctionsOn(X, F),
           NEW next \in [F -> F], Causal(X, mu, F, next)
    PROVE  \E f \in F : f = next[f]
<1> USE DEF FunctionsOn, Causal
<1> DEFINE T == {n \in Nat : \E f \in F : \A x \in X : mu[x] < n => f[x] = next[f][x]}
<1>1. 0 \in T
    BY SMT
<1>2. ASSUME NEW n \in T PROVE n + 1 \in T
    <2>1. PICK f \in F : \A x \in X : mu[x] < n => f[x] = next[f][x]
        OBVIOUS
    <2>2. next[f] \in F /\ next[next[f]] \in F
        OBVIOUS
    <2>3. ASSUME NEW x \in X, mu[x] < n + 1 PROVE next[f][x] = next[next[f]][x]
        <3>1. ASSUME NEW y \in X, mu[y] < mu[x] PROVE f[y] = next[f][y]
            BY <2>1, <2>3, <3>1
        <3> QED
            BY <2>2, <3>1
    <2> QED
        BY <2>2, <2>3
<1>3. \A n \in Nat : n \in T
    <2>1. T \in SUBSET Nat
        OBVIOUS
    <2> HIDE DEF T
    <2> QED
        BY <1>1, <1>2, <2>1, SetInduction
<1>4. N + 1 \in T
    BY <1>3
<1>5. PICK f \in F : \A x \in X : mu[x] < N + 1 => f[x] = next[f][x]
    BY <1>4
<1>6. \A x \in X : f[x] = next[f][x]
    BY <1>5
<1>7. next[f] \in F
    OBVIOUS
<1>8. f = next[f]
    BY <1>6, <1>7
<1> QED
    BY <1>8
=============================================================================
