-------------------------- MODULE MigrationsProofs --------------------------
(***************************************************************************)
(* Theorems about Migrations: for any files, statements and number of      *)
(* starts, a recorded file is complete, the files are applied in order,    *)
(* and the service runs only on a complete database.                       *)
(***************************************************************************)
EXTENDS Migrations, SharedProofs, SequenceTheorems, TLAPS

(***************************************************************************)
(* Positions from top to bottom.                                           *)
(***************************************************************************)
Over(S, x) == {y \in S : y < x}

LEMMA DownReturns ==
    ASSUME NEW S \in SUBSET Nat, IsFiniteSet(S)
    PROVE  /\ Down(S) \in [1 .. Cardinality(S) -> S] /\ Cardinality(S) \in Nat
           /\ \A x \in S : \E i \in 1 .. Cardinality(S) : Down(S)[i] = x
           /\ \A k \in 1 .. Cardinality(S) : Cardinality(Over(S, Down(S)[k])) = k - 1
<1> DEFINE above == {p \in S \X S : p[1] < p[2]}
<1>1. Orders(above, S) /\ NoTies(above, S)
    BY DEF Orders, NoTies
<1>2. Down(S) = OrderBy(S, above)
    BY DEF Down
<1> HIDE DEF above
<1>3. /\ Down(S) \in [1 .. Cardinality(S) -> S] /\ Cardinality(S) \in Nat
      /\ \A x \in S : \E i \in 1 .. Cardinality(S) : Down(S)[i] = x
    BY <1>1, <1>2, OrderByReturns, FS_CardinalityType
<1>4. ASSUME NEW k \in 1 .. Cardinality(S)
      PROVE  Cardinality(Over(S, Down(S)[k])) = k - 1
    <2>1. Place(Down(S)[k], S, above) = k
        BY <1>1, <1>2, OrderByPlaces
    <2>2. Earlier(Down(S)[k], S, above) = Over(S, Down(S)[k])
        BY <1>3 DEF Earlier, above, Over
    <2>3. Cardinality(Over(S, Down(S)[k])) \in Nat
        BY FS_Subset, FS_CardinalityType DEF Over
    <2> QED
        BY <2>1, <2>2, <2>3 DEF Place
<1> QED
    BY <1>3, <1>4

\* Different positions have different numbers of positions over them.
LEMMA OverDiffers ==
    ASSUME NEW S \in SUBSET Nat, IsFiniteSet(S), NEW x \in S, NEW y \in S,
           Cardinality(Over(S, x)) = Cardinality(Over(S, y))
    PROVE  x = y
<1>1. ASSUME NEW v \in S, NEW w \in S, v < w
      PROVE  Cardinality(Over(S, v)) # Cardinality(Over(S, w))
    <2>1. Over(S, v) \subseteq Over(S, w) /\ v \in Over(S, w) /\ v \notin Over(S, v)
        <3>1. \A z \in S : z \in Nat
            OBVIOUS
        <3>2. \A z \in S : z < v => z < w
            BY <1>1, <3>1
        <3>3. Over(S, v) \subseteq Over(S, w)
            BY <3>2 DEF Over
        <3>4. v \in Over(S, w) /\ v \notin Over(S, v)
            BY <1>1, <3>1 DEF Over
        <3> QED
            BY <3>3, <3>4
    <2>2. IsFiniteSet(Over(S, w))
        BY FS_Subset DEF Over
    <2> QED
        BY <2>1, <2>2, FS_Subset
<1>2. x < y \/ y < x \/ x = y
    OBVIOUS
<1> QED
    BY <1>1, <1>2

\* A position below all the others comes last.
LEMMA DownGrows ==
    ASSUME NEW S \in SUBSET Nat, IsFiniteSet(S), NEW n \in Nat, \A x \in S : x < n,
           NEW c, c = Cardinality(S), NEW T, T = S \cup {n}
    PROVE  /\ c \in Nat /\ Cardinality(T) = c + 1
           /\ \A k \in 1 .. c : Down(T)[k] = Down(S)[k]
           /\ Down(T)[c + 1] = n
<1>1. /\ T \in SUBSET Nat /\ IsFiniteSet(T) /\ n \notin S
      /\ Cardinality(T) = c + 1 /\ c \in Nat
    <2>1. n \notin S /\ T \in SUBSET Nat
        OBVIOUS
    <2>2. c \in Nat
        BY FS_CardinalityType
    <2> QED
        BY <2>1, <2>2, FS_AddElement
<1>2. /\ Down(T) \in [1 .. c + 1 -> T]
      /\ \A k \in 1 .. c + 1 : Cardinality(Over(T, Down(T)[k])) = k - 1
    BY <1>1, DownReturns
<1>3. /\ Down(S) \in [1 .. c -> S]
      /\ \A k \in 1 .. c : Cardinality(Over(S, Down(S)[k])) = k - 1
    BY DownReturns
<1>4. ASSUME NEW k \in 1 .. c
      PROVE  Down(T)[k] = Down(S)[k]
    <2>1. k \in 1 .. c + 1
        BY <1>1
    <2>2. Down(S)[k] \in S /\ Down(S)[k] \in T /\ Down(T)[k] \in T
        BY <1>2, <1>3, <2>1
    <2>3. Over(T, Down(S)[k]) = Over(S, Down(S)[k])
        <3>1. Down(S)[k] \in Nat /\ Down(S)[k] < n
            BY <2>2
        <3>2. ~ (n < Down(S)[k])
            BY <3>1
        <3> QED
            BY <3>2 DEF Over
    <2>4. Cardinality(Over(T, Down(S)[k])) = Cardinality(Over(T, Down(T)[k]))
        BY <1>2, <1>3, <2>1, <2>3
    <2> DEFINE x == Down(S)[k]
               y == Down(T)[k]
    <2> HIDE DEF x, y
    <2>5. x \in T /\ y \in T /\ Cardinality(Over(T, x)) = Cardinality(Over(T, y))
        BY <2>2, <2>4 DEF x, y
    <2>6. x = y
        BY <1>1, <2>5, OverDiffers
    <2> QED
        BY <2>6 DEF x, y
<1>5. Down(T)[c + 1] = n
    <2>1. c + 1 \in 1 .. c + 1 /\ n \in T
        BY <1>1
    <2>2. Down(T)[c + 1] \in T
        BY <1>2, <2>1
    <2>3. Over(T, n) = S
        <3>1. ~ (n < n)
            OBVIOUS
        <3> QED
            BY <3>1 DEF Over
    <2>4. Cardinality(Over(T, Down(T)[c + 1])) = c
        <3>1. Cardinality(Over(T, Down(T)[c + 1])) = (c + 1) - 1
            BY <1>2, <2>1
        <3>2. (c + 1) - 1 = c
            BY <1>1
        <3> QED
            BY <3>1, <3>2
    <2> DEFINE y == Down(T)[c + 1]
    <2> HIDE DEF y
    <2>5. y \in T /\ Cardinality(Over(T, y)) = Cardinality(Over(T, n))
        BY <2>2, <2>3, <2>4 DEF y
    <2>6. y = n
        BY <1>1, <2>1, <2>5, OverDiffers
    <2> QED
        BY <2>6 DEF y
<1> QED
    BY <1>1, <1>4, <1>5

\* The last of some positions.
LEMMA Bottom ==
    ASSUME NEW S \in SUBSET Nat, IsFiniteSet(S), S # {}
    PROVE  \E m \in S : \A k \in S : k <= m
<1> DEFINE c == Cardinality(S)
           m == Down(S)[c]
<1>1. c \in Nat /\ c # 0
    BY FS_CardinalityType, FS_EmptySet
<1>2. c \in 1 .. c
    BY <1>1
<1>3. m \in S /\ Cardinality(Over(S, m)) = c - 1
    BY <1>2, DownReturns
<1> HIDE DEF m
<1>4. IsFiniteSet(S \ {m}) /\ Cardinality(S \ {m}) = c - 1
    BY <1>3, FS_RemoveElement
<1>5. Over(S, m) \subseteq S \ {m}
    BY <1>3 DEF Over
<1>6. Over(S, m) = S \ {m}
    BY <1>3, <1>4, <1>5, FS_Subset
<1>7. \A k \in S : k \in Nat /\ (k < m \/ k = m)
    BY <1>6 DEF Over
<1> QED
    BY <1>3, <1>7

\* The text at given places: none, and one more.
LEMMA LinesTyped ==
    ASSUME NEW lines \in Seq(Line), NEW S \in SUBSET (DOMAIN lines)
    PROVE  /\ LinesAt(lines, S) \in Seq(Line)
           /\ Len(LinesAt(lines, S)) = Cardinality(S)
           /\ Cardinality(S) \in Nat /\ IsFiniteSet(S) /\ S \in SUBSET Nat
           /\ LinesAt(lines, S) = <<>> <=> S = {}
<1>1. DOMAIN lines = 1 .. Len(lines) /\ Len(lines) \in Nat /\ \A i \in 1 .. Len(lines) : lines[i] \in Line
    OBVIOUS
<1>2. IsFiniteSet(S) /\ S \in SUBSET Nat /\ Cardinality(S) \in Nat
    <2>1. S \subseteq 1 .. Len(lines) /\ S \in SUBSET Nat
        BY <1>1
    <2>2. IsFiniteSet(1 .. Len(lines))
        BY <1>1, FS_Interval
    <2>3. IsFiniteSet(S)
        BY <2>1, <2>2, FS_Subset
    <2> QED
        BY <2>1, <2>3, FS_CardinalityType
<1>3. Down(S) \in [1 .. Cardinality(S) -> S]
    BY <1>2, DownReturns
<1>4. LinesAt(lines, S) \in [1 .. Cardinality(S) -> Line]
    BY <1>1, <1>3 DEF LinesAt
<1>5. LinesAt(lines, S) \in Seq(Line) /\ Len(LinesAt(lines, S)) = Cardinality(S)
    BY <1>2, <1>4
<1>6. Cardinality(S) = 0 <=> S = {}
    BY <1>2, FS_EmptySet
<1>7. LinesAt(lines, S) = <<>> <=> Len(LinesAt(lines, S)) = 0
    BY <1>5, EmptySeq
<1> QED
    BY <1>2, <1>5, <1>6, <1>7

LEMMA LinesGrow ==
    ASSUME NEW lines \in Seq(Line), NEW S \in SUBSET (DOMAIN lines),
           NEW n \in DOMAIN lines, \A x \in S : x < n
    PROVE  LinesAt(lines, S \cup {n}) = Append(LinesAt(lines, S), lines[n])
<1> DEFINE T == S \cup {n}
           c == Cardinality(S)
           r == LinesAt(lines, S)
           s == LinesAt(lines, T)
<1>1. n \in Nat /\ lines[n] \in Line /\ T \in SUBSET (DOMAIN lines)
    OBVIOUS
<1>2. /\ r \in Seq(Line) /\ Len(r) = c /\ c \in Nat /\ IsFiniteSet(S) /\ S \in SUBSET Nat
    BY LinesTyped
<1>3. /\ s \in Seq(Line) /\ Len(s) = Cardinality(T)
    BY <1>1, LinesTyped
<1>4. /\ Cardinality(T) = c + 1
      /\ \A k \in 1 .. c : Down(T)[k] = Down(S)[k]
      /\ Down(T)[c + 1] = n
    <2> HIDE DEF T, c
    <2>1. T = S \cup {n} /\ c = Cardinality(S)
        BY DEF T, c
    <2>2. \A x \in S : x < n
        OBVIOUS
    <2>3. /\ S \in SUBSET Nat /\ IsFiniteSet(S) /\ n \in Nat
        BY <1>1, <1>2
    <2> HIDE DEF r, s
    <2> QED
        BY <2>1, <2>2, <2>3, DownGrows
<1>5. /\ \A k \in 1 .. c : r[k] = lines[Down(S)[k]]
      /\ \A k \in 1 .. c + 1 : s[k] = lines[Down(T)[k]]
    BY <1>2, <1>4 DEF LinesAt
<1> HIDE DEF r, s, T, c
<1>6. \A k \in 1 .. c + 1 : s[k] = Append(r, lines[n])[k]
    BY <1>1, <1>2, <1>4, <1>5
<1>7. Append(r, lines[n]) \in Seq(Line) /\ Len(Append(r, lines[n])) = c + 1
    BY <1>1, <1>2
<1>8. s = Append(r, lines[n])
    BY <1>3, <1>4, <1>6, <1>7, SeqEqual
<1> QED
    BY <1>8 DEF r, s, T

(***************************************************************************)
(* What splitStatements has after each line: its recursion is well         *)
(* defined.                                                                *)
(***************************************************************************)
Begins == [stmts |-> <<>>, cur |-> <<>>]

LEMMA AfterUnfolds ==
    ASSUME NEW lines \in Seq(Line)
    PROVE  /\ After(lines)[0] = Begins
           /\ \A n \in 1 .. Len(lines) : After(lines)[n] = AddLine(After(lines)[n - 1], lines[n])
<1> DEFINE upTo(g, n) == g = [i \in 0 .. n |-> IF i = 0 THEN Begins ELSE AddLine(g[i - 1], lines[i])]
           good == {n \in Nat : \E g : upTo(g, n)}
<1>1. 0 \in good
    <2>1. upTo([i \in 0 .. 0 |-> Begins], 0)
        OBVIOUS
    <2> QED
        BY <2>1
<1>2. ASSUME NEW n \in good PROVE n + 1 \in good
    <2>1. PICK g : upTo(g, n)
        OBVIOUS
    <2> DEFINE h == [i \in 0 .. n + 1 |-> IF i = n + 1 THEN AddLine(g[n], lines[n + 1]) ELSE g[i]]
    <2>2. \A i \in 0 .. n : g[i] = IF i = 0 THEN Begins ELSE AddLine(g[i - 1], lines[i])
        BY <2>1
    <2>3. ASSUME NEW i \in 0 .. n + 1
          PROVE  h[i] = IF i = 0 THEN Begins ELSE AddLine(h[i - 1], lines[i])
        <3>1. CASE i = n + 1
            <4>1. n \in 0 .. n + 1 /\ n # n + 1 /\ i # 0 /\ i - 1 = n
                BY <3>1
            <4>2. h[n] = g[n] /\ h[i] = AddLine(g[n], lines[n + 1])
                BY <3>1, <4>1
            <4> QED
                BY <3>1, <4>1, <4>2
        <3>2. CASE i # n + 1 /\ i # 0
            <4>1. i \in 0 .. n /\ i - 1 \in 0 .. n + 1 /\ i - 1 # n + 1
                BY <3>2
            <4>2. h[i] = g[i] /\ h[i - 1] = g[i - 1]
                BY <3>2, <4>1
            <4> QED
                BY <2>2, <3>2, <4>1, <4>2
        <3>3. CASE i = 0
            BY <2>2, <3>3
        <3> QED
            BY <3>1, <3>2, <3>3
    <2>4. upTo(h, n + 1)
        BY <2>3
    <2> HIDE DEF h
    <2> QED
        BY <2>4
<1> HIDE DEF upTo
<1>3. \A n \in Nat : n \in good
    <2>1. good \in SUBSET Nat
        OBVIOUS
    <2> HIDE DEF good
    <2> QED
        BY <1>1, <1>2, <2>1, SetInduction
<1>4. Len(lines) \in Nat
    OBVIOUS
<1>5. \E g : upTo(g, Len(lines))
    BY <1>3, <1>4
<1>6. After(lines) = CHOOSE g : upTo(g, Len(lines))
    BY DEF After, upTo, Begins
<1>7. upTo(After(lines), Len(lines))
    BY <1>5, <1>6
<1> QED
    BY <1>4, <1>7 DEF upTo

(***************************************************************************)
(* What it has after n lines: the statements that end in them, and the     *)
(* lines since the last of these.                                          *)
(***************************************************************************)
Cuts(lines, n) == {e \in 1 .. n : lines[e].kind = "last"}
Since(lines, n) ==
    {k \in 1 .. n : lines[k].kind # "skip" /\ \A d \in Cuts(lines, n) : d < k}
Between(lines, e) ==
    {k \in 1 .. e : lines[k].kind # "skip" /\ \A d \in Cuts(lines, e) : d < e => d < k}
Stated(lines, C) == [i \in 1 .. Cardinality(C) |-> LinesAt(lines, Between(lines, Down(C)[i]))]

LEMMA StatedTyped ==
    ASSUME NEW lines \in Seq(Line), NEW C \in SUBSET (DOMAIN lines)
    PROVE  /\ Stated(lines, C) \in Seq(Seq(Line))
           /\ Len(Stated(lines, C)) = Cardinality(C)
<1>1. /\ DOMAIN lines = 1 .. Len(lines) /\ Len(lines) \in Nat
      /\ IsFiniteSet(C) /\ C \in SUBSET Nat /\ Cardinality(C) \in Nat
    BY LinesTyped
<1>2. Down(C) \in [1 .. Cardinality(C) -> C]
    BY <1>1, DownReturns
<1>3. ASSUME NEW i \in 1 .. Cardinality(C)
      PROVE  LinesAt(lines, Between(lines, Down(C)[i])) \in Seq(Line)
    <2>1. Down(C)[i] \in 1 .. Len(lines)
        BY <1>1, <1>2
    <2>2. Between(lines, Down(C)[i]) \in SUBSET (DOMAIN lines)
        BY <1>1, <2>1 DEF Between
    <2> QED
        BY <2>2, LinesTyped
<1>4. Stated(lines, C) \in [1 .. Cardinality(C) -> Seq(Line)]
    BY <1>3 DEF Stated
<1> QED
    BY <1>1, <1>4

LEMMA StatedGrows ==
    ASSUME NEW lines \in Seq(Line), NEW C \in SUBSET (DOMAIN lines),
           NEW n \in DOMAIN lines, \A d \in C : d < n
    PROVE  Stated(lines, C \cup {n}) = Append(Stated(lines, C), LinesAt(lines, Between(lines, n)))
<1> DEFINE T == C \cup {n}
           c == Cardinality(C)
           r == Stated(lines, C)
           s == Stated(lines, T)
           last == LinesAt(lines, Between(lines, n))
<1>1. n \in Nat /\ n \in 1 .. Len(lines) /\ Len(lines) \in Nat /\ T \in SUBSET (DOMAIN lines)
    OBVIOUS
<1>2. IsFiniteSet(C) /\ C \in SUBSET Nat /\ c \in Nat
    BY LinesTyped
<1>3. r \in Seq(Seq(Line)) /\ Len(r) = c
    BY StatedTyped
<1>4. s \in Seq(Seq(Line)) /\ Len(s) = Cardinality(T)
    BY <1>1, StatedTyped
<1>5. /\ Cardinality(T) = c + 1
      /\ \A k \in 1 .. c : Down(T)[k] = Down(C)[k]
      /\ Down(T)[c + 1] = n
    BY <1>1, <1>2, DownGrows
<1>6. last \in Seq(Line)
    <2>1. Between(lines, n) \in SUBSET (DOMAIN lines)
        BY <1>1 DEF Between
    <2> QED
        BY <2>1, LinesTyped
<1>7. /\ \A k \in 1 .. c : r[k] = LinesAt(lines, Between(lines, Down(C)[k]))
      /\ \A k \in 1 .. c + 1 : s[k] = LinesAt(lines, Between(lines, Down(T)[k]))
    BY <1>5 DEF Stated
<1> HIDE DEF r, s, T, c, last
<1>8. \A k \in 1 .. c : s[k] = r[k]
    <2>1. \A k \in 1 .. c : k \in 1 .. c + 1
        BY <1>2
    <2> QED
        BY <1>5, <1>7, <2>1
<1>9. s[c + 1] = last
    <2>1. c + 1 \in 1 .. c + 1
        BY <1>2
    <2>2. s[c + 1] = LinesAt(lines, Between(lines, Down(T)[c + 1]))
        BY <1>7, <2>1
    <2> QED
        BY <1>5, <2>2 DEF last
<1>10. \A k \in 1 .. c + 1 : s[k] = Append(r, last)[k]
    BY <1>2, <1>3, <1>6, <1>8, <1>9
<1>11. Append(r, last) \in Seq(Seq(Line)) /\ Len(Append(r, last)) = c + 1
    BY <1>3, <1>6
<1>12. s = Append(r, last)
    BY <1>4, <1>5, <1>10, <1>11, SeqEqual
<1> QED
    BY <1>12 DEF r, s, T, last

LEMMA AfterIs ==
    ASSUME NEW lines \in Seq(Line)
    PROVE  \A n \in 0 .. Len(lines) :
              After(lines)[n] = [stmts |-> Stated(lines, Cuts(lines, n)),
                                 cur |-> LinesAt(lines, Since(lines, n))]
<1> DEFINE is(n) == After(lines)[n] = [stmts |-> Stated(lines, Cuts(lines, n)),
                                       cur |-> LinesAt(lines, Since(lines, n))]
           T == {n \in Nat : n <= Len(lines) => is(n)}
<1>0. /\ Len(lines) \in Nat /\ DOMAIN lines = 1 .. Len(lines)
      /\ \A n \in DOMAIN lines : lines[n] \in Line
    OBVIOUS
<1>1. is(0)
    <2>1. Cuts(lines, 0) = {} /\ Since(lines, 0) = {}
        BY DEF Cuts, Since
    <2>2. LinesAt(lines, {}) = <<>>
        BY LinesTyped
    <2>3. Stated(lines, {}) = <<>>
        <3>1. Stated(lines, {}) \in Seq(Seq(Line)) /\ Len(Stated(lines, {})) = 0
            BY StatedTyped, FS_EmptySet
        <3> QED
            BY <3>1, EmptySeq
    <2>4. After(lines)[0] = [stmts |-> <<>>, cur |-> <<>>]
        BY AfterUnfolds DEF Begins
    <2> QED
        BY <2>1, <2>2, <2>3, <2>4
<1>2. ASSUME NEW n \in Nat, n + 1 <= Len(lines), is(n)
      PROVE  is(n + 1)
    <2> DEFINE m == n + 1
               line == lines[m]
               C == Cuts(lines, n)
               U == Since(lines, n)
               acc == [stmts |-> Stated(lines, C), cur |-> LinesAt(lines, U)]
    <2>1. /\ m \in Nat /\ m \in 1 .. Len(lines) /\ m - 1 = n /\ line \in Line
          /\ \A k \in 1 .. m : k \in 1 .. n \/ k = m
          /\ \A k \in 1 .. n : k \in 1 .. m /\ k < m
        BY <1>0, <1>2
    <2>2. After(lines)[m] = AddLine(acc, line)
        <3>1. After(lines)[m] = AddLine(After(lines)[m - 1], lines[m])
            BY <2>1, AfterUnfolds
        <3> QED
            BY <1>2, <2>1, <3>1
    <2> HIDE DEF m
    <2>3. C \in SUBSET (DOMAIN lines) /\ U \in SUBSET (DOMAIN lines)
        BY <1>0, <1>2 DEF Cuts, Since
    <2>4. (\A d \in C : d < m) /\ (\A k \in U : k < m)
        BY <2>1 DEF Cuts, Since
    <2>5. line.kind \in {"skip", "part", "last"}
        BY <2>1 DEF Line
    <2>6. line.kind # "last" => Cuts(lines, m) = C
        BY <2>1 DEF Cuts
    <2>7. line.kind = "last" => Cuts(lines, m) = C \cup {m}
        BY <2>1 DEF Cuts
    <2>8. CASE line.kind = "skip"
        <3>1. Since(lines, m) = U
            BY <2>1, <2>6, <2>8 DEF Since
        <3>2. AddLine(acc, line) = acc
            BY <2>8 DEF AddLine
        <3> QED
            BY <2>2, <2>6, <2>8, <3>1, <3>2 DEF m
    <2>9. CASE line.kind = "part"
        <3>1. Since(lines, m) = U \cup {m}
            BY <2>1, <2>4, <2>6, <2>9 DEF Since
        <3>2. LinesAt(lines, U \cup {m}) = Append(LinesAt(lines, U), line)
            BY <1>0, <2>1, <2>3, <2>4, LinesGrow
        <3>3. AddLine(acc, line) = [stmts |-> acc.stmts, cur |-> Append(acc.cur, line)]
            BY <2>9 DEF AddLine
        <3> QED
            BY <2>2, <2>6, <2>9, <3>1, <3>2, <3>3 DEF m
    <2>10. CASE line.kind = "last"
        <3>1. Since(lines, m) = {}
            <4>1. m \in Cuts(lines, m)
                BY <2>7, <2>10
            <4>2. \A k \in 1 .. m : ~ (m < k)
                BY <2>1
            <4> QED
                BY <4>1, <4>2 DEF Since
        <3>2. Between(lines, m) = U \cup {m}
            BY <2>1, <2>4, <2>7, <2>10 DEF Since, Between
        <3>3. LinesAt(lines, U \cup {m}) = Append(LinesAt(lines, U), line)
            BY <1>0, <2>1, <2>3, <2>4, LinesGrow
        <3>4. Stated(lines, C \cup {m}) = Append(Stated(lines, C), LinesAt(lines, Between(lines, m)))
            BY <1>0, <2>1, <2>3, <2>4, StatedGrows
        <3>5. LinesAt(lines, {}) = <<>>
            BY LinesTyped
        <3>6. AddLine(acc, line)
                 = [stmts |-> Append(acc.stmts, Append(acc.cur, line)), cur |-> <<>>]
            BY <2>10 DEF AddLine
        <3> QED
            BY <2>2, <2>7, <2>10, <3>1, <3>2, <3>3, <3>4, <3>5, <3>6 DEF m
    <2> QED
        BY <2>5, <2>8, <2>9, <2>10
<1> HIDE DEF is
<1>3. 0 \in T
    BY <1>1
<1>4. \A n \in T : n + 1 \in T
    BY <1>0, <1>2
<1>5. \A n \in Nat : n \in T
    <2>1. T \in SUBSET Nat
        OBVIOUS
    <2> HIDE DEF T
    <2> QED
        BY <1>3, <1>4, <2>1, SetInduction
<1>6. \A n \in 0 .. Len(lines) : is(n)
    BY <1>0, <1>5
<1> QED
    BY <1>6 DEF is

(***************************************************************************)
(* splitStatements: the statements are what is between the lines that end  *)
(* one, from top to bottom.                                                *)
(***************************************************************************)
LEMMA LastLinesAre ==
    ASSUME NEW lines \in Seq(Line), NEW L, L = Len(lines),
           NEW C, C = Cuts(lines, L), NEW U, U = Since(lines, L)
    PROVE  /\ U = {} => LastLines(lines) = C
           /\ U # {} => \E m \in U : /\ LastLines(lines) = C \cup {m}
                                     /\ \A d \in C : d < m
                                     /\ Between(lines, m) = U
           /\ \A e \in LastLines(lines) : /\ Places(lines, e) = Between(lines, e)
                                          /\ e \in Places(lines, e)
<1>0. /\ L \in Nat /\ DOMAIN lines = 1 .. L
      /\ \A n \in 1 .. L : lines[n].kind \in {"skip", "part", "last"}
    <2>1. L \in Nat /\ DOMAIN lines = 1 .. L /\ \A n \in 1 .. L : lines[n] \in Line
        OBVIOUS
    <2> QED
        BY <2>1 DEF Line
<1>1. /\ C = {e \in 1 .. L : lines[e].kind = "last"}
      /\ U = {k \in 1 .. L : lines[k].kind # "skip" /\ \A d \in C : d < k}
      /\ Kept(lines) = {k \in 1 .. L : lines[k].kind # "skip"}
      /\ C \subseteq Kept(lines) /\ U \subseteq Kept(lines)
    BY <1>0 DEF Cuts, Since, Kept
<1>2. LastLines(lines) = {e \in Kept(lines) : e \in C \/ \A k \in Kept(lines) : k <= e}
    BY <1>0, <1>1 DEF LastLines
<1>3. \A x, y \in 1 .. L : (x <= y <=> ~ (y < x)) /\ (x <= y /\ y <= x => x = y) /\ ~ (x < x)
    BY <1>0
<1>4. \A x, y, z \in 1 .. L : (x <= y /\ y < z => x < z) /\ (x < y /\ y <= z => x < z)
    BY <1>0
<1>5. ASSUME U = {} PROVE LastLines(lines) = C
    <2>1. ASSUME NEW e \in Kept(lines), \A k \in Kept(lines) : k <= e PROVE e \in C
        <3>1. PICK d \in C : ~ (d < e)
            BY <1>1, <1>5, <2>1
        <3>2. d = e
            BY <1>1, <1>3, <2>1, <3>1
        <3> QED
            BY <3>1, <3>2
    <2> QED
        BY <1>1, <1>2, <2>1
<1>6. ASSUME U # {}
      PROVE  \E m \in U : /\ LastLines(lines) = C \cup {m}
                          /\ \A d \in C : d < m
                          /\ Between(lines, m) = U
    <2>1. PICK m \in U : \A k \in U : k <= m
        <3>0. \A k \in 1 .. L : k \in Nat
            OBVIOUS
        <3>1. U \subseteq 1 .. L
            BY <1>1, Zenon
        <3>2. U \in SUBSET Nat
            BY <3>0, <3>1, Zenon
        <3>3. L \in Int /\ 1 \in Int
            BY <1>0
        <3>4. IsFiniteSet(1 .. L)
            BY <3>3, FS_Interval, Zenon
        <3>5. IsFiniteSet(U)
            BY <3>1, <3>4, FS_Subset, Zenon
        <3> QED
            BY <1>6, <3>2, <3>5, Bottom
    <2>2. \A k \in Kept(lines) : k <= m
        <3>1. ASSUME NEW k \in Kept(lines), ~ (k <= m) PROVE FALSE
            <4>1. m < k /\ m \in 1 .. L /\ k \in 1 .. L
                BY <1>1, <1>3, <3>1
            <4>2. \A d \in C : d < m /\ d <= m
                BY <1>1, <1>3, <1>4
            <4>3. k \in U
                BY <1>1, <1>3, <1>4, <4>1, <4>2
            <4> QED
                BY <2>1, <3>1, <4>3
        <3> QED
            BY <3>1
    <2>3. LastLines(lines) = C \cup {m}
        <3>1. \A e \in Kept(lines) : (\A k \in Kept(lines) : k <= e) => e = m
            BY <1>1, <1>3, <2>2
        <3> QED
            BY <1>1, <1>2, <2>2, <3>1
    <2>4. Between(lines, m) = U
        <3>1. m \in 1 .. L /\ 1 .. m \subseteq 1 .. L /\ \A k \in 1 .. L : k <= m <=> k \in 1 .. m
            BY <1>0, <1>1
        <3>2. Cuts(lines, m) = C
            BY <1>1, <1>3, <3>1 DEF Cuts
        <3> QED
            BY <1>1, <2>1, <3>1, <3>2 DEF Between
    <2> QED
        BY <1>1, <2>1, <2>3, <2>4
<1>7. ASSUME NEW e \in LastLines(lines)
      PROVE  Places(lines, e) = Between(lines, e) /\ e \in Places(lines, e)
    <2>1. /\ e \in 1 .. L /\ lines[e].kind # "skip"
          /\ \A k \in 1 .. L : k <= e <=> k \in 1 .. e
          /\ 1 .. e \subseteq 1 .. L
        BY <1>0, <1>1, <1>2
    <2>2. \A d \in LastLines(lines) : d < e => d \in Cuts(lines, e)
        BY <1>1, <1>2, <1>3, <2>1 DEF Cuts
    <2>3. \A d \in Cuts(lines, e) : d \in LastLines(lines)
        BY <1>0, <1>1, <1>2, <2>1 DEF Cuts
    <2>4. Places(lines, e) = Between(lines, e)
        BY <1>1, <2>1, <2>2, <2>3 DEF Places, Between
    <2>5. e \in Places(lines, e)
        BY <1>1, <1>3, <2>1 DEF Places
    <2> QED
        BY <2>4, <2>5
<1> QED
    BY <1>5, <1>6, <1>7

LEMMA SplitIs ==
    ASSUME NEW lines \in Seq(Line), NEW ends, ends = LastLines(lines)
    PROVE  /\ Split(lines) = [i \in 1 .. Cardinality(ends) |->
                                 LinesAt(lines, Places(lines, Down(ends)[i]))]
           /\ Split(lines) \in Seq(Seq(Line) \ {<<>>})
<1> DEFINE L == Len(lines)
           C == Cuts(lines, L)
           U == Since(lines, L)
           r == Stated(lines, C)
           cur == LinesAt(lines, U)
<1>0. L \in Nat /\ DOMAIN lines = 1 .. L
    OBVIOUS
<1>1. C \in SUBSET (DOMAIN lines) /\ U \in SUBSET (DOMAIN lines) /\ ends \in SUBSET (DOMAIN lines)
    BY <1>0 DEF Cuts, Since, LastLines, Kept
<1>2. /\ U = {} => ends = C
      /\ U # {} => \E m \in U : /\ ends = C \cup {m}
                                /\ \A d \in C : d < m
                                /\ Between(lines, m) = U
      /\ \A e \in ends : /\ Places(lines, e) = Between(lines, e)
                         /\ e \in Places(lines, e)
    BY LastLinesAre
<1>3. Split(lines) = IF cur = <<>> THEN r ELSE Append(r, cur)
    <2>1. L \in 0 .. L
        BY <1>0
    <2>2. After(lines)[L] = [stmts |-> r, cur |-> cur]
        BY <2>1, AfterIs
    <2> QED
        BY <2>2 DEF Split
<1>4. cur = <<>> <=> U = {}
    BY <1>1, LinesTyped
<1>5. Split(lines) = Stated(lines, ends)
    <2>1. CASE U = {}
        BY <1>2, <1>3, <1>4, <2>1
    <2>2. CASE U # {}
        <3>1. PICK m \in U : /\ ends = C \cup {m}
                             /\ \A d \in C : d < m
                             /\ Between(lines, m) = U
            BY <1>2, <2>2
        <3>2. Stated(lines, C \cup {m}) = Append(r, LinesAt(lines, Between(lines, m)))
            BY <1>1, <3>1, StatedGrows
        <3> QED
            BY <1>3, <1>4, <2>2, <3>1, <3>2
    <2> QED
        BY <2>1, <2>2
<1> HIDE DEF L, C, U, r, cur
<1>6. /\ Down(ends) \in [1 .. Cardinality(ends) -> ends] /\ Cardinality(ends) \in Nat
    <2>1. IsFiniteSet(ends) /\ ends \in SUBSET Nat
        BY <1>1, LinesTyped
    <2> QED
        BY <2>1, DownReturns
<1>7. \A i \in 1 .. Cardinality(ends) : Between(lines, Down(ends)[i]) = Places(lines, Down(ends)[i])
    BY <1>2, <1>6
<1>8. Stated(lines, ends) = [i \in 1 .. Cardinality(ends) |->
                                LinesAt(lines, Places(lines, Down(ends)[i]))]
    BY <1>7 DEF Stated
<1>9. ASSUME NEW i \in 1 .. Cardinality(ends)
      PROVE  LinesAt(lines, Places(lines, Down(ends)[i])) \in Seq(Line) \ {<<>>}
    <2>1. Down(ends)[i] \in ends
        BY <1>6
    <2>2. Places(lines, Down(ends)[i]) \in SUBSET (DOMAIN lines)
        BY DEF Places, Kept
    <2>3. Places(lines, Down(ends)[i]) # {}
        BY <1>2, <2>1
    <2> QED
        BY <2>2, <2>3, LinesTyped
<1>10. Stated(lines, ends) \in [1 .. Cardinality(ends) -> Seq(Line) \ {<<>>}]
    BY <1>8, <1>9
<1>11. \A s : s \in [1 .. Cardinality(ends) -> Seq(Line) \ {<<>>}]
                 => s \in Seq(Seq(Line) \ {<<>>})
    BY <1>6
<1>12. Stated(lines, ends) \in Seq(Seq(Line) \ {<<>>})
    BY <1>10, <1>11
<1> QED
    BY <1>5, <1>8, <1>12

(***************************************************************************)
(* The statements of a file form a sequence.                               *)
(***************************************************************************)
LEMMA StmtsAreSeq ==
    ASSUME TypeOK, NEW f \in Files
    PROVE  /\ Stmts(f) \in Seq(Seq(Line) \ {<<>>})
           /\ DOMAIN Stmts(f) = 1 .. Len(Stmts(f))
           /\ Len(Stmts(f)) \in Nat
<1>1. text[f] \in Seq(Line)
    BY MigrationsAssumption DEF TypeOK
<1>2. Split(text[f]) \in Seq(Seq(Line) \ {<<>>})
    BY <1>1, SplitIs
<1>3. Stmts(f) \in Seq(Seq(Line) \ {<<>>})
    BY <1>2 DEF Stmts
<1> QED
    BY <1>3

(***************************************************************************)
(* Every step keeps the types.                                             *)
(***************************************************************************)
LEMMA TypeStep ==
    ASSUME IInv, [Next]_vars
    PROVE  TypeOK'
<1> USE MigrationsAssumption
<1>0. TypeOK /\ Progress
    BY DEF IInv
<1>1. CASE Start
    BY <1>0, <1>1 DEF Start, TypeOK, Files
<1>2. CASE Finish
    BY <1>0, <1>2 DEF Finish, TypeOK, Files
<1>3. CASE Skip
    BY <1>0, <1>3 DEF Skip, TypeOK, Files
<1>4. CASE Begin
    BY <1>0, <1>4 DEF Begin, TypeOK, Files
<1>5. CASE Exec
    <2>1. file \in Files
        BY <1>0, <1>5 DEF Exec, Progress
    <2>2. Stmts(file)[next] \in Seq(Line) \ {<<>>} /\ next \in 1 .. Len(Stmts(file))
        BY <1>0, <1>5, <2>1, StmtsAreSeq DEF Exec
    <2>3. tables' \subseteq tables \cup {Creates(Stmts(file)[next])}
        BY <1>5 DEF Exec
    <2>4. tables' \subseteq Tables
        <3>1. Stmts(file)[next][1] \in Line
            BY <2>2
        <3> QED
            BY <3>1, <2>3, <1>0 DEF Line, Creates, TypeOK
    <2> QED
        BY <1>0, <1>5, <2>4 DEF Exec, TypeOK
<1>6. CASE Record
    <2>1. file \in Files
        BY <1>0, <1>6 DEF Record, Progress
    <2> QED
        BY <1>0, <1>6, <2>1 DEF Record, TypeOK, Files
<1>7. CASE Fail
    BY <1>0, <1>7 DEF Fail, TypeOK
<1>8. CASE Stop
    BY <1>0, <1>8 DEF Stop, TypeOK
<1>9. CASE UNCHANGED vars
    BY <1>0, <1>9 DEF vars, TypeOK
<1> QED
    BY <1>1, <1>2, <1>3, <1>4, <1>5, <1>6, <1>7, <1>8, <1>9 DEF Next, Step

(***************************************************************************)
(* Tables are never dropped, records never removed, files never changed.   *)
(***************************************************************************)
LEMMA OnlyGrows ==
    ASSUME [Next]_vars
    PROVE  /\ text' = text
           /\ tables \subseteq tables'
           /\ recorded \subseteq recorded'
<1> QED
    BY DEF Next, Step, Start, Finish, Skip, Begin, Exec, Record, Fail, Stop, vars

(***************************************************************************)
(* Progress: only Start, Begin, Exec and Record have something to show.    *)
(***************************************************************************)
LEMMA ProgressStep ==
    ASSUME IInv, [Next]_vars
    PROVE  Progress'
<1> USE MigrationsAssumption
<1>0. TypeOK /\ Progress
    BY DEF IInv
<1>1. CASE Start
    <2>1. file' = 1 /\ pc' = "check"
        BY <1>1 DEF Start
    <2> QED
        BY <2>1 DEF Progress
<1>2. CASE Finish
    BY <1>2 DEF Finish, Progress
<1>3. CASE Skip
    <2>1. file \in Nat /\ 1 .. file - 1 \subseteq recorded /\ file \in recorded
        BY <1>0, <1>3 DEF Skip, Progress, TypeOK
    <2>2. file' = file + 1 /\ recorded' = recorded /\ pc' = "check"
        BY <1>3 DEF Skip
    <2> QED
        BY <2>1, <2>2 DEF Progress
<1>4. CASE Begin
    <2>1. /\ 1 .. file - 1 \subseteq recorded
          /\ file \in Files /\ file' = file
          /\ next' = 1 /\ recorded' = recorded
        BY <1>0, <1>4 DEF Begin, Progress
    <2>2. text' = text
        BY <1>4 DEF Begin
    <2>3. \A i \in DOMAIN Stmts(file) : ~ (i < 1)
        BY <1>0, <2>1, StmtsAreSeq
    <2> QED
        BY <2>1, <2>2, <2>3 DEF Progress, Files, Stmts
<1>5. CASE Exec
    <2>1. /\ 1 .. file - 1 \subseteq recorded
          /\ file \in Files
          /\ \A i \in DOMAIN Stmts(file) : i < next => Creates(Stmts(file)[i]) \in tables
          /\ next \in Nat
        BY <1>0, <1>5 DEF Exec, Progress, TypeOK
    <2>2. text' = text /\ file' = file /\ recorded' = recorded
        BY <1>5 DEF Exec
    <2>3. CASE pc' = "failed"
        BY <2>3 DEF Progress
    <2>4. CASE pc' # "failed"
        <3>1. next' = next + 1 /\ tables' = tables \cup {Creates(Stmts(file)[next])}
            BY <1>5, <2>4 DEF Exec
        <3>2. \A i \in DOMAIN Stmts(file) : i < next + 1 => i < next \/ i = next
            BY <1>0, <2>1, StmtsAreSeq
        <3>3. \A i \in DOMAIN Stmts(file) :
                i < next + 1 => Creates(Stmts(file)[i]) \in tables'
            BY <2>1, <3>1, <3>2
        <3> QED
            BY <2>1, <2>2, <3>1, <3>3 DEF Progress, Files, Stmts, Creates
    <2> QED
        BY <2>3, <2>4
<1>6. CASE Record
    <2>1. 1 .. file - 1 \subseteq recorded /\ file \in Nat
        BY <1>0, <1>6 DEF Record, Progress, TypeOK
    <2>2. pc' = "check" /\ file' = file + 1 /\ recorded' = recorded \cup {file}
        BY <1>6 DEF Record
    <2> QED
        BY <2>1, <2>2 DEF Progress
<1>7. CASE Fail
    BY <1>7 DEF Fail, Progress
<1>8. CASE Stop
    BY <1>8 DEF Stop, Progress
<1>9. CASE UNCHANGED vars
    BY <1>0, <1>9 DEF vars, Progress, Files, Stmts, Creates
<1> QED
    BY <1>1, <1>2, <1>3, <1>4, <1>5, <1>6, <1>7, <1>8, <1>9 DEF Next, Step

(***************************************************************************)
(* A file is recorded only after its last statement.                       *)
(***************************************************************************)
LEMMA RecordedCompleteStep ==
    ASSUME IInv, [Next]_vars
    PROVE  RecordedComplete'
<1>0. TypeOK /\ Progress /\ RecordedComplete
    BY DEF IInv
<1>1. CASE Record
    <2>1. /\ file \in Files /\ next \in Nat \ {0}
          /\ next \notin DOMAIN Stmts(file)
          /\ recorded' = recorded \cup {file}
          /\ text' = text /\ tables' = tables
        BY <1>0, <1>1 DEF Record, Progress, TypeOK
    <2>2. \A i \in DOMAIN Stmts(file) : i < next
        BY <1>0, <2>1, StmtsAreSeq
    <2>3. \A i \in DOMAIN Stmts(file) : Creates(Stmts(file)[i]) \in tables
        BY <1>0, <1>1, <2>2 DEF Record, Progress
    <2> QED
        BY <1>0, <2>1, <2>3 DEF RecordedComplete, Stmts, Creates
<1>2. CASE ~ Record
    <2>1. recorded' = recorded
        BY <1>2 DEF Next, Step, Start, Finish, Skip, Begin, Exec, Fail, Stop, vars
    <2> QED
        BY <1>0, <2>1, OnlyGrows DEF RecordedComplete, Stmts, Creates
<1> QED
    BY <1>1, <1>2

(***************************************************************************)
(* The order of the files, the completeness of a running service, and that *)
(* a recorded file is not touched, follow from Progress.                   *)
(***************************************************************************)
LEMMA OrderStep ==
    ASSUME IInv, [Next]_vars
    PROVE  Gapless' /\ UpComplete' /\ NeverAgain'
<1> USE MigrationsAssumption
<1>0. TypeOK /\ Progress /\ Gapless /\ UpComplete /\ NeverAgain
    BY DEF IInv
<1>1. Progress' /\ TypeOK'
    BY ProgressStep, TypeStep
<1>2. \A f \in recorded' : 1 .. f \subseteq recorded'
    <2>1. CASE Record
        <3>1. 1 .. file - 1 \subseteq recorded /\ file \in Nat
            BY <1>0, <2>1 DEF Record, Progress, TypeOK
        <3>2. recorded' = recorded \cup {file}
            BY <2>1 DEF Record
        <3> QED
            BY <1>0, <3>1, <3>2 DEF Gapless
    <2>2. CASE ~ Record
        BY <1>0, <2>2 DEF Next, Step, Start, Finish, Skip, Begin, Exec, Fail, Stop, vars, Gapless
    <2> QED
        BY <2>1, <2>2
<1>3. Gapless'
    BY <1>1, <1>2 DEF Gapless, Progress
<1>4. UpComplete'
    <2>1. CASE Finish
        <3>1. file = NFiles + 1 /\ 1 .. file - 1 \subseteq recorded /\ recorded' = recorded
            BY <1>0, <2>1 DEF Finish, Progress
        <3>2. recorded \subseteq Files
            BY <1>0 DEF TypeOK
        <3>3. NFiles \in Nat
            BY MigrationsAssumption
        <3>4. file - 1 = NFiles
            BY <3>1, <3>3
        <3>5. Files \subseteq recorded
            BY <3>1, <3>4 DEF Files
        <3>6. recorded = Files
            BY <3>2, <3>5, Zenon
        <3> QED
            BY <3>1, <3>6 DEF UpComplete, Files
    <2>2. CASE ~ Finish
        <3>1. pc' = "up" => pc = "up" /\ recorded' = recorded
            BY <2>2 DEF Next, Step, Start, Skip, Begin, Exec, Record, Fail, Stop, vars
        <3> QED
            BY <1>0, <3>1 DEF UpComplete, Files
    <2> QED
        BY <2>1, <2>2
<1>5. NeverAgain'
    BY <1>0 DEF Next, Step, Start, Finish, Skip, Begin, Exec, Record, Fail, Stop, vars, NeverAgain
<1> QED
    BY <1>3, <1>4, <1>5

-----------------------------------------------------------------------------
(* The inductive invariant holds in every reachable state. *)
THEOREM InductiveInvariant == Spec => []IInv
<1>1. Init => IInv
    BY MigrationsAssumption
       DEF Init, IInv, TypeOK, Progress, RecordedComplete, Gapless, UpComplete, NeverAgain
<1>2. IInv /\ [Next]_vars => IInv'
    BY TypeStep, ProgressStep, RecordedCompleteStep, OrderStep DEF IInv
<1> QED
    BY <1>1, <1>2, PTL DEF Spec

\* Types.
THEOREM TypeCorrect == Spec => []TypeOK
<1>1. IInv => TypeOK
    BY DEF IInv
<1> QED
    BY <1>1, InductiveInvariant, PTL

\* splitStatements: for any files, its statements are what is between the lines that
\* end one, none lost, none added, in their order.
THEOREM StatementsAreWhole == Spec => []SplitsWell
<1>1. TypeOK => SplitsWell
    <2> SUFFICES ASSUME TypeOK, NEW f \in Files
                 PROVE  Stmts(f) = [i \in 1 .. Cardinality(LastLines(text[f])) |->
                           LinesAt(text[f], Places(text[f], Down(LastLines(text[f]))[i]))]
        BY DEF SplitsWell
    <2>1. text[f] \in Seq(Line)
        BY MigrationsAssumption DEF TypeOK
    <2> QED
        BY <2>1, SplitIs DEF Stmts
<1> QED
    BY <1>1, TypeCorrect, PTL

\* Everything a recorded file creates is there.
THEOREM RecordsAreTrue == Spec => []RecordedComplete
<1>1. IInv => RecordedComplete
    BY DEF IInv
<1> QED
    BY <1>1, InductiveInvariant, PTL

\* The files are applied in order, and none twice, whatever starts fail or stop.
THEOREM AppliedInOrder == Spec => []InOrderOnce
<1>1. IInv => InOrderOnce
    BY DEF IInv, InOrderOnce
<1> QED
    BY <1>1, InductiveInvariant, PTL

\* The service runs only on a database with every file applied.
THEOREM RunsOnComplete == Spec => []UpComplete
<1>1. IInv => UpComplete
    BY DEF IInv
<1> QED
    BY <1>1, InductiveInvariant, PTL
=============================================================================
