---------------------------- MODULE BencodeProofs ----------------------------
(***************************************************************************)
(* Theorems about Bencode, for inputs of any length.                       *)
(*                                                                         *)
(* The recursive functions of the model are shown to be well defined (each *)
(* depends only on later positions), so that the equations of the code can *)
(* be used.  From them: the parsers agree with the grammar; what Encode    *)
(* writes of a heap is read back wherever it is written; and it fits in    *)
(* the room that the heap was read from.                                   *)
(***************************************************************************)
EXTENDS Bencode, SharedProofs, SequenceTheorems, TLAPS

\* A piece of a text is a text, with the characters that lie there.
LEMMA SubSeqIs ==
    ASSUME NEW s \in Text, NEW i \in 0 .. Len(s), NEW j \in i .. Len(s)
    PROVE  /\ SubSeq(s, i + 1, j) \in Text
           /\ Len(SubSeq(s, i + 1, j)) = j - i
           /\ \A k \in 1 .. j - i : SubSeq(s, i + 1, j)[k] = s[i + k]
<1>1. i \in Int /\ j \in Int /\ i + 1 \in Int
    OBVIOUS
<1>2. \A k \in i + 1 .. j : s[k] \in Char
    BY DEF Text
<1>3. /\ SubSeq(s, i + 1, j) \in Seq(Char)
      /\ Len(SubSeq(s, i + 1, j)) = IF i + 1 <= j THEN j - (i + 1) + 1 ELSE 0
      /\ \A k \in 1 .. j - (i + 1) + 1 : SubSeq(s, i + 1, j)[k] = s[(i + 1) + k - 1]
    BY <1>1, <1>2, SubSeqProperties
<1> HIDE DEF Text
<1>4. Len(SubSeq(s, i + 1, j)) = j - i
    BY <1>1, <1>3
<1>5. ASSUME NEW k \in 1 .. j - i PROVE SubSeq(s, i + 1, j)[k] = s[i + k]
    <2>1. k \in 1 .. j - (i + 1) + 1 /\ (i + 1) + k - 1 = i + k
        BY <1>1
    <2> QED
        BY <1>3, <2>1
<1> QED
    BY <1>3, <1>4, <1>5 DEF Text

\* NextIndex finds the first c after p, or the place after the end.
LEMMA NextIndexIs ==
    ASSUME NEW s \in Text, NEW p \in 0 .. Len(s), NEW c, NEW e, e = NextIndex(s, p, c)
    PROVE  /\ e \in p + 1 .. Len(s) + 1
           /\ e <= Len(s) => s[e] = c
           /\ \A j \in p + 1 .. e - 1 : s[j] # c
<1> DEFINE T == {k \in p + 1 .. Len(s) + 1 : k <= Len(s) => s[k] = c}
<1>1. Len(s) \in Nat /\ p \in Nat
    BY DEF Text
<1>2. T \subseteq Nat /\ Len(s) + 1 \in T
    BY <1>1
<1>3. PICK k \in T : \A y \in T : k <= y
    BY <1>2, LeastElement
<1>4. \A j \in p + 1 .. k - 1 : s[j] # c
    <2>1. SUFFICES ASSUME NEW j \in p + 1 .. k - 1, s[j] = c PROVE FALSE
        OBVIOUS
    <2>2. j \in T /\ ~ (k <= j)
        BY <1>1, <2>1
    <2> QED
        BY <1>3, <2>2
<1> QED
    BY <1>3, <1>4 DEF NextIndex

\* And nothing else is the first c.
LEMMA NextIndexOnly ==
    ASSUME NEW s \in Text, NEW p \in 0 .. Len(s), NEW c, NEW e \in p + 1 .. Len(s), s[e] = c,
           \A j \in p + 1 .. e - 1 : s[j] # c
    PROVE  NextIndex(s, p, c) = e
<1> DEFINE k == NextIndex(s, p, c)
<1>1. /\ k \in p + 1 .. Len(s) + 1
      /\ k <= Len(s) => s[k] = c
      /\ \A j \in p + 1 .. k - 1 : s[j] # c
    BY NextIndexIs
<1> HIDE DEF k
<1>2. Len(s) \in Nat /\ p \in Nat
    BY DEF Text
<1>3. ~ (k < e) /\ ~ (e < k)
    BY <1>1, <1>2
<1> QED
    BY <1>1, <1>2, <1>3 DEF k

-----------------------------------------------------------------------------
(***************************************************************************)
(* Numbers.                                                                *)
(***************************************************************************)
LEMMA DigitIs ==
    /\ \A v \in 0 .. 9 : Digits[v + 1] \in DigitChars /\ DigitValue(Digits[v + 1]) = v
    /\ \A c \in DigitChars : DigitValue(c) \in 0 .. 9 /\ Digits[DigitValue(c) + 1] = c
<1>1. \A v, w \in 0 .. 9 : Digits[v + 1] = Digits[w + 1] => v = w
    BY SMTT(30) DEF Digits
<1>2. \A v \in 0 .. 9 : Digits[v + 1] \in DigitChars
    <2>1. \A v \in 0 .. 9 : v + 1 \in 1 .. 10
        OBVIOUS
    <2> QED
        BY <2>1 DEF DigitChars
<1>3. \A c \in DigitChars : \E v \in 0 .. 9 : Digits[v + 1] = c
    <2>1. ASSUME NEW k \in 1 .. 10 PROVE \E v \in 0 .. 9 : Digits[v + 1] = Digits[k]
        <3>1. k - 1 \in 0 .. 9 /\ (k - 1) + 1 = k
            OBVIOUS
        <3> QED
            BY <3>1
    <2> QED
        BY <2>1 DEF DigitChars
<1>4. \A c \in DigitChars : DigitValue(c) \in 0 .. 9 /\ Digits[DigitValue(c) + 1] = c
    BY <1>3 DEF DigitValue
<1>5. ASSUME NEW v \in 0 .. 9 PROVE DigitValue(Digits[v + 1]) = v
    BY <1>1, <1>2, <1>4
<1> QED
    BY <1>2, <1>4, <1>5

\* A digit is none of the other characters that the format uses.
LEMMA DigitsAreNot ==
    /\ DigitChars \subseteq Char
    /\ \A c \in {"+", "-", ":", "d", "e", "i", "l"} : c \in Char /\ c \notin DigitChars
<1>1. \A k \in 1 .. 10 : Digits[k] \notin {"+", "-", ":", "d", "e", "i", "l"}
    BY SMTT(30) DEF Digits
<1> QED
    BY <1>1, BencodeAssumption DEF DigitChars

UpTo(ds, f) == f = [n \in 0 .. Len(ds) |-> IF n = 0 THEN 0 ELSE 10 * f[n - 1] + DigitValue(ds[n])]

\* What the digits so far are worth.
LEMMA WorthUnfolds ==
    ASSUME NEW ds \in Seq(DigitChars)
    PROVE  \E f \in [0 .. Len(ds) -> Nat] : UpTo(ds, f) /\ Magnitude(ds) = f[Len(ds)]
<1> DEFINE X == 0 .. Len(ds)
           F == [X -> Nat]
           worth(f) == [n \in X |-> IF n = 0 THEN 0 ELSE 10 * f[n - 1] + DigitValue(ds[n])]
           next == [f \in F |-> worth(f)]
           mu == [n \in X |-> n]
<1>1. Len(ds) \in Nat /\ \A n \in X : n # 0 => n - 1 \in X /\ DigitValue(ds[n]) \in Nat
    <2>1. ASSUME NEW n \in X, n # 0 PROVE ds[n] \in DigitChars
        BY <2>1
    <2> QED
        BY <2>1, DigitIs
<1>2. \A f \in F : worth(f) \in F
    <2> HIDE DEF X
    <2>1. ASSUME NEW f \in F, NEW n \in X, n # 0 PROVE 10 * f[n - 1] + DigitValue(ds[n]) \in Nat
        BY <1>1, <2>1
    <2> QED
        BY <2>1
<1>3. next \in [F -> F]
    BY <1>2
<1>4. ASSUME NEW f \in F, NEW g \in F, NEW x \in X, \A y \in X : mu[y] < mu[x] => f[y] = g[y]
      PROVE  next[f][x] = next[g][x]
    <2>1. x # 0 => x - 1 \in X /\ mu[x - 1] < mu[x]
        BY <1>1
    <2>2. x # 0 => f[x - 1] = g[x - 1]
        BY <1>4, <2>1
    <2>3. worth(f)[x] = worth(g)[x]
        BY <2>2
    <2> HIDE DEF worth
    <2> QED
        BY <2>3
<1>5. F # {} /\ mu \in [X -> 0 .. Len(ds)] /\ \A f \in F : f = [x \in X |-> f[x]]
    <2>1. [x \in X |-> 0] \in F
        OBVIOUS
    <2> QED
        BY <2>1
<1>6. \E f \in F : f = next[f]
    <2>1. Causal(X, mu, F, next)
        <3> HIDE DEF F, next, mu, X
        <3> QED
            BY <1>4 DEF Causal
    <2> HIDE DEF X, F, next, mu
    <2>2. FunctionsOn(X, F) /\ mu \in [X -> 0 .. Len(ds)]
        BY <1>5 DEF FunctionsOn
    <2>3. Len(ds) \in Nat
        BY <1>1
    <2> QED
        BY <1>3, <2>1, <2>2, <2>3, Recursion
<1>7. PICK f \in F : UpTo(ds, f)
    BY <1>6 DEF UpTo
<1>8. Magnitude(ds) = (CHOOSE g : UpTo(ds, g))[Len(ds)]
    BY DEF Magnitude, UpTo
<1>9. ASSUME NEW g, UpTo(ds, g) PROVE g \in F
    <2>1. \A n \in X : g[n] = IF n = 0 THEN 0 ELSE 10 * g[n - 1] + DigitValue(ds[n])
        BY <1>9 DEF UpTo
    <2> DEFINE T == {n \in Nat : n \in X => g[n] \in Nat}
    <2>2. 0 \in T
        BY <1>1, <2>1
    <2>3. ASSUME NEW n \in T PROVE n + 1 \in T
        <3>1. SUFFICES ASSUME n + 1 \in X PROVE g[n + 1] \in Nat
            OBVIOUS
        <3>2. n \in X /\ n + 1 # 0 /\ (n + 1) - 1 = n
            BY <3>1
        <3>3. g[n] \in Nat /\ DigitValue(ds[n + 1]) \in Nat
            BY <1>1, <3>1, <3>2
        <3> QED
            BY <2>1, <3>1, <3>2, <3>3
    <2>4. \A n \in Nat : n \in T
        <3> HIDE DEF T
        <3>1. T \in SUBSET Nat
            BY DEF T
        <3> QED
            BY <2>2, <2>3, <3>1, SetInduction
    <2>5. \A n \in X : g[n] \in Nat
        BY <2>4
    <2> QED
        BY <1>9, <2>5 DEF UpTo
<1> QED
    BY <1>7, <1>8, <1>9

\* One digit more: ten times the number and the digit.
LEMMA MagnitudeGrows ==
    /\ Magnitude(<<>>) = 0
    /\ \A ds \in Seq(DigitChars) : Magnitude(ds) \in Nat
    /\ \A ds \in Seq(DigitChars), d \in DigitChars :
          Magnitude(Append(ds, d)) = 10 * Magnitude(ds) + DigitValue(d)
<1>1. Magnitude(<<>>) = 0
    <2>1. <<>> \in Seq(DigitChars) /\ Len(<<>>) = 0
        OBVIOUS
    <2>2. PICK f \in [0 .. 0 -> Nat] : UpTo(<<>>, f) /\ Magnitude(<<>>) = f[0]
        BY <2>1, WorthUnfolds
    <2> QED
        BY <2>1, <2>2 DEF UpTo
<1>2. ASSUME NEW ds \in Seq(DigitChars) PROVE Magnitude(ds) \in Nat
    <2>1. Len(ds) \in 0 .. Len(ds)
        OBVIOUS
    <2> QED
        BY <2>1, WorthUnfolds
<1>3. ASSUME NEW ds \in Seq(DigitChars), NEW d \in DigitChars
      PROVE  Magnitude(Append(ds, d)) = 10 * Magnitude(ds) + DigitValue(d)
    <2> DEFINE n == Len(ds)
               more == Append(ds, d)
    <2>1. n \in Nat /\ more \in Seq(DigitChars) /\ Len(more) = n + 1 /\ more[n + 1] = d
        OBVIOUS
    <2>2. \A k \in 1 .. n : more[k] = ds[k]
        OBVIOUS
    <2>3. PICK f \in [0 .. n -> Nat] : UpTo(ds, f) /\ Magnitude(ds) = f[n]
        BY WorthUnfolds
    <2>4. PICK g \in [0 .. n + 1 -> Nat] : UpTo(more, g) /\ Magnitude(more) = g[n + 1]
        BY <2>1, WorthUnfolds
    <2> HIDE DEF more, n
    <2>5. \A k \in 0 .. n : f[k] = IF k = 0 THEN 0 ELSE 10 * f[k - 1] + DigitValue(ds[k])
        BY <2>1, <2>3 DEF UpTo, n
    <2>6. \A k \in 0 .. n + 1 : g[k] = IF k = 0 THEN 0 ELSE 10 * g[k - 1] + DigitValue(more[k])
        BY <2>1, <2>4 DEF UpTo
    <2> DEFINE T == {k \in Nat : k <= n => g[k] = f[k]}
    <2>7. 0 \in T
        BY <2>1, <2>5, <2>6
    <2>8. ASSUME NEW k \in T PROVE k + 1 \in T
        <3>1. SUFFICES ASSUME k + 1 <= n PROVE g[k + 1] = f[k + 1]
            OBVIOUS
        <3>2. k \in Nat /\ k + 1 \in 1 .. n /\ (k + 1) - 1 = k /\ g[k] = f[k]
            BY <2>1, <3>1
        <3>3. k + 1 \in 0 .. n /\ k + 1 \in 0 .. n + 1 /\ k + 1 # 0
            BY <2>1, <3>2
        <3>4. f[k + 1] = 10 * f[k] + DigitValue(ds[k + 1])
            BY <2>5, <3>2, <3>3
        <3>5. g[k + 1] = 10 * g[k] + DigitValue(more[k + 1])
            BY <2>6, <3>2, <3>3
        <3> QED
            BY <2>2, <3>2, <3>4, <3>5
    <2>9. n \in T
        <3>1. T \in SUBSET Nat
            OBVIOUS
        <3> HIDE DEF T
        <3> QED
            BY <2>1, <2>7, <2>8, <3>1, SetInduction
    <2>10. g[n + 1] = 10 * g[n] + DigitValue(d)
        BY <2>1, <2>6
    <2> QED
        BY <2>1, <2>3, <2>4, <2>9, <2>10 DEF more
<1> QED
    BY <1>1, <1>2, <1>3

DigitsTo(n, f) == f = [k \in 0 .. n |-> IF k < 10 THEN <<Digits[k + 1]>>
                                        ELSE Append(f[k \div 10], Digits[(k % 10) + 1])]

\* What division by ten leaves is smaller.
LEMMA Quotient ==
    ASSUME NEW k \in Nat
    PROVE  /\ k \div 10 \in Nat /\ k % 10 \in 0 .. 9 /\ k = 10 * (k \div 10) + (k % 10)
           /\ k >= 10 => k \div 10 < k /\ k \div 10 > 0
    BY SMT

\* Up to the smaller of their bounds two tables of decimals are the same.
LEMMA DigitsToAgree ==
    ASSUME NEW n \in Nat, NEW f, DigitsTo(n, f), NEW m \in 0 .. n, NEW g, DigitsTo(m, g)
    PROVE  \A k \in 0 .. m : g[k] = f[k]
<1> DEFINE X == 0 .. m
           mu == [k \in X |-> k]
           T == {k \in X : g[k] = f[k]}
<1>1. ASSUME NEW x \in X, \A y \in X : mu[y] < mu[x] => y \in T
      PROVE  x \in T
    <2>1. x \in Nat /\ x \in 0 .. n
        OBVIOUS
    <2>2. g[x] = IF x < 10 THEN <<Digits[x + 1]>> ELSE Append(g[x \div 10], Digits[(x % 10) + 1])
        BY DEF DigitsTo
    <2>3. f[x] = IF x < 10 THEN <<Digits[x + 1]>> ELSE Append(f[x \div 10], Digits[(x % 10) + 1])
        BY <2>1 DEF DigitsTo
    <2>4. CASE x < 10
        BY <2>2, <2>3, <2>4
    <2>5. CASE ~ (x < 10)
        <3>1. x \div 10 \in X /\ mu[x \div 10] < mu[x]
            BY <2>1, <2>5, Quotient
        <3>2. g[x \div 10] = f[x \div 10]
            BY <1>1, <3>1
        <3> QED
            BY <2>2, <2>3, <2>5, <3>2
    <2> QED
        BY <2>4, <2>5
<1>2. mu \in [X -> Nat] /\ T \in SUBSET X
    OBVIOUS
<1>3. X = T
    <2> HIDE DEF X, T, mu
    <2> QED
        BY <1>1, <1>2, MeasureInduction
<1> QED
    BY <1>3

\* The recursive function of Decimal exists, and is the one its equation describes.
LEMMA DigitsToUnfolds ==
    ASSUME NEW n \in Nat
    PROVE  \E f \in [0 .. n -> Seq(DigitChars) \ {<<>>}] : DigitsTo(n, f) /\ Decimal(n) = f[n]
<1> DEFINE X == 0 .. n
           F == [X -> Seq(DigitChars) \ {<<>>}]
           step(f) == [k \in X |-> IF k < 10 THEN <<Digits[k + 1]>>
                                   ELSE Append(f[k \div 10], Digits[(k % 10) + 1])]
           next == [f \in F |-> step(f)]
           mu == [k \in X |-> k]
<1>1. /\ \A k \in X : k < 10 => Digits[k + 1] \in DigitChars
      /\ \A k \in X : ~ (k < 10) => /\ k \div 10 \in X /\ k \div 10 < k
                                    /\ Digits[(k % 10) + 1] \in DigitChars
    BY Quotient, DigitIs
<1>2. ASSUME NEW f \in F PROVE step(f) \in F
    <2>1. ASSUME NEW k \in X, k < 10 PROVE <<Digits[k + 1]>> \in Seq(DigitChars) \ {<<>>}
        BY <1>1, <2>1
    <2>2. ASSUME NEW k \in X, ~ (k < 10)
          PROVE  Append(f[k \div 10], Digits[(k % 10) + 1]) \in Seq(DigitChars) \ {<<>>}
        <3>1. f[k \div 10] \in Seq(DigitChars) /\ Digits[(k % 10) + 1] \in DigitChars
            BY <1>1, <2>2
        <3> QED
            BY <3>1, AppendProperties, SMTT(60)
    <2> QED
        BY <2>1, <2>2
<1>3. next \in [F -> F]
    BY <1>2
<1>4. Causal(X, mu, F, next)
    <2>1. ASSUME NEW f \in F, NEW g \in F, NEW x \in X, \A y \in X : mu[y] < mu[x] => f[y] = g[y]
          PROVE  step(f)[x] = step(g)[x]
        <3>1. ~ (x < 10) => f[x \div 10] = g[x \div 10]
            BY <1>1, <2>1
        <3> QED
            BY <3>1
    <2>2. \A f \in F : next[f] = step(f)
        OBVIOUS
    <2> HIDE DEF X, F, next, mu, step
    <2> QED
        BY <2>1, <2>2 DEF Causal
<1>5. FunctionsOn(X, F) /\ mu \in [X -> 0 .. n]
    <2>1. [x \in X |-> <<Digits[1]>>] \in F
        BY DigitIs
    <2> QED
        BY <2>1 DEF FunctionsOn
<1>6. \E f \in F : f = next[f]
    <2> HIDE DEF X, F, next, mu
    <2> QED
        BY <1>3, <1>4, <1>5, Recursion
<1>7. PICK f \in F : DigitsTo(n, f)
    BY <1>6 DEF DigitsTo
<1>8. Decimal(n) = (CHOOSE g : DigitsTo(n, g))[n]
    BY DEF Decimal, DigitsTo
<1>9. PICK g : DigitsTo(n, g) /\ Decimal(n) = g[n]
    BY <1>7, <1>8
<1>10. g[n] = f[n]
    BY <1>7, <1>9, DigitsToAgree
<1> QED
    BY <1>7, <1>9, <1>10

\* Decimal by its last digit.
LEMMA DecimalUnfolds ==
    ASSUME NEW n \in Nat
    PROVE  /\ Decimal(n) \in Seq(DigitChars) /\ Decimal(n) # <<>>
           /\ n < 10 => Decimal(n) = <<Digits[n + 1]>>
           /\ n >= 10 => Decimal(n) = Append(Decimal(n \div 10), Digits[(n % 10) + 1])
<1>1. PICK f \in [0 .. n -> Seq(DigitChars) \ {<<>>}] : DigitsTo(n, f) /\ Decimal(n) = f[n]
    BY DigitsToUnfolds
<1>2. n \in 0 .. n
    OBVIOUS
<1>3. f[n] = IF n < 10 THEN <<Digits[n + 1]>> ELSE Append(f[n \div 10], Digits[(n % 10) + 1])
    BY <1>1, <1>2 DEF DigitsTo
<1>4. ASSUME n >= 10 PROVE f[n \div 10] = Decimal(n \div 10)
    <2> DEFINE m == n \div 10
    <2>1. m \in 0 .. n /\ m \in Nat /\ m \in 0 .. m
        BY <1>4, Quotient
    <2> HIDE DEF m
    <2>2. PICK g \in [0 .. m -> Seq(DigitChars) \ {<<>>}] : DigitsTo(m, g) /\ Decimal(m) = g[m]
        BY <2>1, DigitsToUnfolds
    <2>3. g[m] = f[m]
        BY <1>1, <2>1, <2>2, DigitsToAgree
    <2> QED
        BY <2>2, <2>3 DEF m
<1>5. f[n] \in Seq(DigitChars) \ {<<>>}
    BY <1>1, <1>2
<1>6. n < 10 => f[n] = <<Digits[n + 1]>>
    BY <1>3
<1>7. n >= 10 => f[n] = Append(Decimal(n \div 10), Digits[(n % 10) + 1])
    BY <1>3, <1>4
<1> QED
    BY <1>1, <1>5, <1>6, <1>7

(***************************************************************************)
(* What is written in decimal is read back.                                *)
(***************************************************************************)
LEMMA DecimalReadBack ==
    ASSUME NEW n \in Nat
    PROVE  Magnitude(Decimal(n)) = n
<1> DEFINE X == 0 .. n
           mu == [k \in X |-> k]
           T == {k \in X : Magnitude(Decimal(k)) = k}
<1>1. ASSUME NEW x \in X, \A y \in X : mu[y] < mu[x] => y \in T
      PROVE  x \in T
    <2>1. CASE x < 10
        <3>1. x \in 0 .. 9 /\ <<>> \in Seq(DigitChars) /\ Append(<<>>, Digits[x + 1]) = <<Digits[x + 1]>>
            BY <2>1
        <3>2. Digits[x + 1] \in DigitChars /\ DigitValue(Digits[x + 1]) = x
            BY <3>1, DigitIs
        <3>3. Magnitude(<<Digits[x + 1]>>) = 10 * 0 + x
            BY <3>1, <3>2, MagnitudeGrows
        <3>4. Decimal(x) = <<Digits[x + 1]>>
            <4>1. x \in Nat
                OBVIOUS
            <4> QED
                BY <2>1, <4>1, DecimalUnfolds
        <3> QED
            BY <3>1, <3>3, <3>4
    <2>2. CASE x >= 10
        <3> DEFINE q == x \div 10
                   r == x % 10
        <3>1. q \in X /\ q < x /\ r \in 0 .. 9 /\ x = 10 * q + r /\ q \in Nat
            BY <2>2, Quotient
        <3>2. Magnitude(Decimal(q)) = q
            BY <1>1, <3>1
        <3>3. Decimal(x) = Append(Decimal(q), Digits[r + 1])
            <4>1. x \in Nat
                OBVIOUS
            <4> QED
                BY <2>2, <4>1, DecimalUnfolds
        <3> HIDE DEF q, r
        <3>4. Digits[r + 1] \in DigitChars /\ DigitValue(Digits[r + 1]) = r
            BY <3>1, DigitIs
        <3>5. Decimal(q) \in Seq(DigitChars)
            BY <3>1, DecimalUnfolds
        <3>6. Magnitude(Decimal(x)) = 10 * q + r
            BY <3>2, <3>3, <3>4, <3>5, MagnitudeGrows
        <3> QED
            BY <3>1, <3>6
    <2> QED
        BY <2>1, <2>2
<1>2. mu \in [X -> Nat] /\ T \in SUBSET X
    OBVIOUS
<1>3. X = T
    <2> HIDE DEF X, T, mu
    <2> QED
        BY <1>1, <1>2, MeasureInduction
<1>4. n \in X
    OBVIOUS
<1> QED
    BY <1>3, <1>4

(***************************************************************************)
(* Nothing shorter says the same number.                                   *)
(***************************************************************************)
LEMMA DecimalShortest ==
    ASSUME NEW ds \in Seq(DigitChars), ds # <<>>
    PROVE  Len(Decimal(Magnitude(ds))) <= Len(ds)
<1> DEFINE T == {n \in Nat : \A x \in Seq(DigitChars) :
                    Len(x) = n + 1 => Len(Decimal(Magnitude(x))) <= n + 1}
<1>1. 0 \in T
    <2>1. ASSUME NEW x \in Seq(DigitChars), Len(x) = 1 PROVE Len(Decimal(Magnitude(x))) <= 1
        <3>1. x[1] \in DigitChars /\ x = Append(<<>>, x[1]) /\ <<>> \in Seq(DigitChars)
            <4> DEFINE y == Append(<<>>, x[1])
            <4>1. x[1] \in DigitChars /\ <<>> \in Seq(DigitChars)
                <5>1. 1 \in 1 .. Len(x)
                    BY <2>1
                <5>2. x[1] \in DigitChars
                    BY <5>1
                <5> QED
                    BY <5>2, EmptySeq
            <4>2. y \in Seq(DigitChars) /\ Len(y) = 1 /\ y[1] = x[1]
                BY <4>1
            <4> HIDE DEF y
            <4>3. \A k \in 1 .. Len(x) : x[k] = y[k]
                BY <2>1, <4>2
            <4>4. x = y
                BY <2>1, <4>2, <4>3, SeqEqual
            <4> QED
                BY <4>1, <4>4 DEF y
        <3>2. Magnitude(x) = 10 * 0 + DigitValue(x[1])
            BY <3>1, MagnitudeGrows
        <3>3. Magnitude(x) \in 0 .. 9
            BY <3>1, <3>2, DigitIs
        <3>4. Decimal(Magnitude(x)) = <<Digits[Magnitude(x) + 1]>>
            <4>1. Magnitude(x) \in Nat /\ Magnitude(x) < 10
                BY <3>3
            <4> QED
                BY <4>1, DecimalUnfolds
        <3> QED
            BY <3>4
    <2> QED
        BY <2>1
<1>2. ASSUME NEW n \in T PROVE n + 1 \in T
    <2>1. ASSUME NEW x \in Seq(DigitChars), Len(x) = (n + 1) + 1
          PROVE  Len(Decimal(Magnitude(x))) <= (n + 1) + 1
        <3> DEFINE y == SubSeq(x, 1, n + 1)
                   d == x[n + 2]
        <3>1. y \in Seq(DigitChars) /\ Len(y) = n + 1 /\ d \in DigitChars /\ x = Append(y, d)
            BY <2>1
        <3> HIDE DEF y, d
        <3> DEFINE m == Magnitude(y)
                   v == DigitValue(d)
        <3>2. m \in Nat /\ v \in 0 .. 9 /\ Magnitude(x) = 10 * m + v
            BY <3>1, MagnitudeGrows, DigitIs
        <3>3. Len(Decimal(m)) <= n + 1
            BY <3>1
        <3> HIDE DEF m, v
        <3>4. CASE m = 0
            <4>1. Magnitude(x) \in Nat /\ Magnitude(x) < 10
                BY <3>2, <3>4
            <4>2. Decimal(Magnitude(x)) = <<Digits[Magnitude(x) + 1]>>
                BY <4>1, DecimalUnfolds
            <4> QED
                BY <4>2
        <3>5. CASE m # 0
            <4>1. 10 * m + v >= 10 /\ 10 * m + v \in Nat /\ (10 * m + v) \div 10 = m
                BY <3>2, <3>5
            <4>2. Decimal(10 * m + v) = Append(Decimal(m), Digits[((10 * m + v) % 10) + 1])
                BY <4>1, DecimalUnfolds
            <4>3. Decimal(m) \in Seq(DigitChars)
                BY <3>2, DecimalUnfolds
            <4>4. Len(Decimal(10 * m + v)) = Len(Decimal(m)) + 1
                BY <4>2, <4>3
            <4> QED
                BY <3>2, <3>3, <4>3, <4>4
        <3> QED
            BY <3>4, <3>5
    <2> QED
        BY <2>1
<1>3. \A n \in Nat : n \in T
    <2>1. T \in SUBSET Nat
        OBVIOUS
    <2> HIDE DEF T
    <2> QED
        BY <1>1, <1>2, <2>1, SetInduction
<1>4. Len(ds) - 1 \in Nat /\ (Len(ds) - 1) + 1 = Len(ds)
    BY EmptySeq
<1> QED
    BY <1>3, <1>4

Numbers == - IntMax - 1 .. IntMax

\* What is left of a number without its sign.
LEMMA UnsignedIs ==
    ASSUME NEW text \in Text
    PROVE  /\ Unsigned(text) \in Text /\ Len(Unsigned(text)) <= Len(text)
           /\ text # <<>> /\ text[1] = "-" => Len(Unsigned(text)) = Len(text) - 1
<1>1. CASE text # <<>> /\ text[1] \in {"+", "-"}
    <2>1. Unsigned(text) = Tail(text)
        BY <1>1 DEF Unsigned
    <2>2. Tail(text) \in Text /\ Len(Tail(text)) = Len(text) - 1
        BY <1>1, HeadTailProperties DEF Text
    <2>3. Len(text) \in Nat
        BY DEF Text
    <2> QED
        BY <2>1, <2>2, <2>3
<1>2. CASE ~ (text # <<>> /\ text[1] \in {"+", "-"})
    <2>1. Unsigned(text) = text
        BY <1>2 DEF Unsigned
    <2>2. Len(text) \in Nat
        BY DEF Text
    <2> QED
        BY <1>2, <2>1, <2>2
<1> QED
    BY <1>1, <1>2

\* What NumberOf returns for the texts that it accepts.
LEMMA NumberIs ==
    ASSUME NEW text \in Text, NumberOf(text) # None
    PROVE  /\ NumberOf(text) \in Numbers
           /\ text # <<>> /\ Unsigned(text) # <<>> /\ Unsigned(text) \in Seq(DigitChars)
           /\ NumberOf(text) = IF text[1] = "-" THEN - Magnitude(Unsigned(text))
                               ELSE Magnitude(Unsigned(text))
<1> DEFINE ds == Unsigned(text)
           n == IF text[1] = "-" THEN - Magnitude(ds) ELSE Magnitude(ds)
<1>1. ds # <<>> /\ \A k \in DOMAIN ds : ds[k] \in DigitChars
    BY DEF NumberOf
<1>2. ds \in Seq(DigitChars)
    <2>1. ds \in Text
        BY UnsignedIs
    <2> HIDE DEF ds
    <2>2. ds \in [1 .. Len(ds) -> DigitChars] /\ Len(ds) \in Nat
        BY <1>1, <2>1 DEF Text
    <2> QED
        BY <2>2
<1>3. Magnitude(ds) \in Nat
    BY <1>2, MagnitudeGrows
<1>4. NumberOf(text) = InRange(n)
    BY <1>1 DEF NumberOf, Signed
<1>5. n \in Int
    BY <1>3
<1> HIDE DEF n
<1>6. NumberOf(text) = n /\ n \in Numbers
    BY <1>4, <1>5, BencodeAssumption DEF InRange, Numbers
<1>7. text # <<>>
    <2>1. Len(ds) \in Nat \ {0} /\ Len(ds) <= Len(text)
        BY <1>1, <1>2, EmptySeq, UnsignedIs
    <2> HIDE DEF ds
    <2> QED
        BY <2>1, EmptySeq
<1> QED
    BY <1>1, <1>2, <1>6, <1>7 DEF n

\* NumberOf returns an int or None.
LEMMA NumberTyped ==
    ASSUME NEW text \in Text
    PROVE  NumberOf(text) = None \/ NumberOf(text) \in Numbers
BY NumberIs

\* strconv reads back what strconv.AppendInt writes.
LEMMA Formatted ==
    ASSUME NEW n \in Numbers
    PROVE  /\ FormatInt(n) \in Text /\ FormatInt(n) # <<>>
           /\ NumberOf(FormatInt(n)) = n
           /\ \A k \in 1 .. Len(FormatInt(n)) : FormatInt(n)[k] \in DigitChars \cup {"-"}
           /\ n >= 0 => FormatInt(n)[1] \in DigitChars
           /\ FormatInt(n) # <<"-", "0">>
<1>0. n \in Int /\ IntMax \in Nat /\ - IntMax - 1 <= n /\ n <= IntMax
    BY BencodeAssumption DEF Numbers
<1>1. CASE n >= 0
    <2> DEFINE ds == Decimal(n)
    <2>1. n \in Nat /\ FormatInt(n) = ds
        BY <1>0, <1>1 DEF FormatInt
    <2>2. ds \in Seq(DigitChars) /\ ds # <<>> /\ Magnitude(ds) = n
        BY <2>1, DecimalUnfolds, DecimalReadBack
    <2> HIDE DEF ds
    <2>3. Len(ds) \in Nat \ {0}
        BY <2>2, EmptySeq
    <2>4. \A k \in 1 .. Len(ds) : ds[k] \in DigitChars
        BY <2>2
    <2>5. ds[1] \in DigitChars /\ ds[1] \notin {"+", "-"}
        BY <2>3, <2>4, DigitsAreNot
    <2>6. ds \in Text
        BY <2>2, DigitsAreNot DEF Text
    <2>7. Unsigned(ds) = ds
        BY <2>5 DEF Unsigned
    <2>8. DOMAIN ds = 1 .. Len(ds)
        BY <2>2
    <2>9. NumberOf(ds) = InRange(Signed(Magnitude(ds), ds))
        BY <2>2, <2>4, <2>7, <2>8 DEF NumberOf
    <2>10. Signed(Magnitude(ds), ds) = n
        BY <2>2, <2>5 DEF Signed
    <2>11. NumberOf(ds) = n
        BY <1>0, <2>9, <2>10 DEF InRange
    <2>12. ds # <<"-", "0">>
        BY <2>5
    <2> QED
        BY <2>1, <2>2, <2>4, <2>5, <2>6, <2>11, <2>12
<1>2. CASE n < 0
    <2> DEFINE m == - n
               ds == Decimal(m)
               text == <<"-">> \o ds
    <2>1. m \in Nat /\ m # 0 /\ FormatInt(n) = text
        BY <1>0, <1>2 DEF FormatInt
    <2> HIDE DEF m
    <2>2. ds \in Seq(DigitChars) /\ ds # <<>> /\ Magnitude(ds) = m
        BY <2>1, DecimalUnfolds, DecimalReadBack
    <2> HIDE DEF ds
    <2>3. Len(ds) \in Nat \ {0} /\ ds \in Seq(Char) /\ \A k \in 1 .. Len(ds) : ds[k] \in DigitChars
        BY <2>2, EmptySeq, DigitsAreNot
    <2>4. <<"-">> \in Seq(Char) /\ Len(<<"-">>) = 1 /\ <<"-">>[1] = "-"
        BY DigitsAreNot
    <2>5. /\ text \in Seq(Char) /\ Len(text) = 1 + Len(ds)
          /\ \A k \in 1 .. 1 + Len(ds) : text[k] = IF k <= 1 THEN <<"-">>[k] ELSE ds[k - 1]
        BY <2>3, <2>4, ConcatProperties
    <2> HIDE DEF text
    <2>6. text[1] = "-" /\ text # <<>>
        BY <2>3, <2>4, <2>5
    <2>7. \A k \in 1 .. Len(ds) : text[k + 1] = ds[k]
        <3>1. ASSUME NEW k \in 1 .. Len(ds) PROVE text[k + 1] = ds[k]
            <4>1. k + 1 \in 1 .. 1 + Len(ds) /\ ~ (k + 1 <= 1) /\ (k + 1) - 1 = k
                BY <2>3
            <4> QED
                BY <2>5, <4>1
        <3> QED
            BY <3>1
    <2>8. Tail(text) = ds
        <3>1. /\ Tail(text) \in Seq(Char) /\ Len(Tail(text)) = Len(text) - 1
              /\ \A i \in 1 .. Len(Tail(text)) : Tail(text)[i] = text[i + 1]
            BY <2>5, <2>6, HeadTailProperties
        <3>2. Len(Tail(text)) = Len(ds) /\ \A i \in 1 .. Len(Tail(text)) : Tail(text)[i] = ds[i]
            BY <2>3, <2>5, <2>7, <3>1
        <3> QED
            BY <2>3, <3>1, <3>2, SeqEqual
    <2>9. Unsigned(text) = ds
        BY <2>6, <2>8 DEF Unsigned
    <2>10. DOMAIN ds = 1 .. Len(ds)
        BY <2>2
    <2>11. NumberOf(text) = InRange(Signed(Magnitude(ds), text))
        BY <2>2, <2>3, <2>9, <2>10 DEF NumberOf
    <2>12. Signed(Magnitude(ds), text) = - m /\ - m = n
        BY <1>0, <2>2, <2>6 DEF Signed, m
    <2>13. NumberOf(text) = n
        BY <1>0, <2>11, <2>12 DEF InRange
    <2>14. \A k \in 1 .. Len(text) : text[k] \in DigitChars \cup {"-"}
        <3>1. ASSUME NEW k \in 1 .. Len(text), k # 1 PROVE text[k] \in DigitChars
            <4>1. k - 1 \in 1 .. Len(ds) /\ (k - 1) + 1 = k
                BY <2>3, <2>5, <3>1
            <4> QED
                BY <2>3, <2>7, <4>1
        <3> QED
            BY <2>6, <3>1
    <2>15. text # <<"-", "0">>
        <3>1. SUFFICES ASSUME text = <<"-", "0">> PROVE FALSE
            OBVIOUS
        <3>2. Len(ds) = 1 /\ ds[1] = "0"
            <4>1. Len(text) = 2 /\ text[2] = "0"
                BY <3>1
            <4> QED
                BY <2>3, <2>5, <2>7, <4>1
        <3>3. DigitValue("0") = 0 /\ "0" \in DigitChars
            <4>1. Digits[0 + 1] = "0"
                BY DEF Digits
            <4> QED
                BY <4>1, DigitIs
        <3>4. ds = Append(<<>>, "0")
            <4> DEFINE y == Append(<<>>, "0")
            <4>1. y \in Seq(Char) /\ Len(y) = 1 /\ y[1] = "0"
                BY <3>3, DigitsAreNot
            <4> HIDE DEF y
            <4>2. \A k \in 1 .. Len(ds) : ds[k] = y[k]
                BY <3>2, <4>1
            <4>3. ds = y
                BY <2>3, <3>2, <4>1, <4>2, SeqEqual
            <4> QED
                BY <4>3 DEF y
        <3>5. Magnitude(ds) = 10 * 0 + 0
            BY <3>3, <3>4, MagnitudeGrows, EmptySeq
        <3> QED
            BY <2>1, <2>2, <3>5
    <2> QED
        BY <1>0, <1>2, <2>1, <2>5, <2>6, <2>13, <2>14, <2>15 DEF Text
<1> QED
    BY <1>0, <1>1, <1>2

\* AppendInt writes no more characters than the text the number was read from.
LEMMA FormatShortest ==
    ASSUME NEW text \in Text, NumberOf(text) # None
    PROVE  Len(FormatInt(NumberOf(text))) <= Len(text)
<1> DEFINE n == NumberOf(text)
           ds == Unsigned(text)
           m == Magnitude(ds)
<1>1. /\ n \in Numbers /\ ds \in Seq(DigitChars) /\ ds # <<>> /\ text # <<>>
      /\ n = IF text[1] = "-" THEN - m ELSE m
    BY NumberIs
<1>2. Len(ds) <= Len(text) /\ (text[1] = "-" => Len(ds) = Len(text) - 1)
    BY <1>1, UnsignedIs
<1> HIDE DEF n, ds
<1>3. m \in Nat /\ Len(Decimal(m)) <= Len(ds) /\ Decimal(m) \in Seq(DigitChars)
    <2>1. m \in Nat
        BY <1>1, MagnitudeGrows
    <2>2. Len(Decimal(m)) <= Len(ds)
        BY <1>1, DecimalShortest
    <2>3. Decimal(m) \in Seq(DigitChars)
        BY <2>1, DecimalUnfolds
    <2> QED
        BY <2>1, <2>2, <2>3
<1> HIDE DEF m
<1>4. Len(Decimal(m)) \in Nat /\ Len(ds) \in Nat /\ Len(text) \in Nat
    BY <1>1, <1>3 DEF Text
<1>5. CASE n >= 0
    <2>1. n = m
        BY <1>1, <1>3, <1>5
    <2>2. FormatInt(n) = Decimal(m)
        BY <1>3, <2>1 DEF FormatInt
    <2> QED
        BY <1>2, <1>3, <1>4, <2>2 DEF n
<1>6. CASE n < 0
    <2>1. text[1] = "-" /\ - n = m
        BY <1>1, <1>3, <1>6
    <2>2. FormatInt(n) = <<"-">> \o Decimal(m)
        BY <1>6, <2>1 DEF FormatInt
    <2>3. Decimal(m) \in Seq(Char) /\ <<"-">> \in Seq(Char) /\ Len(<<"-">>) = 1
        BY <1>3, DigitsAreNot
    <2>4. Len(<<"-">> \o Decimal(m)) = 1 + Len(Decimal(m))
        BY <2>3, ConcatProperties
    <2> QED
        BY <1>2, <1>3, <1>4, <2>1, <2>2, <2>4 DEF n
<1>7. n \in Int
    BY <1>1 DEF Numbers
<1> QED
    BY <1>5, <1>6, <1>7

-----------------------------------------------------------------------------
(***************************************************************************)
(* Decode: what the parsers return, and that their recursion is well       *)
(* defined.  A parser ends behind where it began; the nodes it returns     *)
(* point to positions between.                                             *)
(***************************************************************************)
Strings == {t \in Text : Len(t) <= IntMax}
IntNodes == [type : {"int"}, int : Numbers, raw : Text]
StrNodes == [type : {"str"}, str : Strings, raw : Text]
ListNodes(lo, hi) == [type : {"list"}, list : Seq(lo .. hi)]
Dicts(lo, hi) == UNION {[keys -> lo .. hi] : keys \in {K \in SUBSET Strings : IsFiniteSet(K)}}
DictNodes(lo, hi) == [type : {"dict"}, dict : Dicts(lo, hi)]

Failures == {Error, Panic}
Oks(nodes, lo, hi) == [st : {"ok"}, node : nodes, pos : lo .. hi]
Nodes(lo, hi) == UNION {IntNodes, StrNodes, ListNodes(lo, hi), DictNodes(lo, hi)}
Values(s, p) == Failures \cup Oks(Nodes(p + 1, Len(s)), p + 1, Len(s))
Items(s, p) == Failures \cup Oks(ListNodes(p, Len(s)), p + 1, Len(s))
Pairs(s, p) == Failures \cup Oks(DictNodes(p, Len(s)), p + 1, Len(s))
Results(s, x) == CASE x[1] = "value" -> Values(s, x[2])
                   [] x[1] = "items" -> Items(s, x[2])
                   [] x[1] = "pairs" -> Pairs(s, x[2])

Parsers(s) == {f \in [Places(s) -> UNION {Results(s, x) : x \in Places(s)}] :
                  \A x \in Places(s) : f[x] \in Results(s, x)}
ParseAt(f, s, x) == CASE x[1] = "value" -> DecodeValue(f, s, x[2])
                      [] x[1] = "items" -> ParseItems(f, s, x[2])
                      [] x[1] = "pairs" -> ParsePairs(f, s, x[2])
ParseStep(f, s) == [x \in Places(s) |-> ParseAt(f, s, x)]
Late(x) == IF x[1] = "value" THEN 0 ELSE 1
Before(s) == [x \in Places(s) |-> 2 * (Len(s) - x[2]) + Late(x)]

\* A failure has no node and consumes nothing.
LEMMA Failing == \A r \in Failures : r.st # "ok" /\ r.pos = 0 /\ r.node = None
BY DEF Failures, Error, Panic

\* What parseInt returns.
LEMMA IntTyped ==
    ASSUME NEW s \in Text, NEW p \in 0 .. Len(s) - 1
    PROVE  ParseInt(s, p) \in Failures \cup Oks(IntNodes, p + 2, Len(s))
<1> DEFINE e == NextIndex(s, p + 1, "e")
           text == SubSeq(s, p + 2, e - 1)
           raw == SubSeq(s, p + 1, e)
<1>1. Len(s) \in Nat /\ p \in Nat /\ p + 1 \in 0 .. Len(s)
    BY DEF Text
<1>2. e \in p + 2 .. Len(s) + 1
    BY <1>1, NextIndexIs
<1> HIDE DEF e
<1>3. CASE e > Len(s) \/ text = <<"-", "0">> \/ NumberOf(text) = None
    BY <1>3 DEF ParseInt, Failures, e
<1>4. CASE ~ (e > Len(s) \/ text = <<"-", "0">> \/ NumberOf(text) = None)
    <2>1. e \in p + 2 .. Len(s)
        BY <1>1, <1>2, <1>4
    <2>2. text \in Text /\ raw \in Text
        <3>1. p + 1 \in 0 .. Len(s) /\ e - 1 \in p + 1 .. Len(s) /\ p \in 0 .. Len(s) /\ e \in p .. Len(s)
            BY <1>1, <2>1
        <3>2. raw \in Text
            BY <3>1, SubSeqIs
        <3>3. SubSeq(s, (p + 1) + 1, e - 1) \in Text
            BY <3>1, SubSeqIs
        <3>4. (p + 1) + 1 = p + 2
            BY <1>1
        <3> QED
            BY <3>2, <3>3, <3>4
    <2>3. NumberOf(text) \in Numbers
        BY <1>4, <2>2, NumberIs
    <2>4. ParseInt(s, p) = Ok([type |-> "int", int |-> NumberOf(text), raw |-> raw], e)
        BY <1>4 DEF ParseInt, e
    <2> HIDE DEF text, raw
    <2> QED
        BY <2>1, <2>2, <2>3, <2>4 DEF Ok, Oks, IntNodes
<1> QED
    BY <1>3, <1>4

\* What parseString returns when it succeeds.
StrAt(s, p, colon, n) ==
    [type |-> "str", str |-> SubSeq(s, colon + 1, colon + n), raw |-> SubSeq(s, p + 1, colon + n)]

\* What parseString returns when it succeeds.
LEMMA StringIs ==
    ASSUME NEW s \in Text, NEW p \in 0 .. Len(s), ParseString(s, p).st = "ok"
    PROVE  \E colon \in p + 1 .. Len(s), n \in 0 .. IntMax :
               /\ colon = NextIndex(s, p, ":") /\ n = NumberOf(SubSeq(s, p + 1, colon - 1))
               /\ colon + n \in p + 1 .. Len(s)
               /\ ParseString(s, p) = Ok(StrAt(s, p, colon, n), colon + n)
<1> DEFINE r == ParseString(s, p)
           colon == NextIndex(s, p, ":")
           n == NumberOf(SubSeq(s, p + 1, colon - 1))
<1>1. Len(s) \in Nat /\ p \in Nat /\ IntMax \in Nat /\ None \notin Int
    BY BencodeAssumption DEF Text
<1>2. colon \in p + 1 .. Len(s) + 1
    BY NextIndexIs
<1>3. ~ (colon > Len(s))
    BY DEF ParseString, Error
<1>4. colon \in p + 1 .. Len(s) /\ r = StringNode(s, p, colon, n)
    BY <1>1, <1>2, <1>3 DEF ParseString
<1>5. SubSeq(s, p + 1, colon - 1) \in Text
    <2>1. colon - 1 \in p .. Len(s)
        BY <1>1, <1>4
    <2> QED
        BY <2>1, SubSeqIs
<1>6. n = None \/ n \in Numbers
    BY <1>5, NumberTyped
<1>7. ~ (n = None \/ n < 0) /\ ~ (colon + n > IntMax) /\ ~ (colon + n > Len(s))
    BY <1>4 DEF StringNode, Error, Panic
<1>8. n \in 0 .. IntMax
    BY <1>1, <1>6, <1>7 DEF Numbers
<1>9. r = Ok(StrAt(s, p, colon, n), colon + n)
    BY <1>4, <1>7 DEF StringNode, StrAt
<1>10. colon + n \in p + 1 .. Len(s)
    BY <1>1, <1>4, <1>7, <1>8
<1>11. colon = NextIndex(s, p, ":") /\ n = NumberOf(SubSeq(s, p + 1, colon - 1)) /\ r = ParseString(s, p)
    OBVIOUS
<1> HIDE DEF colon, n, r
<1> QED
    BY <1>4, <1>8, <1>9, <1>10, <1>11, Zenon

\* parseString returns a failure or a string node that ends behind p.
LEMMA StringTyped ==
    ASSUME NEW s \in Text, NEW p \in 0 .. Len(s)
    PROVE  ParseString(s, p) \in Failures \cup Oks(StrNodes, p + 1, Len(s))
<1> DEFINE r == ParseString(s, p)
<1>1. CASE r.st = "ok"
    <2>1. PICK colon \in p + 1 .. Len(s), n \in 0 .. IntMax :
              colon + n \in p + 1 .. Len(s) /\ r = Ok(StrAt(s, p, colon, n), colon + n)
        BY <1>1, StringIs, Zenon
    <2> HIDE DEF r
    <2>3. Len(s) \in Nat /\ p \in Nat /\ IntMax \in Nat
        BY BencodeAssumption DEF Text
    <2>4. /\ colon \in 0 .. Len(s) /\ colon + n \in colon .. Len(s)
          /\ p \in 0 .. Len(s) /\ colon + n \in p .. Len(s) /\ (colon + n) - colon = n
        BY <2>1, <2>3
    <2>5. /\ SubSeq(s, colon + 1, colon + n) \in Text /\ Len(SubSeq(s, colon + 1, colon + n)) = n
          /\ SubSeq(s, p + 1, colon + n) \in Text
        BY <2>4, SubSeqIs
    <2>6. SubSeq(s, colon + 1, colon + n) \in Strings
        BY <2>1, <2>3, <2>5 DEF Strings
    <2>7. StrAt(s, p, colon, n) \in StrNodes
        BY <2>5, <2>6 DEF StrAt, StrNodes
    <2>9. r \in Oks(StrNodes, p + 1, Len(s))
        BY <2>1, <2>7 DEF Ok, Oks
    <2> QED
        BY <2>9 DEF r
<1>2. CASE r.st # "ok"
    <2>1. r \in Failures
        BY <1>2 DEF ParseString, StringNode, Ok, Failures
    <2> QED
        BY <2>1
<1> QED
    BY <1>1, <1>2

\* Successes and failures, by their fields.
LEMMA OksAre ==
    ASSUME NEW nodes, NEW lo, NEW hi
    PROVE  /\ \A r \in Failures \cup Oks(nodes, lo, hi) :
                 r.st = "ok" => r.node \in nodes /\ r.pos \in lo .. hi /\ r = Ok(r.node, r.pos)
           /\ \A r \in Failures \cup Oks(nodes, lo, hi) : r.st # "ok" => r \in Failures
           /\ \A node \in nodes, pos \in lo .. hi : Ok(node, pos) \in Oks(nodes, lo, hi)
           /\ \A node, pos : Ok(node, pos).st = "ok" /\ Ok(node, pos).node = node /\ Ok(node, pos).pos = pos
<1>1. \A r \in Failures : r.st # "ok"
    BY Failing
<1>2. \A r \in Oks(nodes, lo, hi) :
          r.st = "ok" /\ r.node \in nodes /\ r.pos \in lo .. hi /\ r = Ok(r.node, r.pos)
    BY DEF Oks, Ok
<1>3. \A node \in nodes, pos \in lo .. hi : Ok(node, pos) \in Oks(nodes, lo, hi)
    BY DEF Oks, Ok
<1>4. \A node, pos : Ok(node, pos).st = "ok" /\ Ok(node, pos).node = node /\ Ok(node, pos).pos = pos
    BY DEF Ok
<1> QED
    BY <1>1, <1>2, <1>3, <1>4, Zenon

\* A result that is ok is a node of its kind with a position in its bounds.
LEMMA Succeeds ==
    ASSUME NEW nodes, NEW lo, NEW hi, NEW r \in Failures \cup Oks(nodes, lo, hi), r.st = "ok"
    PROVE  r.node \in nodes /\ r.pos \in lo .. hi /\ r = Ok(r.node, r.pos)
BY OksAre

\* The fields of a success.
LEMMA OkIs ==
    ASSUME NEW node, NEW pos
    PROVE  Ok(node, pos).st = "ok" /\ Ok(node, pos).node = node /\ Ok(node, pos).pos = pos
BY OksAre

\* A result within bounds is one within wider bounds.
LEMMA Widens ==
    ASSUME NEW nodes, NEW lo \in Int, NEW hi \in Int, NEW nodes2, NEW lo2 \in Int,
           nodes \subseteq nodes2, lo2 <= lo
    PROVE  Failures \cup Oks(nodes, lo, hi) \subseteq Failures \cup Oks(nodes2, lo2, hi)
<1>1. \A pos \in lo .. hi : pos \in lo2 .. hi
    OBVIOUS
<1> QED
    BY <1>1 DEF Oks

\* Every kind of node is a node.
LEMMA NodesHold ==
    ASSUME NEW lo, NEW hi
    PROVE  /\ IntNodes \subseteq Nodes(lo, hi) /\ StrNodes \subseteq Nodes(lo, hi)
           /\ ListNodes(lo, hi) \subseteq Nodes(lo, hi) /\ DictNodes(lo, hi) \subseteq Nodes(lo, hi)
BY DEF Nodes

\* The places of the parsers.
LEMMA Placed ==
    ASSUME NEW s, NEW p \in 0 .. Len(s)
    PROVE  <<"value", p>> \in Places(s) /\ <<"items", p>> \in Places(s) /\ <<"pairs", p>> \in Places(s)
BY DEF Places

\* A place by its two parts.
LEMMA PlaceAt ==
    ASSUME NEW s, NEW x \in Places(s)
    PROVE  \E p \in 0 .. Len(s) : x = <<"value", p>> \/ x = <<"items", p>> \/ x = <<"pairs", p>>
BY DEF Places

\* The results that each parser may return.
LEMMA ResultsAre ==
    ASSUME NEW s, NEW p
    PROVE  /\ Results(s, <<"value", p>>) = Values(s, p)
           /\ Results(s, <<"items", p>>) = Items(s, p)
           /\ Results(s, <<"pairs", p>>) = Pairs(s, p)
BY DEF Results

\* A table of the parsers holds results of the right kind at every place.
LEMMA ParserIs ==
    ASSUME NEW s, NEW f \in Parsers(s), NEW p \in 0 .. Len(s)
    PROVE  /\ f[<<"value", p>>] \in Values(s, p)
           /\ f[<<"items", p>>] \in Items(s, p)
           /\ f[<<"pairs", p>>] \in Pairs(s, p)
<1>1. \A x \in Places(s) : f[x] \in Results(s, x)
    BY DEF Parsers
<1> QED
    BY <1>1, Placed, ResultsAre

\* One step of parseList returns what it should, when the table it looks in does.
LEMMA ItemsTyped ==
    ASSUME NEW s \in Text, NEW p \in 0 .. Len(s), NEW f \in Parsers(s)
    PROVE  ParseItems(f, s, p) \in Items(s, p)
<1>1. Len(s) \in Nat /\ p \in Nat
    BY DEF Text
<1>2. CASE p >= Len(s)
    BY <1>2 DEF ParseItems, Items, Failures
<1>3. CASE p < Len(s) /\ s[p + 1] = "e"
    <2>1. ParseItems(f, s, p) = Ok([type |-> "list", list |-> <<>>], p + 1)
        BY <1>1, <1>3 DEF ParseItems
    <2>2. <<>> \in Seq(p .. Len(s))
        BY EmptySeq
    <2>3. [type |-> "list", list |-> <<>>] \in ListNodes(p, Len(s)) /\ p + 1 \in p + 1 .. Len(s)
        BY <1>1, <1>3, <2>2 DEF ListNodes
    <2> QED
        BY <2>1, <2>3, OksAre DEF Items
<1>4. CASE p < Len(s) /\ s[p + 1] # "e"
    <2> DEFINE item == f[<<"value", p>>]
               rest == f[<<"items", item.pos>>]
    <2>1. ParseItems(f, s, p) = IF item.st # "ok" THEN item ELSE AddItem(p, rest)
        BY <1>1, <1>4 DEF ParseItems
    <2>2. item \in Values(s, p)
        BY ParserIs
    <2>3. CASE item.st # "ok"
        BY <2>1, <2>2, <2>3, OksAre DEF Values, Items
    <2>4. CASE item.st = "ok"
        <3> HIDE DEF item
        <3>1. item.pos \in p + 1 .. Len(s)
            BY <2>2, <2>4, OksAre DEF Values
        <3>2. item.pos \in 0 .. Len(s)
            BY <1>1, <3>1
        <3>3. rest \in Items(s, item.pos)
            BY <3>2, ParserIs
        <3> HIDE DEF rest
        <3>4. CASE rest.st # "ok"
            BY <2>1, <2>4, <3>3, <3>4, OksAre DEF Items, AddItem
        <3>5. CASE rest.st = "ok"
            <4>1. rest.node \in ListNodes(item.pos, Len(s)) /\ rest.pos \in item.pos + 1 .. Len(s)
                BY <3>3, <3>5, OksAre DEF Items
            <4>2. rest.node.list \in Seq(item.pos .. Len(s))
                BY <4>1 DEF ListNodes
            <4>3. rest.node.list \in Seq(p .. Len(s)) /\ <<p>> \in Seq(p .. Len(s))
                BY <1>1, <3>1, <4>2
            <4> DEFINE list == <<p>> \o rest.node.list
            <4>4. list \in Seq(p .. Len(s))
                BY <4>3, ConcatProperties
            <4>5. ParseItems(f, s, p) = Ok([type |-> "list", list |-> list], rest.pos)
                BY <2>1, <2>4, <3>5 DEF AddItem
            <4> HIDE DEF list
            <4>6. [type |-> "list", list |-> list] \in ListNodes(p, Len(s)) /\ rest.pos \in p + 1 .. Len(s)
                BY <1>1, <3>1, <4>1, <4>4 DEF ListNodes
            <4> QED
                BY <4>5, <4>6, OksAre DEF Items
        <3> QED
            BY <3>4, <3>5
    <2> QED
        BY <2>3, <2>4
<1> QED
    BY <1>1, <1>2, <1>3, <1>4

\* A dictionary node has finitely many keys, which are strings, and values behind it.
LEMMA DictsAre ==
    ASSUME NEW lo, NEW hi
    PROVE  /\ \A d \in Dicts(lo, hi) : /\ d = [k \in DOMAIN d |-> d[k]]
                                       /\ DOMAIN d \subseteq Strings /\ IsFiniteSet(DOMAIN d)
                                       /\ \A k \in DOMAIN d : d[k] \in lo .. hi
           /\ \A K \in SUBSET Strings : IsFiniteSet(K) => \A d \in [K -> lo .. hi] : d \in Dicts(lo, hi)
BY DEF Dicts

Added(dict, str, val) == [k \in DOMAIN dict \cup {str} |-> IF k \in DOMAIN dict THEN dict[k] ELSE val]

\* A dictionary with one more pair is a dictionary.
LEMMA AddPairTyped ==
    ASSUME NEW dict, NEW lo \in Nat, NEW hi \in Nat, dict \in Dicts(lo, hi), NEW str \in Strings,
           NEW val \in lo .. hi
    PROVE  Added(dict, str, val) \in Dicts(lo, hi)
<1> DEFINE K == DOMAIN dict
           new == Added(dict, str, val)
<1>1. K \subseteq Strings /\ IsFiniteSet(K) /\ \A k \in K : dict[k] \in lo .. hi
    BY DictsAre
<1>2. IsFiniteSet(K \cup {str})
    BY <1>1, FS_AddElement
<1> HIDE DEF K
<1>3. new \in [K \cup {str} -> lo .. hi]
    BY <1>1 DEF K, Added
<1>4. K \cup {str} \in SUBSET Strings
    BY <1>1
<1> QED
    BY <1>2, <1>3, <1>4, DictsAre

\* One step of parseDict returns what it should, when the table it looks in does.
LEMMA PairsTyped ==
    ASSUME NEW s \in Text, NEW p \in 0 .. Len(s), NEW f \in Parsers(s)
    PROVE  ParsePairs(f, s, p) \in Pairs(s, p)
<1>1. Len(s) \in Nat /\ p \in Nat
    BY DEF Text
<1>2. CASE p >= Len(s)
    BY <1>2 DEF ParsePairs, Pairs, Failures
<1>3. CASE p < Len(s) /\ s[p + 1] = "e"
    <2>1. ParsePairs(f, s, p) = Ok([type |-> "dict", dict |-> <<>>], p + 1)
        BY <1>1, <1>3 DEF ParsePairs
    <2>2. <<>> \in Dicts(p, Len(s))
        <3>1. <<>> \in [{} -> p .. Len(s)] /\ {} \in SUBSET Strings /\ IsFiniteSet({})
            BY FS_EmptySet
        <3> QED
            BY <3>1, DictsAre
    <2>3. [type |-> "dict", dict |-> <<>>] \in DictNodes(p, Len(s)) /\ p + 1 \in p + 1 .. Len(s)
        BY <1>1, <1>3, <2>2 DEF DictNodes
    <2> QED
        BY <2>1, <2>3, OksAre DEF Pairs
<1>4. CASE p < Len(s) /\ s[p + 1] # "e"
    <2> DEFINE key == ParseString(s, p)
               val == f[<<"value", key.pos>>]
               rest == f[<<"pairs", val.pos>>]
    <2>1. ParsePairs(f, s, p) = IF key.st # "ok" THEN key
                                ELSE IF val.st # "ok" THEN val ELSE AddPair(key.node.str, key.pos, rest)
        BY <1>1, <1>4 DEF ParsePairs, ParsePair
    <2>2. key \in Failures \cup Oks(StrNodes, p + 1, Len(s))
        BY StringTyped
    <2> HIDE DEF key
    <2>3. CASE key.st # "ok"
        BY <2>1, <2>2, <2>3, OksAre DEF Pairs
    <2>4. CASE key.st = "ok"
        <3>1. key.pos \in p + 1 .. Len(s) /\ key.node \in StrNodes
            BY <2>2, <2>4, OksAre
        <3>2. key.pos \in 0 .. Len(s) /\ key.pos \in p .. Len(s) /\ key.node.str \in Strings
            BY <1>1, <3>1 DEF StrNodes
        <3>3. val \in Values(s, key.pos)
            BY <3>2, ParserIs
        <3> HIDE DEF val
        <3>4. CASE val.st # "ok"
            BY <2>1, <2>4, <3>3, <3>4, OksAre DEF Values, Pairs
        <3>5. CASE val.st = "ok"
            <4>1. val.pos \in key.pos + 1 .. Len(s)
                BY <3>3, <3>5, OksAre DEF Values
            <4>2. val.pos \in 0 .. Len(s)
                BY <3>2, <4>1
            <4>3. rest \in Pairs(s, val.pos)
                BY <4>2, ParserIs
            <4> HIDE DEF rest
            <4>4. CASE rest.st # "ok"
                BY <2>1, <2>4, <3>5, <4>3, <4>4, OksAre DEF Pairs, AddPair
            <4>5. CASE rest.st = "ok"
                <5>1. rest.node \in DictNodes(val.pos, Len(s)) /\ rest.pos \in val.pos + 1 .. Len(s)
                    BY <4>3, <4>5, OksAre DEF Pairs
                <5> DEFINE dict == rest.node.dict
                           str == key.node.str
                           new == Added(dict, str, key.pos)
                <5>2. dict \in Dicts(val.pos, Len(s))
                    BY <5>1 DEF DictNodes
                <5>3. ParsePairs(f, s, p) = Ok([type |-> "dict", dict |-> new], rest.pos)
                    BY <2>1, <2>4, <3>5, <4>5 DEF AddPair, Added
                <5>4. dict \in Dicts(p, Len(s))
                    <6> HIDE DEF dict
                    <6>1. /\ dict = [k \in DOMAIN dict |-> dict[k]]
                          /\ DOMAIN dict \in SUBSET Strings /\ IsFiniteSet(DOMAIN dict)
                          /\ \A k \in DOMAIN dict : dict[k] \in val.pos .. Len(s)
                        BY <5>2, DictsAre
                    <6>2. \A k \in DOMAIN dict : dict[k] \in p .. Len(s)
                        BY <1>1, <3>1, <4>1, <6>1
                    <6>3. dict \in [DOMAIN dict -> p .. Len(s)]
                        BY <6>1, <6>2, Zenon
                    <6> QED
                        BY <6>1, <6>3, DictsAre
                <5>5. new \in Dicts(p, Len(s))
                    <6>1. str \in Strings /\ key.pos \in p .. Len(s) /\ Len(s) \in Nat /\ p \in Nat
                        BY <1>1, <3>2
                    <6> HIDE DEF str, dict
                    <6> QED
                        BY <5>4, <6>1, AddPairTyped
                <5>6. rest.pos \in p + 1 .. Len(s)
                    BY <1>1, <3>1, <4>1, <5>1
                <5> HIDE DEF new
                <5>7. [type |-> "dict", dict |-> new] \in DictNodes(p, Len(s))
                    BY <5>5 DEF DictNodes
                <5> QED
                    BY <5>3, <5>6, <5>7, OksAre DEF Pairs
            <4> QED
                BY <4>4, <4>5
        <3> QED
            BY <3>4, <3>5
    <2> QED
        BY <2>3, <2>4
<1> QED
    BY <1>1, <1>2, <1>3, <1>4

\* decodeValue by the first character.
LEMMA ValueCases ==
    ASSUME NEW s, NEW p, NEW f, ~ (p >= Len(s))
    PROVE  /\ s[p + 1] = "i" => DecodeValue(f, s, p) = ParseInt(s, p)
           /\ s[p + 1] = "l" => DecodeValue(f, s, p) = f[<<"items", p + 1>>]
           /\ s[p + 1] = "d" => DecodeValue(f, s, p) = f[<<"pairs", p + 1>>]
           /\ s[p + 1] \in DigitChars => DecodeValue(f, s, p) = ParseString(s, p)
           /\ s[p + 1] \notin DigitChars \cup {"i", "l", "d"} => DecodeValue(f, s, p) = Error
<1>1. \A c \in {"i", "l", "d"} : c \notin DigitChars
    BY DigitsAreNot
<1>2. CASE s[p + 1] = "i"
    BY <1>1, <1>2 DEF DecodeValue
<1>3. CASE s[p + 1] = "l"
    BY <1>1, <1>3 DEF DecodeValue
<1>4. CASE s[p + 1] = "d"
    BY <1>1, <1>4 DEF DecodeValue
<1>5. CASE s[p + 1] \in DigitChars
    BY <1>1, <1>5 DEF DecodeValue
<1>6. CASE s[p + 1] \notin DigitChars \cup {"i", "l", "d"}
    BY <1>6 DEF DecodeValue
<1> QED
    BY <1>1, <1>2, <1>3, <1>4, <1>5, <1>6

\* decodeValue returns what it should, when the table it looks in does.
LEMMA ValueTyped ==
    ASSUME NEW s \in Text, NEW p \in 0 .. Len(s), NEW f \in Parsers(s)
    PROVE  DecodeValue(f, s, p) \in Values(s, p)
<1>1. Len(s) \in Nat /\ p \in Nat
    BY DEF Text
<1>2. Error \in Values(s, p)
    BY DEF Values, Failures
<1>3. CASE p >= Len(s)
    BY <1>2, <1>3 DEF DecodeValue
<1>4. CASE p < Len(s)
    <2>1. p \in 0 .. Len(s) - 1 /\ p + 1 \in 0 .. Len(s) /\ ~ (p >= Len(s))
        BY <1>1, <1>4
    <2>2. ParseInt(s, p) \in Values(s, p)
        <3>1. ParseInt(s, p) \in Failures \cup Oks(IntNodes, p + 2, Len(s))
            BY <2>1, IntTyped
        <3> QED
            BY <1>1, <3>1, NodesHold, Widens DEF Values
    <2>3. ParseString(s, p) \in Values(s, p)
        BY <1>1, StringTyped, NodesHold, Widens DEF Values
    <2>4. f[<<"items", p + 1>>] \in Values(s, p)
        <3>1. f[<<"items", p + 1>>] \in Failures \cup Oks(ListNodes(p + 1, Len(s)), p + 1 + 1, Len(s))
            BY <2>1, ParserIs DEF Items
        <3> QED
            BY <1>1, <3>1, NodesHold, Widens DEF Values
    <2>5. f[<<"pairs", p + 1>>] \in Values(s, p)
        <3>1. f[<<"pairs", p + 1>>] \in Failures \cup Oks(DictNodes(p + 1, Len(s)), p + 1 + 1, Len(s))
            BY <2>1, ParserIs DEF Pairs
        <3> QED
            BY <1>1, <3>1, NodesHold, Widens DEF Values
    <2> QED
        BY <1>2, <2>1, <2>2, <2>3, <2>4, <2>5, ValueCases
<1> QED
    BY <1>1, <1>3, <1>4

\* One step of the parsers is a function on the places.
LEMMA ParseStepMaps ==
    ASSUME NEW s, NEW f
    PROVE  ParseStep(f, s) = [x \in Places(s) |-> ParseStep(f, s)[x]]
<1> DEFINE h == ParseStep(f, s)
<1>1. h = [x \in Places(s) |-> ParseAt(f, s, x)]
    BY DEF ParseStep
<1> HIDE DEF h
<1>2. h = [x \in Places(s) |-> h[x]]
    BY <1>1
<1> QED
    BY <1>2 DEF h

\* The step at each place.
LEMMA ParseStepIs ==
    ASSUME NEW s, NEW f, NEW p \in 0 .. Len(s)
    PROVE  /\ ParseStep(f, s)[<<"value", p>>] = DecodeValue(f, s, p)
           /\ ParseStep(f, s)[<<"items", p>>] = ParseItems(f, s, p)
           /\ ParseStep(f, s)[<<"pairs", p>>] = ParsePairs(f, s, p)
BY Placed DEF ParseStep, ParseAt

\* The step takes a table of the parsers to a table of the parsers.
LEMMA ParseStepTyped ==
    ASSUME NEW s \in Text, NEW f \in Parsers(s)
    PROVE  ParseStep(f, s) \in Parsers(s)
<1>1. ASSUME NEW x \in Places(s) PROVE ParseStep(f, s)[x] \in Results(s, x)
    <2>1. PICK p \in 0 .. Len(s) : x = <<"value", p>> \/ x = <<"items", p>> \/ x = <<"pairs", p>>
        BY PlaceAt
    <2>2. /\ ParseStep(f, s)[<<"value", p>>] \in Values(s, p)
          /\ ParseStep(f, s)[<<"items", p>>] \in Items(s, p)
          /\ ParseStep(f, s)[<<"pairs", p>>] \in Pairs(s, p)
        BY ParseStepIs, ValueTyped, ItemsTyped, PairsTyped
    <2> QED
        BY <2>1, <2>2, ResultsAre
<1>2. ParseStep(f, s) = [x \in Places(s) |-> ParseStep(f, s)[x]]
    BY ParseStepMaps
<1>3. ParseStep(f, s) \in [Places(s) -> UNION {Results(s, x) : x \in Places(s)}]
    BY <1>1, <1>2
<1> QED
    BY <1>1, <1>3 DEF Parsers

\* The measure of the places: a later position, or the inside of a value, comes first.
LEMMA BeforeIs ==
    ASSUME NEW s \in Text
    PROVE  /\ Before(s) \in [Places(s) -> 0 .. 2 * Len(s) + 1]
           /\ \A p \in 0 .. Len(s) : /\ Before(s)[<<"value", p>>] = 2 * (Len(s) - p)
                                     /\ Before(s)[<<"items", p>>] = 2 * (Len(s) - p) + 1
                                     /\ Before(s)[<<"pairs", p>>] = 2 * (Len(s) - p) + 1
<1>1. Len(s) \in Nat
    BY DEF Text
<1>2. ASSUME NEW p \in 0 .. Len(s)
      PROVE  /\ Before(s)[<<"value", p>>] = 2 * (Len(s) - p)
             /\ Before(s)[<<"items", p>>] = 2 * (Len(s) - p) + 1
             /\ Before(s)[<<"pairs", p>>] = 2 * (Len(s) - p) + 1
    <2>1. \A x \in Places(s) : Before(s)[x] = 2 * (Len(s) - x[2]) + Late(x)
        BY DEF Before
    <2>2. /\ Late(<<"value", p>>) = 0 /\ Late(<<"items", p>>) = 1 /\ Late(<<"pairs", p>>) = 1
          /\ <<"value", p>>[2] = p /\ <<"items", p>>[2] = p /\ <<"pairs", p>>[2] = p
        BY DEF Late
    <2>3. Before(s)[<<"value", p>>] = 2 * (Len(s) - p) + 0
        BY <2>1, <2>2, Placed, Zenon
    <2>4. Before(s)[<<"items", p>>] = 2 * (Len(s) - p) + 1
        BY <2>1, <2>2, Placed, Zenon
    <2>5. Before(s)[<<"pairs", p>>] = 2 * (Len(s) - p) + 1
        BY <2>1, <2>2, Placed, Zenon
    <2>6. 2 * (Len(s) - p) + 0 = 2 * (Len(s) - p)
        BY <1>1
    <2> QED
        BY <2>3, <2>4, <2>5, <2>6, Zenon
<1>3. ASSUME NEW x \in Places(s) PROVE Before(s)[x] \in 0 .. 2 * Len(s) + 1
    <2>1. PICK p \in 0 .. Len(s) : x = <<"value", p>> \/ x = <<"items", p>> \/ x = <<"pairs", p>>
        BY PlaceAt
    <2>2. 2 * (Len(s) - p) \in 0 .. 2 * Len(s) + 1 /\ 2 * (Len(s) - p) + 1 \in 0 .. 2 * Len(s) + 1
        BY <1>1
    <2> QED
        BY <1>2, <2>1, <2>2, Zenon
<1>4. Before(s) = [x \in Places(s) |-> Before(s)[x]]
    <2> DEFINE h == Before(s)
    <2>1. h = [x \in Places(s) |-> 2 * (Len(s) - x[2]) + Late(x)]
        BY DEF Before
    <2> HIDE DEF h
    <2>2. h = [x \in Places(s) |-> h[x]]
        BY <2>1
    <2> QED
        BY <2>2 DEF h
<1> QED
    BY <1>2, <1>3, <1>4

\* f and g agree on the places before x in the measure: those a parser at x looks at.
AgreeBefore(f, g, s, x) == \A y \in Places(s) : Before(s)[y] < Before(s)[x] => f[y] = g[y]
AgreeFrom(f, g, s, p) ==
    /\ \A q \in 0 .. Len(s) : q > p => f[<<"value", q>>] = g[<<"value", q>>]
    /\ \A q \in 0 .. Len(s) : q > p => f[<<"items", q>>] = g[<<"items", q>>]
    /\ \A q \in 0 .. Len(s) : q > p => f[<<"pairs", q>>] = g[<<"pairs", q>>]

PlacesOf(p) == {<<"value", p>>, <<"items", p>>, <<"pairs", p>>}

\* Tables that agree before a place agree from the next position on, and on the value at this one.
LEMMA LooksAhead ==
    ASSUME NEW s \in Text, NEW f, NEW g, NEW p \in 0 .. Len(s), NEW x \in PlacesOf(p),
           AgreeBefore(f, g, s, x)
    PROVE  /\ AgreeFrom(f, g, s, p)
           /\ x # <<"value", p>> => f[<<"value", p>>] = g[<<"value", p>>]
<1> DEFINE now == Before(s)[x]
<1>1. Len(s) \in Nat /\ p \in Nat /\ p \in 0 .. Len(s)
    BY DEF Text
<1>2. \/ x = <<"value", p>> /\ now = 2 * (Len(s) - p)
      \/ x # <<"value", p>> /\ now = 2 * (Len(s) - p) + 1
    <2>1. x = <<"value", p>> \/ (x # <<"value", p>> /\ (x = <<"items", p>> \/ x = <<"pairs", p>>))
        BY DEF PlacesOf
    <2>2. /\ Before(s)[<<"value", p>>] = 2 * (Len(s) - p)
          /\ Before(s)[<<"items", p>>] = 2 * (Len(s) - p) + 1
          /\ Before(s)[<<"pairs", p>>] = 2 * (Len(s) - p) + 1
        BY BeforeIs
    <2> QED
        BY <2>1, <2>2, Zenon
<1>3. \A y \in Places(s) : Before(s)[y] < now => f[y] = g[y]
    BY DEF AgreeBefore
<1> HIDE DEF now
<1>4. ASSUME NEW q \in 0 .. Len(s), q > p
      PROVE  /\ f[<<"value", q>>] = g[<<"value", q>>]
             /\ f[<<"items", q>>] = g[<<"items", q>>]
             /\ f[<<"pairs", q>>] = g[<<"pairs", q>>]
    <2>1. 2 * (Len(s) - q) < now /\ 2 * (Len(s) - q) + 1 < now
        <3>1. q \in Int
            OBVIOUS
        <3> QED
            BY <1>1, <1>2, <1>4, <3>1
    <2>2. /\ Before(s)[<<"value", q>>] < now /\ Before(s)[<<"items", q>>] < now
          /\ Before(s)[<<"pairs", q>>] < now
        <3>1. /\ Before(s)[<<"value", q>>] = 2 * (Len(s) - q)
              /\ Before(s)[<<"items", q>>] = 2 * (Len(s) - q) + 1
              /\ Before(s)[<<"pairs", q>>] = 2 * (Len(s) - q) + 1
            BY BeforeIs
        <3> QED
            BY <2>1, <3>1, Zenon
    <2> QED
        BY <1>3, <2>2, Placed
<1>5. ASSUME x # <<"value", p>> PROVE f[<<"value", p>>] = g[<<"value", p>>]
    <2>1. now = 2 * (Len(s) - p) + 1
        BY <1>2, <1>5
    <2>2. Before(s)[<<"value", p>>] = 2 * (Len(s) - p)
        BY BeforeIs
    <2>3. Before(s)[<<"value", p>>] < now
        BY <1>1, <2>1, <2>2
    <2> QED
        BY <1>3, <2>3, Placed
<1> QED
    BY <1>4, <1>5 DEF AgreeFrom

\* What a parser returns at a place depends only on what parsers return later.
LEMMA ParseLooksAhead ==
    ASSUME NEW s \in Text, NEW f \in Parsers(s), NEW g, NEW x \in Places(s),
           AgreeBefore(f, g, s, x)
    PROVE  ParseStep(f, s)[x] = ParseStep(g, s)[x]
<1>1. PICK p \in 0 .. Len(s) : x = <<"value", p>> \/ x = <<"items", p>> \/ x = <<"pairs", p>>
    BY PlaceAt
<1>2. Len(s) \in Nat /\ p \in Nat /\ p \in 0 .. Len(s)
    BY DEF Text
<1>3. AgreeFrom(f, g, s, p) /\ (x # <<"value", p>> => f[<<"value", p>>] = g[<<"value", p>>])
    <2>1. x \in PlacesOf(p)
        BY <1>1 DEF PlacesOf
    <2> QED
        BY <2>1, LooksAhead, ZenonT(60)
<1>4. \A q \in 0 .. Len(s) : q > p => /\ f[<<"value", q>>] = g[<<"value", q>>]
                                     /\ f[<<"items", q>>] = g[<<"items", q>>]
                                     /\ f[<<"pairs", q>>] = g[<<"pairs", q>>]
    BY <1>3 DEF AgreeFrom
<1>5. CASE x = <<"value", p>>
    <2>1. DecodeValue(f, s, p) = DecodeValue(g, s, p)
        <3>1. CASE p >= Len(s)
            BY <3>1 DEF DecodeValue
        <3>2. CASE p < Len(s)
            <4>1. p + 1 \in 0 .. Len(s) /\ p + 1 > p /\ ~ (p >= Len(s))
                BY <1>2, <3>2
            <4>2. f[<<"items", p + 1>>] = g[<<"items", p + 1>>] /\ f[<<"pairs", p + 1>>] = g[<<"pairs", p + 1>>]
                BY <1>4, <4>1, Zenon
            <4> QED
                BY <4>1, <4>2 DEF DecodeValue
        <3> QED
            BY <1>2, <3>1, <3>2
    <2>2. ParseStep(f, s)[x] = DecodeValue(f, s, p) /\ ParseStep(g, s)[x] = DecodeValue(g, s, p)
        BY <1>5, ParseStepIs, Zenon
    <2> QED
        BY <2>1, <2>2
<1>6. CASE x = <<"items", p>>
    <2>1. f[<<"value", p>>] = g[<<"value", p>>]
        BY <1>3, <1>6
    <2> DEFINE item == f[<<"value", p>>]
    <2>2. item.st = "ok" => item.pos \in 0 .. Len(s) /\ item.pos > p
        <3>1. item \in Failures \cup Oks(Nodes(p + 1, Len(s)), p + 1, Len(s))
            BY ParserIs DEF Values
        <3> HIDE DEF item
        <3>2. item.st = "ok" => item.pos \in p + 1 .. Len(s)
            BY <3>1, Succeeds
        <3> QED
            BY <1>2, <3>2
    <2>3. ParseItems(f, s, p) = ParseItems(g, s, p)
        <3>1. item.st = "ok" => f[<<"items", item.pos>>] = g[<<"items", item.pos>>]
            BY <1>4, <2>2
        <3> QED
            BY <2>1, <3>1 DEF ParseItems
    <2>4. ParseStep(f, s)[x] = ParseItems(f, s, p) /\ ParseStep(g, s)[x] = ParseItems(g, s, p)
        BY <1>6, ParseStepIs, Zenon
    <2> QED
        BY <2>3, <2>4
<1>7. CASE x = <<"pairs", p>>
    <2> DEFINE key == ParseString(s, p)
               val == f[<<"value", key.pos>>]
    <2>1. key.st = "ok" => key.pos \in 0 .. Len(s) /\ key.pos > p
        <3>1. key \in Failures \cup Oks(StrNodes, p + 1, Len(s))
            BY StringTyped
        <3> HIDE DEF key
        <3>2. key.st = "ok" => key.pos \in p + 1 .. Len(s)
            BY <3>1, Succeeds
        <3> QED
            BY <1>2, <3>2
    <2>2. key.st = "ok" => val = g[<<"value", key.pos>>]
        BY <1>4, <2>1
    <2>3. key.st = "ok" /\ val.st = "ok" => val.pos \in 0 .. Len(s) /\ val.pos > p
        <3>1. SUFFICES ASSUME key.st = "ok", val.st = "ok" PROVE val.pos \in 0 .. Len(s) /\ val.pos > p
            OBVIOUS
        <3> HIDE DEF key
        <3>2. key.pos \in 0 .. Len(s) /\ key.pos > p
            BY <2>1, <3>1
        <3>3. val \in Failures \cup Oks(Nodes(key.pos + 1, Len(s)), key.pos + 1, Len(s))
            BY <3>2, ParserIs DEF Values
        <3> HIDE DEF val
        <3>4. val.pos \in key.pos + 1 .. Len(s)
            BY <3>1, <3>3, Succeeds
        <3> QED
            BY <1>2, <3>2, <3>4
    <2>4. ParsePairs(f, s, p) = ParsePairs(g, s, p)
        <3>1. key.st = "ok" /\ val.st = "ok" => f[<<"pairs", val.pos>>] = g[<<"pairs", val.pos>>]
            BY <1>4, <2>3
        <3> QED
            BY <2>2, <3>1 DEF ParsePairs, ParsePair
    <2>5. ParseStep(f, s)[x] = ParsePairs(f, s, p) /\ ParseStep(g, s)[x] = ParsePairs(g, s, p)
        BY <1>7, ParseStepIs, Zenon
    <2> QED
        BY <2>4, <2>5
<1> QED
    BY <1>1, <1>5, <1>6, <1>7

\* The tables of the parsers are functions on the places.
LEMMA ParsersAre ==
    ASSUME NEW s
    PROVE  FunctionsOn(Places(s), Parsers(s))
<1> DEFINE f == [x \in Places(s) |-> Error]
<1>1. ASSUME NEW x \in Places(s) PROVE Error \in Results(s, x)
    <2>1. PICK p \in 0 .. Len(s) : x = <<"value", p>> \/ x = <<"items", p>> \/ x = <<"pairs", p>>
        BY PlaceAt
    <2>2. Error \in Values(s, p) /\ Error \in Items(s, p) /\ Error \in Pairs(s, p)
        BY DEF Values, Items, Pairs, Failures
    <2> QED
        BY <2>1, <2>2, ResultsAre
<1>2. f \in Parsers(s)
    BY <1>1 DEF Parsers
<1>3. \A h \in Parsers(s) : h = [x \in Places(s) |-> h[x]]
    BY DEF Parsers
<1> QED
    BY <1>2, <1>3 DEF FunctionsOn

\* The recursion of Parsed is well defined: it is left as it is by a step of the parsers.
LEMMA ParsedUnfolds ==
    ASSUME NEW s \in Text
    PROVE  Parsed(s) \in Parsers(s) /\ Parsed(s) = ParseStep(Parsed(s), s)
<1> DEFINE X == Places(s)
           F == Parsers(s)
           mu == Before(s)
           N == 2 * Len(s) + 1
           next == [f \in F |-> ParseStep(f, s)]
<1>1. next \in [F -> F] /\ FunctionsOn(X, F) /\ mu \in [X -> 0 .. N] /\ N \in Nat
    BY ParseStepTyped, ParsersAre, BeforeIs DEF Text
<1>2. Causal(X, mu, F, next)
    <2>1. \A f, g \in F, x \in X :
              (\A y \in X : mu[y] < mu[x] => f[y] = g[y]) => ParseStep(f, s)[x] = ParseStep(g, s)[x]
        <3>1. SUFFICES ASSUME NEW f \in F, NEW g \in F, NEW x \in X, \A y \in X : mu[y] < mu[x] => f[y] = g[y]
                       PROVE  ParseStep(f, s)[x] = ParseStep(g, s)[x]
            OBVIOUS
        <3>2. AgreeBefore(f, g, s, x)
            BY <3>1 DEF AgreeBefore
        <3> QED
            BY <3>2, ParseLooksAhead
    <2>2. \A f \in F : next[f] = ParseStep(f, s)
        OBVIOUS
    <2> HIDE DEF X, F, mu, next
    <2> QED
        BY <2>1, <2>2 DEF Causal
<1>3. PICK f \in F : f = ParseStep(f, s)
    <2>1. \A f \in F : next[f] = ParseStep(f, s)
        OBVIOUS
    <2> HIDE DEF X, F, mu, next, N
    <2>2. \E f \in F : f = next[f]
        BY <1>1, <1>2, Recursion
    <2> QED
        BY <2>1, <2>2
<1>4. ASSUME NEW g, g = ParseStep(g, s) PROVE g = f
    <2> DEFINE T == {x \in X : f[x] = g[x]}
    <2>1. \A x \in X : (\A y \in X : mu[y] < mu[x] => y \in T) => x \in T
        <3>1. SUFFICES ASSUME NEW x \in X, \A y \in X : mu[y] < mu[x] => f[y] = g[y] PROVE f[x] = g[x]
            OBVIOUS
        <3>2. ParseStep(f, s)[x] = ParseStep(g, s)[x]
            <4>1. AgreeBefore(f, g, s, x)
                BY <3>1 DEF AgreeBefore
            <4> QED
                BY <1>3, <4>1, ParseLooksAhead
        <3> QED
            BY <1>3, <1>4, <3>2
    <2>2. mu \in [X -> Nat] /\ T \in SUBSET X
        BY <1>1
    <2>3. X = T
        <3> HIDE DEF X, mu, T
        <3> QED
            BY <2>1, <2>2, MeasureInduction
    <2>4. g = [x \in X |-> g[x]] /\ f = [x \in X |-> f[x]]
        BY <1>3, <1>4 DEF ParseStep
    <2>5. \A x \in X : f[x] = g[x]
        BY <2>3
    <2> HIDE DEF X
    <2> QED
        BY <2>4, <2>5
<1>5. Parsed(s) = CHOOSE g : g = ParseStep(g, s)
    BY DEF Parsed, ParseStep, ParseAt
<1> HIDE DEF F
<1>6. Parsed(s) = f
    BY <1>3, <1>4, <1>5
<1> QED
    BY <1>3, <1>6 DEF F

\* The recursion, one call at a time.
LEMMA ParsedIs ==
    ASSUME NEW s \in Text, NEW p \in 0 .. Len(s), NEW parsed, parsed = Parsed(s)
    PROVE  /\ parsed[<<"value", p>>] = DecodeValue(parsed, s, p)
           /\ parsed[<<"items", p>>] = ParseItems(parsed, s, p)
           /\ parsed[<<"pairs", p>>] = ParsePairs(parsed, s, p)
           /\ parsed[<<"value", p>>] \in Values(s, p)
           /\ parsed[<<"items", p>>] \in Items(s, p)
           /\ parsed[<<"pairs", p>>] \in Pairs(s, p)
<1>1. parsed \in Parsers(s) /\ parsed = ParseStep(parsed, s)
    BY ParsedUnfolds
<1> QED
    BY <1>1, ParserIs, ParseStepIs, ZenonT(60)

-----------------------------------------------------------------------------
(***************************************************************************)
(* The grammar's recursion is well defined too: what begins at a position  *)
(* ends behind it.                                                         *)
(***************************************************************************)
Reach(s, x) == IF x[1] = "value" THEN x[2] + 1 .. Len(s) ELSE x[2] .. Len(s)
Endings(s) == {f \in [Places(s) -> SUBSET (0 .. Len(s))] : \A x \in Places(s) : f[x] \subseteq Reach(s, x)}
EndsAt(f, s, x) == CASE x[1] = "value" -> ValueEnds(f, s, x[2])
                     [] x[1] = "items" -> ItemsEnds(f, s, x[2])
                     [] x[1] = "pairs" -> PairsEnds(f, s, x[2])
EndsStep(f, s) == [x \in Places(s) |-> EndsAt(f, s, x)]

\* One step of the grammar is a function on the places.
LEMMA EndsStepMaps ==
    ASSUME NEW s, NEW f
    PROVE  EndsStep(f, s) = [x \in Places(s) |-> EndsStep(f, s)[x]]
<1> DEFINE h == EndsStep(f, s)
<1>1. h = [x \in Places(s) |-> EndsAt(f, s, x)]
    BY DEF EndsStep
<1> HIDE DEF h
<1>2. h = [x \in Places(s) |-> h[x]]
    BY <1>1
<1> QED
    BY <1>2 DEF h

\* The step of the grammar at each place.
LEMMA EndsStepIs ==
    ASSUME NEW s, NEW f, NEW p \in 0 .. Len(s)
    PROVE  /\ EndsStep(f, s)[<<"value", p>>] = ValueEnds(f, s, p)
           /\ EndsStep(f, s)[<<"items", p>>] = ItemsEnds(f, s, p)
           /\ EndsStep(f, s)[<<"pairs", p>>] = PairsEnds(f, s, p)
BY Placed DEF EndsStep, EndsAt

\* What the grammar gives is a set of positions within reach.
LEMMA EndingIs ==
    ASSUME NEW s, NEW f \in Endings(s), NEW p \in 0 .. Len(s)
    PROVE  /\ f[<<"value", p>>] \subseteq p + 1 .. Len(s)
           /\ f[<<"items", p>>] \subseteq p .. Len(s)
           /\ f[<<"pairs", p>>] \subseteq p .. Len(s)
<1>1. \A x \in Places(s) : f[x] \subseteq Reach(s, x)
    BY DEF Endings
<1>2. /\ Reach(s, <<"value", p>>) = p + 1 .. Len(s)
      /\ Reach(s, <<"items", p>>) = p .. Len(s)
      /\ Reach(s, <<"pairs", p>>) = p .. Len(s)
    BY DEF Reach
<1> QED
    BY <1>1, <1>2, Placed

\* The step takes ends within reach to ends within reach.
LEMMA EndsStepTyped ==
    ASSUME NEW s \in Text, NEW f \in Endings(s)
    PROVE  EndsStep(f, s) \in Endings(s)
<1>0. Len(s) \in Nat
    BY DEF Text
<1>1. ASSUME NEW p \in 0 .. Len(s) PROVE ValueEnds(f, s, p) \subseteq p + 1 .. Len(s)
    <2>1. CASE p >= Len(s)
        BY <2>1 DEF ValueEnds
    <2>2. CASE p < Len(s)
        <3>1. p + 1 \in 0 .. Len(s) /\ p \in Nat
            BY <1>0, <2>2
        <3>2. IntEnds(s, p) \subseteq p + 1 .. Len(s) /\ StringEnds(s, p) \subseteq p + 1 .. Len(s)
            BY <1>0, <3>1 DEF IntEnds, StringEnds
        <3>3. ASSUME NEW open, NEW ends, ends \subseteq p + 1 .. Len(s)
              PROVE  Enclosed(s, p, open, ends) \subseteq p + 1 .. Len(s)
            BY <1>0, <3>1, <3>3 DEF Enclosed
        <3>4. f[<<"items", p + 1>>] \subseteq p + 1 .. Len(s) /\ f[<<"pairs", p + 1>>] \subseteq p + 1 .. Len(s)
            BY <3>1, EndingIs
        <3>5. /\ Enclosed(s, p, "l", f[<<"items", p + 1>>]) \subseteq p + 1 .. Len(s)
              /\ Enclosed(s, p, "d", f[<<"pairs", p + 1>>]) \subseteq p + 1 .. Len(s)
            BY <3>3, <3>4
        <3> QED
            BY <3>2, <3>5 DEF ValueEnds
    <2> QED
        BY <1>0, <2>1, <2>2
<1>2. ASSUME NEW p \in 0 .. Len(s) PROVE ItemsEnds(f, s, p) \subseteq p .. Len(s)
    <2>1. ASSUME NEW v \in f[<<"value", p>>] PROVE f[<<"items", v>>] \subseteq p .. Len(s)
        <3>1. v \in p + 1 .. Len(s)
            BY EndingIs
        <3>2. v \in 0 .. Len(s) /\ v > p
            BY <1>0, <3>1
        <3>3. f[<<"items", v>>] \subseteq v .. Len(s)
            BY <3>2, EndingIs
        <3> QED
            BY <1>0, <3>2, <3>3
    <2>2. p \in p .. Len(s)
        BY <1>0
    <2> QED
        BY <2>1, <2>2 DEF ItemsEnds
<1>3. ASSUME NEW p \in 0 .. Len(s) PROVE PairsEnds(f, s, p) \subseteq p .. Len(s)
    <2>1. ASSUME NEW k \in StringEnds(s, p), NEW v \in f[<<"value", k>>]
          PROVE  f[<<"pairs", v>>] \subseteq p .. Len(s)
        <3>1. k \in 0 .. Len(s) /\ k > p
            BY <1>0 DEF StringEnds
        <3>2. v \in k + 1 .. Len(s)
            BY <3>1, EndingIs
        <3>3. v \in 0 .. Len(s) /\ v > p
            BY <1>0, <3>1, <3>2
        <3>4. f[<<"pairs", v>>] \subseteq v .. Len(s)
            BY <3>3, EndingIs
        <3> QED
            BY <1>0, <3>3, <3>4
    <2>2. p \in p .. Len(s)
        BY <1>0
    <2> QED
        BY <2>1, <2>2 DEF PairsEnds
<1>4. ASSUME NEW x \in Places(s) PROVE EndsStep(f, s)[x] \subseteq Reach(s, x)
    <2>1. PICK p \in 0 .. Len(s) : x = <<"value", p>> \/ x = <<"items", p>> \/ x = <<"pairs", p>>
        BY PlaceAt
    <2>2. /\ EndsStep(f, s)[<<"value", p>>] \subseteq p + 1 .. Len(s)
          /\ EndsStep(f, s)[<<"items", p>>] \subseteq p .. Len(s)
          /\ EndsStep(f, s)[<<"pairs", p>>] \subseteq p .. Len(s)
        BY <1>1, <1>2, <1>3, EndsStepIs
    <2>3. /\ Reach(s, <<"value", p>>) = p + 1 .. Len(s)
          /\ Reach(s, <<"items", p>>) = p .. Len(s)
          /\ Reach(s, <<"pairs", p>>) = p .. Len(s)
        BY DEF Reach
    <2> QED
        BY <2>1, <2>2, <2>3, Zenon
<1>5. ASSUME NEW x \in Places(s) PROVE Reach(s, x) \subseteq 0 .. Len(s)
    <2>1. PICK p \in 0 .. Len(s) : x = <<"value", p>> \/ x = <<"items", p>> \/ x = <<"pairs", p>>
        BY PlaceAt
    <2>2. /\ Reach(s, <<"value", p>>) = p + 1 .. Len(s)
          /\ Reach(s, <<"items", p>>) = p .. Len(s)
          /\ Reach(s, <<"pairs", p>>) = p .. Len(s)
        BY DEF Reach
    <2>3. p + 1 .. Len(s) \subseteq 0 .. Len(s) /\ p .. Len(s) \subseteq 0 .. Len(s)
        BY <1>0
    <2> QED
        BY <2>1, <2>2, <2>3, Zenon
<1>6. EndsStep(f, s) = [x \in Places(s) |-> EndsStep(f, s)[x]]
    BY EndsStepMaps
<1>7. EndsStep(f, s) \in [Places(s) -> SUBSET (0 .. Len(s))]
    BY <1>4, <1>5, <1>6
<1> QED
    BY <1>4, <1>7 DEF Endings

\* A step of the grammar depends only on places of a smaller measure.
LEMMA EndsLookAhead ==
    ASSUME NEW s \in Text, NEW f \in Endings(s), NEW g, NEW x \in Places(s),
           AgreeBefore(f, g, s, x)
    PROVE  EndsStep(f, s)[x] = EndsStep(g, s)[x]
<1>1. PICK p \in 0 .. Len(s) : x = <<"value", p>> \/ x = <<"items", p>> \/ x = <<"pairs", p>>
    BY PlaceAt
<1>2. Len(s) \in Nat /\ p \in Nat /\ p \in 0 .. Len(s)
    BY DEF Text
<1>3. AgreeFrom(f, g, s, p) /\ (x # <<"value", p>> => f[<<"value", p>>] = g[<<"value", p>>])
    <2>1. x \in PlacesOf(p)
        BY <1>1 DEF PlacesOf
    <2> QED
        BY <2>1, LooksAhead, ZenonT(60)
<1>4. \A q \in 0 .. Len(s) : q > p => /\ f[<<"value", q>>] = g[<<"value", q>>]
                                     /\ f[<<"items", q>>] = g[<<"items", q>>]
                                     /\ f[<<"pairs", q>>] = g[<<"pairs", q>>]
    BY <1>3 DEF AgreeFrom
<1>5. CASE x = <<"value", p>>
    <2>1. ValueEnds(f, s, p) = ValueEnds(g, s, p)
        <3>1. CASE p >= Len(s)
            BY <3>1 DEF ValueEnds
        <3>2. CASE p < Len(s)
            <4>1. p + 1 \in 0 .. Len(s) /\ p + 1 > p
                BY <1>2, <3>2
            <4>2. f[<<"items", p + 1>>] = g[<<"items", p + 1>>] /\ f[<<"pairs", p + 1>>] = g[<<"pairs", p + 1>>]
                BY <1>4, <4>1, Zenon
            <4> QED
                BY <4>2 DEF ValueEnds
        <3> QED
            BY <1>2, <3>1, <3>2
    <2>2. EndsStep(f, s)[x] = ValueEnds(f, s, p) /\ EndsStep(g, s)[x] = ValueEnds(g, s, p)
        BY <1>5, EndsStepIs, Zenon
    <2> QED
        BY <2>1, <2>2
<1>6. CASE x = <<"items", p>>
    <2>1. f[<<"value", p>>] = g[<<"value", p>>]
        BY <1>3, <1>6
    <2>2. \A v \in f[<<"value", p>>] : v \in 0 .. Len(s) /\ v > p
        <3>1. f[<<"value", p>>] \subseteq p + 1 .. Len(s)
            BY EndingIs
        <3> QED
            BY <1>2, <3>1
    <2>3. \A v \in f[<<"value", p>>] : f[<<"items", v>>] = g[<<"items", v>>]
        BY <1>4, <2>2
    <2>4. ItemsEnds(f, s, p) = ItemsEnds(g, s, p)
        BY <2>1, <2>3 DEF ItemsEnds
    <2>5. EndsStep(f, s)[x] = ItemsEnds(f, s, p) /\ EndsStep(g, s)[x] = ItemsEnds(g, s, p)
        BY <1>6, EndsStepIs, Zenon
    <2> QED
        BY <2>4, <2>5
<1>7. CASE x = <<"pairs", p>>
    <2>1. \A k \in StringEnds(s, p) : k \in 0 .. Len(s) /\ k > p
        BY <1>2 DEF StringEnds
    <2>2. \A k \in StringEnds(s, p) : f[<<"value", k>>] = g[<<"value", k>>]
        BY <1>4, <2>1
    <2>3. \A k \in StringEnds(s, p) : \A v \in f[<<"value", k>>] : v \in 0 .. Len(s) /\ v > p
        <3>1. \A k \in StringEnds(s, p) : f[<<"value", k>>] \subseteq k + 1 .. Len(s)
            BY <2>1, EndingIs
        <3> QED
            BY <1>2, <2>1, <3>1
    <2>4. \A k \in StringEnds(s, p) : \A v \in f[<<"value", k>>] : f[<<"pairs", v>>] = g[<<"pairs", v>>]
        BY <1>4, <2>3
    <2>5. UNION {f[<<"pairs", v>>] : v \in UNION {f[<<"value", k>>] : k \in StringEnds(s, p)}}
          = UNION {g[<<"pairs", v>>] : v \in UNION {g[<<"value", k>>] : k \in StringEnds(s, p)}}
        <3>1. UNION {f[<<"value", k>>] : k \in StringEnds(s, p)}
              = UNION {g[<<"value", k>>] : k \in StringEnds(s, p)}
            BY <2>2
        <3>2. \A v \in UNION {f[<<"value", k>>] : k \in StringEnds(s, p)} :
                  f[<<"pairs", v>>] = g[<<"pairs", v>>]
            BY <2>4
        <3> QED
            BY <3>1, <3>2
    <2>6. PairsEnds(f, s, p) = PairsEnds(g, s, p)
        BY <2>5 DEF PairsEnds
    <2>7. EndsStep(f, s)[x] = PairsEnds(f, s, p) /\ EndsStep(g, s)[x] = PairsEnds(g, s, p)
        BY <1>7, EndsStepIs, Zenon
    <2> QED
        BY <2>6, <2>7
<1> QED
    BY <1>1, <1>5, <1>6, <1>7

\* The recursion of the grammar is well defined.
LEMMA EndsUnfolds ==
    ASSUME NEW s \in Text
    PROVE  Ends(s) \in Endings(s) /\ Ends(s) = EndsStep(Ends(s), s)
<1> DEFINE X == Places(s)
           F == Endings(s)
           mu == Before(s)
           N == 2 * Len(s) + 1
           next == [f \in F |-> EndsStep(f, s)]
<1>1. next \in [F -> F] /\ FunctionsOn(X, F) /\ mu \in [X -> 0 .. N] /\ N \in Nat
    <2>1. FunctionsOn(X, F)
        <3>1. [x \in X |-> {}] \in F
            BY DEF Endings
        <3>2. \A f \in F : f = [x \in X |-> f[x]]
            BY DEF Endings
        <3> QED
            BY <3>1, <3>2 DEF FunctionsOn
    <2> QED
        BY <2>1, EndsStepTyped, BeforeIs DEF Text
<1>2. Causal(X, mu, F, next)
    <2>1. \A f, g \in F, x \in X :
              (\A y \in X : mu[y] < mu[x] => f[y] = g[y]) => EndsStep(f, s)[x] = EndsStep(g, s)[x]
        <3>1. SUFFICES ASSUME NEW f \in F, NEW g \in F, NEW x \in X, \A y \in X : mu[y] < mu[x] => f[y] = g[y]
                       PROVE  EndsStep(f, s)[x] = EndsStep(g, s)[x]
            OBVIOUS
        <3>2. AgreeBefore(f, g, s, x)
            BY <3>1 DEF AgreeBefore
        <3> QED
            BY <3>2, EndsLookAhead
    <2>2. \A f \in F : next[f] = EndsStep(f, s)
        OBVIOUS
    <2> HIDE DEF X, F, mu, next
    <2> QED
        BY <2>1, <2>2 DEF Causal
<1>3. PICK f \in F : f = EndsStep(f, s)
    <2>1. \A f \in F : next[f] = EndsStep(f, s)
        OBVIOUS
    <2> HIDE DEF X, F, mu, next, N
    <2>2. \E f \in F : f = next[f]
        BY <1>1, <1>2, Recursion
    <2> QED
        BY <2>1, <2>2
<1>4. ASSUME NEW g, g = EndsStep(g, s) PROVE g = f
    <2> DEFINE T == {x \in X : f[x] = g[x]}
    <2>1. \A x \in X : (\A y \in X : mu[y] < mu[x] => y \in T) => x \in T
        <3>1. SUFFICES ASSUME NEW x \in X, \A y \in X : mu[y] < mu[x] => f[y] = g[y] PROVE f[x] = g[x]
            OBVIOUS
        <3>2. EndsStep(f, s)[x] = EndsStep(g, s)[x]
            <4>1. AgreeBefore(f, g, s, x)
                BY <3>1 DEF AgreeBefore
            <4> QED
                BY <1>3, <4>1, EndsLookAhead
        <3> QED
            BY <1>3, <1>4, <3>2
    <2>2. mu \in [X -> Nat] /\ T \in SUBSET X
        BY <1>1
    <2>3. X = T
        <3> HIDE DEF X, mu, T
        <3> QED
            BY <2>1, <2>2, MeasureInduction
    <2>4. g = [x \in X |-> g[x]] /\ f = [x \in X |-> f[x]]
        BY <1>3, <1>4 DEF EndsStep
    <2>5. \A x \in X : f[x] = g[x]
        BY <2>3
    <2> HIDE DEF X
    <2> QED
        BY <2>4, <2>5
<1>5. Ends(s) = CHOOSE g : g = EndsStep(g, s)
    BY DEF Ends, EndsStep, EndsAt
<1> HIDE DEF F
<1>6. Ends(s) = f
    BY <1>3, <1>4, <1>5
<1> QED
    BY <1>3, <1>6 DEF F

\* The ends at each place, by the rules of the grammar.
LEMMA EndsAre ==
    ASSUME NEW s \in Text, NEW p \in 0 .. Len(s), NEW ends, ends = Ends(s)
    PROVE  /\ ends[<<"value", p>>] = ValueEnds(ends, s, p)
           /\ ends[<<"items", p>>] = ItemsEnds(ends, s, p)
           /\ ends[<<"pairs", p>>] = PairsEnds(ends, s, p)
           /\ ends[<<"value", p>>] \subseteq p + 1 .. Len(s)
           /\ ends[<<"items", p>>] \subseteq p .. Len(s)
           /\ ends[<<"pairs", p>>] \subseteq p .. Len(s)
<1>1. ends \in Endings(s) /\ ends = EndsStep(ends, s)
    BY EndsUnfolds
<1> QED
    BY <1>1, EndingIs, EndsStepIs, ZenonT(60)

-----------------------------------------------------------------------------
(***************************************************************************)
(* Decode accepts what the grammar does, at every position.                *)
(***************************************************************************)
Outcome(r) == IF r.st = "ok" THEN {r.pos} ELSE {}

\* parseInt accepts the integers of the grammar.
LEMMA IntAgrees ==
    ASSUME NEW s \in Text, NEW p \in 0 .. Len(s) - 1, s[p + 1] = "i"
    PROVE  IntEnds(s, p) = Outcome(ParseInt(s, p))
<1> DEFINE e == NextIndex(s, p + 1, "e")
           text == SubSeq(s, p + 2, e - 1)
           bad == e > Len(s) \/ text = <<"-", "0">> \/ NumberOf(text) = None
<1>1. Len(s) \in Nat /\ p \in Nat /\ p + 1 \in 0 .. Len(s) /\ (p + 1) + 1 = p + 2
    BY DEF Text
<1>2. /\ e \in p + 2 .. Len(s) + 1
      /\ e <= Len(s) => s[e] = "e"
      /\ \A j \in p + 2 .. e - 1 : s[j] # "e"
    BY <1>1, NextIndexIs
<1>3. Outcome(ParseInt(s, p)) = IF bad THEN {} ELSE {e}
    BY DEF Outcome, ParseInt, Error, Ok
<1>4. ASSUME NEW k \in p + 2 .. Len(s)
      PROVE  LET word == SubSeq(s, p + 2, k - 1) IN
             (\A j \in DOMAIN word : word[j] # "e") <=> \A j \in p + 2 .. k - 1 : s[j] # "e"
    <2> DEFINE word == SubSeq(s, p + 2, k - 1)
    <2>1. k - 1 \in p + 1 .. Len(s) /\ k - 1 - (p + 1) = k - p - 2
        BY <1>1
    <2>2. /\ word \in Text /\ Len(word) = k - p - 2
          /\ \A j \in 1 .. k - p - 2 : word[j] = s[p + 1 + j]
        BY <1>1, <2>1, SubSeqIs
    <2> HIDE DEF word
    <2>3. DOMAIN word = 1 .. k - p - 2
        BY <2>2 DEF Text
    <2>4. \A j \in p + 2 .. k - 1 : /\ j - p - 1 \in 1 .. k - p - 2
                                    /\ p + 1 + (j - p - 1) = j
        BY <1>1
    <2>5. \A j \in 1 .. k - p - 2 : p + 1 + j \in p + 2 .. k - 1
        BY <1>1
    <2>6. \A j \in p + 2 .. k - 1 : s[j] = word[j - p - 1]
        BY <2>2, <2>4
    <2>7. \A j \in 1 .. k - p - 2 : word[j] = s[p + 1 + j]
        BY <2>2
    <2>8. (\A j \in DOMAIN word : word[j] # "e") => \A j \in p + 2 .. k - 1 : s[j] # "e"
        BY <2>3, <2>4, <2>6
    <2>9. (\A j \in p + 2 .. k - 1 : s[j] # "e") => \A j \in DOMAIN word : word[j] # "e"
        BY <2>3, <2>5, <2>7
    <2> QED
        BY <2>8, <2>9 DEF word
<1>5. ASSUME NEW k \in IntEnds(s, p) PROVE k = e /\ ~ bad
    <2>1. k \in p + 2 .. Len(s) /\ s[k] = "e" /\ \A j \in p + 2 .. k - 1 : s[j] # "e"
        BY <1>4 DEF IntEnds
    <2>2. k = e
        BY <1>1, <2>1, NextIndexOnly
    <2>3. ~ (e > Len(s))
        BY <1>1, <2>1, <2>2
    <2> QED
        BY <2>2, <2>3 DEF IntEnds
<1>6. ASSUME ~ bad PROVE e \in IntEnds(s, p)
    <2>1. e \in p + 2 .. Len(s) /\ s[e] = "e"
        BY <1>1, <1>2, <1>6
    <2>2. \A j \in DOMAIN text : text[j] # "e"
        BY <1>2, <1>4, <2>1
    <2>3. text # <<"-", "0">> /\ NumberOf(text) # None
        BY <1>6
    <2> HIDE DEF e
    <2> QED
        BY <2>1, <2>2, <2>3 DEF IntEnds
<1> HIDE DEF e, bad
<1> QED
    BY <1>3, <1>5, <1>6

\* parseString accepts the strings of the grammar.
LEMMA StringAgrees ==
    ASSUME NEW s \in Text, Len(s) <= IntMax, NEW p \in 0 .. Len(s)
    PROVE  StringEnds(s, p) = Outcome(ParseString(s, p))
<1> DEFINE r == ParseString(s, p)
<1>1. Len(s) \in Nat /\ p \in Nat /\ IntMax \in Nat /\ None \notin Int
    BY BencodeAssumption DEF Text
<1>2. ASSUME NEW e \in StringEnds(s, p) PROVE r.st = "ok" /\ r.pos = e
    <2>1. e \in p + 1 .. Len(s)
        BY DEF StringEnds
    <2>2. PICK k \in p + 1 .. e : /\ s[k] = ":" /\ \A j \in p + 1 .. k - 1 : s[j] # ":"
                                  /\ NumberOf(SubSeq(s, p + 1, k - 1)) = e - k
        BY DEF StringEnds
    <2>3. k \in p + 1 .. Len(s)
        BY <1>1, <2>1
    <2>4. NextIndex(s, p, ":") = k
        BY <2>2, <2>3, NextIndexOnly
    <2>5. r = StringNode(s, p, k, e - k)
        BY <1>1, <2>2, <2>3, <2>4 DEF ParseString
    <2>6. ~ (e - k = None \/ e - k < 0) /\ ~ (k + (e - k) > IntMax) /\ ~ (k + (e - k) > Len(s)) /\ k + (e - k) = e
        BY <1>1, <2>1, <2>3
    <2> HIDE DEF r
    <2>7. r = Ok([type |-> "str", str |-> SubSeq(s, k + 1, k + (e - k)),
                  raw |-> SubSeq(s, p + 1, k + (e - k))], k + (e - k))
        BY <2>5, <2>6 DEF StringNode
    <2> QED
        BY <2>6, <2>7, OksAre
<1>3. ASSUME r.st = "ok" PROVE r.pos \in StringEnds(s, p)
    <2>1. PICK colon \in p + 1 .. Len(s), n \in 0 .. IntMax :
              /\ colon = NextIndex(s, p, ":") /\ n = NumberOf(SubSeq(s, p + 1, colon - 1))
              /\ colon + n \in p + 1 .. Len(s)
              /\ r = Ok(StrAt(s, p, colon, n), colon + n)
        BY <1>3, StringIs, Zenon
    <2>2. /\ colon <= Len(s) => s[colon] = ":"
          /\ \A j \in p + 1 .. colon - 1 : s[j] # ":"
        BY <2>1, NextIndexIs
    <2> HIDE DEF r
    <2>3. r.pos = colon + n
        BY <2>1, OkIs
    <2>4. s[colon] = ":" /\ colon \in p + 1 .. colon + n /\ (colon + n) - colon = n
        BY <1>1, <2>1, <2>2
    <2> QED
        BY <2>1, <2>2, <2>3, <2>4 DEF StringEnds
<1> HIDE DEF r
<1> QED
    BY <1>2, <1>3 DEF Outcome, r

\* Where what ends can be closed.
Closing(s, ends) == {e + 1 : e \in {e \in ends : e < Len(s) /\ s[e + 1] = "e"}}
Allowed(s, x) == IF x[1] = "value" THEN Ends(s)[x] ELSE Closing(s, Ends(s)[x])

\* The position behind an "e" that follows an end.
LEMMA ClosingIs ==
    ASSUME NEW s \in Text, NEW p \in 0 .. Len(s)
    PROVE  /\ Closing(s, {p}) = IF p < Len(s) /\ s[p + 1] = "e" THEN {p + 1} ELSE {}
           /\ Closing(s, {}) = {}
BY DEF Closing

\* An outcome is the one position of a success.
LEMMA OutcomeIs ==
    /\ Outcome(Error) = {}
    /\ \A r : r.st # "ok" => Outcome(r) = {}
    /\ \A r : r.st = "ok" => Outcome(r) = {r.pos}
    /\ \A node, pos : Outcome(Ok(node, pos)) = {pos}
BY DEF Outcome, Error, Ok

\* The outcome of a success.
LEMMA OutcomeOk ==
    ASSUME NEW node, NEW pos
    PROVE  Outcome(Ok(node, pos)) = {pos}
BY OutcomeIs

\* What closes a union closes one of its parts.
LEMMA ClosingBoth ==
    ASSUME NEW s, NEW A, NEW B
    PROVE  Closing(s, A \cup B) = Closing(s, A) \cup Closing(s, B)
BY DEF Closing

\* A list or a dictionary is its items or pairs between its brackets.
LEMMA EnclosedIs ==
    ASSUME NEW s, NEW p, NEW open, NEW A
    PROVE  Enclosed(s, p, open, A) = IF s[p + 1] = open THEN Closing(s, A) ELSE {}
BY DEF Closing, Enclosed

\* decodeValue accepts the values of the grammar, when the parsers inside agree with it.
LEMMA ValueAgrees ==
    ASSUME NEW s \in Text, Len(s) <= IntMax, NEW p \in 0 .. Len(s), NEW parsed, parsed = Parsed(s),
           p < Len(s) => /\ Allowed(s, <<"items", p + 1>>) = Outcome(parsed[<<"items", p + 1>>])
                         /\ Allowed(s, <<"pairs", p + 1>>) = Outcome(parsed[<<"pairs", p + 1>>])
    PROVE  Allowed(s, <<"value", p>>) = Outcome(parsed[<<"value", p>>])
<1> DEFINE ends == Ends(s)
           v == parsed[<<"value", p>>]
<1>1. Len(s) \in Nat /\ p \in Nat
    BY DEF Text
<1>2. v = DecodeValue(parsed, s, p)
    BY ParsedIs
<1>3. Allowed(s, <<"value", p>>) = ValueEnds(ends, s, p)
    BY EndsAre DEF Allowed
<1>4. CASE p >= Len(s)
    BY <1>2, <1>3, <1>4, OutcomeIs DEF ValueEnds, DecodeValue
<1>5. CASE p < Len(s)
    <2> DEFINE c == s[p + 1]
               items == Closing(s, ends[<<"items", p + 1>>])
               pairs == Closing(s, ends[<<"pairs", p + 1>>])
    <2>1. /\ items = Outcome(parsed[<<"items", p + 1>>])
          /\ pairs = Outcome(parsed[<<"pairs", p + 1>>])
        BY <1>5 DEF Allowed
    <2>2. ~ (p >= Len(s)) /\ p \in 0 .. Len(s) - 1
        BY <1>1, <1>5
    <2>3. ValueEnds(ends, s, p) = UNION {IntEnds(s, p), IF c \in DigitChars THEN StringEnds(s, p) ELSE {},
                                         IF c = "l" THEN items ELSE {}, IF c = "d" THEN pairs ELSE {}}
        <3>1. /\ Enclosed(s, p, "l", ends[<<"items", p + 1>>]) = IF c = "l" THEN items ELSE {}
              /\ Enclosed(s, p, "d", ends[<<"pairs", p + 1>>]) = IF c = "d" THEN pairs ELSE {}
            BY EnclosedIs
        <3> HIDE DEF items, pairs
        <3> QED
            BY <2>2, <3>1 DEF ValueEnds
    <2>4. c # "i" => IntEnds(s, p) = {}
        BY DEF IntEnds
    <2>5. c = "i" => IntEnds(s, p) = Outcome(ParseInt(s, p))
        BY <2>2, IntAgrees
    <2>6. StringEnds(s, p) = Outcome(ParseString(s, p))
        BY StringAgrees
    <2>7. \A d \in {"i", "l", "d"} : d \notin DigitChars
        BY DigitsAreNot
    <2> SUFFICES Allowed(s, <<"value", p>>) = Outcome(v)
        OBVIOUS
    <2> HIDE DEF v, items, pairs, ends
    <2>8. CASE c = "i"
        <3>1. v = ParseInt(s, p)
            BY <1>2, <2>2, <2>8, ValueCases
        <3>2. ValueEnds(ends, s, p) = IntEnds(s, p)
            BY <2>3, <2>7, <2>8
        <3> QED
            BY <1>3, <2>5, <2>8, <3>1, <3>2
    <2>9. CASE c = "l"
        <3>1. v = parsed[<<"items", p + 1>>]
            BY <1>2, <2>2, <2>9, ValueCases
        <3>2. ValueEnds(ends, s, p) = items
            BY <2>3, <2>4, <2>7, <2>9
        <3> QED
            BY <1>3, <2>1, <3>1, <3>2
    <2>10. CASE c = "d"
        <3>1. v = parsed[<<"pairs", p + 1>>]
            BY <1>2, <2>2, <2>10, ValueCases
        <3>2. ValueEnds(ends, s, p) = pairs
            BY <2>3, <2>4, <2>7, <2>10
        <3> QED
            BY <1>3, <2>1, <3>1, <3>2
    <2>11. CASE c \in DigitChars
        <3>1. v = ParseString(s, p)
            BY <1>2, <2>2, <2>11, ValueCases
        <3>2. ValueEnds(ends, s, p) = StringEnds(s, p)
            BY <2>3, <2>4, <2>7, <2>11
        <3> QED
            BY <1>3, <2>6, <3>1, <3>2
    <2>12. CASE c \notin DigitChars \cup {"i", "l", "d"}
        <3>1. v = Error
            BY <1>2, <2>2, <2>12, ValueCases
        <3>2. ValueEnds(ends, s, p) = {}
            BY <2>3, <2>4, <2>12
        <3> QED
            BY <1>3, <3>1, <3>2, OutcomeIs
    <2> QED
        BY <2>8, <2>9, <2>10, <2>11, <2>12
<1> QED
    BY <1>1, <1>4, <1>5

\* parseList accepts the items of the grammar, when the parsers behind agree with it.
LEMMA ItemsAgree ==
    ASSUME NEW s \in Text, Len(s) <= IntMax, NEW p \in 0 .. Len(s), NEW parsed, parsed = Parsed(s),
           Allowed(s, <<"value", p>>) = Outcome(parsed[<<"value", p>>]),
           \A q \in 0 .. Len(s) : q > p =>
               Allowed(s, <<"items", q>>) = Outcome(parsed[<<"items", q>>])
    PROVE  Allowed(s, <<"items", p>>) = Outcome(parsed[<<"items", p>>])
<1> DEFINE ends == Ends(s)
           item == parsed[<<"value", p>>]
           rest == parsed[<<"items", item.pos>>]
           r == parsed[<<"items", p>>]
<1>1. Len(s) \in Nat /\ p \in Nat
    BY DEF Text
<1>2. r = ParseItems(parsed, s, p) /\ item \in Values(s, p) /\ item = DecodeValue(parsed, s, p)
    BY ParsedIs
<1>3. ends[<<"value", p>>] = Outcome(item)
    BY DEF Allowed
<1>4. /\ ends[<<"items", p>>] = {p} \cup UNION {ends[<<"items", v>>] : v \in Outcome(item)}
      /\ Allowed(s, <<"items", p>>) = Closing(s, ends[<<"items", p>>])
    <2>1. ends[<<"items", p>>] = ItemsEnds(ends, s, p)
        BY EndsAre
    <2>2. Allowed(s, <<"items", p>>) = Closing(s, ends[<<"items", p>>])
        BY DEF Allowed
    <2> HIDE DEF ends, item
    <2>3. ItemsEnds(ends, s, p) = {p} \cup UNION {ends[<<"items", v>>] : v \in Outcome(item)}
        BY <1>3 DEF ItemsEnds
    <2> QED
        BY <2>1, <2>2, <2>3
<1>5. CASE p >= Len(s) \/ s[p + 1] = "e"
    <2>1. item = Error
        <3>1. CASE p >= Len(s)
            BY <1>2, <3>1 DEF DecodeValue
        <3>2. CASE ~ (p >= Len(s)) /\ s[p + 1] = "e"
            <4>1. s[p + 1] \notin DigitChars \cup {"i", "l", "d"}
                BY <3>2, DigitsAreNot
            <4> QED
                BY <1>2, <3>2, <4>1, ValueCases
        <3> QED
            BY <1>5, <3>1, <3>2
    <2>2. ends[<<"items", p>>] = {p}
        BY <1>4, <2>1, OutcomeIs
    <2>3. Allowed(s, <<"items", p>>) = IF p < Len(s) /\ s[p + 1] = "e" THEN {p + 1} ELSE {}
        BY <1>4, <2>2, ClosingIs
    <2> HIDE DEF r
    <2>4. Outcome(r) = IF p < Len(s) /\ s[p + 1] = "e" THEN {p + 1} ELSE {}
        <3>1. r = IF p < Len(s) /\ s[p + 1] = "e" THEN Ok([type |-> "list", list |-> <<>>], p + 1) ELSE Error
            BY <1>1, <1>2, <1>5 DEF ParseItems
        <3>2. /\ Outcome(Ok([type |-> "list", list |-> <<>>], p + 1)) = {p + 1}
              /\ Outcome(Error) = {}
            BY OutcomeOk, OutcomeIs, Zenon
        <3> QED
            BY <3>1, <3>2, Zenon
    <2> QED
        BY <2>3, <2>4 DEF r
<1>6. CASE ~ (p >= Len(s) \/ s[p + 1] = "e")
    <2>1. r = IF item.st # "ok" THEN item ELSE AddItem(p, rest)
        BY <1>2, <1>6 DEF ParseItems
    <2>2. Closing(s, {p}) = {}
        BY <1>6, ClosingIs
    <2>3. CASE item.st # "ok"
        <3>1. Outcome(item) = {}
            BY <2>3, OutcomeIs
        <3>2. ends[<<"items", p>>] = {p}
            BY <1>4, <3>1
        <3>3. Outcome(r) = {}
            BY <2>1, <2>3, <3>1
        <3> QED
            BY <1>4, <2>2, <3>2, <3>3
    <2>4. CASE item.st = "ok"
        <3>1. item.pos \in 0 .. Len(s) /\ item.pos > p
            <4> HIDE DEF item
            <4>1. item.pos \in p + 1 .. Len(s)
                BY <1>2, <2>4, OksAre DEF Values
            <4> QED
                BY <1>1, <4>1
        <3>2. Closing(s, ends[<<"items", item.pos>>]) = Outcome(rest)
            BY <3>1 DEF Allowed
        <3>3. Outcome(item) = {item.pos}
            BY <2>4, OutcomeIs
        <3> HIDE DEF item, ends
        <3>4. ends[<<"items", p>>] = {p} \cup ends[<<"items", item.pos>>]
            BY <1>4, <3>3
        <3>5. Allowed(s, <<"items", p>>) = Outcome(rest)
            <4>1. Closing(s, {p} \cup ends[<<"items", item.pos>>])
                  = Closing(s, {p}) \cup Closing(s, ends[<<"items", item.pos>>])
                BY ClosingBoth
            <4> QED
                BY <1>4, <2>2, <3>2, <3>4, <4>1
        <3> HIDE DEF rest, r
        <3>6. Outcome(r) = Outcome(rest)
            <4>1. CASE rest.st # "ok"
                BY <2>1, <2>4, <4>1 DEF AddItem
            <4>2. CASE rest.st = "ok"
                <5>1. r = Ok([type |-> "list", list |-> <<p>> \o rest.node.list], rest.pos)
                    BY <2>1, <2>4, <4>2 DEF AddItem
                <5>2. Outcome(r) = {rest.pos}
                    BY <5>1, OutcomeOk, Zenon
                <5> QED
                    BY <4>2, <5>2, OutcomeIs
            <4> QED
                BY <4>1, <4>2
        <3> QED
            BY <3>5, <3>6 DEF r
    <2> QED
        BY <2>3, <2>4
<1> QED
    BY <1>5, <1>6

\* parseDict accepts the pairs of the grammar, when the parsers behind agree with it.
LEMMA PairsAgree ==
    ASSUME NEW s \in Text, Len(s) <= IntMax, NEW p \in 0 .. Len(s), NEW parsed, parsed = Parsed(s),
           \A q \in 0 .. Len(s) : q > p =>
               /\ Allowed(s, <<"value", q>>) = Outcome(parsed[<<"value", q>>])
               /\ Allowed(s, <<"pairs", q>>) = Outcome(parsed[<<"pairs", q>>])
    PROVE  Allowed(s, <<"pairs", p>>) = Outcome(parsed[<<"pairs", p>>])
<1> DEFINE ends == Ends(s)
           key == ParseString(s, p)
           val == parsed[<<"value", key.pos>>]
           rest == parsed[<<"pairs", val.pos>>]
           r == parsed[<<"pairs", p>>]
<1>1. Len(s) \in Nat /\ p \in Nat
    BY DEF Text
<1>2. r = ParsePairs(parsed, s, p)
    BY ParsedIs
<1>3. /\ ends[<<"pairs", p>>] = PairsEnds(ends, s, p)
      /\ Allowed(s, <<"pairs", p>>) = Closing(s, ends[<<"pairs", p>>])
    BY EndsAre DEF Allowed
<1>4. CASE p >= Len(s) \/ s[p + 1] = "e"
    <2>1. ends[<<"pairs", p>>] = {p}
        BY <1>3, <1>4 DEF PairsEnds
    <2>2. Allowed(s, <<"pairs", p>>) = IF p < Len(s) /\ s[p + 1] = "e" THEN {p + 1} ELSE {}
        BY <1>3, <2>1, ClosingIs
    <2> HIDE DEF r
    <2>3. Outcome(r) = IF p < Len(s) /\ s[p + 1] = "e" THEN {p + 1} ELSE {}
        <3>1. r = IF p < Len(s) /\ s[p + 1] = "e" THEN Ok([type |-> "dict", dict |-> <<>>], p + 1) ELSE Error
            BY <1>1, <1>2, <1>4 DEF ParsePairs
        <3>2. /\ Outcome(Ok([type |-> "dict", dict |-> <<>>], p + 1)) = {p + 1}
              /\ Outcome(Error) = {}
            BY OutcomeOk, OutcomeIs, Zenon
        <3> QED
            BY <3>1, <3>2, Zenon
    <2> QED
        BY <2>2, <2>3 DEF r
<1>5. CASE ~ (p >= Len(s) \/ s[p + 1] = "e")
    <2>1. r = IF key.st # "ok" THEN key
              ELSE IF val.st # "ok" THEN val ELSE AddPair(key.node.str, key.pos, rest)
        BY <1>2, <1>5 DEF ParsePairs, ParsePair
    <2>2. Closing(s, {p}) = {}
        BY <1>5, ClosingIs
    <2>3. StringEnds(s, p) = Outcome(key)
        BY StringAgrees
    <2>4. key \in Failures \cup Oks(StrNodes, p + 1, Len(s))
        BY StringTyped
    <2>5. ends[<<"pairs", p>>]
          = {p} \cup UNION {ends[<<"pairs", v>>] : v \in UNION {ends[<<"value", k>>] : k \in Outcome(key)}}
        BY <1>3, <1>5, <2>3 DEF PairsEnds
    <2> HIDE DEF key
    <2>6. CASE key.st # "ok"
        <3>1. Outcome(key) = {}
            BY <2>6, OutcomeIs
        <3>2. ends[<<"pairs", p>>] = {p}
            BY <2>5, <3>1
        <3>3. Outcome(r) = {}
            BY <2>1, <2>6, <3>1
        <3> QED
            BY <1>3, <2>2, <3>2, <3>3
    <2>7. CASE key.st = "ok"
        <3>1. key.pos \in 0 .. Len(s) /\ key.pos > p
            <4>1. key.pos \in p + 1 .. Len(s)
                BY <2>4, <2>7, Succeeds
            <4> QED
                BY <1>1, <4>1
        <3>2. Outcome(key) = {key.pos}
            BY <2>7, OutcomeIs
        <3>3. ends[<<"value", key.pos>>] = Outcome(val)
            BY <3>1 DEF Allowed
        <3>4. val \in Values(s, key.pos)
            BY <3>1, ParsedIs
        <3>5. ends[<<"pairs", p>>] = {p} \cup UNION {ends[<<"pairs", v>>] : v \in Outcome(val)}
            <4>1. UNION {ends[<<"value", k>>] : k \in Outcome(key)} = Outcome(val)
                <5> HIDE DEF val, ends
                <5>1. UNION {ends[<<"value", k>>] : k \in {key.pos}} = ends[<<"value", key.pos>>]
                    OBVIOUS
                <5> QED
                    BY <3>2, <3>3, <5>1
            <4> HIDE DEF val, ends
            <4> QED
                BY <2>5, <4>1
        <3>6. CASE val.st # "ok"
            <4>1. Outcome(val) = {}
                BY <3>6, OutcomeIs
            <4>2. ends[<<"pairs", p>>] = {p}
                BY <3>5, <4>1
            <4>3. Outcome(r) = {}
                BY <2>1, <2>7, <3>6, <4>1
            <4> QED
                BY <1>3, <2>2, <4>2, <4>3
        <3>7. CASE val.st = "ok"
            <4>1. val.pos \in 0 .. Len(s) /\ val.pos > p
                <5> HIDE DEF val
                <5>1. val.pos \in key.pos + 1 .. Len(s)
                    BY <3>4, <3>7, OksAre DEF Values
                <5> QED
                    BY <1>1, <3>1, <5>1
            <4>2. Closing(s, ends[<<"pairs", val.pos>>]) = Outcome(rest)
                BY <4>1 DEF Allowed
            <4>3. Outcome(val) = {val.pos}
                BY <3>7, OutcomeIs
            <4> HIDE DEF val, ends
            <4>4. ends[<<"pairs", p>>] = {p} \cup ends[<<"pairs", val.pos>>]
                BY <3>5, <4>3
            <4>5. Allowed(s, <<"pairs", p>>) = Outcome(rest)
                <5>1. Closing(s, {p} \cup ends[<<"pairs", val.pos>>])
                      = Closing(s, {p}) \cup Closing(s, ends[<<"pairs", val.pos>>])
                    BY ClosingBoth
                <5> QED
                    BY <1>3, <2>2, <4>2, <4>4, <5>1
            <4> HIDE DEF rest, r
            <4>6. Outcome(r) = Outcome(rest)
                <5>1. CASE rest.st # "ok"
                    BY <2>1, <2>7, <3>7, <5>1 DEF AddPair
                <5>2. CASE rest.st = "ok"
                    <6>1. r = Ok([type |-> "dict", dict |-> Added(rest.node.dict, key.node.str, key.pos)], rest.pos)
                        BY <2>1, <2>7, <3>7, <5>2 DEF AddPair, Added
                    <6>2. Outcome(r) = {rest.pos}
                        BY <6>1, OutcomeOk, Zenon
                    <6> QED
                        BY <5>2, <6>2, OutcomeIs
                <5> QED
                    BY <5>1, <5>2
            <4> QED
                BY <4>5, <4>6 DEF r
        <3> QED
            BY <3>6, <3>7
    <2> QED
        BY <2>6, <2>7
<1> QED
    BY <1>4, <1>5

\* What holds at a place when it holds behind it, a value before the loops that begin
\* with it, holds at every place.
LEMMA FromTheEnd ==
    ASSUME NEW s \in Text, NEW T \in SUBSET Places(s),
           \A p \in 0 .. Len(s) :
               (\A q \in 0 .. Len(s) : q > p => {<<"value", q>>, <<"items", q>>, <<"pairs", q>>} \subseteq T)
                   => /\ <<"value", p>> \in T
                      /\ <<"value", p>> \in T => {<<"items", p>>, <<"pairs", p>>} \subseteq T
    PROVE  T = Places(s)
<1> DEFINE X == Places(s)
           mu == Before(s)
<1>1. Len(s) \in Nat
    BY DEF Text
<1>2. ASSUME NEW x \in X, \A y \in X : mu[y] < mu[x] => y \in T PROVE x \in T
    <2>1. PICK p \in 0 .. Len(s) : x = <<"value", p>> \/ x = <<"items", p>> \/ x = <<"pairs", p>>
        BY PlaceAt
    <2> DEFINE none == [y \in X |-> FALSE]
               in == [y \in X |-> IF y \in T THEN FALSE ELSE TRUE]
    <2>2. \A y \in X : mu[y] < mu[x] => in[y] = none[y]
        BY <1>2
    <2>3. \A y \in X : in[y] = none[y] => y \in T
        OBVIOUS
    <2> HIDE DEF in, none
    <2>4. AgreeFrom(in, none, s, p)
        <3>1. AgreeBefore(in, none, s, x)
            BY <2>2 DEF AgreeBefore
        <3>2. x \in PlacesOf(p)
            BY <2>1 DEF PlacesOf
        <3> QED
            BY <2>1, <3>1, <3>2, LooksAhead
    <2>5. \A q \in 0 .. Len(s) : q > p => {<<"value", q>>, <<"items", q>>, <<"pairs", q>>} \subseteq T
        BY <2>3, <2>4, Placed DEF AgreeFrom
    <2> QED
        BY <2>1, <2>5
<1>3. mu \in [X -> Nat]
    BY <1>1, BeforeIs
<1> HIDE DEF X, mu
<1> QED
    BY <1>2, <1>3, MeasureInduction DEF X

\* At every place the parser accepts what the grammar allows there, and only that.
LEMMA AgreesEverywhere ==
    ASSUME NEW s \in Text, Len(s) <= IntMax
    PROVE  \A x \in Places(s) : Allowed(s, x) = Outcome(Parsed(s)[x])
<1> DEFINE T == {x \in Places(s) : Allowed(s, x) = Outcome(Parsed(s)[x])}
<1>1. ASSUME NEW p \in 0 .. Len(s),
             \A q \in 0 .. Len(s) : q > p => {<<"value", q>>, <<"items", q>>, <<"pairs", q>>} \subseteq T
      PROVE  /\ <<"value", p>> \in T
             /\ <<"value", p>> \in T => {<<"items", p>>, <<"pairs", p>>} \subseteq T
    <2>1. \A q \in 0 .. Len(s) : q > p =>
              /\ Allowed(s, <<"value", q>>) = Outcome(Parsed(s)[<<"value", q>>])
              /\ Allowed(s, <<"items", q>>) = Outcome(Parsed(s)[<<"items", q>>])
              /\ Allowed(s, <<"pairs", q>>) = Outcome(Parsed(s)[<<"pairs", q>>])
        BY <1>1
    <2>2. p < Len(s) => p + 1 \in 0 .. Len(s) /\ p + 1 > p
        BY DEF Text
    <2>3. Allowed(s, <<"value", p>>) = Outcome(Parsed(s)[<<"value", p>>])
        BY <2>1, <2>2, ValueAgrees
    <2>4. Allowed(s, <<"items", p>>) = Outcome(Parsed(s)[<<"items", p>>])
        BY <2>1, <2>3, ItemsAgree
    <2>5. Allowed(s, <<"pairs", p>>) = Outcome(Parsed(s)[<<"pairs", p>>])
        BY <2>1, PairsAgree
    <2> QED
        BY <2>3, <2>4, <2>5, Placed
<1>2. T \in SUBSET Places(s)
    OBVIOUS
<1>3. T = Places(s)
    <2> HIDE DEF T
    <2> QED
        BY <1>1, <1>2, FromTheEnd
<1> QED
    BY <1>3

\* parseString panics only when the length overflows.
LEMMA StringPanics ==
    ASSUME NEW s \in Text, NEW p \in 0 .. Len(s), ParseString(s, p).st = "panic"
    PROVE  Overflows(s)
<1> DEFINE colon == NextIndex(s, p, ":")
           n == NumberOf(SubSeq(s, p + 1, colon - 1))
<1>1. Len(s) \in Nat /\ p \in Nat
    BY DEF Text
<1>2. /\ colon \in p + 1 .. Len(s) + 1
      /\ colon <= Len(s) => s[colon] = ":"
    BY NextIndexIs
<1>3. ~ (colon > Len(s)) /\ ParseString(s, p) = StringNode(s, p, colon, n)
    BY DEF ParseString, Error
<1>4. colon \in p + 1 .. Len(s) /\ s[colon] = ":"
    BY <1>1, <1>2, <1>3
<1>5. n = None \/ n \in Numbers
    <2>1. colon - 1 \in p .. Len(s)
        BY <1>1, <1>4
    <2>2. SubSeq(s, p + 1, colon - 1) \in Text
        BY <2>1, SubSeqIs
    <2> QED
        BY <2>2, NumberTyped
<1> HIDE DEF colon, n
<1>6. ~ (n = None \/ n < 0) /\ colon + n > IntMax
    BY <1>3 DEF StringNode, Error, Ok
<1>7. n >= 0
    BY <1>5, <1>6, BencodeAssumption DEF Numbers
<1> QED
    BY <1>4, <1>6, <1>7 DEF Overflows, colon, n

\* No parser panics anywhere unless a length overflows somewhere.
LEMMA PanicsOverflow ==
    ASSUME NEW s \in Text, ~ Overflows(s)
    PROVE  \A x \in Places(s) : Parsed(s)[x].st # "panic"
<1> DEFINE parsed == Parsed(s)
           T == {x \in Places(s) : parsed[x].st # "panic"}
<1>1. ASSUME NEW p \in 0 .. Len(s),
             \A q \in 0 .. Len(s) : q > p => {<<"value", q>>, <<"items", q>>, <<"pairs", q>>} \subseteq T
      PROVE  /\ <<"value", p>> \in T
             /\ <<"value", p>> \in T => {<<"items", p>>, <<"pairs", p>>} \subseteq T
    <2>1. Len(s) \in Nat /\ p \in Nat
        BY DEF Text
    <2>2. \A q \in 0 .. Len(s) : q > p => /\ parsed[<<"value", q>>].st # "panic"
                                          /\ parsed[<<"items", q>>].st # "panic"
                                          /\ parsed[<<"pairs", q>>].st # "panic"
        BY <1>1
    <2>3. Error.st # "panic" /\ \A node, pos : Ok(node, pos).st # "panic"
        BY DEF Error, Ok
    <2>4. ParseString(s, p).st # "panic"
        BY StringPanics
    <2>5. /\ parsed[<<"value", p>>] = DecodeValue(parsed, s, p)
          /\ parsed[<<"items", p>>] = ParseItems(parsed, s, p)
          /\ parsed[<<"pairs", p>>] = ParsePairs(parsed, s, p)
          /\ parsed[<<"value", p>>] \in Values(s, p)
        BY ParsedIs
    <2> HIDE DEF parsed
    <2>6. DecodeValue(parsed, s, p).st # "panic"
        <3>1. CASE p >= Len(s)
            BY <2>3, <3>1 DEF DecodeValue
        <3>2. CASE ~ (p >= Len(s))
            <4>1. p + 1 \in 0 .. Len(s) /\ p + 1 > p
                BY <2>1, <3>2
            <4>2. ParseInt(s, p).st # "panic"
                BY <2>3 DEF ParseInt
            <4> QED
                BY <2>2, <2>3, <2>4, <3>2, <4>1, <4>2, ValueCases
        <3> QED
            BY <3>1, <3>2
    <2>7. ParseItems(parsed, s, p).st # "panic"
        <3> DEFINE item == parsed[<<"value", p>>]
                   rest == parsed[<<"items", item.pos>>]
        <3>1. item.st # "panic"
            BY <2>5, <2>6
        <3>2. item.st = "ok" => rest.st # "panic"
            <4> HIDE DEF item
            <4>1. item.st = "ok" => item.pos \in p + 1 .. Len(s)
                BY <2>5, OksAre DEF Values, item
            <4>2. item.st = "ok" => item.pos \in 0 .. Len(s) /\ item.pos > p
                BY <2>1, <4>1
            <4> QED
                BY <2>2, <4>2
        <3>3. rest.st # "panic" => AddItem(p, rest).st # "panic"
            BY <2>3 DEF AddItem
        <3> HIDE DEF rest
        <3> QED
            BY <2>3, <3>1, <3>2, <3>3 DEF ParseItems, rest
    <2>8. ParsePairs(parsed, s, p).st # "panic"
        <3> DEFINE key == ParseString(s, p)
                   val == parsed[<<"value", key.pos>>]
                   rest == parsed[<<"pairs", val.pos>>]
        <3>1. key.st = "ok" => key.pos \in 0 .. Len(s) /\ key.pos > p
            <4>1. key \in Failures \cup Oks(StrNodes, p + 1, Len(s))
                BY StringTyped
            <4> HIDE DEF key
            <4>2. key.st = "ok" => key.pos \in p + 1 .. Len(s)
                BY <4>1, OksAre
            <4> QED
                BY <2>1, <4>2
        <3> HIDE DEF key
        <3>2. key.st = "ok" => val.st # "panic"
            BY <2>2, <3>1
        <3>3. key.st = "ok" /\ val.st = "ok" => val.pos \in 0 .. Len(s) /\ val.pos > p
            <4>1. key.st = "ok" => val \in Values(s, key.pos)
                BY <3>1, ParsedIs DEF parsed
            <4> HIDE DEF val
            <4>2. key.st = "ok" /\ val.st = "ok" => val.pos \in key.pos + 1 .. Len(s)
                BY <4>1, OksAre DEF Values
            <4> QED
                BY <2>1, <3>1, <4>2
        <3> HIDE DEF val
        <3>4. key.st = "ok" /\ val.st = "ok" => rest.st # "panic"
            BY <2>2, <3>3
        <3>5. rest.st # "panic" => AddPair(key.node.str, key.pos, rest).st # "panic"
            BY <2>3 DEF AddPair
        <3> HIDE DEF rest
        <3> QED
            BY <2>3, <2>4, <3>2, <3>4, <3>5 DEF ParsePairs, ParsePair, key, val, rest
    <2> QED
        BY <2>5, <2>6, <2>7, <2>8, Placed DEF T
<1>2. T \in SUBSET Places(s)
    OBVIOUS
<1>3. T = Places(s)
    <2> HIDE DEF T
    <2> QED
        BY <1>1, <1>2, FromTheEnd
<1> QED
    BY <1>3

-----------------------------------------------------------------------------
(***************************************************************************)
(* The specification decodes once.                                         *)
(***************************************************************************)
DecodedOnce ==
    /\ data \in Text /\ Len(data) <= IntMax
    /\ result = None \/ result = Decode(data)

\* The result is none, or what Decode returns for the data.
LEMMA DecodesOnce == Spec => []DecodedOnce
<1>1. Init => DecodedOnce
    BY BencodeAssumption DEF Init, DecodedOnce
<1>2. DecodedOnce /\ [Next]_vars => DecodedOnce'
    BY DEF DecodedOnce, Next, vars
<1> QED
    BY <1>1, <1>2, PTL DEF Spec

\* What Decode says of a text, by its root.
LEMMA DecodeIs ==
    ASSUME NEW s \in Text, NEW root, root = Parsed(s)[<<"value", 0>>]
    PROVE  /\ root \in Values(s, 0)
           /\ Decode(s).st = root.st
           /\ root.st = "ok" => /\ root.pos \in 1 .. Len(s)
                                /\ Decode(s) = [st |-> "ok", pos |-> root.pos, nodes |-> NodesOf(Parsed(s), s)]
<1>1. Len(s) \in Nat /\ 0 \in 0 .. Len(s)
    BY DEF Text
<1>2. root \in Values(s, 0)
    BY <1>1, ParsedIs
<1>3. root.st = "ok" => root.pos \in 1 .. Len(s)
    BY <1>1, <1>2, OksAre DEF Values
<1>4. root.st = "ok" => ~ (root.pos > Len(s))
    BY <1>1, <1>3
<1> QED
    BY <1>2, <1>3, <1>4 DEF Decode

(***************************************************************************)
(* DecodeValue, called anywhere in any text, accepts exactly the values of *)
(* the grammar that begin there and consumes exactly one: the parsers of   *)
(* decode.go read every value of the grammar, no other, in one way, and    *)
(* panic at most on a length that overflows.                               *)
(***************************************************************************)
THEOREM ReadsTheGrammar == Spec => []AgreesWithGrammar
<1>1. DecodedOnce => AgreesWithGrammar
    <2>1. SUFFICES ASSUME DecodedOnce, NEW p \in 0 .. Len(data), NEW value,
                          value = Parsed(data)[<<"value", p>>]
                   PROVE  /\ Ends(data)[<<"value", p>>] = IF value.st = "ok" THEN {value.pos} ELSE {}
                          /\ value.st = "panic" => Overflows(data)
        BY DEF AgreesWithGrammar
    <2>2. data \in Text /\ Len(data) <= IntMax
        BY <2>1 DEF DecodedOnce
    <2>3. <<"value", p>> \in Places(data)
        BY Placed
    <2>4. Ends(data)[<<"value", p>>] = Outcome(value)
        BY <2>1, <2>2, <2>3, AgreesEverywhere DEF Allowed
    <2>5. value.st = "panic" => Overflows(data)
        BY <2>1, <2>2, <2>3, PanicsOverflow
    <2> QED
        BY <2>4, <2>5 DEF Outcome
<1> QED
    BY <1>1, DecodesOnce, PTL

-----------------------------------------------------------------------------
(***************************************************************************)
(* FlattenSeq: the sequences one after the other, each behind the earlier. *)
(***************************************************************************)
JoinedBy(seqs, f) == f = [i \in 1 .. Len(seqs) |-> IF i = 1 THEN seqs[i] ELSE f[i - 1] \o seqs[i]]

\* FlattenSeq by its recursive function.
LEMMA FlattenUnfolds ==
    ASSUME NEW seqs \in Seq(Text), seqs # <<>>
    PROVE  \E f \in [1 .. Len(seqs) -> Text] : JoinedBy(seqs, f) /\ FlattenSeq(seqs) = f[Len(seqs)]
<1> DEFINE n == Len(seqs)
           X == 1 .. n
           F == [X -> Text]
           join(f) == [i \in X |-> IF i = 1 THEN seqs[i] ELSE f[i - 1] \o seqs[i]]
           next == [f \in F |-> join(f)]
           mu == [i \in X |-> i]
<1>1. n \in Nat \ {0} /\ \A i \in X : seqs[i] \in Text /\ (i # 1 => i - 1 \in X)
    BY EmptySeq
<1>2. \A f \in F : join(f) \in F
    <2> HIDE DEF X
    <2>1. ASSUME NEW f \in F, NEW i \in X, i # 1 PROVE f[i - 1] \o seqs[i] \in Text
        <3>1. f[i - 1] \in Seq(Char) /\ seqs[i] \in Seq(Char)
            BY <1>1, <2>1 DEF Text
        <3> QED
            BY <3>1, ConcatProperties DEF Text
    <2> QED
        BY <1>1, <2>1
<1>3. next \in [F -> F] /\ mu \in [X -> 0 .. n]
    BY <1>1, <1>2
<1>4. FunctionsOn(X, F)
    <2>1. [i \in X |-> seqs[i]] \in F
        BY <1>1
    <2>2. \A f \in F : f = [i \in X |-> f[i]]
        OBVIOUS
    <2> QED
        BY <2>1, <2>2 DEF FunctionsOn
<1>5. ASSUME NEW f \in F, NEW g, NEW i \in X, \A y \in X : mu[y] < mu[i] => f[y] = g[y]
      PROVE  join(f)[i] = join(g)[i]
    <2>1. i # 1 => i - 1 \in X /\ mu[i - 1] < mu[i]
        BY <1>1
    <2>2. i # 1 => f[i - 1] = g[i - 1]
        BY <1>5, <2>1
    <2> QED
        BY <2>2
<1>6. \E f \in F : f = next[f]
    <2>1. Causal(X, mu, F, next)
        <3>1. \A f, g \in F, i \in X :
                  (\A y \in X : mu[y] < mu[i] => f[y] = g[y]) => join(f)[i] = join(g)[i]
            BY <1>5
        <3>2. \A f \in F : next[f] = join(f)
            OBVIOUS
        <3> HIDE DEF F, next, mu, X, join
        <3> QED
            BY <3>1, <3>2 DEF Causal
    <2>2. n \in Nat
        BY <1>1
    <2> HIDE DEF X, F, next, mu, n
    <2> QED
        BY <1>3, <1>4, <2>1, <2>2, Recursion
<1>7. PICK f \in F : JoinedBy(seqs, f)
    BY <1>6 DEF JoinedBy
<1>8. ASSUME NEW g, JoinedBy(seqs, g) PROVE g = f
    <2> DEFINE T == {i \in X : f[i] = g[i]}
    <2>1. \A i \in X : (\A y \in X : mu[y] < mu[i] => y \in T) => i \in T
        <3>1. SUFFICES ASSUME NEW i \in X, \A y \in X : mu[y] < mu[i] => f[y] = g[y] PROVE f[i] = g[i]
            OBVIOUS
        <3>2. join(f)[i] = join(g)[i]
            BY <1>5, <3>1
        <3>3. f = join(f) /\ g = join(g)
            BY <1>7, <1>8 DEF JoinedBy
        <3> HIDE DEF join
        <3> QED
            BY <3>2, <3>3
    <2>2. mu \in [X -> Nat] /\ T \in SUBSET X
        OBVIOUS
    <2>3. X = T
        <3> HIDE DEF X, mu, T
        <3> QED
            BY <2>1, <2>2, MeasureInduction
    <2>4. g = [i \in X |-> g[i]] /\ f = [i \in X |-> f[i]]
        BY <1>7, <1>8 DEF JoinedBy
    <2>5. \A i \in X : f[i] = g[i]
        BY <2>3
    <2> HIDE DEF X
    <2> QED
        BY <2>4, <2>5
<1>9. FlattenSeq(seqs) = (CHOOSE g : JoinedBy(seqs, g))[n]
    BY <1>1 DEF FlattenSeq, JoinedBy
<1>10. (CHOOSE g : JoinedBy(seqs, g)) = f
    <2> HIDE DEF F
    <2> QED
        BY <1>7, <1>8
<1> QED
    BY <1>7, <1>9, <1>10

\* Where each piece of what is joined begins.
Pieces(at, seqs, flat) ==
    /\ at \in [0 .. Len(seqs) -> Nat] /\ at[0] = 0 /\ at[Len(seqs)] = Len(flat)
    /\ \A i \in 1 .. Len(seqs) :
          /\ at[i] = at[i - 1] + Len(seqs[i])
          /\ \A k \in 1 .. Len(seqs[i]) : flat[at[i - 1] + k] = seqs[i][k]

\* What a concatenation is made of.
LEMMA Joined ==
    ASSUME NEW a \in Text, NEW b \in Text
    PROVE  /\ a \o b \in Text /\ Len(a \o b) = Len(a) + Len(b) /\ Len(a) \in Nat /\ Len(b) \in Nat
           /\ \A k \in 1 .. Len(a) : (a \o b)[k] = a[k]
           /\ \A k \in 1 .. Len(b) : (a \o b)[Len(a) + k] = b[k]
<1> DEFINE w == a \o b
<1>1. a \in Seq(Char) /\ b \in Seq(Char) /\ Len(a) \in Nat /\ Len(b) \in Nat
    BY DEF Text
<1>2. /\ w \in Seq(Char) /\ Len(w) = Len(a) + Len(b)
      /\ \A k \in 1 .. Len(a) + Len(b) : w[k] = IF k <= Len(a) THEN a[k] ELSE b[k - Len(a)]
    BY <1>1, ConcatProperties
<1> HIDE DEF w
<1>3. ASSUME NEW k \in 1 .. Len(a) PROVE w[k] = a[k]
    <2>1. k \in 1 .. Len(a) + Len(b) /\ k <= Len(a)
        BY <1>1
    <2> QED
        BY <1>2, <2>1
<1>4. ASSUME NEW k \in 1 .. Len(b) PROVE w[Len(a) + k] = b[k]
    <2>1. Len(a) + k \in 1 .. Len(a) + Len(b) /\ ~ (Len(a) + k <= Len(a)) /\ (Len(a) + k) - Len(a) = k
        BY <1>1
    <2> QED
        BY <1>2, <2>1
<1>5. w \in Text
    BY <1>2 DEF Text
<1> QED
    BY <1>1, <1>2, <1>3, <1>4, <1>5 DEF w

\* w is a followed by b.
Concats(w, a, b) ==
    /\ w \in Text /\ Len(w) = Len(a) + Len(b) /\ Len(a) \in Nat /\ Len(b) \in Nat
    /\ \A k \in 1 .. Len(a) : w[k] = a[k]
    /\ \A k \in 1 .. Len(b) : w[Len(a) + k] = b[k]

\* The same, as one fact.
LEMMA JoinedIs ==
    ASSUME NEW a \in Text, NEW b \in Text
    PROVE  Concats(a \o b, a, b)
BY Joined DEF Concats

\* A text of one character.
LEMMA SingleIs ==
    ASSUME NEW c \in Char
    PROVE  <<c>> \in Text /\ Len(<<c>>) = 1 /\ <<c>>[1] = c
BY DEF Text

\* What is joined is a text, and its pieces lie in it one behind the other.
LEMMA FlattenIs ==
    ASSUME NEW seqs \in Seq(Text), NEW flat, flat = FlattenSeq(seqs)
    PROVE  flat \in Text /\ \E at : Pieces(at, seqs, flat)
<1> DEFINE n == Len(seqs)
<1>1. CASE seqs = <<>>
    <2>1. flat = <<>> /\ Len(seqs) = 0 /\ Len(flat) = 0
        BY <1>1, EmptySeq DEF FlattenSeq
    <2>2. flat \in Text
        BY <2>1, EmptySeq DEF Text
    <2>3. Pieces([i \in 0 .. 0 |-> 0], seqs, flat)
        BY <2>1 DEF Pieces
    <2> QED
        BY <2>2, <2>3
<1>2. CASE seqs # <<>>
    <2>1. n \in Nat \ {0} /\ \A i \in 1 .. n : seqs[i] \in Text /\ Len(seqs[i]) \in Nat
        BY <1>2, EmptySeq DEF Text
    <2>2. PICK f \in [1 .. n -> Text] : JoinedBy(seqs, f) /\ flat = f[n]
        BY <1>2, FlattenUnfolds
    <2> DEFINE at == [i \in 0 .. n |-> IF i = 0 THEN 0 ELSE Len(f[i])]
    <2>3. f[1] = seqs[1] /\ \A i \in 1 .. n : i # 1 => i - 1 \in 1 .. n /\ f[i] = f[i - 1] \o seqs[i]
        <3>1. \A i \in 1 .. n : i # 1 => i - 1 \in 1 .. n
            BY <2>1
        <3>2. \A i \in 1 .. n : f[i] = IF i = 1 THEN seqs[i] ELSE f[i - 1] \o seqs[i]
            <4> DEFINE S == 1 .. n
            <4>1. f = [i \in S |-> IF i = 1 THEN seqs[i] ELSE f[i - 1] \o seqs[i]]
                BY <2>2 DEF JoinedBy
            <4> HIDE DEF S
            <4>2. \A i \in S : f[i] = IF i = 1 THEN seqs[i] ELSE f[i - 1] \o seqs[i]
                BY <4>1, Zenon
            <4> QED
                BY <4>2 DEF S
        <3>3. 1 \in 1 .. n
            BY <2>1
        <3>4. f[1] = seqs[1]
            BY <3>2, <3>3, Zenon
        <3> QED
            BY <3>1, <3>2, <3>4, Zenon
    <2>4. \A i \in 1 .. n : f[i] \in Text /\ Len(f[i]) \in Nat
        <3>1. \A i \in 1 .. n : f[i] \in Text
            BY <2>2
        <3>2. \A x \in Text : Len(x) \in Nat
            BY DEF Text
        <3> QED
            BY <3>1, <3>2
    <2>5. at \in [0 .. n -> Nat] /\ at[0] = 0 /\ \A i \in 1 .. n : at[i] = Len(f[i])
        BY <2>1, <2>4
    <2> HIDE DEF at, n
    <2>6. ASSUME NEW i \in 1 .. n
          PROVE  /\ at[i] = at[i - 1] + Len(seqs[i])
                 /\ \A k \in 1 .. at[i - 1] : i # 1 => f[i][k] = f[i - 1][k]
                 /\ \A k \in 1 .. Len(seqs[i]) : f[i][at[i - 1] + k] = seqs[i][k]
        <3>1. CASE i = 1
            BY <2>1, <2>3, <2>5, <3>1
        <3>2. CASE i # 1
            <4>1. i - 1 \in 1 .. n /\ f[i] = f[i - 1] \o seqs[i]
                BY <2>3, <3>2
            <4>2. f[i - 1] \in Text /\ seqs[i] \in Text
                BY <2>1, <2>4, <4>1
            <4> DEFINE a == f[i - 1]
                       b == seqs[i]
                       w == f[i]
            <4>3. at[i] = Len(w) /\ at[i - 1] = Len(a)
                BY <2>5, <4>1
            <4>4. a \in Text /\ b \in Text /\ w = a \o b
                BY <4>1, <4>2
            <4> HIDE DEF a, b, w
            <4>5. /\ Len(w) = Len(a) + Len(b)
                  /\ \A k \in 1 .. Len(a) : w[k] = a[k]
                  /\ \A k \in 1 .. Len(b) : w[Len(a) + k] = b[k]
                <5>1. Concats(w, a, b)
                    BY <4>4, JoinedIs, Zenon
                <5> QED
                    BY <5>1 DEF Concats
            <4> QED
                BY <4>3, <4>5 DEF a, b, w
        <3> QED
            BY <3>1, <3>2
    <2> DEFINE T == {i \in Nat : i \in 1 .. n => \A j \in 1 .. i :
                        at[j] <= at[i] /\ \A k \in 1 .. Len(seqs[j]) : f[i][at[j - 1] + k] = seqs[j][k]}
    <2>7. 0 \in T
        OBVIOUS
    <2>8. ASSUME NEW i \in T PROVE i + 1 \in T
        <3>1. SUFFICES ASSUME i + 1 \in 1 .. n, NEW j \in 1 .. i + 1
                       PROVE  /\ at[j] <= at[i + 1]
                              /\ \A k \in 1 .. Len(seqs[j]) : f[i + 1][at[j - 1] + k] = seqs[j][k]
            OBVIOUS
        <3>2. (i + 1) - 1 = i /\ i \in Nat
            OBVIOUS
        <3>3. CASE j = i + 1
            <4>1. at[i + 1] \in Nat
                BY <2>5, <3>1
            <4> QED
                BY <2>6, <3>1, <3>2, <3>3, <4>1
        <3>4. CASE j # i + 1
            <4>1. j \in 1 .. i /\ i \in 1 .. n /\ i + 1 # 1 /\ j \in 1 .. n /\ j - 1 \in 0 .. n
                BY <2>1, <3>1, <3>2, <3>4
            <4>2. at[j] <= at[i] /\ \A k \in 1 .. Len(seqs[j]) : f[i][at[j - 1] + k] = seqs[j][k]
                BY <4>1
            <4>3. /\ at[i + 1] = at[i] + Len(seqs[i + 1])
                  /\ \A k \in 1 .. at[i] : f[i + 1][k] = f[i][k]
                BY <2>6, <3>1, <3>2, <4>1
            <4>4. /\ at[i] \in Nat /\ at[j] \in Nat /\ at[j - 1] \in Nat
                  /\ Len(seqs[j]) \in Nat /\ Len(seqs[i + 1]) \in Nat
                BY <2>1, <2>5, <3>1, <4>1
            <4>5. at[j] = at[j - 1] + Len(seqs[j])
                BY <2>6, <4>1
            <4>6. \A k \in 1 .. Len(seqs[j]) : at[j - 1] + k \in 1 .. at[i]
                <5> DEFINE u == Len(seqs[j])
                <5>1. u \in Nat /\ at[j] = at[j - 1] + u
                    BY <4>4, <4>5
                <5> HIDE DEF u
                <5> DEFINE lo == at[j - 1]
                           mid == at[j]
                           hi == at[i]
                <5>2. lo \in Nat /\ mid \in Nat /\ hi \in Nat /\ mid = lo + u /\ mid <= hi
                    BY <4>2, <4>4, <5>1
                <5> HIDE DEF lo, mid, hi, T
                <5>3. \A k \in 1 .. u : lo + k \in 1 .. hi
                    BY <5>1, <5>2
                <5> QED
                    BY <5>3 DEF u, lo, hi
            <4>7. \A k \in 1 .. Len(seqs[j]) : f[i + 1][at[j - 1] + k] = seqs[j][k]
                BY <4>2, <4>3, <4>6
            <4>8. at[j] <= at[i + 1]
                BY <4>2, <4>3, <4>4
            <4> QED
                BY <4>7, <4>8
        <3> QED
            BY <3>3, <3>4
    <2>9. n \in T
        <3>1. T \in SUBSET Nat
            OBVIOUS
        <3> HIDE DEF T
        <3>2. \A i \in Nat : i \in T
            BY <2>7, <2>8, <3>1, SetInduction
        <3> QED
            BY <2>1, <3>2
    <2>10. n \in 1 .. n
        BY <2>1
    <2>11. \A j \in 1 .. n : \A k \in 1 .. Len(seqs[j]) : flat[at[j - 1] + k] = seqs[j][k]
        BY <2>2, <2>9, <2>10
    <2>12. at[n] = Len(flat) /\ flat \in Text
        BY <2>2, <2>4, <2>5, <2>10
    <2>13. Pieces(at, seqs, flat)
        BY <2>5, <2>6, <2>11, <2>12 DEF Pieces, n
    <2> QED
        BY <2>12, <2>13
<1> QED
    BY <1>1, <1>2

-----------------------------------------------------------------------------
(***************************************************************************)
(* The order of the keys is total, so a dictionary has one order.          *)
(***************************************************************************)
LEMMA OrdIs ==
    /\ \A c \in Char : Ord(c) \in Nat
    /\ \A c, d \in Char : Ord(c) = Ord(d) => c = d
<1>1. DOMAIN Chars \subseteq Nat
    BY BencodeAssumption
<1>2. \A c \in Char : \E k \in DOMAIN Chars : Chars[k] = c
    BY DEF Char
<1>3. \A c \in Char : Ord(c) \in DOMAIN Chars /\ Chars[Ord(c)] = c
    BY <1>2 DEF Ord
<1> QED
    BY <1>1, <1>3

\* a comes before b at the end of what they begin with both.
Splits(a, b, k) ==
    /\ k \in 0 .. Len(a) /\ k <= Len(b) /\ \A j \in 1 .. k : a[j] = b[j]
    /\ \/ k = Len(a) /\ k < Len(b)
       \/ k < Len(a) /\ k < Len(b) /\ Ord(a[k + 1]) < Ord(b[k + 1])

\* Keys are less by a first difference, or by being a prefix.
LEMMA KeyLessIs == \A a, b : KeyLess(a, b) <=> \E k : Splits(a, b, k)
BY DEF KeyLess, Splits

\* Every character of a text has its place in the order.
LEMMA Letters ==
    ASSUME NEW a \in Text
    PROVE  Len(a) \in Nat /\ \A k \in 1 .. Len(a) : a[k] \in Char /\ Ord(a[k]) \in Nat
BY OrdIs DEF Text

\* Of two keys at most one is less.
LEMMA KeyLessOneWay ==
    ASSUME NEW a \in Text, NEW b \in Text, KeyLess(a, b), KeyLess(b, a)
    PROVE  FALSE
<1>1. PICK k : Splits(a, b, k)
    BY KeyLessIs
<1>2. PICK m : Splits(b, a, m)
    BY KeyLessIs
<1>3. Len(a) \in Nat /\ Len(b) \in Nat /\ k \in Nat /\ m \in Nat
    BY <1>1, <1>2, Letters DEF Splits
<1>4. k < Len(a) => k + 1 \in 1 .. Len(a)
    BY <1>3
<1>5. m < Len(b) => m + 1 \in 1 .. Len(b)
    BY <1>3
<1>6. CASE k < m
    <2>1. a[k + 1] = b[k + 1] /\ k < Len(a)
        BY <1>2, <1>3, <1>6 DEF Splits
    <2>2. Ord(a[k + 1]) < Ord(b[k + 1]) /\ Ord(a[k + 1]) \in Nat
        BY <1>1, <1>3, <1>4, <2>1, Letters DEF Splits
    <2> QED
        BY <2>1, <2>2
<1>7. CASE m < k
    <2>1. a[m + 1] = b[m + 1] /\ m < Len(b)
        BY <1>1, <1>3, <1>7 DEF Splits
    <2>2. Ord(b[m + 1]) < Ord(a[m + 1]) /\ Ord(b[m + 1]) \in Nat
        BY <1>2, <1>3, <1>5, <2>1, Letters DEF Splits
    <2> QED
        BY <2>1, <2>2
<1>8. CASE k = m
    <2>1. k < Len(b) /\ k < Len(a)
        BY <1>1, <1>2, <1>8 DEF Splits
    <2>2. Ord(a[k + 1]) < Ord(b[k + 1]) /\ Ord(b[k + 1]) < Ord(a[k + 1])
        BY <1>1, <1>2, <1>3, <1>8, <2>1 DEF Splits
    <2>3. Ord(a[k + 1]) \in Nat /\ Ord(b[k + 1]) \in Nat
        BY <1>4, <1>5, <1>8, <2>1, Letters
    <2> QED
        BY <2>2, <2>3
<1> QED
    BY <1>3, <1>6, <1>7, <1>8

\* Of two different keys one is less.
LEMMA KeyLessTotal ==
    ASSUME NEW a \in Text, NEW b \in Text, a # b
    PROVE  KeyLess(a, b) \/ KeyLess(b, a)
<1> DEFINE D == {k \in 0 .. Len(a) : k <= Len(b) /\ (k = Len(a) \/ k = Len(b) \/ a[k + 1] # b[k + 1])}
<1>1. Len(a) \in Nat /\ Len(b) \in Nat
    BY Letters
<1>2. D \subseteq Nat /\ D # {}
    <2>1. Len(a) <= Len(b) => Len(a) \in D
        BY <1>1
    <2>2. Len(b) <= Len(a) => Len(b) \in D
        BY <1>1
    <2>3. D \subseteq Nat
        BY <1>1
    <2> HIDE DEF D
    <2> QED
        BY <1>1, <2>1, <2>2, <2>3
<1>3. PICK k \in D : \A y \in D : k <= y
    BY <1>2, LeastElement
<1>4. k \in 0 .. Len(a) /\ k <= Len(b) /\ k \in Nat /\ k \in 0 .. Len(b)
    BY <1>1
<1>5. \A j \in 1 .. k : a[j] = b[j]
    <2>1. SUFFICES ASSUME NEW j \in 1 .. k, a[j] # b[j] PROVE FALSE
        OBVIOUS
    <2>2. j - 1 \in D /\ ~ (k <= j - 1)
        BY <1>1, <1>4, <2>1
    <2> QED
        BY <1>3, <2>2
<1>6. CASE k = Len(a) /\ k = Len(b)
    <2>1. a \in Seq(Char) /\ b \in Seq(Char) /\ Len(a) = Len(b) /\ \A j \in 1 .. Len(a) : a[j] = b[j]
        BY <1>5, <1>6 DEF Text
    <2>2. a = b
        BY <2>1, SeqEqual
    <2> QED
        BY <2>2
<1>7. CASE k = Len(a) /\ k < Len(b)
    BY <1>4, <1>5, <1>7, KeyLessIs DEF Splits
<1>8. CASE k = Len(b) /\ k < Len(a)
    BY <1>4, <1>5, <1>8, KeyLessIs DEF Splits
<1>9. CASE k < Len(a) /\ k < Len(b)
    <2>1. a[k + 1] # b[k + 1] /\ k + 1 \in 1 .. Len(a) /\ k + 1 \in 1 .. Len(b)
        BY <1>1, <1>4, <1>9
    <2>2. Ord(a[k + 1]) \in Nat /\ Ord(b[k + 1]) \in Nat /\ Ord(a[k + 1]) # Ord(b[k + 1])
        BY <2>1, Letters, OrdIs
    <2>3. CASE Ord(a[k + 1]) < Ord(b[k + 1])
        BY <1>4, <1>5, <1>9, <2>3, KeyLessIs DEF Splits
    <2>4. CASE Ord(b[k + 1]) < Ord(a[k + 1])
        BY <1>4, <1>5, <1>9, <2>4, KeyLessIs DEF Splits
    <2> QED
        BY <2>2, <2>3, <2>4
<1> QED
    BY <1>1, <1>4, <1>6, <1>7, <1>8, <1>9

\* Less is transitive.
LEMMA KeyLessTransitive ==
    ASSUME NEW a \in Text, NEW b \in Text, NEW c \in Text, KeyLess(a, b), KeyLess(b, c)
    PROVE  KeyLess(a, c)
<1>1. PICK k : Splits(a, b, k)
    BY KeyLessIs
<1>2. PICK m : Splits(b, c, m)
    BY KeyLessIs
<1>3. Len(a) \in Nat /\ Len(b) \in Nat /\ Len(c) \in Nat /\ k \in Nat /\ m \in Nat
    BY <1>1, <1>2, Letters DEF Splits
<1>4. CASE k < m
    <2>1. b[k + 1] = c[k + 1] /\ k < Len(b) /\ k < Len(c)
        BY <1>2, <1>3, <1>4 DEF Splits
    <2>2. \A j \in 1 .. k : a[j] = c[j]
        BY <1>1, <1>2, <1>3, <1>4 DEF Splits
    <2>3. Splits(a, c, k)
        BY <1>1, <1>3, <2>1, <2>2 DEF Splits
    <2> QED
        BY <2>3, KeyLessIs
<1>5. CASE m < k
    <2>1. a[m + 1] = b[m + 1] /\ m < Len(a) /\ m < Len(b) /\ m < Len(c)
        BY <1>1, <1>2, <1>3, <1>5 DEF Splits
    <2>2. \A j \in 1 .. m : a[j] = c[j]
        BY <1>1, <1>2, <1>3, <1>5 DEF Splits
    <2>3. Splits(a, c, m)
        BY <1>2, <1>3, <2>1, <2>2 DEF Splits
    <2> QED
        BY <2>3, KeyLessIs
<1>6. CASE k = m
    <2>1. k < Len(b) /\ k < Len(c) /\ k \in 0 .. Len(a) /\ (k = Len(a) \/ k < Len(a))
        BY <1>1, <1>2, <1>3, <1>6 DEF Splits
    <2>2. \A j \in 1 .. k : a[j] = c[j]
        BY <1>1, <1>2, <1>3, <1>6 DEF Splits
    <2>3. k < Len(a) => Ord(a[k + 1]) < Ord(c[k + 1])
        <3>1. SUFFICES ASSUME k < Len(a) PROVE Ord(a[k + 1]) < Ord(c[k + 1])
            OBVIOUS
        <3>2. Ord(a[k + 1]) < Ord(b[k + 1]) /\ Ord(b[k + 1]) < Ord(c[k + 1])
            BY <1>1, <1>2, <1>3, <1>6, <2>1, <3>1 DEF Splits
        <3>3. k + 1 \in 1 .. Len(a) /\ k + 1 \in 1 .. Len(b) /\ k + 1 \in 1 .. Len(c)
            BY <1>3, <2>1, <3>1
        <3>4. Ord(a[k + 1]) \in Nat /\ Ord(b[k + 1]) \in Nat /\ Ord(c[k + 1]) \in Nat
            BY <3>3, Letters
        <3> QED
            BY <3>2, <3>4
    <2>4. Splits(a, c, k)
        BY <1>3, <2>1, <2>2, <2>3 DEF Splits
    <2> QED
        BY <2>4, KeyLessIs
<1> QED
    BY <1>3, <1>4, <1>5, <1>6

\* The keys of a dictionary in their order, which is determined by its keys alone.
LEMMA SortedKeysAre ==
    ASSUME NEW dict, IsFiniteSet(DOMAIN dict), DOMAIN dict \subseteq Text,
           NEW keys, keys = SortedKeys(dict)
    PROVE  /\ keys \in Seq(DOMAIN dict) /\ Len(keys) = Cardinality(DOMAIN dict)
           /\ \A i, j \in 1 .. Len(keys) : keys[i] = keys[j] => i = j
           /\ \A k \in DOMAIN dict : \E i \in 1 .. Len(keys) : keys[i] = k
           /\ \A i, j \in 1 .. Len(keys) : i < j => KeyLess(keys[i], keys[j])
           /\ \A other : DOMAIN other = DOMAIN dict => SortedKeys(other) = keys
<1> DEFINE K == DOMAIN dict
           less == {w \in K \X K : KeyLess(w[1], w[2])}
           n == Cardinality(K)
<1>1. \A x, y \in K : <<x, y>> \in less <=> KeyLess(x, y)
    OBVIOUS
<1>2. \A x, y, z \in K : x \in Text /\ y \in Text /\ z \in Text
    OBVIOUS
<1>3. \A other : DOMAIN other = K => SortedKeys(other) = OrderBy(K, less)
    BY DEF SortedKeys, SortedBy
<1>4. n \in Nat
    BY FS_CardinalityType
<1> HIDE DEF less, K, n
<1>5. \A x, y \in K : <<x, y>> \in less => <<y, x>> \notin less
    BY <1>1, <1>2, KeyLessOneWay
<1>6. \A x, y \in K : x # y => <<x, y>> \in less \/ <<y, x>> \in less
    BY <1>1, <1>2, KeyLessTotal
<1>7. \A x, y, z \in K : <<x, y>> \in less /\ <<y, z>> \in less => <<x, z>> \in less
    BY <1>1, <1>2, KeyLessTransitive
<1>8. Orders(less, K) /\ NoTies(less, K)
    BY <1>5, <1>6, <1>7 DEF Orders, NoTies
<1>9. keys = OrderBy(K, less)
    BY <1>3 DEF K
<1>10. IsFiniteSet(K)
    BY DEF K
<1>11. /\ keys \in [1 .. n -> K] /\ InOrder(keys, less)
       /\ \A i, j \in 1 .. n : keys[i] = keys[j] => i = j
       /\ \A x \in K : \E i \in 1 .. n : keys[i] = x
    BY <1>8, <1>9, <1>10, OrderByReturns DEF n
<1>12. keys \in Seq(K) /\ Len(keys) = n
    BY <1>4, <1>11
<1>13. \A i, j \in 1 .. n : i < j => KeyLess(keys[i], keys[j])
    <2>1. SUFFICES ASSUME NEW i \in 1 .. n, NEW j \in 1 .. n, i < j PROVE KeyLess(keys[i], keys[j])
        OBVIOUS
    <2>2. keys[i] \in K /\ keys[j] \in K /\ keys[i] # keys[j] /\ <<keys[j], keys[i]>> \notin less
        BY <1>11, <2>1 DEF InOrder
    <2> QED
        BY <1>1, <1>6, <2>2
<1> QED
    BY <1>3, <1>9, <1>11, <1>12, <1>13 DEF K, n

-----------------------------------------------------------------------------
(***************************************************************************)
(* Integers and strings are read alike wherever they are written.          *)
(***************************************************************************)
Holds(t, q, s, p, m) == q + m <= Len(t) /\ \A k \in 1 .. m : t[q + k] = s[p + k]

\* The same characters elsewhere make the same piece.
LEMMA SubSeqMoves ==
    ASSUME NEW s \in Text, NEW t \in Text, NEW p \in 0 .. Len(s), NEW q \in 0 .. Len(t), NEW m \in Nat,
           p + m <= Len(s), Holds(t, q, s, p, m), NEW i \in 0 .. m, NEW j \in i .. m
    PROVE  SubSeq(t, (q + i) + 1, q + j) = SubSeq(s, (p + i) + 1, p + j)
<1> DEFINE u == SubSeq(s, (p + i) + 1, p + j)
           v == SubSeq(t, (q + i) + 1, q + j)
<1>1. Len(s) \in Nat /\ Len(t) \in Nat /\ p \in Nat /\ q \in Nat /\ i \in Nat /\ j \in Nat
    BY DEF Text
<1>2. /\ p + i \in 0 .. Len(s) /\ p + j \in p + i .. Len(s) /\ (p + j) - (p + i) = j - i
      /\ q + i \in 0 .. Len(t) /\ q + j \in q + i .. Len(t) /\ (q + j) - (q + i) = j - i
    BY <1>1 DEF Holds
<1>3. u \in Text /\ Len(u) = j - i /\ \A k \in 1 .. j - i : u[k] = s[p + i + k]
    BY <1>2, SubSeqIs
<1>4. v \in Text /\ Len(v) = j - i /\ \A k \in 1 .. j - i : v[k] = t[q + i + k]
    BY <1>2, SubSeqIs
<1> HIDE DEF u, v
<1>5. ASSUME NEW k \in 1 .. j - i PROVE t[q + i + k] = s[p + i + k]
    <2>1. i + k \in 1 .. m /\ q + (i + k) = q + i + k /\ p + (i + k) = p + i + k
        BY <1>1
    <2>2. t[q + (i + k)] = s[p + (i + k)]
        BY <2>1 DEF Holds
    <2> QED
        BY <2>1, <2>2
<1>6. \A k \in 1 .. Len(v) : v[k] = u[k]
    BY <1>3, <1>4, <1>5
<1>7. v = u
    BY <1>3, <1>4, <1>6, SeqEqual DEF Text
<1> QED
    BY <1>7 DEF u, v

\* What holds at the front of a text holds where the text was copied to.
LEMMA PrefixMoves ==
    ASSUME NEW s \in Text, NEW t \in Text, NEW p \in 0 .. Len(s), NEW q \in 0 .. Len(t), NEW m \in Nat,
           p + m <= Len(s), Holds(t, q, s, p, m), NEW k \in 0 .. m
    PROVE  SubSeq(t, q + 1, q + k) = SubSeq(s, p + 1, p + k)
<1>1. PICK i \in 0 .. m : i = 0
    OBVIOUS
<1>2. k \in i .. m /\ q + i = q /\ p + i = p
    BY <1>1 DEF Text
<1>3. k \in i .. m
    BY <1>2
<1>4. SubSeq(t, (q + i) + 1, q + k) = SubSeq(s, (p + i) + 1, p + k)
    BY <1>3, SubSeqMoves, ZenonT(60)
<1> QED
    BY <1>2, <1>4

\* What parseInt returns when it succeeds.
IntAt(s, p, e) ==
    [type |-> "int", int |-> NumberOf(SubSeq(s, p + 2, e - 1)), raw |-> SubSeq(s, p + 1, e)]

\* What parseInt returns when it succeeds.
LEMMA IntIs ==
    ASSUME NEW s \in Text, NEW p \in 0 .. Len(s) - 1, ParseInt(s, p).st = "ok"
    PROVE  \E e \in p + 2 .. Len(s) :
               /\ s[e] = "e" /\ \A j \in p + 2 .. e - 1 : s[j] # "e"
               /\ SubSeq(s, p + 2, e - 1) # <<"-", "0">> /\ NumberOf(SubSeq(s, p + 2, e - 1)) # None
               /\ ParseInt(s, p) = Ok(IntAt(s, p, e), e)
<1> DEFINE e == NextIndex(s, p + 1, "e")
           text == SubSeq(s, p + 2, e - 1)
<1>1. Len(s) \in Nat /\ p \in Nat /\ p + 1 \in 0 .. Len(s) /\ (p + 1) + 1 = p + 2
    BY DEF Text
<1>2. ~ (e > Len(s)) /\ text # <<"-", "0">> /\ NumberOf(text) # None
    BY DEF ParseInt, Error
<1>3. /\ e \in p + 2 .. Len(s) + 1
      /\ e <= Len(s) => s[e] = "e"
      /\ \A j \in p + 2 .. e - 1 : s[j] # "e"
    BY <1>1, NextIndexIs
<1>4. ParseInt(s, p) = Ok(IntAt(s, p, e), e)
    BY <1>2 DEF ParseInt, IntAt
<1> HIDE DEF e
<1>5. e \in p + 2 .. Len(s) /\ s[e] = "e"
    BY <1>1, <1>2, <1>3
<1> QED
    BY <1>2, <1>3, <1>4, <1>5, Zenon

\* parseInt reads the same number wherever it is written.
LEMMA IntMoves ==
    ASSUME NEW s \in Text, NEW t \in Text, NEW p \in 0 .. Len(s) - 1, NEW q \in 0 .. Len(t),
           NEW r, r = ParseInt(s, p), r.st = "ok", NEW m, m = r.pos - p, Holds(t, q, s, p, m)
    PROVE  ParseInt(t, q) = Ok(r.node, q + m)
<1>1. Len(s) \in Nat /\ Len(t) \in Nat /\ p \in Nat /\ q \in Nat
    BY DEF Text
<1>2. PICK e \in p + 2 .. Len(s) :
          /\ s[e] = "e" /\ \A j \in p + 2 .. e - 1 : s[j] # "e"
          /\ SubSeq(s, p + 2, e - 1) # <<"-", "0">> /\ NumberOf(SubSeq(s, p + 2, e - 1)) # None
          /\ r = Ok(IntAt(s, p, e), e)
    BY IntIs
<1> DEFINE text == SubSeq(s, p + 2, e - 1)
<1>3. r.pos = e /\ r.node = IntAt(s, p, e)
    BY <1>2, OkIs
<1>4. m = e - p /\ m \in Nat /\ m >= 2 /\ p + m = e /\ p + m <= Len(s) /\ p \in 0 .. Len(s)
    BY <1>1, <1>3
<1>5. /\ q + m <= Len(t) /\ \A k \in 1 .. m : t[q + k] = s[p + k]
    BY DEF Holds
<1>6. NextIndex(t, q + 1, "e") = q + m
    <2>1. t[q + m] = "e"
        <3>1. m \in 1 .. m
            BY <1>4
        <3>2. t[q + m] = s[p + m]
            BY <1>5, <3>1
        <3> QED
            BY <1>2, <1>4, <3>2
    <2>2. ASSUME NEW j \in (q + 1) + 1 .. (q + m) - 1 PROVE t[j] # "e"
        <3>1. /\ j - q \in 1 .. m /\ q + (j - q) = j /\ p + (j - q) \in p + 2 .. e - 1
            BY <1>1, <1>4
        <3> QED
            BY <1>2, <1>5, <3>1
    <2>3. q + 1 \in 0 .. Len(t) /\ q + m \in (q + 1) + 1 .. Len(t)
        BY <1>1, <1>4, <1>5, SMTT(60)
    <2> QED
        BY <2>1, <2>2, <2>3, NextIndexOnly
<1>7. SubSeq(t, q + 2, (q + m) - 1) = text
    <2> DEFINE k == m - 1
    <2>1. 1 \in 0 .. m /\ k \in 1 .. m
        BY <1>4
    <2>2. /\ (q + 1) + 1 = q + 2 /\ q + k = (q + m) - 1
          /\ (p + 1) + 1 = p + 2 /\ p + k = e - 1
        BY <1>1, <1>4
    <2> HIDE DEF k
    <2>3. SubSeq(t, (q + 1) + 1, q + k) = SubSeq(s, (p + 1) + 1, p + k)
        BY <1>4, <2>1, SubSeqMoves, ZenonT(60)
    <2> QED
        BY <2>2, <2>3
<1>8. SubSeq(t, q + 1, q + m) = SubSeq(s, p + 1, e)
    <2>1. SubSeq(t, q + 1, q + m) = SubSeq(s, p + 1, p + m)
        <3>1. m \in 0 .. m
            BY <1>4
        <3> QED
            BY <1>4, <3>1, PrefixMoves
    <2> QED
        BY <1>4, <2>1
<1>9. ~ (q + m > Len(t))
    BY <1>1, <1>4, <1>5
<1>10. ParseInt(t, q) = Ok([type |-> "int", int |-> NumberOf(text), raw |-> SubSeq(s, p + 1, e)], q + m)
    <2> HIDE DEF text
    <2> QED
        BY <1>2, <1>6, <1>7, <1>8, <1>9 DEF ParseInt, text
<1> QED
    BY <1>3, <1>10 DEF IntAt

\* parseString reads the same string wherever it is written.
LEMMA StringMoves ==
    ASSUME NEW s \in Text, NEW t \in Text, NEW p \in 0 .. Len(s), NEW q \in 0 .. Len(t),
           Len(t) <= IntMax,
           NEW r, r = ParseString(s, p), r.st = "ok", NEW m, m = r.pos - p, Holds(t, q, s, p, m)
    PROVE  ParseString(t, q) = Ok(r.node, q + m)
<1>1. Len(s) \in Nat /\ Len(t) \in Nat /\ p \in Nat /\ q \in Nat /\ IntMax \in Nat /\ None \notin Int
    BY BencodeAssumption DEF Text
<1>2. PICK colon \in p + 1 .. Len(s), n \in 0 .. IntMax :
          /\ colon = NextIndex(s, p, ":") /\ n = NumberOf(SubSeq(s, p + 1, colon - 1))
          /\ colon + n \in p + 1 .. Len(s)
          /\ r = Ok(StrAt(s, p, colon, n), colon + n)
    BY StringIs
<1> DEFINE c == colon - p
<1>3. /\ colon <= Len(s) => s[colon] = ":"
      /\ \A j \in p + 1 .. colon - 1 : s[j] # ":"
    BY <1>2, NextIndexIs
<1>4. r.pos = colon + n /\ r.node = StrAt(s, p, colon, n)
    <2>1. /\ Ok(StrAt(s, p, colon, n), colon + n).pos = colon + n
          /\ Ok(StrAt(s, p, colon, n), colon + n).node = StrAt(s, p, colon, n)
        BY OkIs, Zenon
    <2> QED
        BY <1>2, <2>1
<1>5. /\ m = c + n /\ c \in 1 .. m /\ m \in Nat /\ p + m = colon + n /\ p + c = colon
      /\ p + m <= Len(s) /\ q + m <= Len(t)
    <2>1. q + m <= Len(t)
        BY DEF Holds
    <2>2. m = (colon + n) - p /\ colon + n \in p + 1 .. Len(s) /\ n \in Nat
        BY <1>2, <1>4, SMTT(60)
    <2> QED
        BY <1>1, <2>1, <2>2
<1>6. s[colon] = ":"
    BY <1>1, <1>3, <1>4
<1> HIDE DEF c
<1>7. NextIndex(t, q, ":") = q + c
    <2>1. t[q + c] = ":"
        BY <1>5, <1>6 DEF Holds
    <2>2. ASSUME NEW j \in q + 1 .. (q + c) - 1 PROVE t[j] # ":"
        <3>1. /\ j - q \in 1 .. m /\ q + (j - q) = j /\ p + (j - q) \in p + 1 .. colon - 1
            BY <1>1, <1>5
        <3> QED
            BY <1>3, <3>1 DEF Holds
    <2>3. q + c \in q + 1 .. Len(t)
        BY <1>1, <1>5
    <2> QED
        BY <2>1, <2>2, <2>3, NextIndexOnly
<1>8. SubSeq(t, q + 1, (q + c) - 1) = SubSeq(s, p + 1, colon - 1)
    <2> DEFINE k == c - 1
    <2>1. k \in 0 .. m /\ q + k = (q + c) - 1 /\ p + k = colon - 1
        BY <1>1, <1>5
    <2> HIDE DEF k
    <2>2. SubSeq(t, q + 1, q + k) = SubSeq(s, p + 1, p + k)
        BY <1>5, <2>1, PrefixMoves
    <2> QED
        BY <2>1, <2>2
<1>9. SubSeq(t, (q + c) + 1, q + m) = SubSeq(s, colon + 1, colon + n)
    <2>1. c \in 0 .. m /\ m \in c .. m
        BY <1>5
    <2>2. SubSeq(t, (q + c) + 1, q + m) = SubSeq(s, (p + c) + 1, p + m)
        BY <1>5, <2>1, SubSeqMoves, ZenonT(60)
    <2> QED
        BY <1>5, <2>2
<1>10. SubSeq(t, q + 1, q + m) = SubSeq(s, p + 1, colon + n)
    <2>1. SubSeq(t, q + 1, q + m) = SubSeq(s, p + 1, p + m)
        <3>1. m \in 0 .. m
            BY <1>5
        <3> QED
            BY <1>5, <3>1, PrefixMoves
    <2> QED
        BY <1>5, <2>1
<1>11. ParseString(t, q) = StringNode(t, q, q + c, n)
    <2>1. ~ (q + c > Len(t))
        BY <1>1, <1>5
    <2> QED
        BY <1>2, <1>7, <1>8, <2>1 DEF ParseString
<1>12. (q + c) + n = q + m /\ ~ (n = None \/ n < 0) /\ ~ (q + m > IntMax) /\ ~ (q + m > Len(t))
    <2>1. n \in Nat /\ n <= IntMax
        OBVIOUS
    <2> QED
        BY <1>1, <1>5, <2>1
<1>13. ParseString(t, q) = Ok([type |-> "str", str |-> SubSeq(t, (q + c) + 1, q + m),
                              raw |-> SubSeq(t, q + 1, q + m)], q + m)
    BY <1>11, <1>12 DEF StringNode
<1> QED
    BY <1>4, <1>9, <1>10, <1>13 DEF StrAt

\* A piece between two others, cut out again.
LEMMA CutOut ==
    ASSUME NEW w \in Text, NEW i \in 0 .. Len(w), NEW j \in i .. Len(w),
           NEW x \in Text, Len(x) = j - i, \A k \in 1 .. j - i : w[i + k] = x[k]
    PROVE  SubSeq(w, i + 1, j) = x
<1> DEFINE u == SubSeq(w, i + 1, j)
<1>1. u \in Text /\ Len(u) = j - i /\ \A k \in 1 .. j - i : u[k] = w[i + k]
    BY SubSeqIs
<1> HIDE DEF u
<1>2. \A k \in 1 .. Len(u) : u[k] = x[k]
    BY <1>1
<1>3. u = x
    BY <1>1, <1>2, SeqEqual DEF Text
<1> QED
    BY <1>3 DEF u

\* What is between an opening and a closing character.
Wraps(w, open, body, close) ==
    /\ w \in Text /\ Len(w) = Len(body) + 2 /\ w[1] = open /\ w[Len(body) + 2] = close
    /\ \A k \in 1 .. Len(body) : w[k + 1] = body[k]

\* A body between two brackets.
LEMMA WrappedIs ==
    ASSUME NEW open \in Char, NEW body \in Text, NEW close \in Char
    PROVE  Wraps(<<open>> \o body \o <<close>>, open, body, close)
<1> DEFINE a == <<open>>
           z == <<close>>
           ab == a \o body
           b == Len(body)
           w == <<open>> \o body \o <<close>>
<1>1. /\ a \in Text /\ Len(a) = 1 /\ a[1] = open
      /\ z \in Text /\ Len(z) = 1 /\ z[1] = close
    BY SingleIs
<1>2. w = ab \o z
    OBVIOUS
<1> HIDE DEF a, z, w
<1>3. /\ ab \in Text /\ Len(ab) = 1 + b /\ b \in Nat
      /\ \A k \in 1 .. Len(a) : ab[k] = a[k]
      /\ \A k \in 1 .. b : ab[Len(a) + k] = body[k]
    <2>1. Concats(ab, a, body)
        BY <1>1, JoinedIs, Zenon
    <2> HIDE DEF ab
    <2> QED
        BY <1>1, <2>1 DEF Concats
<1> HIDE DEF ab
<1>4. /\ w \in Text /\ Len(w) = Len(ab) + 1
      /\ \A k \in 1 .. Len(ab) : w[k] = ab[k]
      /\ \A k \in 1 .. Len(z) : w[Len(ab) + k] = z[k]
    <2>1. Concats(w, ab, z)
        BY <1>1, <1>2, <1>3, JoinedIs, Zenon
    <2> QED
        BY <1>1, <2>1 DEF Concats
<1> HIDE DEF b
<1>5. Len(w) = b + 2
    BY <1>3, <1>4
<1>6. w[1] = open
    <2>1. 1 \in 1 .. Len(a) /\ 1 \in 1 .. Len(ab)
        BY <1>1, <1>3
    <2> QED
        BY <1>1, <1>3, <1>4, <2>1
<1>7. w[b + 2] = close
    <2>1. 1 \in 1 .. Len(z) /\ Len(ab) + 1 = b + 2
        BY <1>1, <1>3
    <2> QED
        BY <1>1, <1>4, <2>1
<1>8. ASSUME NEW k \in 1 .. b PROVE w[k + 1] = body[k]
    <2>1. k + 1 \in 1 .. Len(ab) /\ k + 1 = Len(a) + k
        BY <1>1, <1>3
    <2>2. w[k + 1] = ab[k + 1]
        BY <1>4, <2>1
    <2>3. ab[Len(a) + k] = body[k]
        BY <1>3
    <2> QED
        BY <2>1, <2>2, <2>3
<1> QED
    BY <1>4, <1>5, <1>6, <1>7, <1>8 DEF b, w, Wraps

\* parseInt reads what appendNode writes for a built integer.
LEMMA IntReads ==
    ASSUME NEW n \in Numbers, NEW w, w = EncodeInt(n)
    PROVE  /\ w \in Text /\ Len(w) = Len(FormatInt(n)) + 2 /\ w[1] = "i"
           /\ ParseInt(w, 0) = Ok([type |-> "int", int |-> n, raw |-> w], Len(w))
<1> DEFINE f == FormatInt(n)
<1>1. /\ f \in Text /\ NumberOf(f) = n /\ f # <<"-", "0">>
      /\ \A k \in 1 .. Len(f) : f[k] \in DigitChars \cup {"-"}
    BY Formatted
<1>2. w = <<"i">> \o f \o <<"e">>
    BY DEF EncodeInt
<1> HIDE DEF f
<1>3. Len(f) \in Nat /\ n # None
    BY <1>1, BencodeAssumption DEF Text, Numbers
<1>4. /\ w \in Text /\ Len(w) = Len(f) + 2 /\ w[1] = "i" /\ w[Len(f) + 2] = "e"
      /\ \A k \in 1 .. Len(f) : w[k + 1] = f[k]
    <2>1. "i" \in Char /\ "e" \in Char
        BY BencodeAssumption
    <2> QED
        BY <1>1, <1>2, <2>1, WrappedIs DEF Wraps
<1>5. \A k \in 1 .. Len(f) : f[k] # "e"
    BY <1>1, DigitsAreNot
<1>6. NextIndex(w, 0 + 1, "e") = Len(w)
    <2>1. ASSUME NEW j \in (0 + 1) + 1 .. Len(w) - 1 PROVE w[j] # "e"
        <3>1. j - 1 \in 1 .. Len(f) /\ (j - 1) + 1 = j
            BY <1>3, <1>4
        <3> QED
            BY <1>4, <1>5, <3>1
    <2>2. 0 + 1 \in 0 .. Len(w) /\ Len(w) \in (0 + 1) + 1 .. Len(w) /\ w[Len(w)] = "e"
        BY <1>3, <1>4
    <2> QED
        BY <1>4, <2>1, <2>2, NextIndexOnly
<1>7. SubSeq(w, 2, Len(w) - 1) = f
    <2>1. /\ 1 \in 0 .. Len(w) /\ Len(w) - 1 \in 1 .. Len(w) /\ Len(f) = (Len(w) - 1) - 1
        BY <1>3, <1>4
    <2>2. \A k \in 1 .. (Len(w) - 1) - 1 : w[1 + k] = f[k]
        BY <1>3, <1>4
    <2>3. SubSeq(w, 1 + 1, Len(w) - 1) = f
        BY <1>1, <1>4, <2>1, <2>2, CutOut
    <2> QED
        BY <2>3
<1>8. SubSeq(w, 1, Len(w)) = w
    BY <1>4, SubSeqFull DEF Text
<1>9. ~ (Len(w) > Len(w)) /\ 0 + 2 = 2 /\ 0 + 1 = 1
    BY <1>3, <1>4
<1>10. ParseInt(w, 0) = Ok([type |-> "int", int |-> n, raw |-> w], Len(w))
    BY <1>1, <1>3, <1>6, <1>7, <1>8, <1>9 DEF ParseInt
<1> QED
    BY <1>4, <1>10 DEF f

\* parseString reads what appendNode writes for a built string.
LEMMA StringReads ==
    ASSUME NEW str \in Strings, NEW w, w = EncodeString(str)
    PROVE  /\ w \in Text /\ Len(w) = Len(FormatInt(Len(str))) + 1 + Len(str)
           /\ w # <<>> /\ w[1] \in DigitChars
           /\ Len(w) <= IntMax =>
                 ParseString(w, 0) = Ok([type |-> "str", str |-> str, raw |-> w], Len(w))
<1> DEFINE n == Len(str)
           f == FormatInt(n)
           z == <<":">>
           fz == f \o z
<1>1. str \in Text /\ n \in Nat /\ n <= IntMax /\ IntMax \in Nat /\ None \notin Int
    BY BencodeAssumption DEF Strings, Text
<1>2. n \in Numbers /\ n >= 0
    BY <1>1 DEF Numbers
<1> HIDE DEF n
<1>3. /\ f \in Text /\ f # <<>> /\ NumberOf(f) = n /\ f[1] \in DigitChars
      /\ \A k \in 1 .. Len(f) : f[k] \in DigitChars \cup {"-"}
    BY <1>2, Formatted
<1>4. w = fz \o str
    BY DEF EncodeString, n
<1> HIDE DEF f
<1>5. z \in Text /\ Len(z) = 1 /\ z[1] = ":"
    <2>1. ":" \in Char
        BY BencodeAssumption
    <2> QED
        BY <2>1, SingleIs
<1>6. Len(f) \in Nat \ {0} /\ Len(str) = n
    BY <1>1, <1>3, EmptySeq DEF Text, n
<1> HIDE DEF z
<1>7. /\ fz \in Text /\ Len(fz) = Len(f) + 1
      /\ \A k \in 1 .. Len(f) : fz[k] = f[k]
      /\ \A k \in 1 .. Len(z) : fz[Len(f) + k] = z[k]
    <2>1. Concats(fz, f, z)
        BY <1>3, <1>5, JoinedIs, Zenon
    <2> HIDE DEF fz
    <2> QED
        BY <1>5, <2>1 DEF Concats
<1> HIDE DEF fz
<1>8. /\ w \in Text /\ Len(w) = Len(fz) + n
      /\ \A k \in 1 .. Len(fz) : w[k] = fz[k]
      /\ \A k \in 1 .. n : w[Len(fz) + k] = str[k]
    <2>1. Concats(w, fz, str)
        BY <1>1, <1>4, <1>7, JoinedIs, Zenon
    <2> QED
        BY <1>6, <2>1 DEF Concats
<1> DEFINE c == Len(f) + 1
<1>9. \A k \in 1 .. Len(f) : w[k] = f[k]
    <2>1. SUFFICES ASSUME NEW k \in 1 .. Len(f) PROVE w[k] = f[k]
        OBVIOUS
    <2>2. k \in 1 .. Len(fz)
        BY <1>6, <1>7, <2>1
    <2> QED
        BY <1>7, <1>8, <2>2
<1>10. w[c] = ":"
    <2>1. c \in 1 .. Len(fz) /\ 1 \in 1 .. Len(z)
        BY <1>5, <1>6, <1>7
    <2>2. fz[c] = z[1]
        BY <1>7, <2>1
    <2> HIDE DEF c
    <2> QED
        BY <1>5, <1>8, <2>1, <2>2
<1>11. \A k \in 1 .. n : w[c + k] = str[k]
    BY <1>7, <1>8
<1>12. Len(w) = c + n /\ c \in 1 .. Len(w) /\ c \in Nat /\ w \in Text /\ Len(w) \in Nat
    BY <1>1, <1>6, <1>7, <1>8
<1>13. w # <<>> /\ w[1] \in DigitChars
    <2>1. 1 \in 1 .. Len(f)
        BY <1>6
    <2> QED
        BY <1>3, <1>9, <1>12, <2>1, EmptySeq
<1>14. NextIndex(w, 0, ":") = c
    <2>1. ASSUME NEW j \in 0 + 1 .. c - 1 PROVE w[j] # ":"
        <3>1. j \in 1 .. Len(f)
            BY <1>6
        <3>2. f[j] # ":"
            BY <1>3, <3>1, DigitsAreNot
        <3> QED
            BY <1>9, <3>1, <3>2
    <2>2. 0 \in 0 .. Len(w) /\ c \in 0 + 1 .. Len(w)
        BY <1>12
    <2> HIDE DEF c
    <2> QED
        BY <1>10, <1>12, <2>1, <2>2, NextIndexOnly
<1>15. SubSeq(w, 1, c - 1) = f
    <2>1. /\ 0 \in 0 .. Len(w) /\ c - 1 \in 0 .. Len(w) /\ Len(f) = (c - 1) - 0
          /\ \A k \in 1 .. (c - 1) - 0 : w[0 + k] = f[k]
        BY <1>6, <1>9, <1>12
    <2> HIDE DEF c
    <2>2. SubSeq(w, 0 + 1, c - 1) = f
        BY <1>3, <1>12, <2>1, CutOut
    <2> QED
        BY <2>2
<1>16. SubSeq(w, c + 1, c + n) = str
    <2>1. /\ c \in 0 .. Len(w) /\ c + n \in c .. Len(w) /\ Len(str) = (c + n) - c
          /\ \A k \in 1 .. (c + n) - c : w[c + k] = str[k]
        BY <1>1, <1>6, <1>11, <1>12
    <2> HIDE DEF c
    <2> QED
        BY <1>1, <1>12, <2>1, CutOut
<1>17. SubSeq(w, 1, Len(w)) = w
    BY <1>12, SubSeqFull DEF Text
<1> HIDE DEF c
<1>18. Len(w) <= IntMax => ParseString(w, 0) = Ok([type |-> "str", str |-> str, raw |-> w], Len(w))
    <2>1. SUFFICES ASSUME Len(w) <= IntMax
                   PROVE  ParseString(w, 0) = Ok([type |-> "str", str |-> str, raw |-> w], Len(w))
        OBVIOUS
    <2>2. ~ (c > Len(w)) /\ 0 + 1 = 1
        BY <1>12
    <2>3. ParseString(w, 0) = StringNode(w, 0, c, n)
        BY <1>3, <1>14, <1>15, <2>2 DEF ParseString
    <2>4. ~ (n = None \/ n < 0) /\ ~ (c + n > IntMax) /\ ~ (c + n > Len(w))
        BY <1>1, <1>12, <2>1
    <2> QED
        BY <1>12, <1>16, <1>17, <2>2, <2>3, <2>4 DEF StringNode
<1>19. Len(w) = Len(f) + 1 + n
    BY <1>12 DEF c
<1> QED
    BY <1>12, <1>13, <1>18, <1>19 DEF f, n

-----------------------------------------------------------------------------
(***************************************************************************)
(* Heaps: the nodes a program has.  A leaf is an integer or a string; its  *)
(* bytes, if it has any, read as the leaf.  Lists and dictionaries point   *)
(* forward.                                                                *)
(***************************************************************************)
IsLeaf(s, p) == p < Len(s) /\ s[p + 1] \in DigitChars \cup {"i"}
LeafAt(s, p) == IF s[p + 1] = "i" THEN ParseInt(s, p) ELSE ParseString(s, p)
With(node, w) == [node EXCEPT !.raw = w]
Reads(w, node) == w \in Text /\ IsLeaf(w, 0) /\ LeafAt(w, 0) = Ok(With(node, w), Len(w))

GoodLeaf(node) == node \in IntNodes \cup StrNodes /\ (node.raw = <<>> \/ Reads(node.raw, node))
Below(g, p) == {c \in DOMAIN g : c > p}
GoodList(g, p) == g[p].type = "list" /\ g[p].list \in Seq(Below(g, p))
GoodDict(g, p) ==
    /\ g[p].type = "dict"
    /\ IsFiniteSet(DOMAIN g[p].dict) /\ DOMAIN g[p].dict \subseteq Strings
    /\ \A k \in DOMAIN g[p].dict : g[p].dict[k] \in Below(g, p)
Heap(g, n) ==
    /\ n \in Nat /\ DOMAIN g \subseteq 0 .. n
    /\ \A p \in DOMAIN g : GoodLeaf(g[p]) \/ GoodList(g, p) \/ GoodDict(g, p)

\* An integer or a string is decoded by its own parser.
LEMMA LeafIs ==
    ASSUME NEW s \in Text, NEW p \in 0 .. Len(s), IsLeaf(s, p), NEW r, r = LeafAt(s, p)
    PROVE  /\ r \in Failures \cup Oks(IntNodes \cup StrNodes, p + 1, Len(s))
           /\ \A f : DecodeValue(f, s, p) = r
<1>1. Len(s) \in Nat /\ p \in Nat /\ p \in 0 .. Len(s) - 1 /\ ~ (p >= Len(s))
    BY DEF IsLeaf, Text
<1>2. CASE s[p + 1] = "i"
    <2>1. r = ParseInt(s, p)
        BY <1>2 DEF LeafAt
    <2>2. r \in Failures \cup Oks(IntNodes, p + 2, Len(s))
        BY <1>1, <2>1, IntTyped
    <2>3. /\ IntNodes \subseteq IntNodes \cup StrNodes /\ p + 1 <= p + 2
          /\ p + 1 \in Int /\ p + 2 \in Int /\ Len(s) \in Int
        BY <1>1
    <2>4. r \in Failures \cup Oks(IntNodes \cup StrNodes, p + 1, Len(s))
        <3>1. Failures \cup Oks(IntNodes, p + 2, Len(s))
                 \subseteq Failures \cup Oks(IntNodes \cup StrNodes, p + 1, Len(s))
            BY <2>3, Widens
        <3> QED
            BY <2>2, <3>1, Zenon
    <2> QED
        BY <1>1, <1>2, <2>1, <2>4, ValueCases
<1>3. CASE s[p + 1] # "i"
    <2>1. r = ParseString(s, p) /\ s[p + 1] \in DigitChars
        BY <1>3 DEF LeafAt, IsLeaf
    <2>2. r \in Failures \cup Oks(StrNodes, p + 1, Len(s))
        BY <2>1, StringTyped
    <2>3. r \in Failures \cup Oks(IntNodes \cup StrNodes, p + 1, Len(s))
        BY <2>2, OksAre
    <2> QED
        BY <1>1, <2>1, <2>3, ValueCases
<1> QED
    BY <1>2, <1>3

\* A leaf is read the same wherever it is written.
LEMMA LeafMoves ==
    ASSUME NEW s \in Text, NEW t \in Text, NEW p \in 0 .. Len(s), NEW q \in 0 .. Len(t),
           Len(t) <= IntMax, IsLeaf(s, p), NEW r, r = LeafAt(s, p), r.st = "ok",
           NEW m, m = r.pos - p, Holds(t, q, s, p, m)
    PROVE  IsLeaf(t, q) /\ LeafAt(t, q) = Ok(r.node, q + m)
<1>1. Len(s) \in Nat /\ Len(t) \in Nat /\ p \in Nat /\ q \in Nat /\ p \in 0 .. Len(s) - 1
    BY DEF IsLeaf, Text
<1>2. r.pos \in p + 1 .. Len(s)
    BY LeafIs, OksAre
<1>3. m \in Nat /\ 1 \in 1 .. m /\ q + m <= Len(t)
    BY <1>1, <1>2 DEF Holds
<1>4. t[q + 1] = s[p + 1] /\ q < Len(t)
    BY <1>1, <1>3 DEF Holds
<1>5. IsLeaf(t, q)
    BY <1>4 DEF IsLeaf
<1>6. CASE s[p + 1] = "i"
    <2>1. r = ParseInt(s, p) /\ LeafAt(t, q) = ParseInt(t, q)
        BY <1>4, <1>6 DEF LeafAt
    <2>2. ParseInt(t, q) = Ok(r.node, q + m)
        BY <1>1, <2>1, IntMoves
    <2> QED
        BY <1>5, <2>1, <2>2
<1>7. CASE s[p + 1] # "i"
    <2>1. r = ParseString(s, p) /\ LeafAt(t, q) = ParseString(t, q)
        BY <1>4, <1>7 DEF LeafAt
    <2>2. ParseString(t, q) = Ok(r.node, q + m)
        BY <2>1, StringMoves
    <2> QED
        BY <1>5, <2>1, <2>2
<1> QED
    BY <1>6, <1>7

\* appendNode by the type of the node.
LEMMA EncodeCases ==
    ASSUME NEW enc, NEW node
    PROVE  /\ node.type = "int" =>
                 EncodeNode(enc, node) = IF node.raw # <<>> THEN node.raw ELSE EncodeInt(node.int)
           /\ node.type = "str" =>
                 EncodeNode(enc, node) = IF node.raw # <<>> THEN node.raw ELSE EncodeString(node.str)
           /\ node.type = "list" => EncodeNode(enc, node) = EncodeList(enc, node.list)
           /\ node.type = "dict" => EncodeNode(enc, node) = EncodeDict(enc, node.dict)
BY DEF EncodeNode

\* A leaf is encoded to what reads as the leaf.
LEMMA LeafEncoded ==
    ASSUME NEW node, GoodLeaf(node), NEW enc, NEW w, w = EncodeNode(enc, node)
    PROVE  w \in Text /\ w # <<>> /\ (Len(w) <= IntMax => Reads(w, node))
<1>1. CASE node.raw # <<>>
    <2>1. Reads(node.raw, node)
        BY <1>1 DEF GoodLeaf
    <2>2. w = node.raw
        BY <1>1, EncodeCases DEF GoodLeaf, IntNodes, StrNodes
    <2> QED
        BY <1>1, <2>1, <2>2 DEF Reads
<1>2. CASE node.raw = <<>> /\ node \in IntNodes
    <2>1. node.type = "int" /\ node.int \in Numbers
        BY <1>2 DEF IntNodes
    <2>2. w = EncodeInt(node.int)
        BY <1>2, <2>1, EncodeCases
    <2>3. /\ w \in Text /\ Len(w) = Len(FormatInt(node.int)) + 2 /\ w[1] = "i"
          /\ ParseInt(w, 0) = Ok([type |-> "int", int |-> node.int, raw |-> w], Len(w))
        BY <2>1, <2>2, IntReads
    <2>4. Len(FormatInt(node.int)) \in Nat
        BY <2>1, Formatted DEF Text
    <2>5. Len(w) # 0 /\ 0 < Len(w) /\ w # <<>>
        BY <2>3, <2>4, EmptySeq
    <2>6. With(node, w) = [type |-> "int", int |-> node.int, raw |-> w]
        BY <1>2 DEF With, IntNodes
    <2>7. IsLeaf(w, 0) /\ LeafAt(w, 0) = ParseInt(w, 0)
        BY <2>3, <2>5 DEF IsLeaf, LeafAt
    <2> QED
        BY <2>3, <2>5, <2>6, <2>7 DEF Reads
<1>3. CASE node.raw = <<>> /\ node \in StrNodes
    <2>1. node.type = "str" /\ node.str \in Strings
        BY <1>3 DEF StrNodes
    <2>2. w = EncodeString(node.str)
        BY <1>3, <2>1, EncodeCases
    <2>3. /\ w \in Text /\ w # <<>> /\ w[1] \in DigitChars
          /\ Len(w) <= IntMax =>
                ParseString(w, 0) = Ok([type |-> "str", str |-> node.str, raw |-> w], Len(w))
        BY <2>1, <2>2, StringReads
    <2>4. 0 < Len(w)
        BY <2>3, EmptySeq DEF Text
    <2>5. With(node, w) = [type |-> "str", str |-> node.str, raw |-> w]
        BY <1>3 DEF With, StrNodes
    <2>6. IsLeaf(w, 0) /\ LeafAt(w, 0) = ParseString(w, 0)
        <3>1. w[1] # "i"
            BY <2>3, DigitsAreNot
        <3> QED
            BY <2>3, <2>4, <3>1 DEF IsLeaf, LeafAt
    <2> QED
        BY <2>3, <2>5, <2>6 DEF Reads
<1> QED
    BY <1>1, <1>2, <1>3 DEF GoodLeaf

-----------------------------------------------------------------------------
(***************************************************************************)
(* Encode on a heap: its recursion is well defined.                        *)
(***************************************************************************)
EncodeStep(f, g) == [p \in DOMAIN g |-> EncodeNode(f, g[p])]
ListPieces(enc, list) == [k \in DOMAIN list |-> enc[list[k]]]
DictPieces(enc, dict) ==
    LET keys == SortedKeys(dict) IN
    [k \in DOMAIN keys |-> EncodeString(keys[k]) \o enc[dict[keys[k]]]]

\* A list and a dictionary are their pieces between brackets.
LEMMA PiecesEncoded ==
    /\ \A enc, list : EncodeList(enc, list) = <<"l">> \o FlattenSeq(ListPieces(enc, list)) \o <<"e">>
    /\ \A enc, dict : EncodeDict(enc, dict) = <<"d">> \o FlattenSeq(DictPieces(enc, dict)) \o <<"e">>
BY DEF EncodeList, EncodeDict, ListPieces, DictPieces

\* The pieces of a list are the encodings of its items.
LEMMA ListPiecesAre ==
    ASSUME NEW g, NEW p, GoodList(g, p), NEW enc, \A c \in Below(g, p) : enc[c] \in Text
    PROVE  /\ ListPieces(enc, g[p].list) \in Seq(Text)
           /\ Len(ListPieces(enc, g[p].list)) = Len(g[p].list)
           /\ \A k \in 1 .. Len(g[p].list) : /\ ListPieces(enc, g[p].list)[k] = enc[g[p].list[k]]
                                             /\ g[p].list[k] \in Below(g, p)
<1> DEFINE list == g[p].list
           n == Len(list)
<1>1. list \in Seq(Below(g, p))
    BY DEF GoodList
<1> HIDE DEF list
<1>2. n \in Nat /\ DOMAIN list = 1 .. n /\ \A k \in 1 .. n : list[k] \in Below(g, p)
    BY <1>1
<1> HIDE DEF n
<1>3. ListPieces(enc, list) = [k \in 1 .. n |-> enc[list[k]]]
    BY <1>2 DEF ListPieces
<1>4. ListPieces(enc, list) \in [1 .. n -> Text]
    BY <1>2, <1>3
<1>5. ListPieces(enc, list) \in Seq(Text) /\ Len(ListPieces(enc, list)) = n
    BY <1>2, <1>4
<1>6. \A k \in 1 .. n : ListPieces(enc, list)[k] = enc[list[k]]
    BY <1>3
<1> QED
    BY <1>2, <1>5, <1>6 DEF list, n

Keyed(g, p, enc, dict, keys) ==
    /\ keys \in Seq(DOMAIN dict)
    /\ DictPieces(enc, dict) \in Seq(Text) /\ Len(DictPieces(enc, dict)) = Len(keys)
    /\ \A k \in 1 .. Len(keys) :
          /\ DictPieces(enc, dict)[k] = EncodeString(keys[k]) \o enc[dict[keys[k]]]
          /\ keys[k] \in DOMAIN dict /\ keys[k] \in Strings /\ dict[keys[k]] \in Below(g, p)
          /\ EncodeString(keys[k]) \in Text /\ enc[dict[keys[k]]] \in Text

\* The pieces of a dictionary are its keys, in their order, each with the encoding of its value.
LEMMA DictPiecesAre ==
    ASSUME NEW g, NEW p, GoodDict(g, p), NEW enc, \A c \in Below(g, p) : enc[c] \in Text,
           NEW dict, dict = g[p].dict, NEW keys, keys = SortedKeys(dict)
    PROVE  Keyed(g, p, enc, dict, keys)
<1> DEFINE n == Len(keys)
<1>1. DOMAIN dict \subseteq Strings /\ IsFiniteSet(DOMAIN dict) /\ \A k \in DOMAIN dict : dict[k] \in Below(g, p)
    BY DEF GoodDict
<1>2. DOMAIN dict \subseteq Text
    BY <1>1 DEF Strings
<1>3. keys \in Seq(DOMAIN dict)
    BY <1>1, <1>2, SortedKeysAre
<1>4. n \in Nat /\ DOMAIN keys = 1 .. n /\ \A k \in 1 .. n : keys[k] \in DOMAIN dict
    BY <1>3
<1> HIDE DEF n
<1>5. DictPieces(enc, dict) = [k \in 1 .. n |-> EncodeString(keys[k]) \o enc[dict[keys[k]]]]
    BY <1>4 DEF DictPieces
<1>6. ASSUME NEW k \in 1 .. n
      PROVE  /\ keys[k] \in DOMAIN dict /\ keys[k] \in Strings /\ dict[keys[k]] \in Below(g, p)
             /\ EncodeString(keys[k]) \in Text /\ enc[dict[keys[k]]] \in Text
             /\ EncodeString(keys[k]) \o enc[dict[keys[k]]] \in Text
    <2>1. keys[k] \in DOMAIN dict /\ keys[k] \in Strings /\ dict[keys[k]] \in Below(g, p)
        BY <1>1, <1>4
    <2>2. EncodeString(keys[k]) \in Text /\ enc[dict[keys[k]]] \in Text
        BY <2>1, StringReads
    <2> QED
        BY <2>1, <2>2, ConcatProperties DEF Text
<1>7. DictPieces(enc, dict) \in [1 .. n -> Text]
    BY <1>5, <1>6
<1>8. DictPieces(enc, dict) \in Seq(Text) /\ Len(DictPieces(enc, dict)) = n
    BY <1>4, <1>7
<1>9. \A k \in 1 .. n : DictPieces(enc, dict)[k] = EncodeString(keys[k]) \o enc[dict[keys[k]]]
    BY <1>5
<1> QED
    BY <1>3, <1>6, <1>8, <1>9 DEF n, Keyed

\* One step of appendNode gives a text that is not empty.
LEMMA EncodeTyped ==
    ASSUME NEW g, NEW n, Heap(g, n), NEW p \in DOMAIN g, NEW enc, \A c \in Below(g, p) : enc[c] \in Text
    PROVE  EncodeNode(enc, g[p]) \in Text /\ EncodeNode(enc, g[p]) # <<>>
<1>1. \A x \in {"l", "d", "e"} : x \in Char
    BY DigitsAreNot
<1>2. CASE GoodLeaf(g[p])
    BY <1>2, LeafEncoded
<1>3. CASE GoodList(g, p)
    <2> DEFINE flat == FlattenSeq(ListPieces(enc, g[p].list))
               w == <<"l">> \o flat \o <<"e">>
    <2>1. flat \in Text
        BY <1>3, ListPiecesAre, FlattenIs
    <2> HIDE DEF flat
    <2>2. w \in Text /\ Len(w) = Len(flat) + 2
        BY <1>1, <2>1, WrappedIs DEF Wraps
    <2> HIDE DEF w
    <2>3. w # <<>>
        BY <2>1, <2>2, EmptySeq DEF Text
    <2>4. EncodeNode(enc, g[p]) = w
        <3>1. EncodeNode(enc, g[p]) = EncodeList(enc, g[p].list)
            BY <1>3, EncodeCases DEF GoodList
        <3> QED
            BY <3>1, PiecesEncoded DEF flat, w
    <2> QED
        BY <2>2, <2>3, <2>4
<1>4. CASE GoodDict(g, p)
    <2> DEFINE flat == FlattenSeq(DictPieces(enc, g[p].dict))
               w == <<"d">> \o flat \o <<"e">>
    <2>1. flat \in Text
        <3>1. Keyed(g, p, enc, g[p].dict, SortedKeys(g[p].dict))
            BY <1>4, DictPiecesAre
        <3>2. DictPieces(enc, g[p].dict) \in Seq(Text)
            BY <3>1 DEF Keyed
        <3> QED
            BY <3>2, FlattenIs
    <2> HIDE DEF flat
    <2>2. w \in Text /\ Len(w) = Len(flat) + 2
        BY <1>1, <2>1, WrappedIs DEF Wraps
    <2> HIDE DEF w
    <2>3. w # <<>>
        BY <2>1, <2>2, EmptySeq DEF Text
    <2>4. EncodeNode(enc, g[p]) = w
        <3>1. EncodeNode(enc, g[p]) = EncodeDict(enc, g[p].dict)
            BY <1>4, EncodeCases DEF GoodDict
        <3> QED
            BY <3>1, PiecesEncoded DEF flat, w
    <2> QED
        BY <2>2, <2>3, <2>4
<1> QED
    BY <1>2, <1>3, <1>4 DEF Heap

\* Nodes that say the same, with children that are encoded alike, are encoded alike.
LEMMA EncodeAgrees ==
    ASSUME NEW g, NEW p, NEW f, \A c \in Below(g, p) : f[c] \in Text,
           NEW h, NEW node, node.type = g[p].type
    PROVE  /\ GoodList(g, p) /\ DOMAIN node.list = DOMAIN g[p].list
              /\ (\A k \in DOMAIN g[p].list : h[node.list[k]] = f[g[p].list[k]])
              => EncodeNode(h, node) = EncodeNode(f, g[p])
           /\ GoodDict(g, p) /\ DOMAIN node.dict = DOMAIN g[p].dict
              /\ (\A k \in DOMAIN g[p].dict : h[node.dict[k]] = f[g[p].dict[k]])
              => EncodeNode(h, node) = EncodeNode(f, g[p])
<1>1. ASSUME GoodList(g, p), DOMAIN node.list = DOMAIN g[p].list,
             \A k \in DOMAIN g[p].list : h[node.list[k]] = f[g[p].list[k]]
      PROVE  EncodeNode(h, node) = EncodeNode(f, g[p])
    <2>1. ListPieces(h, node.list) = ListPieces(f, g[p].list)
        BY <1>1 DEF ListPieces
    <2>2. EncodeList(h, node.list) = EncodeList(f, g[p].list)
        BY <2>1, PiecesEncoded
    <2>3. EncodeNode(h, node) = EncodeList(h, node.list) /\ EncodeNode(f, g[p]) = EncodeList(f, g[p].list)
        BY <1>1, EncodeCases DEF GoodList
    <2> QED
        BY <2>2, <2>3
<1>2. ASSUME GoodDict(g, p), DOMAIN node.dict = DOMAIN g[p].dict,
             \A k \in DOMAIN g[p].dict : h[node.dict[k]] = f[g[p].dict[k]]
      PROVE  EncodeNode(h, node) = EncodeNode(f, g[p])
    <2> DEFINE dict == g[p].dict
               keys == SortedKeys(dict)
    <2>1. IsFiniteSet(DOMAIN dict) /\ DOMAIN dict \subseteq Text
        BY <1>2 DEF GoodDict, Strings
    <2>2. keys \in Seq(DOMAIN dict) /\ SortedKeys(node.dict) = keys
        BY <1>2, <2>1, SortedKeysAre
    <2>3. \A k \in DOMAIN keys : keys[k] \in DOMAIN dict
        BY <2>2
    <2>4. \A k \in DOMAIN keys : h[node.dict[keys[k]]] = f[dict[keys[k]]]
        BY <1>2, <2>3
    <2>5. DictPieces(h, node.dict) = DictPieces(f, dict)
        BY <2>2, <2>4 DEF DictPieces
    <2>6. EncodeDict(h, node.dict) = EncodeDict(f, dict)
        <3> HIDE DEF dict
        <3> QED
            BY <2>5, PiecesEncoded
    <2>7. EncodeNode(h, node) = EncodeDict(h, node.dict) /\ EncodeNode(f, g[p]) = EncodeDict(f, g[p].dict)
        BY <1>2, EncodeCases DEF GoodDict
    <2> QED
        BY <2>6, <2>7
<1> QED
    BY <1>1, <1>2

\* A step of appendNode depends only on nodes behind.
LEMMA EncodeLooksAhead ==
    ASSUME NEW g, NEW n, Heap(g, n), NEW p \in DOMAIN g, NEW f, \A c \in Below(g, p) : f[c] \in Text,
           NEW h, \A c \in Below(g, p) : f[c] = h[c]
    PROVE  EncodeNode(f, g[p]) = EncodeNode(h, g[p])
<1>1. CASE GoodLeaf(g[p])
    <2>1. g[p].type = "int" \/ g[p].type = "str"
        BY <1>1 DEF GoodLeaf, IntNodes, StrNodes
    <2> QED
        BY <2>1, EncodeCases
<1>2. CASE GoodList(g, p)
    <2>1. \A k \in DOMAIN g[p].list : g[p].list[k] \in Below(g, p)
        BY <1>2 DEF GoodList
    <2> QED
        BY <1>2, <2>1, EncodeAgrees
<1>3. CASE GoodDict(g, p)
    <2>1. \A k \in DOMAIN g[p].dict : g[p].dict[k] \in Below(g, p)
        BY <1>3 DEF GoodDict
    <2> QED
        BY <1>3, <2>1, EncodeAgrees
<1> QED
    BY <1>1, <1>2, <1>3 DEF Heap

\* The recursion of Encode is well defined on a heap.
LEMMA EncodeUnfolds ==
    ASSUME NEW g, NEW n, Heap(g, n)
    PROVE  Encode(g) \in [DOMAIN g -> Text] /\ Encode(g) = EncodeStep(Encode(g), g)
<1> DEFINE X == DOMAIN g
           F == [X -> Text]
           mu == [p \in X |-> n - p]
           next == [f \in F |-> EncodeStep(f, g)]
<1>1. n \in Nat /\ \A p \in X : p \in 0 .. n
    BY DEF Heap
<1>2. mu \in [X -> 0 .. n] /\ \A p \in X : \A c \in Below(g, p) : c \in X /\ mu[c] < mu[p]
    BY <1>1 DEF Below
<1>3. \A f \in F : EncodeStep(f, g) \in F
    <2>1. ASSUME NEW f \in F, NEW p \in X PROVE EncodeNode(f, g[p]) \in Text
        <3>1. \A c \in Below(g, p) : f[c] \in Text
            BY <1>2
        <3> QED
            BY <3>1, EncodeTyped
    <2> HIDE DEF X
    <2>2. \A f \in F : EncodeStep(f, g) = [p \in X |-> EncodeNode(f, g[p])]
        BY DEF EncodeStep, X
    <2> QED
        BY <2>1, <2>2
<1>4. next \in [F -> F]
    BY <1>3
<1>5. FunctionsOn(X, F)
    <2>1. <<>> \in Text
        BY EmptySeq DEF Text
    <2>2. [p \in X |-> <<>>] \in F
        BY <2>1
    <2>3. \A f \in F : f = [p \in X |-> f[p]]
        OBVIOUS
    <2> QED
        BY <2>2, <2>3 DEF FunctionsOn
<1>6. ASSUME NEW f \in F, NEW h, NEW p \in X, \A y \in X : mu[y] < mu[p] => f[y] = h[y]
      PROVE  EncodeStep(f, g)[p] = EncodeStep(h, g)[p]
    <2>1. \A c \in Below(g, p) : f[c] \in Text /\ f[c] = h[c]
        BY <1>2, <1>6
    <2>2. EncodeNode(f, g[p]) = EncodeNode(h, g[p])
        BY <2>1, EncodeLooksAhead
    <2> QED
        BY <2>2 DEF EncodeStep
<1>7. PICK f \in F : f = EncodeStep(f, g)
    <2>1. Causal(X, mu, F, next)
        <3>1. \A f, h \in F, p \in X :
                  (\A y \in X : mu[y] < mu[p] => f[y] = h[y]) => EncodeStep(f, g)[p] = EncodeStep(h, g)[p]
            BY <1>6
        <3>2. \A f \in F : next[f] = EncodeStep(f, g)
            OBVIOUS
        <3> HIDE DEF F, next, mu, X
        <3> QED
            BY <3>1, <3>2 DEF Causal
    <2>2. \A f \in F : next[f] = EncodeStep(f, g)
        OBVIOUS
    <2> HIDE DEF X, F, mu, next
    <2>3. \E f \in F : f = next[f]
        BY <1>1, <1>2, <1>4, <1>5, <2>1, Recursion
    <2> QED
        BY <2>2, <2>3
<1>8. ASSUME NEW h, h = EncodeStep(h, g) PROVE h = f
    <2> DEFINE T == {p \in X : f[p] = h[p]}
    <2>1. \A p \in X : (\A y \in X : mu[y] < mu[p] => y \in T) => p \in T
        <3>1. SUFFICES ASSUME NEW p \in X, \A y \in X : mu[y] < mu[p] => f[y] = h[y] PROVE f[p] = h[p]
            OBVIOUS
        <3>2. EncodeStep(f, g)[p] = EncodeStep(h, g)[p]
            BY <1>6, <3>1
        <3> QED
            BY <1>7, <1>8, <3>2
    <2>2. mu \in [X -> Nat] /\ T \in SUBSET X
        BY <1>1, <1>2
    <2>3. X = T
        <3> HIDE DEF X, mu, T
        <3> QED
            BY <2>1, <2>2, MeasureInduction
    <2>4. h = [p \in X |-> h[p]] /\ f = [p \in X |-> f[p]]
        BY <1>7, <1>8 DEF EncodeStep
    <2>5. \A p \in X : f[p] = h[p]
        BY <2>3
    <2> HIDE DEF X
    <2> QED
        BY <2>4, <2>5
<1>9. Encode(g) = CHOOSE h : h = EncodeStep(h, g)
    BY DEF Encode, EncodeStep
<1> HIDE DEF F
<1>10. Encode(g) = f
    BY <1>7, <1>8, <1>9
<1> QED
    BY <1>7, <1>10 DEF F

\* What Encode gives at each node of a heap.
LEMMA EncodeIs ==
    ASSUME NEW g, NEW n, Heap(g, n), NEW enc, enc = Encode(g), NEW p \in DOMAIN g
    PROVE  /\ enc[p] = EncodeNode(enc, g[p]) /\ enc[p] \in Text /\ enc[p] # <<>>
           /\ \A c \in Below(g, p) : enc[c] \in Text
<1>1. enc \in [DOMAIN g -> Text] /\ enc = EncodeStep(enc, g)
    BY EncodeUnfolds
<1>2. \A c \in Below(g, p) : enc[c] \in Text
    BY <1>1 DEF Below
<1>3. enc[p] = EncodeNode(enc, g[p])
    BY <1>1 DEF EncodeStep
<1> QED
    BY <1>1, <1>2, <1>3, EncodeTyped

-----------------------------------------------------------------------------
(***************************************************************************)
(* What is decoded is a heap, and so is what a program builds of it.       *)
(***************************************************************************)
ListNode(list) == [type |-> "list", list |-> list]
DictNode(dict) == [type |-> "dict", dict |-> dict]

\* parseList, by what its first item and its rest are.
LEMMA ItemsUnfold ==
    ASSUME NEW s \in Text, NEW p \in 0 .. Len(s), NEW parsed, parsed = Parsed(s),
           NEW item, item = parsed[<<"value", p>>], NEW rest, rest = parsed[<<"items", item.pos>>]
    PROVE  /\ p < Len(s) /\ s[p + 1] = "e" =>
                 parsed[<<"items", p>>] = Ok(ListNode(<<>>), p + 1)
           /\ p < Len(s) /\ s[p + 1] # "e" /\ item.st = "ok" /\ rest.st = "ok" =>
                 parsed[<<"items", p>>] = Ok(ListNode(<<p>> \o rest.node.list), rest.pos)
<1>1. Len(s) \in Nat /\ p \in Nat
    BY DEF Text
<1>2. parsed[<<"items", p>>] = ParseItems(parsed, s, p)
    BY ParsedIs
<1>3. ASSUME p < Len(s), s[p + 1] = "e"
      PROVE  parsed[<<"items", p>>] = Ok(ListNode(<<>>), p + 1)
    BY <1>1, <1>2, <1>3 DEF ParseItems, ListNode
<1>4. ASSUME p < Len(s), s[p + 1] # "e"
      PROVE  parsed[<<"items", p>>] = IF item.st # "ok" THEN item ELSE AddItem(p, rest)
    BY <1>1, <1>2, <1>4 DEF ParseItems, ListNode
<1>5. ASSUME p < Len(s), s[p + 1] # "e", item.st = "ok", rest.st = "ok"
      PROVE  parsed[<<"items", p>>] = Ok(ListNode(<<p>> \o rest.node.list), rest.pos)
    BY <1>4, <1>5 DEF AddItem, ListNode
<1> QED
    BY <1>1, <1>3, <1>5

\* parseDict, by what its first pair and its rest are.
LEMMA PairsUnfold ==
    ASSUME NEW s \in Text, NEW p \in 0 .. Len(s), NEW parsed, parsed = Parsed(s),
           NEW key, key = ParseString(s, p), NEW val, val = parsed[<<"value", key.pos>>],
           NEW rest, rest = parsed[<<"pairs", val.pos>>],
           NEW dict, dict = rest.node.dict, NEW str, str = key.node.str
    PROVE  /\ p < Len(s) /\ s[p + 1] = "e" =>
                 parsed[<<"pairs", p>>] = Ok(DictNode(<<>>), p + 1)
           /\ p < Len(s) /\ s[p + 1] # "e" /\ key.st = "ok" /\ val.st = "ok" /\ rest.st = "ok" =>
                 parsed[<<"pairs", p>>] = Ok(DictNode(Added(dict, str, key.pos)), rest.pos)
           /\ parsed[<<"pairs", p>>].st = "ok" =>
                 p < Len(s) /\ (s[p + 1] = "e" \/
                                (s[p + 1] # "e" /\ key.st = "ok" /\ val.st = "ok" /\ rest.st = "ok"))
<1>1. Len(s) \in Nat /\ p \in Nat
    BY DEF Text
<1>2. parsed[<<"pairs", p>>] = ParsePairs(parsed, s, p)
    BY ParsedIs
<1>3. ASSUME p < Len(s), s[p + 1] = "e"
      PROVE  parsed[<<"pairs", p>>] = Ok(DictNode(<<>>), p + 1)
    BY <1>1, <1>2, <1>3 DEF ParsePairs, DictNode
<1>4. ASSUME p < Len(s), s[p + 1] # "e"
      PROVE  parsed[<<"pairs", p>>] = IF key.st # "ok" THEN key
                                      ELSE IF val.st # "ok" THEN val ELSE AddPair(str, key.pos, rest)
    BY <1>1, <1>2, <1>4 DEF ParsePairs, ParsePair
<1>5. ASSUME p < Len(s), s[p + 1] # "e", key.st = "ok", val.st = "ok", rest.st = "ok"
      PROVE  parsed[<<"pairs", p>>] = Ok(DictNode(Added(dict, str, key.pos)), rest.pos)
    BY <1>4, <1>5 DEF AddPair, Added, DictNode
<1>6. p >= Len(s) => parsed[<<"pairs", p>>].st # "ok"
    BY <1>2 DEF ParsePairs, Error
<1>7. ASSUME p < Len(s), s[p + 1] # "e", parsed[<<"pairs", p>>].st = "ok"
      PROVE  key.st = "ok" /\ val.st = "ok" /\ rest.st = "ok"
    BY <1>4, <1>7 DEF AddPair, DictNode
<1> QED
    BY <1>1, <1>3, <1>5, <1>6, <1>7

\* The nodes are those of the values that were parsed.
LEMMA NodesAre ==
    ASSUME NEW s, NEW parsed
    PROVE  /\ \A p : p \in DOMAIN NodesOf(parsed, s) <=> p \in 0 .. Len(s) /\ parsed[<<"value", p>>].st = "ok"
           /\ \A p \in DOMAIN NodesOf(parsed, s) : NodesOf(parsed, s)[p] = parsed[<<"value", p>>].node
BY DEF NodesOf

\* A list that is parsed has its first item and its rest parsed.
LEMMA ItemsNeed ==
    ASSUME NEW s \in Text, NEW p \in 0 .. Len(s), NEW parsed, parsed = Parsed(s),
           parsed[<<"items", p>>].st = "ok"
    PROVE  /\ p < Len(s)
           /\ s[p + 1] # "e" => /\ parsed[<<"value", p>>].st = "ok"
                               /\ parsed[<<"items", parsed[<<"value", p>>].pos>>].st = "ok"
<1> DEFINE item == parsed[<<"value", p>>]
           rest == parsed[<<"items", item.pos>>]
<1>1. Len(s) \in Nat /\ p \in Nat
    BY DEF Text
<1>2. parsed[<<"items", p>>] = ParseItems(parsed, s, p)
    BY ParsedIs
<1>3. ~ (p >= Len(s))
    BY <1>2 DEF ParseItems, Error
<1>4. ASSUME s[p + 1] # "e" PROVE item.st = "ok" /\ rest.st = "ok"
    <2>1. parsed[<<"items", p>>] = IF item.st # "ok" THEN item ELSE AddItem(p, rest)
        BY <1>2, <1>3, <1>4 DEF ParseItems
    <2> HIDE DEF item, rest
    <2> QED
        BY <2>1 DEF AddItem
<1> QED
    BY <1>1, <1>3, <1>4

\* The items of a parsed list are parsed values behind its opening.
LEMMA ItemsPoint ==
    ASSUME NEW s \in Text, NEW parsed, parsed = Parsed(s), NEW g, g = NodesOf(parsed, s)
    PROVE  \A p \in 0 .. Len(s) : LET r == parsed[<<"items", p>>] IN
               r.st = "ok" => r.node.type = "list" /\ r.node.list \in Seq({c \in DOMAIN g : c >= p})
<1> DEFINE X == 0 .. Len(s)
           mu == [p \in X |-> Len(s) - p]
           r(p) == parsed[<<"items", p>>]
           T == {p \in X : r(p).st = "ok" =>
                             r(p).node.type = "list" /\ r(p).node.list \in Seq({c \in DOMAIN g : c >= p})}
<1>1. Len(s) \in Nat
    BY DEF Text
<1>2. mu \in [X -> Nat] /\ T \in SUBSET X
    BY <1>1
<1>3. ASSUME NEW p \in X, \A y \in X : mu[y] < mu[p] => y \in T PROVE p \in T
    <2> DEFINE item == parsed[<<"value", p>>]
               rest == r(item.pos)
               S == {c \in DOMAIN g : c >= p}
    <2>1. SUFFICES ASSUME r(p).st = "ok" PROVE r(p).node.type = "list" /\ r(p).node.list \in Seq(S)
        OBVIOUS
    <2>2. CASE s[p + 1] = "e"
        <3>1. r(p) = Ok(ListNode(<<>>), p + 1)
            <4>1. p < Len(s)
                BY <2>1, ItemsNeed
            <4> QED
                BY <2>2, <4>1, ItemsUnfold
        <3>2. r(p).node = ListNode(<<>>)
            BY <3>1, OkIs
        <3>3. <<>> \in Seq(S)
            BY EmptySeq
        <3> QED
            BY <3>2, <3>3 DEF ListNode
    <2>3. CASE s[p + 1] # "e"
        <3>1. item.st = "ok" /\ rest.st = "ok"
              /\ r(p) = Ok(ListNode(<<p>> \o rest.node.list), rest.pos)
            <4>1. item = parsed[<<"value", p>>]
                OBVIOUS
            <4>2. rest = parsed[<<"items", item.pos>>]
                OBVIOUS
            <4>3. p \in 0 .. Len(s)
                OBVIOUS
            <4> HIDE DEF item, rest, X
            <4>4. p < Len(s) /\ item.st = "ok" /\ rest.st = "ok"
                <5>1. p < Len(s) /\ parsed[<<"value", p>>].st = "ok"
                      /\ parsed[<<"items", parsed[<<"value", p>>].pos>>].st = "ok"
                    BY <2>1, <2>3, <4>3, ItemsNeed
                <5> QED
                    BY <4>1, <4>2, <5>1
            <4> QED
                BY <2>3, <4>1, <4>2, <4>3, <4>4, ItemsUnfold
        <3>2. r(p).node = ListNode(<<p>> \o rest.node.list)
            <4> HIDE DEF rest
            <4> QED
                BY <3>1, OkIs
        <3>3. item.pos \in p + 1 .. Len(s)
            <4>1. item \in Values(s, p)
                BY ParsedIs
            <4> HIDE DEF item
            <4> QED
                BY <3>1, <4>1, OksAre DEF Values
        <3>4. p \in DOMAIN g
            BY <3>1, NodesAre
        <3> HIDE DEF item
        <3>5. item.pos \in X /\ mu[item.pos] < mu[p] /\ item.pos > p /\ p \in Nat
            BY <1>1, <3>3
        <3>6. item.pos \in T
            BY <1>3, <3>5
        <3>7. rest.node.list \in Seq({c \in DOMAIN g : c >= item.pos})
            BY <3>1, <3>6
        <3>8. {c \in DOMAIN g : c >= item.pos} \subseteq S /\ p \in S
            <4>1. DOMAIN g \subseteq Nat
                BY NodesAre
            <4> QED
                BY <3>4, <3>5, <4>1
        <3> HIDE DEF S
        <3>9. rest.node.list \in Seq(S)
            BY <3>7, <3>8, SeqMonotonic
        <3> HIDE DEF rest
        <3>10. <<p>> \in Seq(S)
            BY <3>8
        <3>11. <<p>> \o rest.node.list \in Seq(S)
            BY <3>9, <3>10, ConcatProperties
        <3> HIDE DEF r
        <3> QED
            BY <3>2, <3>11 DEF ListNode
    <2> QED
        BY <2>2, <2>3
<1>4. X = T
    <2> HIDE DEF X, mu, T
    <2> QED
        BY <1>2, <1>3, MeasureInduction
<1> QED
    BY <1>4

\* The values of a parsed dictionary are parsed values.
LEMMA PairsPoint ==
    ASSUME NEW s \in Text, NEW parsed, parsed = Parsed(s), NEW g, g = NodesOf(parsed, s)
    PROVE  \A p \in 0 .. Len(s) : LET r == parsed[<<"pairs", p>>] IN
               r.st = "ok" => \A k \in DOMAIN r.node.dict : r.node.dict[k] \in DOMAIN g
<1> DEFINE X == 0 .. Len(s)
           mu == [p \in X |-> Len(s) - p]
           r(p) == parsed[<<"pairs", p>>]
           T == {p \in X : r(p).st = "ok" => \A k \in DOMAIN r(p).node.dict : r(p).node.dict[k] \in DOMAIN g}
<1>1. Len(s) \in Nat
    BY DEF Text
<1>2. mu \in [X -> Nat] /\ T \in SUBSET X
    BY <1>1
<1>3. ASSUME NEW p \in X, \A y \in X : mu[y] < mu[p] => y \in T PROVE p \in T
    <2> DEFINE key == ParseString(s, p)
               val == parsed[<<"value", key.pos>>]
               rest == r(val.pos)
               dict == rest.node.dict
               str == key.node.str
               new == Added(dict, str, key.pos)
    <2>1. SUFFICES ASSUME r(p).st = "ok" PROVE \A k \in DOMAIN r(p).node.dict : r(p).node.dict[k] \in DOMAIN g
        OBVIOUS
    <2>2. CASE s[p + 1] = "e"
        <3>1. r(p) = Ok(DictNode(<<>>), p + 1)
            BY <2>1, <2>2, PairsUnfold
        <3>2. r(p).node = DictNode(<<>>)
            BY <3>1, OkIs
        <3> QED
            BY <3>2 DEF DictNode
    <2>3. CASE s[p + 1] # "e"
        <3>1. /\ key.st = "ok" /\ val.st = "ok" /\ rest.st = "ok"
              /\ r(p) = Ok(DictNode(new), rest.pos)
            BY <2>1, <2>3, PairsUnfold
        <3>2. r(p).node = DictNode(new)
            <4> HIDE DEF new, rest
            <4> QED
                BY <3>1, OkIs
        <3>3. key.pos \in 0 .. Len(s) /\ key.pos > p
            <4>1. key \in Failures \cup Oks(StrNodes, p + 1, Len(s))
                BY StringTyped
            <4> HIDE DEF key, val, rest, new, r
            <4>2. key.pos \in p + 1 .. Len(s)
                BY <3>1, <4>1, Succeeds
            <4> QED
                BY <1>1, <4>2
        <3>4. val.pos \in key.pos + 1 .. Len(s)
            <4>1. val \in Values(s, key.pos)
                BY <3>3, ParsedIs
            <4> HIDE DEF val
            <4> QED
                BY <3>1, <4>1, OksAre DEF Values
        <3>5. key.pos \in DOMAIN g
            BY <3>1, <3>3, NodesAre
        <3> HIDE DEF val, key
        <3>6. val.pos \in X /\ mu[val.pos] < mu[p]
            BY <1>1, <3>3, <3>4
        <3>7. \A k \in DOMAIN dict : dict[k] \in DOMAIN g
            BY <1>3, <3>1, <3>6
        <3>8. \A k \in DOMAIN new : new[k] \in DOMAIN g
            <4> HIDE DEF dict, str
            <4> QED
                BY <3>5, <3>7 DEF Added
        <3> HIDE DEF new, r
        <3> QED
            BY <3>2, <3>8 DEF DictNode
    <2> QED
        BY <2>2, <2>3
<1>4. X = T
    <2> HIDE DEF X, mu, T
    <2> QED
        BY <1>2, <1>3, MeasureInduction
<1> QED
    BY <1>4

\* A decoded leaf keeps exactly the bytes it was decoded from.
LEMMA LeafRaw ==
    ASSUME NEW s \in Text, NEW p \in 0 .. Len(s), IsLeaf(s, p), NEW r, r = LeafAt(s, p), r.st = "ok"
    PROVE  r.node.raw = SubSeq(s, p + 1, r.pos)
<1>1. CASE s[p + 1] = "i"
    <2>1. p \in 0 .. Len(s) - 1 /\ r = ParseInt(s, p)
        BY <1>1 DEF IsLeaf, LeafAt, Text
    <2>2. PICK e \in p + 2 .. Len(s) : r = Ok(IntAt(s, p, e), e)
        BY <2>1, IntIs
    <2>3. r.pos = e /\ r.node = IntAt(s, p, e)
        BY <2>2, OkIs
    <2> QED
        BY <2>3 DEF IntAt
<1>2. CASE s[p + 1] # "i"
    <2>1. r = ParseString(s, p)
        BY <1>2 DEF LeafAt
    <2>2. PICK colon \in p + 1 .. Len(s), n \in 0 .. IntMax : r = Ok(StrAt(s, p, colon, n), colon + n)
        BY <2>1, StringIs
    <2>3. r.pos = colon + n /\ r.node = StrAt(s, p, colon, n)
        BY <2>2, OkIs
    <2> QED
        BY <2>3 DEF StrAt
<1> QED
    BY <1>1, <1>2

\* The bytes that a decoded leaf keeps read as the leaf.
LEMMA LeafKept ==
    ASSUME NEW s \in Text, Len(s) <= IntMax, NEW p \in 0 .. Len(s), IsLeaf(s, p),
           NEW r, r = LeafAt(s, p), r.st = "ok"
    PROVE  GoodLeaf(r.node)
<1> DEFINE m == r.pos - p
           raw == SubSeq(s, p + 1, r.pos)
<1>1. Len(s) \in Nat /\ p \in Nat /\ IntMax \in Nat
    BY BencodeAssumption DEF Text
<1>2. r.node \in IntNodes \cup StrNodes /\ r.pos \in p + 1 .. Len(s)
    BY LeafIs, OksAre
<1>3. r.pos \in p .. Len(s) /\ m \in Nat
    BY <1>1, <1>2
<1>4. /\ raw \in Text /\ Len(raw) = m /\ \A k \in 1 .. m : raw[k] = s[p + k]
    BY <1>3, SubSeqIs
<1>5. raw = r.node.raw
    BY LeafRaw
<1> HIDE DEF raw
<1>6. Len(raw) <= IntMax /\ 0 \in 0 .. Len(raw) /\ Holds(raw, 0, s, p, m)
    BY <1>1, <1>2, <1>3, <1>4 DEF Holds
<1>7. IsLeaf(raw, 0) /\ LeafAt(raw, 0) = Ok(r.node, 0 + m)
    BY <1>4, <1>6, LeafMoves
<1>8. With(r.node, raw) = r.node
    BY <1>2, <1>5 DEF With, IntNodes, StrNodes
<1>9. 0 + m = Len(raw)
    BY <1>3, <1>4
<1> QED
    BY <1>2, <1>4, <1>5, <1>7, <1>8, <1>9 DEF GoodLeaf, Reads

\* What Decode returns is a heap: every pointer leads to a node behind.
LEMMA DecodedHeap ==
    ASSUME NEW s \in Text, Len(s) <= IntMax, NEW parsed, parsed = Parsed(s), NEW g, g = NodesOf(parsed, s)
    PROVE  Heap(g, Len(s))
<1>1. Len(s) \in Nat /\ DOMAIN g \subseteq 0 .. Len(s)
    <2>1. \A p \in DOMAIN g : p \in 0 .. Len(s)
        BY NodesAre
    <2> QED
        BY <2>1 DEF Text
<1>2. ASSUME NEW p \in DOMAIN g PROVE GoodLeaf(g[p]) \/ GoodList(g, p) \/ GoodDict(g, p)
    <2> DEFINE v == parsed[<<"value", p>>]
               c == s[p + 1]
    <2>1. p \in 0 .. Len(s) /\ p \in Nat /\ v.st = "ok" /\ g[p] = v.node
        <3>1. p \in 0 .. Len(s) /\ v.st = "ok"
            BY NodesAre
        <3>2. g[p] = v.node
            BY NodesAre
        <3> QED
            BY <1>1, <3>1, <3>2
    <2>2. v = DecodeValue(parsed, s, p)
        BY <2>1, ParsedIs
    <2> HIDE DEF v
    <2>3. ~ (p >= Len(s))
        BY <2>1, <2>2 DEF DecodeValue, Error
    <2>4. p + 1 \in 0 .. Len(s)
        BY <1>1, <2>1, <2>3
    <2>5. CASE c \in DigitChars \cup {"i"}
        <3>1. IsLeaf(s, p)
            BY <1>1, <2>1, <2>3, <2>5 DEF IsLeaf
        <3>2. v = LeafAt(s, p)
            BY <2>1, <2>2, <3>1, LeafIs
        <3> QED
            BY <2>1, <3>1, <3>2, LeafKept
    <2>6. CASE c = "l"
        <3>1. v = parsed[<<"items", p + 1>>]
            BY <2>2, <2>3, <2>6, ValueCases
        <3>2. v.node.type = "list" /\ v.node.list \in Seq({x \in DOMAIN g : x >= p + 1})
            BY <2>1, <2>4, <3>1, ItemsPoint
        <3>3. {x \in DOMAIN g : x >= p + 1} = Below(g, p)
            BY <1>1, <2>1 DEF Below
        <3> QED
            BY <2>1, <3>2, <3>3 DEF GoodList
    <2>7. CASE c = "d"
        <3>1. v = parsed[<<"pairs", p + 1>>]
            BY <2>2, <2>3, <2>7, ValueCases
        <3>2. \A k \in DOMAIN v.node.dict : v.node.dict[k] \in DOMAIN g
            BY <2>1, <2>4, <3>1, PairsPoint
        <3>3. v.node \in DictNodes(p + 1, Len(s))
            <4>1. v \in Pairs(s, p + 1)
                BY <2>4, <3>1, ParsedIs
            <4> QED
                BY <2>1, <4>1, OksAre DEF Pairs
        <3>4. v.node.type = "dict" /\ v.node.dict \in Dicts(p + 1, Len(s))
            BY <3>3 DEF DictNodes
        <3>5. /\ DOMAIN v.node.dict \subseteq Strings /\ IsFiniteSet(DOMAIN v.node.dict)
              /\ \A k \in DOMAIN v.node.dict : v.node.dict[k] \in p + 1 .. Len(s)
            BY <3>4, DictsAre
        <3>6. \A k \in DOMAIN v.node.dict : v.node.dict[k] \in Below(g, p)
            BY <1>1, <2>1, <3>2, <3>5 DEF Below
        <3> QED
            BY <2>1, <3>4, <3>5, <3>6 DEF GoodDict
    <2>8. c \in DigitChars \cup {"i", "l", "d"}
        <3>1. SUFFICES ASSUME c \notin DigitChars \cup {"i", "l", "d"} PROVE FALSE
            OBVIOUS
        <3>2. v = Error
            BY <2>2, <2>3, <3>1, ValueCases
        <3> QED
            BY <2>1, <3>2 DEF Error
    <2> QED
        BY <2>5, <2>6, <2>7, <2>8
<1> QED
    BY <1>1, <1>2 DEF Heap

Bare(g) == \A p \in DOMAIN g : g[p].type \in {"int", "str"} => g[p].raw = <<>>

\* A built node has the content and no bytes.
LEMMA BuiltIs ==
    ASSUME NEW g
    PROVE  /\ DOMAIN Built(g) = DOMAIN g
           /\ \A p \in DOMAIN g : g[p].type \in {"int", "str"} => Built(g)[p] = With(g[p], <<>>)
           /\ \A p \in DOMAIN g : g[p].type \notin {"int", "str"} => Built(g)[p] = g[p]
           /\ \A p : Below(Built(g), p) = Below(g, p)
BY DEF Built, With, Below

\* What a program builds of a heap is a heap.
LEMMA BuiltHeap ==
    ASSUME NEW g, NEW n, Heap(g, n)
    PROVE  Heap(Built(g), n) /\ Bare(Built(g))
<1> DEFINE h == Built(g)
<1>1. DOMAIN h = DOMAIN g /\ \A p : Below(h, p) = Below(g, p)
    BY BuiltIs
<1>2. ASSUME NEW p \in DOMAIN g
      PROVE  /\ GoodLeaf(h[p]) \/ GoodList(h, p) \/ GoodDict(h, p)
             /\ h[p].type \in {"int", "str"} => h[p].raw = <<>>
    <2>1. CASE GoodLeaf(g[p])
        <3>1. g[p] \in IntNodes \cup StrNodes
            BY <2>1 DEF GoodLeaf
        <3>2. g[p].type \in {"int", "str"}
            BY <3>1 DEF IntNodes, StrNodes
        <3>3. h[p] = With(g[p], <<>>)
            BY <3>2, BuiltIs
        <3>4. <<>> \in Text
            BY EmptySeq DEF Text
        <3>5. With(g[p], <<>>) \in IntNodes \cup StrNodes /\ With(g[p], <<>>).raw = <<>>
            BY <3>1, <3>4 DEF With, IntNodes, StrNodes
        <3> HIDE DEF h
        <3> QED
            BY <3>3, <3>5 DEF GoodLeaf
    <2>2. CASE GoodList(g, p)
        <3>1. g[p].type = "list"
            BY <2>2 DEF GoodList
        <3>2. h[p] = g[p]
            BY <3>1, BuiltIs
        <3> HIDE DEF h
        <3> QED
            BY <1>1, <2>2, <3>1, <3>2 DEF GoodList
    <2>3. CASE GoodDict(g, p)
        <3>1. g[p].type = "dict"
            BY <2>3 DEF GoodDict
        <3>2. h[p] = g[p]
            BY <3>1, BuiltIs
        <3> HIDE DEF h
        <3> QED
            BY <1>1, <2>3, <3>1, <3>2 DEF GoodDict
    <2> QED
        BY <2>1, <2>2, <2>3 DEF Heap
<1> HIDE DEF h
<1> QED
    BY <1>1, <1>2 DEF Heap, Bare, h
-----------------------------------------------------------------------------
(***************************************************************************)
(* Same on two heaps: its recursion is well defined.                       *)
(***************************************************************************)
SameStep(f, g, h) == [x \in (DOMAIN g) \X (DOMAIN h) |-> SameNode(f, g[x[1]], h[x[2]])]

\* SameNode by the type of the nodes.
LEMMA SameCases ==
    ASSUME NEW f, NEW a, NEW b
    PROVE  /\ SameNode(f, a, b) \in BOOLEAN
           /\ a.type = "int" /\ b.type = "int" => (SameNode(f, a, b) <=> a.int = b.int)
           /\ a.type = "str" /\ b.type = "str" => (SameNode(f, a, b) <=> a.str = b.str)
           /\ a.type = "list" /\ b.type = "list" =>
                 (SameNode(f, a, b) <=> /\ Len(a.list) = Len(b.list)
                                        /\ \A k \in DOMAIN a.list : f[<<a.list[k], b.list[k]>>])
           /\ a.type = "dict" /\ b.type = "dict" =>
                 (SameNode(f, a, b) <=> /\ DOMAIN a.dict = DOMAIN b.dict
                                        /\ \A k \in DOMAIN a.dict : f[<<a.dict[k], b.dict[k]>>])
           /\ a.type # b.type => ~ SameNode(f, a, b)
BY DEF SameNode

\* What a node points to lies behind it.
LEMMA KidsAre ==
    ASSUME NEW g, NEW n, Heap(g, n), NEW p \in DOMAIN g
    PROVE  /\ g[p].type \in {"int", "str", "list", "dict"}
           /\ g[p].type \in {"int", "str"} => GoodLeaf(g[p])
           /\ g[p].type = "list" =>
                 /\ GoodList(g, p) /\ Len(g[p].list) \in Nat /\ DOMAIN g[p].list = 1 .. Len(g[p].list)
                 /\ \A k \in DOMAIN g[p].list : g[p].list[k] \in Below(g, p)
           /\ g[p].type = "dict" => GoodDict(g, p) /\ \A k \in DOMAIN g[p].dict : g[p].dict[k] \in Below(g, p)
           /\ Below(g, p) \subseteq DOMAIN g
<1>1. GoodLeaf(g[p]) => g[p].type \in {"int", "str"}
    BY DEF GoodLeaf, IntNodes, StrNodes
<1>2. GoodList(g, p) => g[p].type = "list"
    BY DEF GoodList
<1>3. GoodDict(g, p) => g[p].type = "dict"
    BY DEF GoodDict
<1>4. GoodLeaf(g[p]) \/ GoodList(g, p) \/ GoodDict(g, p)
    BY DEF Heap
<1>5. ASSUME GoodList(g, p)
      PROVE  /\ Len(g[p].list) \in Nat /\ DOMAIN g[p].list = 1 .. Len(g[p].list)
             /\ \A k \in DOMAIN g[p].list : g[p].list[k] \in Below(g, p)
    <2> DEFINE list == g[p].list
    <2>1. list \in Seq(Below(g, p))
        BY <1>5 DEF GoodList
    <2> HIDE DEF list
    <2>2. Len(list) \in Nat /\ DOMAIN list = 1 .. Len(list) /\ \A k \in DOMAIN list : list[k] \in Below(g, p)
        BY <2>1
    <2> QED
        BY <2>2 DEF list
<1>6. GoodDict(g, p) => \A k \in DOMAIN g[p].dict : g[p].dict[k] \in Below(g, p)
    BY DEF GoodDict
<1> QED
    BY <1>1, <1>2, <1>3, <1>4, <1>5, <1>6 DEF Below

\* A step of Same depends only on nodes behind.
LEMMA SameLooksAhead ==
    ASSUME NEW g, NEW n, Heap(g, n), NEW h, NEW m, Heap(h, m), NEW p \in DOMAIN g, NEW q \in DOMAIN h,
           NEW f, NEW f2, \A c \in Below(g, p), d \in DOMAIN h : f[<<c, d>>] = f2[<<c, d>>]
    PROVE  SameNode(f, g[p], h[q]) = SameNode(f2, g[p], h[q])
<1> DEFINE a == g[p]
           b == h[q]
<1>1. CASE a.type # b.type
    <2>1. ~ SameNode(f, a, b) /\ ~ SameNode(f2, a, b)
          /\ SameNode(f, a, b) \in BOOLEAN /\ SameNode(f2, a, b) \in BOOLEAN
        BY <1>1, SameCases
    <2> QED
        BY <2>1
<1>2. CASE a.type = b.type
    <2>1. a.type \in {"int", "str", "list", "dict"}
        BY KidsAre
    <2>2. a.type = "list" => \A k \in DOMAIN a.list : a.list[k] \in Below(g, p)
        BY KidsAre
    <2>3. a.type = "dict" => \A k \in DOMAIN a.dict : a.dict[k] \in Below(g, p)
        BY KidsAre
    <2>4. b.type = "list" =>
             DOMAIN b.list = 1 .. Len(b.list) /\ \A k \in DOMAIN b.list : b.list[k] \in DOMAIN h
        BY KidsAre
    <2>5. b.type = "dict" => \A k \in DOMAIN b.dict : b.dict[k] \in DOMAIN h
        BY KidsAre
    <2>6. a.type = "list" => DOMAIN a.list = 1 .. Len(a.list)
        BY KidsAre
    <2>0. SUFFICES SameNode(f, a, b) = SameNode(f2, a, b)
        OBVIOUS
    <2> HIDE DEF a, b
    <2>7. SameNode(f, a, b) \in BOOLEAN /\ SameNode(f2, a, b) \in BOOLEAN
        BY SameCases
    <2>8. CASE a.type = "int"
        BY <1>2, <2>7, <2>8, SameCases
    <2>9. CASE a.type = "str"
        BY <1>2, <2>7, <2>9, SameCases
    <2>10. CASE a.type = "list"
        <3>1. ASSUME Len(a.list) = Len(b.list), NEW k \in DOMAIN a.list
              PROVE  f[<<a.list[k], b.list[k]>>] = f2[<<a.list[k], b.list[k]>>]
            BY <1>2, <2>2, <2>4, <2>6, <2>10, <3>1
        <3>2. SameNode(f, a, b) <=> /\ Len(a.list) = Len(b.list)
                                    /\ \A k \in DOMAIN a.list : f[<<a.list[k], b.list[k]>>]
            BY <1>2, <2>10, SameCases
        <3>3. SameNode(f2, a, b) <=> /\ Len(a.list) = Len(b.list)
                                     /\ \A k \in DOMAIN a.list : f2[<<a.list[k], b.list[k]>>]
            BY <1>2, <2>10, SameCases
        <3>4. SameNode(f, a, b) <=> SameNode(f2, a, b)
            BY <3>1, <3>2, <3>3
        <3> QED
            BY <2>7, <3>4
    <2>11. CASE a.type = "dict"
        <3>1. ASSUME DOMAIN a.dict = DOMAIN b.dict, NEW k \in DOMAIN a.dict
              PROVE  f[<<a.dict[k], b.dict[k]>>] = f2[<<a.dict[k], b.dict[k]>>]
            BY <1>2, <2>3, <2>5, <2>11, <3>1
        <3>2. SameNode(f, a, b) <=> /\ DOMAIN a.dict = DOMAIN b.dict
                                    /\ \A k \in DOMAIN a.dict : f[<<a.dict[k], b.dict[k]>>]
            BY <1>2, <2>11, SameCases
        <3>3. SameNode(f2, a, b) <=> /\ DOMAIN a.dict = DOMAIN b.dict
                                     /\ \A k \in DOMAIN a.dict : f2[<<a.dict[k], b.dict[k]>>]
            BY <1>2, <2>11, SameCases
        <3>4. SameNode(f, a, b) <=> SameNode(f2, a, b)
            BY <3>1, <3>2, <3>3
        <3> QED
            BY <2>7, <3>4
    <2> QED
        BY <2>1, <2>8, <2>9, <2>10, <2>11
<1> QED
    BY <1>1, <1>2

\* The recursion of Same is well defined on two heaps.
LEMMA SameIs ==
    ASSUME NEW g, NEW n, Heap(g, n), NEW h, NEW m, Heap(h, m)
    PROVE  \A p \in DOMAIN g, q \in DOMAIN h : Same(g, h)[<<p, q>>] = SameNode(Same(g, h), g[p], h[q])
<1> DEFINE X == (DOMAIN g) \X (DOMAIN h)
           F == [X -> BOOLEAN]
           mu == [x \in X |-> n - x[1]]
           next == [f \in F |-> SameStep(f, g, h)]
<1>1. n \in Nat /\ \A p \in DOMAIN g : p \in 0 .. n
    BY DEF Heap
<1>2. /\ mu \in [X -> 0 .. n]
      /\ \A p \in DOMAIN g, q \in DOMAIN h : \A c \in Below(g, p), d \in DOMAIN h :
            <<c, d>> \in X /\ mu[<<c, d>>] < mu[<<p, q>>]
    BY <1>1 DEF Below
<1>3. \A f \in F : SameStep(f, g, h) \in F
    <2>1. \A f : \A x \in X : SameNode(f, g[x[1]], h[x[2]]) \in BOOLEAN
        BY SameCases
    <2>2. \A f \in F : SameStep(f, g, h) = [x \in X |-> SameNode(f, g[x[1]], h[x[2]])]
        BY DEF SameStep
    <2> HIDE DEF X
    <2> QED
        BY <2>1, <2>2
<1>4. next \in [F -> F]
    BY <1>3
<1>5. FunctionsOn(X, F)
    <2>1. [x \in X |-> TRUE] \in F
        OBVIOUS
    <2>2. \A f \in F : f = [x \in X |-> f[x]]
        OBVIOUS
    <2> QED
        BY <2>1, <2>2 DEF FunctionsOn
<1>6. ASSUME NEW f, NEW f2, NEW x \in X, \A y \in X : mu[y] < mu[x] => f[y] = f2[y]
      PROVE  SameStep(f, g, h)[x] = SameStep(f2, g, h)[x]
    <2>1. PICK p \in DOMAIN g, q \in DOMAIN h : x = <<p, q>>
        OBVIOUS
    <2>2. \A c \in Below(g, p), d \in DOMAIN h : <<c, d>> \in X /\ mu[<<c, d>>] < mu[x]
        BY <1>2, <2>1
    <2>3. \A c \in Below(g, p), d \in DOMAIN h : f[<<c, d>>] = f2[<<c, d>>]
        <3> HIDE DEF X, mu
        <3> QED
            BY <1>6, <2>2
    <2>4. SameNode(f, g[p], h[q]) = SameNode(f2, g[p], h[q])
        BY <2>3, SameLooksAhead
    <2> QED
        BY <2>1, <2>4 DEF SameStep
<1>7. PICK f \in F : f = SameStep(f, g, h)
    <2>1. Causal(X, mu, F, next)
        <3>1. \A f, f2 \in F, x \in X :
                  (\A y \in X : mu[y] < mu[x] => f[y] = f2[y]) => SameStep(f, g, h)[x] = SameStep(f2, g, h)[x]
            <4> HIDE DEF F, mu, X
            <4> QED
                BY <1>6
        <3>2. \A f \in F : next[f] = SameStep(f, g, h)
            OBVIOUS
        <3> HIDE DEF F, next, mu, X
        <3> QED
            BY <3>1, <3>2 DEF Causal
    <2>2. \A f \in F : next[f] = SameStep(f, g, h)
        OBVIOUS
    <2> HIDE DEF X, F, mu, next
    <2>3. \E f \in F : f = next[f]
        BY <1>1, <1>2, <1>4, <1>5, <2>1, Recursion
    <2> QED
        BY <2>2, <2>3
<1>8. ASSUME NEW f2, f2 = SameStep(f2, g, h) PROVE f2 = f
    <2> DEFINE T == {x \in X : f[x] = f2[x]}
    <2>1. \A x \in X : (\A y \in X : mu[y] < mu[x] => y \in T) => x \in T
        <3>1. SUFFICES ASSUME NEW x \in X, \A y \in X : mu[y] < mu[x] => f[y] = f2[y] PROVE f[x] = f2[x]
            OBVIOUS
        <3>2. SameStep(f, g, h)[x] = SameStep(f2, g, h)[x]
            BY <1>6, <3>1
        <3> QED
            BY <1>7, <1>8, <3>2
    <2>2. mu \in [X -> Nat] /\ T \in SUBSET X
        BY <1>1, <1>2
    <2>3. X = T
        <3> HIDE DEF X, mu, T
        <3> QED
            BY <2>1, <2>2, MeasureInduction
    <2>4. f2 = [x \in X |-> f2[x]] /\ f = [x \in X |-> f[x]]
        BY <1>7, <1>8 DEF SameStep
    <2>5. \A x \in X : f[x] = f2[x]
        BY <2>3
    <2> HIDE DEF X
    <2> QED
        BY <2>4, <2>5
<1>9. Same(g, h) = CHOOSE f2 : f2 = SameStep(f2, g, h)
    BY DEF Same, SameStep
<1> HIDE DEF F
<1>10. Same(g, h) = f
    BY <1>7, <1>8, <1>9
<1>11. \A p \in DOMAIN g, q \in DOMAIN h : SameStep(f, g, h)[<<p, q>>] = SameNode(f, g[p], h[q])
    BY DEF SameStep
<1> QED
    BY <1>7, <1>10, <1>11

-----------------------------------------------------------------------------
(***************************************************************************)
(* The loops of parseList and parseDict: what they return when the values  *)
(* they read follow each other, each from at[i - 1] to at[i], and an "e"   *)
(* comes behind the last.                                                  *)
(***************************************************************************)
Follow(t, n, at) ==
    /\ n \in Nat /\ at \in [0 .. n -> 0 .. Len(t)] /\ at[n] < Len(t) /\ t[at[n] + 1] = "e"
Value(t, p) == Parsed(t)[<<"value", p>>]
Reaches(t, p, e) == p < Len(t) /\ t[p + 1] # "e" /\ Value(t, p).st = "ok" /\ Value(t, p).pos = e
From(at, i, n) == [j \in 1 .. n - i |-> at[(i + j) - 1]]

\* The positions from the i-th on: the first, and the rest.
LEMMA FromIs ==
    ASSUME NEW n \in Nat, NEW S, NEW at \in [0 .. n -> S], NEW i \in 0 .. n
    PROVE  /\ From(at, i, n) \in Seq(S) /\ Len(From(at, i, n)) = n - i
           /\ \A j \in 1 .. n - i : From(at, i, n)[j] = at[(i + j) - 1]
           /\ i = n => From(at, i, n) = <<>>
           /\ i < n => From(at, i, n) = <<at[i]>> \o From(at, i + 1, n)
<1> DEFINE m == n - i
           u == From(at, i, n)
<1>1. m \in Nat /\ \A j \in 1 .. m : (i + j) - 1 \in 0 .. n
    OBVIOUS
<1>2. u = [j \in 1 .. m |-> at[(i + j) - 1]]
    BY DEF From
<1>3. \A j \in 1 .. m : u[j] = at[(i + j) - 1] /\ at[(i + j) - 1] \in S
    BY <1>1, <1>2
<1> HIDE DEF u
<1>4. u \in [1 .. m -> S]
    BY <1>2, <1>3
<1> HIDE DEF m
<1>5. u \in Seq(S) /\ Len(u) = m
    BY <1>1, <1>4
<1>6. i = n => u = <<>>
    BY <1>5, EmptySeq DEF m
<1>7. ASSUME i < n PROVE u = <<at[i]>> \o From(at, i + 1, n)
    <2> DEFINE k == m - 1
               rest == From(at, i + 1, n)
               a == <<at[i]>>
    <2>1. k \in Nat /\ k = n - (i + 1) /\ at[i] \in S /\ m = 1 + k
        BY <1>1, <1>7 DEF m
    <2>2. rest = [j \in 1 .. k |-> at[((i + 1) + j) - 1]]
        BY <2>1 DEF From
    <2>3. \A j \in 1 .. k : rest[j] = at[i + j] /\ at[i + j] \in S
        <3>1. \A j \in 1 .. k : ((i + 1) + j) - 1 = i + j /\ i + j \in 0 .. n
            BY <2>1
        <3> HIDE DEF rest, k
        <3> QED
            BY <2>2, <3>1
    <2> HIDE DEF rest, k
    <2>4. rest \in [1 .. k -> S]
        <3>1. rest = [j \in 1 .. k |-> rest[j]]
            BY <2>2
        <3> QED
            BY <2>3, <3>1
    <2>5. rest \in Seq(S) /\ Len(rest) = k /\ a \in Seq(S) /\ Len(a) = 1 /\ a[1] = at[i]
        BY <2>1, <2>4
    <2> DEFINE w == a \o rest
    <2> HIDE DEF a
    <2>6. /\ w \in Seq(S) /\ Len(w) = m
          /\ \A j \in 1 .. m : w[j] = IF j <= 1 THEN a[j] ELSE rest[j - 1]
        BY <2>1, <2>5, ConcatProperties
    <2> HIDE DEF w
    <2>7. ASSUME NEW j \in 1 .. m PROVE w[j] = u[j]
        <3>1. CASE j = 1
            <4>1. (i + 1) - 1 = i
                OBVIOUS
            <4> QED
                BY <1>3, <2>5, <2>6, <3>1, <4>1
        <3>2. CASE j # 1
            <4>1. j - 1 \in 1 .. k /\ ~ (j <= 1) /\ i + (j - 1) = (i + j) - 1
                BY <2>1, <3>2
            <4> QED
                BY <1>3, <2>3, <2>6, <4>1
        <3> QED
            BY <3>1, <3>2
    <2>8. u = w
        BY <1>5, <2>6, <2>7, SeqEqual
    <2> QED
        BY <2>8 DEF w, a, rest
<1> QED
    BY <1>3, <1>5, <1>6, <1>7 DEF u, m

KeyReads(t, p, str, e) ==
    /\ p < Len(t) /\ t[p + 1] # "e"
    /\ ParseString(t, p).st = "ok" /\ ParseString(t, p).pos = e /\ ParseString(t, p).node.str = str
ItemsAt(t, p) == Parsed(t)[<<"items", p>>]
PairsAt(t, p) == Parsed(t)[<<"pairs", p>>]

\* At an "e" the loops of parseList and parseDict end.
LEMMA LoopsEnd ==
    ASSUME NEW t \in Text, NEW p \in 0 .. Len(t), p < Len(t), t[p + 1] = "e"
    PROVE  ItemsAt(t, p) = Ok(ListNode(<<>>), p + 1) /\ PairsAt(t, p) = Ok(DictNode(<<>>), p + 1)
<1>1. Len(t) \in Nat /\ p \in Nat /\ ~ (p >= Len(t))
    BY DEF Text
<1>2. ItemsAt(t, p) = ParseItems(Parsed(t), t, p) /\ PairsAt(t, p) = ParsePairs(Parsed(t), t, p)
    BY ParsedIs DEF ItemsAt, PairsAt
<1> QED
    BY <1>1, <1>2 DEF ParseItems, ParsePairs, ListNode, DictNode

\* Before an item, parseList returns the item and then the rest.
LEMMA ItemsMore ==
    ASSUME NEW t \in Text, NEW p \in 0 .. Len(t), NEW e, Reaches(t, p, e), ItemsAt(t, e).st = "ok"
    PROVE  ItemsAt(t, p) = Ok(ListNode(<<p>> \o ItemsAt(t, e).node.list), ItemsAt(t, e).pos)
<1>1. Len(t) \in Nat /\ p \in Nat /\ ~ (p >= Len(t)) /\ t[p + 1] # "e"
    BY DEF Text, Reaches
<1>2. ItemsAt(t, p) = ParseItems(Parsed(t), t, p)
    BY ParsedIs DEF ItemsAt
<1>3. Parsed(t)[<<"value", p>>].st = "ok" /\ Parsed(t)[<<"value", p>>].pos = e
    BY DEF Reaches, Value
<1>4. ItemsAt(t, p) = AddItem(p, ItemsAt(t, e))
    BY <1>1, <1>2, <1>3 DEF ParseItems, ItemsAt
<1> QED
    BY <1>4 DEF AddItem, ListNode

\* Before a key and its value, parseDict returns the rest with the pair, unless its key
\* comes again.
LEMMA PairsMore ==
    ASSUME NEW t \in Text, NEW p \in 0 .. Len(t), NEW str, NEW k, KeyReads(t, p, str, k),
           NEW e, Value(t, k).st = "ok", Value(t, k).pos = e, PairsAt(t, e).st = "ok"
    PROVE  PairsAt(t, p) = Ok(DictNode(Added(PairsAt(t, e).node.dict, str, k)), PairsAt(t, e).pos)
<1>1. Len(t) \in Nat /\ p \in Nat /\ ~ (p >= Len(t)) /\ t[p + 1] # "e"
    BY DEF Text, KeyReads
<1>2. PairsAt(t, p) = ParsePairs(Parsed(t), t, p)
    BY ParsedIs DEF PairsAt
<1>3. ParseString(t, p).st = "ok" /\ ParseString(t, p).pos = k /\ ParseString(t, p).node.str = str
    BY DEF KeyReads
<1>4. PairsAt(t, p) = ParsePair(Parsed(t), ParseString(t, p))
    BY <1>1, <1>2, <1>3 DEF ParsePairs
<1>5. PairsAt(t, p) = AddPair(str, k, PairsAt(t, e))
    BY <1>3, <1>4 DEF ParsePair, PairsAt, Value
<1> QED
    BY <1>5 DEF AddPair, DictNode, Added

\* Where values follow each other up to an "e", parseList returns them all.
LEMMA ItemsLoop ==
    ASSUME NEW t \in Text, NEW n, NEW at, Follow(t, n, at),
           \A i \in 1 .. n : Reaches(t, at[i - 1], at[i])
    PROVE  ItemsAt(t, at[0]) = Ok(ListNode(From(at, 0, n)), at[n] + 1)
<1> DEFINE X == 0 .. n
           mu == [i \in X |-> n - i]
           r(i) == ItemsAt(t, at[i])
           T == {i \in X : r(i) = Ok(ListNode(From(at, i, n)), at[n] + 1)}
<1>1. n \in Nat /\ at \in [0 .. n -> 0 .. Len(t)] /\ at[n] < Len(t) /\ t[at[n] + 1] = "e"
    BY DEF Follow
<1>2. mu \in [X -> Nat] /\ T \in SUBSET X
    BY <1>1
<1>3. ASSUME NEW i \in X, \A y \in X : mu[y] < mu[i] => y \in T PROVE i \in T
    <2>1. SUFFICES r(i) = Ok(ListNode(From(at, i, n)), at[n] + 1)
        OBVIOUS
    <2>2. at[i] \in 0 .. Len(t) /\ i \in 0 .. n
        BY <1>1
    <2>3. CASE i = n
        <3>1. From(at, i, n) = <<>>
            BY <1>1, <2>2, <2>3, FromIs
        <3>2. r(i) = Ok(ListNode(<<>>), at[i] + 1)
            BY <1>1, <2>2, <2>3, LoopsEnd
        <3> QED
            BY <2>3, <3>1, <3>2
    <2>4. CASE i # n
        <3> DEFINE rest == ItemsAt(t, at[i + 1])
                   list == From(at, i + 1, n)
        <3>1. i + 1 \in X /\ mu[i + 1] < mu[i] /\ i + 1 \in 1 .. n /\ (i + 1) - 1 = i /\ i < n
            BY <1>1, <2>2, <2>4
        <3>2. rest = Ok(ListNode(list), at[n] + 1)
            BY <1>3, <3>1
        <3>3. Reaches(t, at[i], at[i + 1])
            BY <3>1
        <3>4. From(at, i, n) = <<at[i]>> \o list
            BY <1>1, <2>2, <3>1, FromIs
        <3> HIDE DEF list
        <3>5. rest.st = "ok" /\ rest.pos = at[n] + 1 /\ rest.node.list = list
            BY <3>2, OkIs DEF ListNode
        <3>6. r(i) = Ok(ListNode(<<at[i]>> \o rest.node.list), rest.pos)
            BY <2>2, <3>3, <3>5, ItemsMore
        <3> QED
            BY <3>4, <3>5, <3>6
    <2> QED
        BY <2>3, <2>4
<1>4. X = T
    <2> HIDE DEF X, mu, T
    <2> QED
        BY <1>2, <1>3, MeasureInduction
<1>5. 0 \in X
    BY <1>1
<1> QED
    BY <1>4, <1>5

\* What the loop of parseDict returns from the pair i on.
Paired(r, keys, mid, i, n, e) ==
    /\ r.st = "ok" /\ r.pos = e /\ r.node.type = "dict"
    /\ DOMAIN r.node.dict = {keys[j] : j \in i + 1 .. n}
    /\ \A j \in i + 1 .. n : r.node.dict[keys[j]] = mid[j]

\* Where pairs with distinct keys follow each other up to an "e", parseDict returns them all.
LEMMA PairsLoop ==
    ASSUME NEW t \in Text, NEW n, NEW at, Follow(t, n, at), NEW keys, NEW mid,
           \A i, j \in 1 .. n : keys[i] = keys[j] => i = j,
           \A i \in 1 .. n : KeyReads(t, at[i - 1], keys[i], mid[i]),
           \A i \in 1 .. n : Value(t, mid[i]).st = "ok" /\ Value(t, mid[i]).pos = at[i]
    PROVE  Paired(PairsAt(t, at[0]), keys, mid, 0, n, at[n] + 1)
<1> DEFINE X == 0 .. n
           mu == [i \in X |-> n - i]
           r(i) == PairsAt(t, at[i])
           T == {i \in X : Paired(r(i), keys, mid, i, n, at[n] + 1)}
<1>1. n \in Nat /\ at \in [0 .. n -> 0 .. Len(t)] /\ at[n] < Len(t) /\ t[at[n] + 1] = "e"
    BY DEF Follow
<1>2. mu \in [X -> Nat] /\ T \in SUBSET X
    BY <1>1
<1>3. ASSUME NEW i \in X, \A y \in X : mu[y] < mu[i] => y \in T PROVE i \in T
    <2>1. SUFFICES Paired(r(i), keys, mid, i, n, at[n] + 1)
        OBVIOUS
    <2>2. at[i] \in 0 .. Len(t) /\ i \in 0 .. n
        BY <1>1
    <2>3. CASE i = n
        <3>1. r(i) = Ok(DictNode(<<>>), at[n] + 1)
            BY <1>1, <2>2, <2>3, LoopsEnd
        <3>2. r(i).st = "ok" /\ r(i).pos = at[n] + 1 /\ r(i).node = DictNode(<<>>)
            BY <3>1, OkIs
        <3>3. i + 1 .. n = {}
            BY <1>1, <2>3
        <3>4. r(i).node.type = "dict" /\ r(i).node.dict = <<>> /\ DOMAIN <<>> = {}
            BY <3>2 DEF DictNode
        <3> HIDE DEF r
        <3> QED
            BY <3>2, <3>3, <3>4 DEF Paired
    <2>4. CASE i # n
        <3> DEFINE rest == PairsAt(t, at[i + 1])
                   dict == rest.node.dict
                   str == keys[i + 1]
                   val == mid[i + 1]
                   new == Added(dict, str, val)
        <3>1. i + 1 \in X /\ mu[i + 1] < mu[i] /\ i + 1 \in 1 .. n /\ (i + 1) - 1 = i /\ i < n
            BY <1>1, <2>2, <2>4
        <3>2. Paired(rest, keys, mid, i + 1, n, at[n] + 1)
            BY <1>3, <3>1
        <3>3. KeyReads(t, at[i], str, val)
            BY <3>1
        <3>4. Value(t, val).st = "ok" /\ Value(t, val).pos = at[i + 1]
            BY <3>1
        <3> HIDE DEF str, val
        <3>5. /\ rest.st = "ok" /\ rest.pos = at[n] + 1
              /\ DOMAIN dict = {keys[j] : j \in (i + 1) + 1 .. n}
              /\ \A j \in (i + 1) + 1 .. n : dict[keys[j]] = mid[j]
            BY <3>2 DEF Paired
        <3>6. r(i) = Ok(DictNode(new), rest.pos)
            BY <2>2, <3>3, <3>4, <3>5, PairsMore
        <3> HIDE DEF dict
        <3>7. r(i).st = "ok" /\ r(i).pos = at[n] + 1 /\ r(i).node = DictNode(new)
            <4> HIDE DEF new
            <4> QED
                BY <3>5, <3>6, OkIs
        <3>8. DOMAIN new = DOMAIN dict \cup {keys[i + 1]}
            BY DEF Added, str
        <3>9. DOMAIN new = {keys[j] : j \in i + 1 .. n}
            <4>1. \A j : j \in i + 1 .. n <=> j = i + 1 \/ j \in (i + 1) + 1 .. n
                BY <1>1, <3>1
            <4> HIDE DEF new
            <4> QED
                BY <3>5, <3>8, <4>1
        <3>10. ASSUME NEW j \in i + 1 .. n PROVE new[keys[j]] = mid[j]
            <4>1. CASE j = i + 1
                <5>1. \A k \in (i + 1) + 1 .. n : k \in 1 .. n /\ k # i + 1
                    BY <1>1, <2>2
                <5>2. keys[j] \notin DOMAIN dict
                    BY <3>1, <3>5, <4>1, <5>1
                <5>3. keys[j] \in DOMAIN new
                    BY <3>8, <4>1
                <5>4. new[keys[j]] = val
                    BY <5>2, <5>3 DEF Added
                <5> QED
                    BY <4>1, <5>4 DEF val
            <4>2. CASE j # i + 1
                <5>1. j \in (i + 1) + 1 .. n
                    BY <1>1, <2>2, <4>2
                <5>2. keys[j] \in DOMAIN dict
                    BY <3>5, <5>1
                <5>3. keys[j] \in DOMAIN new
                    BY <3>8, <5>2
                <5>4. new[keys[j]] = dict[keys[j]]
                    BY <5>2, <5>3 DEF Added
                <5> QED
                    BY <3>5, <5>1, <5>4
            <4> QED
                BY <4>1, <4>2
        <3>11. r(i).node.type = "dict" /\ r(i).node.dict = new
            BY <3>7 DEF DictNode
        <3> HIDE DEF new, r
        <3> QED
            BY <3>7, <3>9, <3>10, <3>11 DEF Paired
    <2> QED
        BY <2>3, <2>4
<1>4. X = T
    <2> HIDE DEF X, mu, T
    <2> QED
        BY <1>2, <1>3, MeasureInduction
<1>5. 0 \in X
    BY <1>1
<1> QED
    BY <1>4, <1>5

-----------------------------------------------------------------------------
(***************************************************************************)
(* What a heap is encoded to is read back, wherever it is written: at q of *)
(* a text that holds the encoding of p is a value that ends where the      *)
(* encoding ends, that says the same as p, and that is encoded to the same *)
(* bytes.                                                                  *)
(***************************************************************************)
Read(t) == NodesOf(Parsed(t), t)
Reread(g, p, t, q) ==
    /\ Value(t, q).st = "ok" /\ Value(t, q).pos = q + Len(Encode(g)[p])
    /\ Same(g, Read(t))[<<p, q>>]
    /\ Encode(Read(t))[q] = Encode(g)[p]
    /\ Bare(g) => Encode(Built(Read(t)))[q] = Encode(g)[p]
Written(w, t, q) == t \in Text /\ Len(t) <= IntMax /\ q \in 0 .. Len(t) /\ Holds(t, q, w, 0, Len(w))

\* What was read at q, and what is built of it, as nodes of heaps.
LEMMA ReadIs ==
    ASSUME NEW t \in Text, Len(t) <= IntMax, NEW q \in 0 .. Len(t), Value(t, q).st = "ok"
    PROVE  /\ Heap(Read(t), Len(t)) /\ Heap(Built(Read(t)), Len(t))
           /\ q \in DOMAIN Read(t) /\ Read(t)[q] = Value(t, q).node
           /\ DOMAIN Built(Read(t)) = DOMAIN Read(t)
           /\ Encode(Read(t))[q] = EncodeNode(Encode(Read(t)), Read(t)[q])
           /\ Encode(Built(Read(t)))[q] = EncodeNode(Encode(Built(Read(t))), Built(Read(t))[q])
<1> DEFINE h == Read(t)
           b == Built(h)
<1>1. Heap(h, Len(t))
    BY DecodedHeap DEF Read
<1>2. q \in DOMAIN h /\ h[q] = Value(t, q).node
    BY NodesAre DEF Read, Value
<1> HIDE DEF h
<1>3. Heap(b, Len(t)) /\ DOMAIN b = DOMAIN h
    BY <1>1, BuiltHeap, BuiltIs
<1> HIDE DEF b
<1>4. Encode(h)[q] = EncodeNode(Encode(h), h[q]) /\ Encode(b)[q] = EncodeNode(Encode(b), b[q])
    BY <1>1, <1>2, <1>3, EncodeIs
<1> QED
    BY <1>1, <1>2, <1>3, <1>4 DEF b, h

\* A leaf is read back.
LEMMA LeafReread ==
    ASSUME NEW g, NEW n, Heap(g, n), NEW p \in DOMAIN g, GoodLeaf(g[p]),
           NEW t, NEW q, Written(Encode(g)[p], t, q)
    PROVE  Reread(g, p, t, q)
<1> DEFINE enc == Encode(g)
           w == enc[p]
           h == Read(t)
           b == Built(h)
           v == Value(t, q)
           a == g[p]
           aw == With(a, w)
<1>1. /\ t \in Text /\ Len(t) <= IntMax /\ q \in 0 .. Len(t) /\ Holds(t, q, w, 0, Len(w))
      /\ Len(t) \in Nat /\ q \in Nat /\ IntMax \in Nat
    BY BencodeAssumption DEF Written, Text
<1>2. w \in Text /\ w # <<>> /\ w = EncodeNode(enc, a)
    BY EncodeIs
<1>3. GoodLeaf(a) /\ a \in IntNodes \cup StrNodes /\ (Bare(g) => a.raw = <<>>)
      /\ a.type \in {"int", "str"}
    BY DEF GoodLeaf, IntNodes, StrNodes, Bare
<1> HIDE DEF w, enc
<1>4. Len(w) \in Nat /\ Len(w) <= IntMax /\ 0 \in 0 .. Len(w)
    BY <1>1, <1>2 DEF Holds, Text
<1> HIDE DEF a
<1>5. Reads(w, a)
    BY <1>2, <1>3, <1>4, LeafEncoded
<1>6. IsLeaf(t, q) /\ LeafAt(t, q) = Ok(aw, q + Len(w))
    <2> DEFINE r == LeafAt(w, 0)
    <2>1. IsLeaf(w, 0) /\ r = Ok(aw, Len(w))
        BY <1>5 DEF Reads
    <2> HIDE DEF aw
    <2>2. r.st = "ok" /\ r.node = aw /\ r.pos = Len(w) /\ Len(w) = r.pos - 0
        BY <1>4, <2>1, OkIs
    <2>3. r = LeafAt(w, 0)
        OBVIOUS
    <2> HIDE DEF r
    <2> QED
        BY <1>1, <1>2, <1>4, <2>1, <2>2, <2>3, LeafMoves
<1> HIDE DEF aw
<1>7. v = Ok(aw, q + Len(w))
    <2>1. v = DecodeValue(Parsed(t), t, q)
        BY <1>1, ParsedIs DEF Value
    <2>2. DecodeValue(Parsed(t), t, q) = LeafAt(t, q)
        BY <1>1, <1>6, LeafIs
    <2> QED
        BY <1>6, <2>1, <2>2
<1> HIDE DEF v
<1>8. v.st = "ok" /\ v.node = aw /\ v.pos = q + Len(w)
    BY <1>7, OkIs
<1>9. /\ Heap(h, Len(t)) /\ q \in DOMAIN h /\ h[q] = aw
      /\ Encode(h)[q] = EncodeNode(Encode(h), h[q])
      /\ Encode(b)[q] = EncodeNode(Encode(b), b[q])
    BY <1>1, <1>8, ReadIs DEF v
<1>10. /\ aw.type = a.type /\ aw.raw = w
       /\ a.type = "int" => aw.int = a.int
       /\ a.type = "str" => aw.str = a.str
       /\ a.raw = <<>> => With(aw, <<>>) = a
    BY <1>3 DEF aw, With, IntNodes, StrNodes
<1> HIDE DEF h
<1>11. Same(g, h)[<<p, q>>]
    <2>1. Same(g, h)[<<p, q>>] = SameNode(Same(g, h), g[p], h[q])
        BY <1>9, SameIs
    <2>2. SameNode(Same(g, h), a, aw)
        BY <1>3, <1>10, SameCases
    <2> QED
        BY <1>9, <2>1, <2>2 DEF a
<1>12. Encode(h)[q] = w
    BY <1>2, <1>3, <1>9, <1>10, EncodeCases
<1>13. ASSUME Bare(g) PROVE Encode(b)[q] = w
    <2>1. b[q] = With(aw, <<>>)
        BY <1>3, <1>9, <1>10, BuiltIs
    <2>2. b[q] = a
        BY <1>3, <1>10, <1>13, <2>1
    <2> HIDE DEF b
    <2>3. EncodeNode(Encode(b), a) = EncodeNode(enc, a)
        BY <1>3, EncodeCases
    <2> QED
        BY <1>2, <1>9, <2>2, <2>3
<1> QED
    BY <1>8, <1>11, <1>12, <1>13 DEF Reread, w, enc, h, v

\* A sequence that does not fall ends with its greatest number.
LEMMA LastIsGreatest ==
    ASSUME NEW n \in Nat, NEW at \in [0 .. n -> Nat], \A i \in 1 .. n : at[i - 1] <= at[i]
    PROVE  \A i \in 0 .. n : at[i] <= at[n]
<1> DEFINE T == {k \in Nat : k <= n => at[n - k] <= at[n]}
<1>1. 0 \in T
    OBVIOUS
<1>2. ASSUME NEW k \in T PROVE k + 1 \in T
    <2>1. SUFFICES ASSUME k + 1 <= n PROVE at[n - (k + 1)] <= at[n]
        OBVIOUS
    <2>2. n - k \in 1 .. n /\ (n - k) - 1 = n - (k + 1) /\ k <= n
        BY <2>1
    <2>3. at[n - (k + 1)] <= at[n - k] /\ at[n - k] <= at[n]
        BY <2>2
    <2>4. n - (k + 1) \in 0 .. n /\ n - k \in 0 .. n /\ n \in 0 .. n
        BY <2>2
    <2>5. at[n - (k + 1)] \in Nat /\ at[n - k] \in Nat /\ at[n] \in Nat
        BY <2>4
    <2> QED
        BY <2>3, <2>5
<1>3. \A k \in Nat : k \in T
    <2>1. T \in SUBSET Nat
        OBVIOUS
    <2> HIDE DEF T
    <2> QED
        BY <1>1, <1>2, <2>1, SetInduction
<1>4. ASSUME NEW i \in 0 .. n PROVE at[i] <= at[n]
    <2>1. n - i \in Nat /\ n - i <= n /\ n - (n - i) = i
        OBVIOUS
    <2> QED
        BY <1>3, <2>1
<1> QED
    BY <1>4

\* The pieces lie within what was joined.
LEMMA PiecesRise ==
    ASSUME NEW seqs \in Seq(Text), NEW flat, NEW at, Pieces(at, seqs, flat)
    PROVE  \A i \in 0 .. Len(seqs) : at[i] \in 0 .. Len(flat)
<1> DEFINE n == Len(seqs)
<1>1. n \in Nat /\ at \in [0 .. n -> Nat] /\ at[n] = Len(flat)
    BY DEF Pieces
<1>2. ASSUME NEW i \in 1 .. n PROVE at[i - 1] <= at[i]
    <2>1. seqs[i] \in Text
        OBVIOUS
    <2>2. Len(seqs[i]) \in Nat
        BY <2>1 DEF Text
    <2>3. at[i] = at[i - 1] + Len(seqs[i])
        BY DEF Pieces
    <2>4. i - 1 \in 0 .. n
        BY <1>1
    <2>5. at[i - 1] \in Nat
        BY <1>1, <2>4
    <2> QED
        BY <2>2, <2>3, <2>5
<1> HIDE DEF n
<1>3. \A i \in 0 .. n : at[i] <= at[n]
    BY <1>1, <1>2, LastIsGreatest
<1>4. \A i \in 0 .. n : at[i] \in 0 .. Len(flat)
    BY <1>1, <1>3
<1> QED
    BY <1>4 DEF n

\* Where the joined text is written, each of its pieces is written at its place.
LEMMA PiecesWritten ==
    ASSUME NEW seqs \in Seq(Text), NEW flat, NEW at, Pieces(at, seqs, flat),
           NEW t \in Text, Len(t) <= IntMax, NEW q \in 0 .. Len(t), Holds(t, q, flat, 0, Len(flat))
    PROVE  /\ \A i \in 0 .. Len(seqs) : q + at[i] \in 0 .. Len(t)
           /\ \A i \in 1 .. Len(seqs) : Written(seqs[i], t, q + at[i - 1])
           /\ \A i \in 1 .. Len(seqs) : q + at[i] = (q + at[i - 1]) + Len(seqs[i])
<1> DEFINE n == Len(seqs)
<1>1. n \in Nat /\ at \in [0 .. n -> Nat] /\ at[n] = Len(flat)
      /\ \A i \in 1 .. n : /\ at[i] = at[i - 1] + Len(seqs[i])
                           /\ \A k \in 1 .. Len(seqs[i]) : flat[at[i - 1] + k] = seqs[i][k]
    BY DEF Pieces
<1>2. \A i \in 0 .. n : at[i] \in 0 .. Len(flat)
    BY PiecesRise
<1>3. \A i \in 1 .. n : seqs[i] \in Text /\ Len(seqs[i]) \in Nat
    BY DEF Text
<1>4. Len(t) \in Nat /\ q \in Nat /\ n \in 0 .. n /\ Len(flat) \in Nat /\ q + Len(flat) <= Len(t)
      /\ \A k \in 1 .. Len(flat) : t[q + k] = flat[0 + k]
    <2>1. n \in 0 .. n /\ at[n] \in Nat
        BY <1>1
    <2>2. Len(t) \in Nat /\ q \in Nat
        BY DEF Text
    <2>3. q + Len(flat) <= Len(t) /\ \A k \in 1 .. Len(flat) : t[q + k] = flat[0 + k]
        BY DEF Holds
    <2> QED
        BY <1>1, <2>1, <2>2, <2>3
<1> HIDE DEF n
<1>5. \A i \in 0 .. n : q + at[i] \in 0 .. Len(t)
    BY <1>2, <1>4
<1>6. ASSUME NEW i \in 1 .. n
      PROVE  Written(seqs[i], t, q + at[i - 1]) /\ q + at[i] = (q + at[i - 1]) + Len(seqs[i])
    <2> DEFINE x == seqs[i]
               a == at[i - 1]
    <2>1. i - 1 \in 0 .. n /\ i \in 0 .. n
        BY <1>1
    <2>2. at[i] = a + Len(x) /\ a \in Nat /\ x \in Text /\ Len(x) \in Nat /\ at[i] <= Len(flat)
        BY <1>1, <1>2, <1>3, <2>1, SMTT(60)
    <2>3. \A k \in 1 .. Len(x) : flat[a + k] = x[k]
        BY <1>1
    <2>4. q + a \in 0 .. Len(t)
        BY <1>5, <2>1
    <2> HIDE DEF x, a
    <2>5. ASSUME NEW k \in 1 .. Len(x) PROVE t[(q + a) + k] = x[0 + k]
        <3>1. a + k \in 1 .. Len(flat) /\ q + (a + k) = (q + a) + k /\ 0 + (a + k) = a + k /\ 0 + k = k
            BY <1>4, <2>2
        <3> QED
            BY <1>4, <2>3, <3>1
    <2>6. (q + a) + Len(x) <= Len(t) /\ q + at[i] = (q + a) + Len(x)
        BY <1>4, <2>2
    <2> QED
        BY <2>4, <2>5, <2>6 DEF Written, Holds, x, a
<1> QED
    BY <1>5, <1>6 DEF n

\* Where a list or a dictionary is written, its brackets and its body are written.
LEMMA WrapsWritten ==
    ASSUME NEW w, NEW open, NEW body \in Text, NEW close, Wraps(w, open, body, close),
           NEW t, NEW q, Written(w, t, q)
    PROVE  /\ t \in Text /\ Len(t) <= IntMax /\ q \in 0 .. Len(t) /\ q < Len(t) /\ t[q + 1] = open
           /\ q + 1 \in 0 .. Len(t) /\ Holds(t, q + 1, body, 0, Len(body))
           /\ (q + 1) + Len(body) < Len(t) /\ t[((q + 1) + Len(body)) + 1] = close
           /\ q + Len(w) = ((q + 1) + Len(body)) + 1
<1> DEFINE m == Len(body)
<1>1. /\ w \in Text /\ Len(w) = m + 2 /\ w[1] = open /\ w[m + 2] = close
      /\ \A k \in 1 .. m : w[k + 1] = body[k]
    BY DEF Wraps
<1>2. /\ t \in Text /\ Len(t) <= IntMax /\ q \in 0 .. Len(t) /\ q + Len(w) <= Len(t)
      /\ \A k \in 1 .. Len(w) : t[q + k] = w[0 + k]
    BY DEF Written, Holds
<1>3. m \in Nat /\ Len(t) \in Nat /\ q \in Nat
    BY <1>2 DEF Text
<1> HIDE DEF m
<1>4. t[q + 1] = open
    <2>1. 1 \in 1 .. Len(w) /\ 0 + 1 = 1
        BY <1>1, <1>3
    <2> QED
        BY <1>1, <1>2, <2>1
<1>5. t[((q + 1) + m) + 1] = close
    <2>1. m + 2 \in 1 .. Len(w) /\ 0 + (m + 2) = m + 2 /\ q + (m + 2) = ((q + 1) + m) + 1
        BY <1>1, <1>3
    <2> QED
        BY <1>1, <1>2, <2>1
<1>6. ASSUME NEW k \in 1 .. m PROVE t[(q + 1) + k] = body[0 + k]
    <2>1. k + 1 \in 1 .. Len(w) /\ 0 + (k + 1) = k + 1 /\ q + (k + 1) = (q + 1) + k /\ 0 + k = k
        BY <1>1, <1>3
    <2> QED
        BY <1>1, <1>2, <2>1
<1>7. /\ q < Len(t) /\ q + 1 \in 0 .. Len(t) /\ (q + 1) + m < Len(t) /\ (q + 1) + m <= Len(t)
      /\ q + Len(w) = ((q + 1) + m) + 1
    BY <1>1, <1>2, <1>3
<1> QED
    BY <1>2, <1>4, <1>5, <1>6, <1>7 DEF Holds, m

\* A value that is read starts before the end, and not with an "e".
LEMMA ValueStarts ==
    ASSUME NEW t \in Text, NEW q \in 0 .. Len(t), Value(t, q).st = "ok"
    PROVE  q < Len(t) /\ t[q + 1] # "e"
<1>1. Len(t) \in Nat /\ q \in Nat
    BY DEF Text
<1>2. Value(t, q) = DecodeValue(Parsed(t), t, q)
    BY ParsedIs DEF Value
<1>3. ~ (q >= Len(t))
    BY <1>2 DEF DecodeValue, Error
<1>4. t[q + 1] # "e"
    <2>1. SUFFICES ASSUME t[q + 1] = "e" PROVE FALSE
        OBVIOUS
    <2>2. t[q + 1] \notin DigitChars \cup {"i", "l", "d"}
        BY <2>1, DigitsAreNot
    <2>3. Value(t, q) = Error
        BY <1>2, <1>3, <2>2, ValueCases
    <2> QED
        BY <2>3 DEF Error
<1> QED
    BY <1>1, <1>3, <1>4

\* A list is read back when its items are.
LEMMA ListReread ==
    ASSUME NEW g, NEW n, Heap(g, n), NEW p \in DOMAIN g, GoodList(g, p),
           NEW t, NEW q, Written(Encode(g)[p], t, q),
           \A c \in Below(g, p) : \A u : Written(Encode(g)[c], t, u) => Reread(g, c, t, u)
    PROVE  Reread(g, p, t, q)
<1> DEFINE enc == Encode(g)
           w == enc[p]
           list == g[p].list
           m == Len(list)
           pieces == ListPieces(enc, list)
           flat == FlattenSeq(pieces)
           h == Read(t)
           b == Built(h)
           v == Value(t, q)
<1>1. /\ m \in Nat /\ DOMAIN list = 1 .. m /\ \A k \in 1 .. m : list[k] \in Below(g, p)
      /\ g[p].type = "list"
    <2>1. g[p].type = "list"
        BY DEF GoodList
    <2> QED
        BY <2>1, KidsAre
<1>2. w = EncodeNode(enc, g[p]) /\ \A c \in Below(g, p) : enc[c] \in Text
    BY EncodeIs
<1>3. EncodeNode(enc, g[p]) = EncodeList(enc, list)
    BY <1>1, EncodeCases
<1> HIDE DEF enc, w
<1>4. /\ pieces \in Seq(Text) /\ Len(pieces) = m
      /\ \A k \in 1 .. m : pieces[k] = enc[list[k]]
    BY <1>2, ListPiecesAre
<1>5. EncodeList(enc, list) = <<"l">> \o flat \o <<"e">>
    BY PiecesEncoded
<1> HIDE DEF pieces, list
<1>6. flat \in Text /\ \E at : Pieces(at, pieces, flat)
    BY <1>4, FlattenIs
<1>7. PICK a0 : Pieces(a0, pieces, flat)
    BY <1>6
<1> HIDE DEF flat
<1>8. Wraps(w, "l", flat, "e")
    <2>1. "l" \in Char /\ "e" \in Char
        BY DigitsAreNot
    <2>2. w = <<"l">> \o flat \o <<"e">>
        BY <1>2, <1>3, <1>5
    <2> QED
        BY <1>6, <2>1, <2>2, WrappedIs
<1>9. Written(w, t, q)
    BY DEF w, enc
<1>10. /\ t \in Text /\ Len(t) <= IntMax /\ q \in 0 .. Len(t) /\ q < Len(t) /\ t[q + 1] = "l"
       /\ q + 1 \in 0 .. Len(t) /\ Holds(t, q + 1, flat, 0, Len(flat))
       /\ (q + 1) + Len(flat) < Len(t) /\ t[((q + 1) + Len(flat)) + 1] = "e"
       /\ q + Len(w) = ((q + 1) + Len(flat)) + 1
    BY <1>6, <1>8, <1>9, WrapsWritten
<1> DEFINE at == [i \in 0 .. m |-> (q + 1) + a0[i]]
<1>11. /\ \A i \in 0 .. m : (q + 1) + a0[i] \in 0 .. Len(t)
       /\ \A i \in 1 .. m : Written(pieces[i], t, (q + 1) + a0[i - 1])
       /\ \A i \in 1 .. m : (q + 1) + a0[i] = ((q + 1) + a0[i - 1]) + Len(pieces[i])
    BY <1>4, <1>7, <1>10, PiecesWritten, SMTT(60)
<1>12. a0[0] = 0 /\ a0[m] = Len(flat)
    BY <1>4, <1>7 DEF Pieces
<1> HIDE DEF m
<1>13. \A i \in 0 .. m : at[i] = (q + 1) + a0[i] /\ at[i] \in 0 .. Len(t)
    BY <1>11
<1>14. at \in [0 .. m -> 0 .. Len(t)] /\ 0 \in 0 .. m /\ m \in 0 .. m
    BY <1>1, <1>11
<1> HIDE DEF at
<1>15. at[0] = q + 1 /\ at[m] = (q + 1) + Len(flat)
    <2>1. q \in Nat
        BY <1>10 DEF Text
    <2>2. at[0] = (q + 1) + a0[0] /\ at[m] = (q + 1) + a0[m]
        BY <1>13, <1>14
    <2> QED
        BY <1>12, <2>1, <2>2
<1>16. Follow(t, m, at)
    BY <1>1, <1>10, <1>14, <1>15 DEF Follow
<1>17. ASSUME NEW i \in 1 .. m
       PROVE  Reread(g, list[i], t, at[i - 1]) /\ Reaches(t, at[i - 1], at[i])
    <2>1. i - 1 \in 0 .. m /\ i \in 0 .. m
        BY <1>1
    <2>2. at[i - 1] = (q + 1) + a0[i - 1] /\ at[i] = (q + 1) + a0[i] /\ at[i - 1] \in 0 .. Len(t)
        BY <1>13, <2>1
    <2>3. pieces[i] = enc[list[i]] /\ list[i] \in Below(g, p)
        BY <1>1, <1>4
    <2>4. Written(enc[list[i]], t, at[i - 1]) /\ at[i] = at[i - 1] + Len(enc[list[i]])
        BY <1>11, <2>2, <2>3
    <2>5. Reread(g, list[i], t, at[i - 1])
        BY <2>3, <2>4 DEF enc
    <2>6. Value(t, at[i - 1]).st = "ok" /\ Value(t, at[i - 1]).pos = at[i]
        BY <2>4, <2>5 DEF Reread, enc
    <2>7. at[i - 1] < Len(t) /\ t[at[i - 1] + 1] # "e"
        BY <1>10, <2>2, <2>6, ValueStarts
    <2> QED
        BY <2>5, <2>6, <2>7 DEF Reaches
<1> DEFINE kids == From(at, 0, m)
<1>18. ItemsAt(t, at[0]) = Ok(ListNode(kids), at[m] + 1)
    BY <1>10, <1>16, <1>17, ItemsLoop
<1>19. Len(kids) = m /\ DOMAIN kids = 1 .. m /\ \A j \in 1 .. m : kids[j] = at[j - 1]
    <2>1. kids \in Seq(0 .. Len(t)) /\ Len(kids) = m - 0 /\ \A j \in 1 .. m - 0 : kids[j] = at[(0 + j) - 1]
        <3>1. PICK z \in 0 .. m : z = 0
            BY <1>14
        <3>2. /\ From(at, z, m) \in Seq(0 .. Len(t)) /\ Len(From(at, z, m)) = m - z
              /\ \A j \in 1 .. m - z : From(at, z, m)[j] = at[(z + j) - 1]
            <4>1. m \in Nat
                BY <1>1
            <4>2. at \in [0 .. m -> 0 .. Len(t)]
                BY <1>14
            <4> DEFINE S == 0 .. Len(t)
            <4> HIDE DEF S
            <4>3. at \in [0 .. m -> S]
                BY <4>2 DEF S
            <4>4. /\ From(at, z, m) \in Seq(S) /\ Len(From(at, z, m)) = m - z
                  /\ \A j \in 1 .. m - z : From(at, z, m)[j] = at[(z + j) - 1]
                BY <4>1, <4>3, FromIs, ZenonT(60)
            <4> QED
                BY <4>4 DEF S
        <3> QED
            BY <3>1, <3>2
    <2> HIDE DEF kids
    <2>2. m - 0 = m /\ \A j \in 1 .. m : (0 + j) - 1 = j - 1
        BY <1>1
    <2>3. DOMAIN kids = 1 .. Len(kids)
        BY <2>1
    <2> QED
        BY <2>1, <2>2, <2>3
<1> HIDE DEF kids
<1>20. v = ItemsAt(t, q + 1)
    <2>1. v = DecodeValue(Parsed(t), t, q)
        BY <1>10, ParsedIs DEF Value
    <2>2. ~ (q >= Len(t))
        BY <1>10 DEF Text
    <2> HIDE DEF v
    <2> QED
        BY <1>10, <2>1, <2>2, ValueCases DEF ItemsAt
<1> HIDE DEF v
<1>21. v.st = "ok" /\ v.pos = q + Len(w) /\ v.node = ListNode(kids)
    BY <1>10, <1>15, <1>18, <1>20, OkIs
<1>22. /\ Heap(h, Len(t)) /\ q \in DOMAIN h /\ h[q] = ListNode(kids)
       /\ Encode(h)[q] = EncodeNode(Encode(h), h[q])
       /\ Encode(b)[q] = EncodeNode(Encode(b), b[q])
    BY <1>10, <1>21, ReadIs DEF v
<1>23. h[q].type = "list" /\ h[q].list = kids /\ b[q] = h[q]
    <2>1. h[q].type = "list" /\ h[q].list = kids
        BY <1>22 DEF ListNode
    <2> HIDE DEF h
    <2> QED
        BY <1>22, <2>1, BuiltIs
<1>24. \A k \in 1 .. m : Reread(g, list[k], t, kids[k])
    BY <1>17, <1>19
<1>25. \A k \in 1 .. m : /\ Same(g, h)[<<list[k], kids[k]>>]
                         /\ Encode(h)[kids[k]] = enc[list[k]]
                         /\ Bare(g) => Encode(b)[kids[k]] = enc[list[k]]
    BY <1>24 DEF Reread, enc
<1> HIDE DEF h, b
<1>26. Same(g, h)[<<p, q>>]
    <2>1. Same(g, h)[<<p, q>>] = SameNode(Same(g, h), g[p], h[q])
        BY <1>22, SameIs
    <2>2. SameNode(Same(g, h), g[p], h[q]) <=>
             /\ Len(g[p].list) = Len(h[q].list)
             /\ \A k \in DOMAIN g[p].list : Same(g, h)[<<g[p].list[k], h[q].list[k]>>]
        BY <1>1, <1>23, SameCases
    <2>3. Len(list) = Len(kids) /\ \A k \in DOMAIN list : Same(g, h)[<<list[k], kids[k]>>]
        BY <1>1, <1>19, <1>25 DEF m
    <2> QED
        BY <1>23, <2>1, <2>2, <2>3 DEF list
<1>27. EncodeNode(Encode(h), h[q]) = EncodeNode(enc, g[p])
    <2>1. /\ h[q].type = g[p].type /\ DOMAIN h[q].list = DOMAIN g[p].list
          /\ \A k \in DOMAIN g[p].list : Encode(h)[h[q].list[k]] = enc[g[p].list[k]]
        BY <1>1, <1>19, <1>23, <1>25 DEF list
    <2> QED
        BY <1>2, <2>1, EncodeAgrees
<1>28. ASSUME Bare(g) PROVE EncodeNode(Encode(b), b[q]) = EncodeNode(enc, g[p])
    <2>1. /\ b[q].type = g[p].type /\ DOMAIN b[q].list = DOMAIN g[p].list
          /\ \A k \in DOMAIN g[p].list : Encode(b)[b[q].list[k]] = enc[g[p].list[k]]
        <3>1. \A k \in 1 .. m : Encode(b)[kids[k]] = enc[list[k]]
            BY <1>25, <1>28
        <3> QED
            BY <1>1, <1>19, <1>23, <3>1 DEF list
    <2> QED
        BY <1>2, <2>1, EncodeAgrees
<1>29. Encode(h)[q] = w /\ (Bare(g) => Encode(b)[q] = w)
    BY <1>2, <1>22, <1>27, <1>28
<1> QED
    BY <1>21, <1>26, <1>29 DEF Reread, w, enc, h, b, v

\* Where a is written with b behind it, both are written.
LEMMA ConcatsWritten ==
    ASSUME NEW w, NEW a \in Text, NEW b \in Text, Concats(w, a, b), NEW t, NEW q, Written(w, t, q)
    PROVE  /\ Written(a, t, q) /\ Written(b, t, q + Len(a))
           /\ q + Len(w) = (q + Len(a)) + Len(b)
<1> DEFINE i == Len(a)
           j == Len(b)
<1>1. /\ w \in Text /\ Len(w) = i + j /\ i \in Nat /\ j \in Nat
      /\ \A k \in 1 .. i : w[k] = a[k]
      /\ \A k \in 1 .. j : w[i + k] = b[k]
    BY DEF Concats
<1>2. /\ t \in Text /\ Len(t) <= IntMax /\ q \in 0 .. Len(t) /\ q + Len(w) <= Len(t)
      /\ \A k \in 1 .. Len(w) : t[q + k] = w[0 + k]
    BY DEF Written, Holds
<1>3. Len(t) \in Nat /\ q \in Nat
    BY <1>2 DEF Text
<1> HIDE DEF i, j
<1>4. ASSUME NEW k \in 1 .. i PROVE t[q + k] = a[0 + k]
    <2>1. k \in 1 .. Len(w) /\ 0 + k = k
        BY <1>1
    <2> QED
        BY <1>1, <1>2, <2>1
<1>5. ASSUME NEW k \in 1 .. j PROVE t[(q + i) + k] = b[0 + k]
    <2>1. i + k \in 1 .. Len(w) /\ 0 + k = k /\ 0 + (i + k) = i + k /\ q + (i + k) = (q + i) + k
        BY <1>1, <1>3
    <2> QED
        BY <1>1, <1>2, <2>1
<1>6. /\ q + i <= Len(t) /\ q + i \in 0 .. Len(t) /\ (q + i) + j <= Len(t)
      /\ q + Len(w) = (q + i) + j
    BY <1>1, <1>2, <1>3
<1> QED
    BY <1>2, <1>4, <1>5, <1>6 DEF Written, Holds, i, j

\* A key is read back.
LEMMA KeyWritten ==
    ASSUME NEW str \in Strings, NEW t, NEW q, Written(EncodeString(str), t, q)
    PROVE  KeyReads(t, q, str, q + Len(EncodeString(str)))
<1> DEFINE w == EncodeString(str)
           node == [type |-> "str", str |-> str, raw |-> w]
           r == ParseString(w, 0)
<1>1. /\ w \in Text /\ w # <<>> /\ w[1] \in DigitChars
      /\ Len(w) <= IntMax => r = Ok(node, Len(w))
    BY StringReads
<1> HIDE DEF w
<1>2. /\ t \in Text /\ Len(t) <= IntMax /\ q \in 0 .. Len(t) /\ q + Len(w) <= Len(t)
      /\ \A k \in 1 .. Len(w) : t[q + k] = w[0 + k]
      /\ Holds(t, q, w, 0, Len(w))
    BY DEF Written, Holds, w
<1>3. Len(t) \in Nat /\ q \in Nat /\ IntMax \in Nat /\ Len(w) \in Nat \ {0}
    BY <1>1, <1>2, BencodeAssumption, EmptySeq DEF Text
<1>4. Len(w) <= IntMax /\ 0 \in 0 .. Len(w) /\ 1 \in 1 .. Len(w) /\ q < Len(t)
    BY <1>2, <1>3
<1>5. r = Ok(node, Len(w))
    BY <1>1, <1>4
<1> HIDE DEF node
<1>6. r.st = "ok" /\ r.node = node /\ r.pos = Len(w) /\ Len(w) = r.pos - 0
    BY <1>3, <1>5, OkIs
<1>7. r = ParseString(w, 0)
    OBVIOUS
<1> HIDE DEF r
<1>8. ParseString(t, q) = Ok(node, q + Len(w))
    BY <1>1, <1>2, <1>4, <1>6, <1>7, StringMoves
<1>9. ParseString(t, q).st = "ok" /\ ParseString(t, q).pos = q + Len(w) /\ ParseString(t, q).node = node
    BY <1>8, OkIs
<1>10. node.str = str
    BY DEF node
<1>11. t[q + 1] # "e"
    <2>1. t[q + 1] = w[1] /\ 0 + 1 = 1
        BY <1>2, <1>4
    <2> QED
        BY <1>1, <2>1, DigitsAreNot
<1> QED
    BY <1>4, <1>9, <1>10, <1>11 DEF KeyReads, w

\* A dictionary is read back when its values are.
LEMMA DictReread ==
    ASSUME NEW g, NEW n, Heap(g, n), NEW p \in DOMAIN g, GoodDict(g, p),
           NEW t, NEW q, Written(Encode(g)[p], t, q),
           \A c \in Below(g, p) : \A u : Written(Encode(g)[c], t, u) => Reread(g, c, t, u)
    PROVE  Reread(g, p, t, q)
<1> DEFINE enc == Encode(g)
           w == enc[p]
           dict == g[p].dict
           keys == SortedKeys(dict)
           m == Len(keys)
           pieces == DictPieces(enc, dict)
           flat == FlattenSeq(pieces)
           h == Read(t)
           b == Built(h)
           v == Value(t, q)
<1>1. /\ g[p].type = "dict" /\ IsFiniteSet(DOMAIN dict) /\ DOMAIN dict \subseteq Text
      /\ dict = g[p].dict /\ keys = SortedKeys(dict)
    BY DEF GoodDict, Strings
<1>2. w = EncodeNode(enc, g[p]) /\ \A c \in Below(g, p) : enc[c] \in Text
    BY EncodeIs
<1>3. EncodeNode(enc, g[p]) = EncodeDict(enc, dict)
    BY <1>1, EncodeCases
<1> HIDE DEF enc, w, dict, keys
<1> HIDE DEF m, pieces
<1>4. dict = g[p].dict
    BY <1>1
<1>5. keys = SortedKeys(dict)
    BY <1>1
<1>6. IsFiniteSet(DOMAIN dict)
    BY <1>1
<1>7. DOMAIN dict \subseteq Text
    BY <1>1
<1>8. \A c \in Below(g, p) : enc[c] \in Text
    BY <1>2
<1>9. /\ keys \in Seq(DOMAIN dict) /\ pieces \in Seq(Text) /\ Len(pieces) = m
      /\ \A k \in 1 .. m :
            /\ pieces[k] = EncodeString(keys[k]) \o enc[dict[keys[k]]]
            /\ keys[k] \in DOMAIN dict /\ keys[k] \in Strings /\ dict[keys[k]] \in Below(g, p)
            /\ EncodeString(keys[k]) \in Text /\ enc[dict[keys[k]]] \in Text
    <2>1. Keyed(g, p, enc, dict, keys)
        BY <1>4, <1>5, <1>8, DictPiecesAre
    <2> QED
        BY <2>1 DEF Keyed, m, pieces
<1>10. /\ \A i, j \in 1 .. m : keys[i] = keys[j] => i = j
      /\ \A k \in DOMAIN dict : \E i \in 1 .. m : keys[i] = k
    BY <1>5, <1>6, <1>7, SortedKeysAre DEF m
<1>11. EncodeDict(enc, dict) = <<"d">> \o flat \o <<"e">>
    BY PiecesEncoded DEF pieces
<1>12. m \in Nat
    BY <1>9 DEF m
<1>13. flat \in Text /\ \E at : Pieces(at, pieces, flat)
    BY <1>9, FlattenIs
<1>14. PICK a0 : Pieces(a0, pieces, flat)
    BY <1>13
<1> HIDE DEF flat
<1>15. Wraps(w, "d", flat, "e")
    <2>1. "d" \in Char /\ "e" \in Char
        BY DigitsAreNot
    <2>2. w = <<"d">> \o flat \o <<"e">>
        BY <1>2, <1>3, <1>11
    <2> QED
        BY <1>13, <2>1, <2>2, WrappedIs
<1>16. Written(w, t, q)
    BY DEF w, enc
<1>17. /\ t \in Text /\ Len(t) <= IntMax /\ q \in 0 .. Len(t) /\ q < Len(t) /\ t[q + 1] = "d"
       /\ q + 1 \in 0 .. Len(t) /\ Holds(t, q + 1, flat, 0, Len(flat))
       /\ (q + 1) + Len(flat) < Len(t) /\ t[((q + 1) + Len(flat)) + 1] = "e"
       /\ q + Len(w) = ((q + 1) + Len(flat)) + 1
    BY <1>13, <1>15, <1>16, WrapsWritten
<1> DEFINE at == [i \in 0 .. m |-> (q + 1) + a0[i]]
           mid == [i \in 1 .. m |-> at[i - 1] + Len(EncodeString(keys[i]))]
<1>18. /\ \A i \in 0 .. m : (q + 1) + a0[i] \in 0 .. Len(t)
       /\ \A i \in 1 .. m : Written(pieces[i], t, (q + 1) + a0[i - 1])
       /\ \A i \in 1 .. m : (q + 1) + a0[i] = ((q + 1) + a0[i - 1]) + Len(pieces[i])
    <2>1. pieces \in Seq(Text)
        BY <1>9
    <2>2. t \in Text
        BY <1>17
    <2>3. Len(t) <= IntMax
        BY <1>17
    <2>4. q + 1 \in 0 .. Len(t)
        BY <1>17
    <2>5. Holds(t, q + 1, flat, 0, Len(flat))
        BY <1>17
    <2>6. /\ \A i \in 0 .. Len(pieces) : (q + 1) + a0[i] \in 0 .. Len(t)
          /\ \A i \in 1 .. Len(pieces) : Written(pieces[i], t, (q + 1) + a0[i - 1])
          /\ \A i \in 1 .. Len(pieces) :
                (q + 1) + a0[i] = ((q + 1) + a0[i - 1]) + Len(pieces[i])
        BY <1>13, <1>14, <2>1, <2>2, <2>3, <2>4, <2>5, PiecesWritten
    <2>7. Len(pieces) = m
        BY <1>9
    <2> QED
        BY <2>6, <2>7
<1>19. a0[0] = 0 /\ a0[m] = Len(flat)
    BY <1>9, <1>14 DEF Pieces
<1>20. \A i \in 0 .. m : at[i] = (q + 1) + a0[i] /\ at[i] \in 0 .. Len(t)
    BY <1>18
<1>21. at \in [0 .. m -> 0 .. Len(t)] /\ 0 \in 0 .. m /\ m \in 0 .. m
    BY <1>12, <1>18
<1> HIDE DEF at
<1>22. \A i \in 1 .. m : mid[i] = at[i - 1] + Len(EncodeString(keys[i]))
    OBVIOUS
<1> HIDE DEF mid
<1>23. at[0] = q + 1 /\ at[m] = (q + 1) + Len(flat)
    <2>1. q \in Nat
        BY <1>17 DEF Text
    <2>2. at[0] = (q + 1) + a0[0] /\ at[m] = (q + 1) + a0[m]
        BY <1>20, <1>21
    <2> QED
        BY <1>19, <2>1, <2>2
<1>24. Follow(t, m, at)
    BY <1>12, <1>17, <1>21, <1>23 DEF Follow
<1>25. ASSUME NEW i \in 1 .. m
       PROVE  /\ KeyReads(t, at[i - 1], keys[i], mid[i])
              /\ Reread(g, dict[keys[i]], t, mid[i])
              /\ Value(t, mid[i]).st = "ok" /\ Value(t, mid[i]).pos = at[i]
    <2> DEFINE x == EncodeString(keys[i])
               c == dict[keys[i]]
               y == enc[c]
    <2>1. i - 1 \in 0 .. m /\ i \in 0 .. m
        BY <1>12
    <2>2. at[i - 1] = (q + 1) + a0[i - 1] /\ at[i] = (q + 1) + a0[i] /\ at[i - 1] \in 0 .. Len(t)
        BY <1>20, <2>1
    <2>3. pieces[i] = x \o y /\ x \in Text /\ y \in Text /\ c \in Below(g, p) /\ keys[i] \in Strings
        BY <1>9
    <2>4. Written(pieces[i], t, at[i - 1]) /\ at[i] = at[i - 1] + Len(pieces[i])
        BY <1>18, <2>2
    <2>5. Concats(pieces[i], x, y)
        <3> HIDE DEF x, y
        <3> QED
            BY <2>3, JoinedIs
    <2>6. mid[i] = at[i - 1] + Len(x)
        BY <1>22
    <2>7. Written(x, t, at[i - 1]) /\ Written(y, t, mid[i]) /\ at[i] = mid[i] + Len(y)
        <3> HIDE DEF x, y
        <3>1. /\ Written(x, t, at[i - 1]) /\ Written(y, t, at[i - 1] + Len(x))
              /\ at[i - 1] + Len(pieces[i]) = (at[i - 1] + Len(x)) + Len(y)
            <4>1. x \in Text
                BY <2>3
            <4>2. y \in Text
                BY <2>3
            <4>3. Written(pieces[i], t, at[i - 1])
                BY <2>4
            <4> QED
                BY <2>5, <4>1, <4>2, <4>3, ConcatsWritten
        <3> QED
            BY <2>4, <2>6, <3>1
    <2>8. KeyReads(t, at[i - 1], keys[i], mid[i])
        BY <2>3, <2>6, <2>7, KeyWritten
    <2>9. Reread(g, c, t, mid[i])
        BY <2>3, <2>7 DEF enc
    <2>10. Value(t, mid[i]).st = "ok" /\ Value(t, mid[i]).pos = at[i]
        BY <2>7, <2>9 DEF Reread, enc
    <2> QED
        BY <2>8, <2>9, <2>10
<1>26. Paired(PairsAt(t, at[0]), keys, mid, 0, m, at[m] + 1)
    BY <1>10, <1>17, <1>24, <1>25, PairsLoop
<1>27. v = PairsAt(t, q + 1)
    <2>1. v = DecodeValue(Parsed(t), t, q)
        BY <1>17, ParsedIs DEF Value
    <2>2. ~ (q >= Len(t))
        BY <1>17 DEF Text
    <2> HIDE DEF v
    <2> QED
        BY <1>17, <2>1, <2>2, ValueCases DEF PairsAt
<1> HIDE DEF v
<1> DEFINE kids == v.node.dict
<1>28. /\ v.st = "ok" /\ v.pos = q + Len(w) /\ v.node.type = "dict"
       /\ DOMAIN kids = {keys[j] : j \in 0 + 1 .. m}
       /\ \A j \in 0 + 1 .. m : kids[keys[j]] = mid[j]
    BY <1>17, <1>23, <1>26, <1>27 DEF Paired
<1>29. DOMAIN kids = DOMAIN dict /\ \A k \in DOMAIN dict : Reread(g, dict[k], t, kids[k])
    <2>1. 0 + 1 = 1
        OBVIOUS
    <2> HIDE DEF kids
    <2>2. DOMAIN kids = DOMAIN dict
        <3>1. DOMAIN kids = {keys[j] : j \in 1 .. m}
            BY <1>28, <2>1
        <3>2. \A j \in 1 .. m : keys[j] \in DOMAIN dict
            BY <1>9
        <3> QED
            BY <1>10, <3>1, <3>2
    <2>3. ASSUME NEW k \in DOMAIN dict PROVE Reread(g, dict[k], t, kids[k])
        <3>1. PICK j \in 1 .. m : keys[j] = k
            BY <1>10
        <3>2. kids[k] = mid[j]
            BY <1>28, <2>1, <3>1
        <3> QED
            BY <1>25, <3>1, <3>2
    <2> QED
        BY <2>2, <2>3
<1>30. /\ Heap(h, Len(t)) /\ q \in DOMAIN h /\ h[q] = v.node
       /\ Encode(h)[q] = EncodeNode(Encode(h), h[q])
       /\ Encode(b)[q] = EncodeNode(Encode(b), b[q])
    BY <1>17, <1>28, ReadIs DEF v
<1>31. h[q].type = "dict" /\ h[q].dict = kids /\ b[q] = h[q]
    <2>1. h[q].type = "dict" /\ h[q].dict = kids
        BY <1>28, <1>30
    <2> HIDE DEF h
    <2> QED
        BY <1>30, <2>1, BuiltIs
<1> HIDE DEF kids
<1>32. \A k \in DOMAIN dict : /\ Same(g, h)[<<dict[k], kids[k]>>]
                              /\ Encode(h)[kids[k]] = enc[dict[k]]
                              /\ Bare(g) => Encode(b)[kids[k]] = enc[dict[k]]
    BY <1>29 DEF Reread, enc
<1> HIDE DEF h, b
<1>33. Same(g, h)[<<p, q>>]
    <2>1. Same(g, h)[<<p, q>>] = SameNode(Same(g, h), g[p], h[q])
        BY <1>30, SameIs
    <2>2. SameNode(Same(g, h), g[p], h[q]) <=>
             /\ DOMAIN g[p].dict = DOMAIN h[q].dict
             /\ \A k \in DOMAIN g[p].dict : Same(g, h)[<<g[p].dict[k], h[q].dict[k]>>]
        BY <1>1, <1>31, SameCases
    <2> QED
        BY <1>1, <1>29, <1>31, <1>32, <2>1, <2>2
<1>34. EncodeNode(Encode(h), h[q]) = EncodeNode(enc, g[p])
    <2>1. /\ h[q].type = g[p].type /\ DOMAIN h[q].dict = DOMAIN g[p].dict
          /\ \A k \in DOMAIN g[p].dict : Encode(h)[h[q].dict[k]] = enc[g[p].dict[k]]
        BY <1>1, <1>29, <1>31, <1>32
    <2> QED
        BY <1>2, <2>1, EncodeAgrees
<1>35. ASSUME Bare(g) PROVE EncodeNode(Encode(b), b[q]) = EncodeNode(enc, g[p])
    <2>1. \A k \in DOMAIN dict : Encode(b)[kids[k]] = enc[dict[k]]
        BY <1>32, <1>35
    <2>2. /\ b[q].type = g[p].type /\ DOMAIN b[q].dict = DOMAIN g[p].dict
          /\ \A k \in DOMAIN g[p].dict : Encode(b)[b[q].dict[k]] = enc[g[p].dict[k]]
        BY <1>1, <1>29, <1>31, <2>1
    <2> QED
        BY <1>2, <2>2, EncodeAgrees
<1>36. Encode(h)[q] = w /\ (Bare(g) => Encode(b)[q] = w)
    BY <1>2, <1>30, <1>34, <1>35
<1> QED
    BY <1>28, <1>33, <1>36 DEF Reread, w, enc, h, b, v

\* Wherever it is written, and whatever is around it.
LEMMA EverythingReread ==
    ASSUME NEW g, NEW n, Heap(g, n)
    PROVE  \A p \in DOMAIN g : \A t, q : Written(Encode(g)[p], t, q) => Reread(g, p, t, q)
<1> DEFINE X == DOMAIN g
           mu == [p \in X |-> n - p]
           T == {p \in X : \A t, q : Written(Encode(g)[p], t, q) => Reread(g, p, t, q)}
<1>1. n \in Nat /\ \A p \in X : p \in 0 .. n
    BY DEF Heap
<1>2. mu \in [X -> Nat]
    BY <1>1
<1>3. T \in SUBSET X
    OBVIOUS
<1>4. ASSUME NEW p \in X, \A y \in X : mu[y] < mu[p] => y \in T PROVE p \in T
    <2>1. \A c \in Below(g, p) : c \in X /\ mu[c] < mu[p]
        BY <1>1 DEF Below
    <2>2. \A c \in Below(g, p) : \A t, q : Written(Encode(g)[c], t, q) => Reread(g, c, t, q)
        BY <1>4, <2>1
    <2>3. SUFFICES ASSUME NEW t, NEW q, Written(Encode(g)[p], t, q) PROVE Reread(g, p, t, q)
        OBVIOUS
    <2>4. GoodLeaf(g[p]) \/ GoodList(g, p) \/ GoodDict(g, p)
        BY DEF Heap
    <2>5. \A c \in Below(g, p) : \A u : Written(Encode(g)[c], t, u) => Reread(g, c, t, u)
        BY <2>2
    <2> HIDE DEF mu, T
    <2> QED
        BY <2>3, <2>4, <2>5, LeafReread, ListReread, DictReread
<1>5. X = T
    <2> HIDE DEF X, mu, T
    <2>1. \A x \in X : (\A y \in X : mu[y] < mu[x] => y \in T) => x \in T
        BY <1>4
    <2> QED
        BY <1>2, <1>3, <2>1, MeasureInduction
<1> QED
    BY <1>5

-----------------------------------------------------------------------------
(***************************************************************************)
(* What was decoded is encoded in no more characters than it was decoded   *)
(* from, so the encoding of an input is short enough to be an input.       *)
(***************************************************************************)
Without(seqs, i) == [j \in 1 .. Len(seqs) - 1 |-> seqs[IF j < i THEN j ELSE j + 1]]
Lacks(less, seqs, i) ==
    \A j \in 1 .. Len(seqs) - 1 : less[j] = IF j < i THEN seqs[j] ELSE seqs[j + 1]

\* A sequence without its i-th element.
LEMMA WithoutIs ==
    ASSUME NEW S, NEW seqs \in Seq(S), NEW i \in 1 .. Len(seqs), NEW less, less = Without(seqs, i)
    PROVE  /\ less \in Seq(S) /\ Len(less) = Len(seqs) - 1 /\ Len(seqs) \in Nat \ {0}
           /\ Lacks(less, seqs, i)
<1> DEFINE n == Len(seqs)
<1>1. n \in Nat /\ n - 1 \in Nat /\ n # 0
    OBVIOUS
<1>2. \A j \in 1 .. n : seqs[j] \in S
    OBVIOUS
<1>3. less = [j \in 1 .. n - 1 |-> seqs[IF j < i THEN j ELSE j + 1]]
    BY DEF Without
<1> HIDE DEF n
<1>4. \A j \in 1 .. n - 1 : less[j] = IF j < i THEN seqs[j] ELSE seqs[j + 1]
    BY <1>3
<1>5. \A j \in 1 .. n - 1 : less[j] \in S
    BY <1>1, <1>2, <1>4
<1>6. less \in [1 .. n - 1 -> S]
    BY <1>3, <1>5
<1>7. less \in Seq(S) /\ Len(less) = n - 1
    BY <1>1, <1>6
<1> QED
    BY <1>1, <1>4, <1>7 DEF n, Lacks

\* Joined without one of its pieces, it is shorter by that piece.
LEMMA FlattenWithout ==
    ASSUME NEW seqs \in Seq(Text), NEW i \in 1 .. Len(seqs), NEW less, less = Without(seqs, i)
    PROVE  /\ less \in Seq(Text) /\ seqs[i] \in Text
           /\ Len(FlattenSeq(seqs)) = Len(seqs[i]) + Len(FlattenSeq(less))
<1> DEFINE n == Len(seqs)
           x == Len(seqs[i])
<1>1. /\ less \in Seq(Text) /\ Len(less) = n - 1 /\ n \in Nat \ {0} /\ i \in 1 .. n
      /\ \A j \in 1 .. n - 1 : less[j] = IF j < i THEN seqs[j] ELSE seqs[j + 1]
    BY WithoutIs, SMTT(60) DEF Lacks
<1>2. \A j \in 1 .. n : seqs[j] \in Text
    OBVIOUS
<1>3. \A j \in 1 .. n : Len(seqs[j]) \in Nat
    BY <1>2 DEF Text
<1>4. PICK at : Pieces(at, seqs, FlattenSeq(seqs))
    BY FlattenIs
<1>5. PICK to : Pieces(to, less, FlattenSeq(less))
    BY <1>1, FlattenIs
<1>6. /\ at \in [0 .. n -> Nat] /\ at[0] = 0 /\ at[n] = Len(FlattenSeq(seqs))
      /\ \A j \in 1 .. n : at[j] = at[j - 1] + Len(seqs[j])
    BY <1>4 DEF Pieces
<1>7. /\ to \in [0 .. n - 1 -> Nat] /\ to[0] = 0 /\ to[n - 1] = Len(FlattenSeq(less))
      /\ \A j \in 1 .. n - 1 : to[j] = to[j - 1] + Len(less[j])
    BY <1>1, <1>5 DEF Pieces
<1> DEFINE T == {j \in Nat : j <= n - 1 => IF j < i THEN to[j] = at[j] ELSE at[j + 1] = to[j] + x}
<1> HIDE DEF n, x
<1>8. 0 \in T
    BY <1>1, <1>6, <1>7
<1>9. ASSUME NEW j \in T PROVE j + 1 \in T
    <2>1. SUFFICES ASSUME j + 1 <= n - 1
                   PROVE  IF j + 1 < i THEN to[j + 1] = at[j + 1] ELSE at[(j + 1) + 1] = to[j + 1] + x
        OBVIOUS
    <2>2. /\ j \in Nat /\ j + 1 \in 1 .. n - 1 /\ j + 1 \in 1 .. n /\ j + 2 \in 1 .. n
          /\ (j + 1) - 1 = j /\ (j + 2) - 1 = j + 1 /\ (j + 1) + 1 = j + 2 /\ j \in 0 .. n - 1
          /\ j + 1 \in 0 .. n - 1 /\ j + 1 \in 0 .. n /\ j + 2 \in 0 .. n /\ j \in 0 .. n
        BY <1>1, <2>1
    <2>3. to[j + 1] = to[j] + Len(less[j + 1])
        BY <1>7, <2>2
    <2>4. at[j + 1] = at[j] + Len(seqs[j + 1]) /\ at[j + 2] = at[j + 1] + Len(seqs[j + 2])
        BY <1>6, <2>2
    <2>5. Len(seqs[j + 1]) \in Nat /\ Len(seqs[j + 2]) \in Nat
        BY <1>3, <2>2 DEF n
    <2>6. to[j] \in Nat /\ at[j] \in Nat /\ at[j + 1] \in Nat
        BY <1>6, <1>7, <2>2
    <2>7. IF j < i THEN to[j] = at[j] ELSE at[j + 1] = to[j] + x
        BY <2>1, <2>2
    <2>8. CASE j + 1 < i
        <3>1. less[j + 1] = seqs[j + 1]
            BY <1>1, <2>2, <2>8
        <3>2. to[j] = at[j]
            BY <1>1, <2>2, <2>7, <2>8
        <3> QED
            BY <2>3, <2>4, <2>8, <3>1, <3>2
    <2>9. CASE ~ (j + 1 < i)
        <3>1. less[j + 1] = seqs[j + 2]
            BY <1>1, <2>2, <2>9
        <3>2. at[j + 1] = to[j] + x
            <4>1. CASE j < i
                <5>1. j + 1 = i
                    BY <1>1, <2>2, <2>9, <4>1
                <5>2. to[j] = at[j]
                    BY <2>7, <4>1
                <5> QED
                    BY <2>4, <5>1, <5>2 DEF x
            <4>2. CASE ~ (j < i)
                BY <2>7, <4>2
            <4> QED
                BY <4>1, <4>2
        <3>3. x \in Nat
            BY <1>1, <1>3 DEF n, x
        <3> QED
            BY <2>2, <2>3, <2>4, <2>5, <2>6, <2>9, <3>1, <3>2, <3>3
    <2> QED
        BY <2>8, <2>9
<1>10. n - 1 \in T
    <2> HIDE DEF T
    <2>1. T \in SUBSET Nat
        BY DEF T
    <2>2. \A j \in Nat : j \in T
        BY <1>8, <1>9, <2>1, SetInduction
    <2> QED
        BY <1>1, <2>2
<1>11. (n - 1) + 1 = n /\ n - 1 <= n - 1
    BY <1>1
<1>12. CASE n - 1 < i
    <2>1. n = i
        BY <1>1, <1>12
    <2>2. to[n - 1] = at[n - 1]
        BY <1>10, <1>11, <1>12
    <2>3. at[n] = at[n - 1] + x /\ at[n - 1] \in Nat /\ x \in Nat
        BY <1>1, <1>3, <1>6, <2>1 DEF x, n
    <2> QED
        BY <1>1, <1>2, <1>6, <1>7, <2>2, <2>3 DEF n, x
<1>13. CASE ~ (n - 1 < i)
    <2>1. at[n] = to[n - 1] + x
        BY <1>10, <1>11, <1>13
    <2>2. to[n - 1] \in Nat /\ x \in Nat
        BY <1>1, <1>3, <1>7 DEF x, n
    <2> QED
        BY <1>1, <1>2, <1>6, <1>7, <2>1, <2>2 DEF n, x
<1> QED
    BY <1>12, <1>13

\* A number is written as short as it can be, so a leaf that is built from what was
\* decoded takes no more room than the leaf that was read.
LEMMA IntFits ==
    ASSUME NEW s \in Text, NEW p \in 0 .. Len(s) - 1, NEW r, r = ParseInt(s, p), r.st = "ok"
    PROVE  Len(EncodeInt(r.node.int)) <= r.pos - p
<1>1. Len(s) \in Nat /\ p \in Nat
    BY DEF Text
<1>2. PICK e \in p + 2 .. Len(s) : /\ NumberOf(SubSeq(s, p + 2, e - 1)) # None
                                   /\ r = Ok(IntAt(s, p, e), e)
    BY IntIs
<1> DEFINE text == SubSeq(s, p + 2, e - 1)
           n == NumberOf(text)
<1>3. r.pos = e /\ r.node.int = n
    BY <1>2, OkIs DEF IntAt
<1>4. text \in Text /\ Len(text) = (e - 1) - (p + 1)
    <2>1. p + 1 \in 0 .. Len(s) /\ e - 1 \in p + 1 .. Len(s) /\ (p + 1) + 1 = p + 2
        BY <1>1
    <2> QED
        BY <2>1, SubSeqIs
<1>5. n # None
    BY <1>2
<1> HIDE DEF text
<1>6. Len(FormatInt(n)) <= Len(text)
    BY <1>4, <1>5, FormatShortest
<1>7. n \in Numbers
    BY <1>4, <1>5, NumberIs
<1> HIDE DEF n
<1>8. Len(EncodeInt(n)) = Len(FormatInt(n)) + 2
    BY <1>7, IntReads
<1>9. FormatInt(n) \in Text
    BY <1>7, Formatted
<1>10. Len(FormatInt(n)) \in Nat
    BY <1>9 DEF Text
<1> QED
    BY <1>1, <1>3, <1>4, <1>6, <1>8, <1>10

\* The same for a string.
LEMMA StringFits ==
    ASSUME NEW s \in Text, NEW p \in 0 .. Len(s), NEW r, r = ParseString(s, p), r.st = "ok"
    PROVE  Len(EncodeString(r.node.str)) <= r.pos - p
<1>1. Len(s) \in Nat /\ p \in Nat /\ IntMax \in Nat /\ None \notin Int
    BY BencodeAssumption DEF Text
<1>2. PICK colon \in p + 1 .. Len(s), n \in 0 .. IntMax :
          /\ n = NumberOf(SubSeq(s, p + 1, colon - 1)) /\ colon + n \in p + 1 .. Len(s)
          /\ r = Ok(StrAt(s, p, colon, n), colon + n)
    BY StringIs
<1> DEFINE text == SubSeq(s, p + 1, colon - 1)
           str == SubSeq(s, colon + 1, colon + n)
           f == FormatInt(n)
<1>3. r.pos = colon + n /\ r.node.str = str
    <2>1. r.pos = colon + n /\ r.node = StrAt(s, p, colon, n)
        BY <1>2, OkIs
    <2> QED
        BY <2>1, SMTT(60) DEF StrAt
<1>4. text \in Text /\ Len(text) = (colon - 1) - p
    <2>1. colon - 1 \in p .. Len(s)
        BY <1>1
    <2> QED
        BY <2>1, SubSeqIs
<1>5. str \in Text /\ Len(str) = n
    <2>1. colon \in 0 .. Len(s) /\ colon + n \in colon .. Len(s) /\ (colon + n) - colon = n
        BY <1>1, <1>2
    <2> QED
        BY <2>1, SubSeqIs
<1>6. n = NumberOf(text) /\ n # None
    BY <1>1, <1>2
<1> HIDE DEF text, str
<1>7. Len(FormatInt(NumberOf(text))) <= Len(text) /\ NumberOf(text) \in Numbers
    BY <1>4, <1>6, FormatShortest, NumberIs
<1>8. FormatInt(n) \in Text
    BY <1>6, <1>7, Formatted
<1>9. Len(f) <= (colon - 1) - p /\ f \in Text
    BY <1>4, <1>6, <1>7, <1>8
<1>10. EncodeString(str) = f \o <<":">> \o str
    BY <1>5 DEF EncodeString
<1> HIDE DEF f
<1>11. ":" \in Char
    BY BencodeAssumption
<1>12. <<":">> \in Text /\ Len(<<":">>) = 1
    BY <1>11, SingleIs
<1>13. f \o <<":">> \in Text /\ Len(f \o <<":">>) = Len(f) + 1 /\ Len(f) \in Nat
    BY <1>9, <1>12, Joined
<1>14. Len((f \o <<":">>) \o str) = (Len(f) + 1) + n
    <2> DEFINE fz == f \o <<":">>
    <2>1. fz \in Text /\ Len(fz) = Len(f) + 1
        BY <1>13
    <2> HIDE DEF fz
    <2>2. Len(fz \o str) = Len(fz) + Len(str)
        BY <1>5, <2>1, Joined
    <2> QED
        BY <1>5, <2>1, <2>2 DEF fz
<1> QED
    BY <1>1, <1>3, <1>9, <1>10, <1>13, <1>14

\* The encoding of a leaf fits where the leaf was read.
LEMMA LeafFits ==
    ASSUME NEW s \in Text, NEW p \in 0 .. Len(s), IsLeaf(s, p), NEW r, r = LeafAt(s, p), r.st = "ok",
           NEW a, a = r.node \/ a = With(r.node, <<>>), NEW enc
    PROVE  Len(EncodeNode(enc, a)) <= r.pos - p
<1>1. Len(s) \in Nat /\ p \in Nat /\ p \in 0 .. Len(s) - 1
    BY DEF Text, IsLeaf
<1>2. r.node \in IntNodes \cup StrNodes /\ r.pos \in p + 1 .. Len(s)
    BY LeafIs, OksAre
<1>3. /\ a.type = r.node.type /\ a.type \in {"int", "str"} /\ (a.raw = r.node.raw \/ a.raw = <<>>)
      /\ a.type = "int" => a.int = r.node.int
      /\ a.type = "str" => a.str = r.node.str
    BY <1>2 DEF With, IntNodes, StrNodes
<1>4. CASE a.raw # <<>>
    <2>1. EncodeNode(enc, a) = a.raw
        BY <1>3, <1>4, EncodeCases
    <2>2. a.raw = SubSeq(s, p + 1, r.pos)
        BY <1>3, <1>4, LeafRaw
    <2>3. r.pos \in p .. Len(s)
        BY <1>1, <1>2
    <2>4. Len(SubSeq(s, p + 1, r.pos)) = r.pos - p
        BY <2>3, SubSeqIs
    <2> QED
        BY <1>1, <1>2, <2>1, <2>2, <2>4
<1>5. CASE a.raw = <<>> /\ a.type = "int"
    <2>1. EncodeNode(enc, a) = EncodeInt(r.node.int)
        BY <1>3, <1>5, EncodeCases
    <2>2. r = ParseInt(s, p)
        <3>1. CASE s[p + 1] = "i"
            BY <3>1 DEF LeafAt
        <3>2. CASE s[p + 1] # "i"
            <4>1. r = ParseString(s, p)
                BY <3>2 DEF LeafAt
            <4>2. r \in Failures \cup Oks(StrNodes, p + 1, Len(s))
                BY <4>1, StringTyped
            <4>3. r.node \in StrNodes
                BY <4>2, OksAre
            <4> QED
                BY <1>3, <1>5, <4>3 DEF StrNodes
        <3> QED
            BY <3>1, <3>2
    <2> QED
        BY <1>1, <2>1, <2>2, IntFits
<1>6. CASE a.raw = <<>> /\ a.type = "str"
    <2>1. EncodeNode(enc, a) = EncodeString(r.node.str)
        BY <1>3, <1>6, EncodeCases
    <2>2. r = ParseString(s, p)
        <3>1. CASE s[p + 1] # "i"
            BY <3>1 DEF LeafAt
        <3>2. CASE s[p + 1] = "i"
            <4>1. r = ParseInt(s, p)
                BY <3>2 DEF LeafAt
            <4>2. PICK e \in p + 2 .. Len(s) : r = Ok(IntAt(s, p, e), e)
                BY <1>1, <4>1, IntIs
            <4>3. r.node = IntAt(s, p, e)
                BY <4>2, OkIs
            <4>4. r.node.type = "int"
                BY <4>3 DEF IntAt
            <4>5. r.node.type = "str"
                BY <1>3, <1>6
            <4> QED
                BY <4>4, <4>5
        <3> QED
            BY <3>1, <3>2
    <2> QED
        BY <2>1, <2>2, StringFits
<1> QED
    BY <1>3, <1>4, <1>5, <1>6

\* Every value from lo on is encoded in the room it was read from.
Fitting(s, enc, lo) ==
    \A c \in lo .. Len(s) :
        Value(s, c).st = "ok" => enc[c] \in Text /\ Len(enc[c]) <= Value(s, c).pos - c

\* The pieces of a list that begins with p.
LEMMA ListPiecesMore ==
    ASSUME NEW rest \in Seq(Nat), NEW p \in Nat, NEW enc, enc[p] \in Text,
           NEW b \in Seq(Text), b = ListPieces(enc, rest), NEW a, a = ListPieces(enc, <<p>> \o rest)
    PROVE  a \in Seq(Text) /\ 1 \in 1 .. Len(a) /\ a[1] = enc[p] /\ Without(a, 1) = b
<1> DEFINE n == Len(rest)
<1>1. /\ DOMAIN (<<p>> \o rest) = 1 .. n + 1 /\ (<<p>> \o rest)[1] = p /\ n \in Nat
      /\ \A k \in 1 .. n : (<<p>> \o rest)[k + 1] = rest[k]
    OBVIOUS
<1>2. b = [k \in 1 .. n |-> enc[rest[k]]]
    BY DEF ListPieces
<1>3. a = [k \in 1 .. n + 1 |-> enc[(<<p>> \o rest)[k]]]
    BY <1>1 DEF ListPieces
<1> HIDE DEF n
<1>4. Len(b) = n /\ \A k \in 1 .. n : b[k] = enc[rest[k]] /\ b[k] \in Text
    BY <1>1, <1>2
<1>5. ASSUME NEW k \in 1 .. n + 1 PROVE a[k] = IF k = 1 THEN enc[p] ELSE b[k - 1]
    <2>1. CASE k = 1
        BY <1>1, <1>3, <2>1
    <2>2. CASE k # 1
        <3>1. k - 1 \in 1 .. n /\ (k - 1) + 1 = k
            BY <1>1, <2>2
        <3> QED
            <4> DEFINE list == <<p>> \o rest
            <4>1. list[k] = rest[k - 1]
                BY <1>1, <3>1
            <4>2. a[k] = enc[list[k]]
                BY <1>3
            <4> HIDE DEF list
            <4> QED
                BY <1>4, <2>2, <3>1, <4>1, <4>2
    <2> QED
        BY <2>1, <2>2
<1>6. \A k \in 1 .. n + 1 : a[k] \in Text
    <2>1. \A k \in 1 .. n + 1 : k # 1 => k - 1 \in 1 .. n
        BY <1>1
    <2> QED
        BY <1>4, <1>5, <2>1
<1>7. a \in Seq(Text) /\ Len(a) = n + 1 /\ 1 \in 1 .. n + 1
    <2>1. a \in [1 .. n + 1 -> Text]
        BY <1>3, <1>6
    <2> QED
        BY <1>1, <2>1
<1>8. a[1] = enc[p]
    BY <1>5, <1>7
<1>9. PICK i \in 1 .. Len(a) : i = 1
    BY <1>7
<1> DEFINE less == Without(a, i)
<1>10. /\ less \in Seq(Text) /\ Len(less) = Len(a) - 1
       /\ \A j \in 1 .. Len(a) - 1 : less[j] = IF j < i THEN a[j] ELSE a[j + 1]
    <2>1. a \in Seq(Text)
        BY <1>7
    <2>2. less = Without(a, i)
        OBVIOUS
    <2> HIDE DEF less
    <2>3. less \in Seq(Text)
        BY <2>1, <2>2, WithoutIs
    <2>4. Len(less) = Len(a) - 1
        BY <2>1, <2>2, WithoutIs
    <2>5. \A j \in 1 .. Len(a) - 1 : less[j] = IF j < i THEN a[j] ELSE a[j + 1]
        <3>1. Lacks(less, a, i)
            BY <2>1, <2>2, WithoutIs
        <3> QED
            BY <3>1 DEF Lacks
    <2> QED
        BY <2>3, <2>4, <2>5
<1> HIDE DEF less
<1>11. Len(less) = n
    BY <1>1, <1>7, <1>10
<1>12. \A j \in 1 .. Len(less) : less[j] = b[j]
    <2>1. \A j \in 1 .. n : j + 1 \in 1 .. n + 1 /\ j + 1 # 1 /\ (j + 1) - 1 = j /\ ~ (j < i)
                             /\ j \in 1 .. Len(a) - 1
        BY <1>1, <1>7, <1>9
    <2>2. \A j \in 1 .. n : less[j] = a[j + 1]
        BY <1>10, <2>1
    <2>3. \A j \in 1 .. n : a[j + 1] = b[j]
        BY <1>5, <2>1
    <2> QED
        BY <1>11, <2>2, <2>3
<1>13. Len(less) = Len(b) /\ less \in Seq(Text)
    BY <1>4, <1>10, <1>11
<1>14. less = b
    BY <1>12, <1>13, SeqEqual
<1> QED
    BY <1>7, <1>8, <1>9, <1>14 DEF less

\* The encoded items of a list fit where parseList read them.
LEMMA ItemsFit ==
    ASSUME NEW s \in Text, NEW lo \in 0 .. Len(s), NEW enc, Fitting(s, enc, lo)
    PROVE  \A p \in lo .. Len(s) : ItemsAt(s, p).st = "ok" =>
               /\ ListPieces(enc, ItemsAt(s, p).node.list) \in Seq(Text)
               /\ Len(FlattenSeq(ListPieces(enc, ItemsAt(s, p).node.list))) + 1 <= ItemsAt(s, p).pos - p
<1> DEFINE X == lo .. Len(s)
           mu == [p \in X |-> Len(s) - p]
           r(p) == ItemsAt(s, p)
           pieces(p) == ListPieces(enc, r(p).node.list)
           flat(p) == FlattenSeq(pieces(p))
           T == {p \in X : r(p).st = "ok" => pieces(p) \in Seq(Text) /\ Len(flat(p)) + 1 <= r(p).pos - p}
<1>1. Len(s) \in Nat /\ lo \in Nat
    BY DEF Text
<1>2. mu \in [X -> Nat] /\ T \in SUBSET X
    BY <1>1
<1>3. ASSUME NEW p \in X, \A y \in X : mu[y] < mu[p] => y \in T PROVE p \in T
    <2>1. SUFFICES ASSUME r(p).st = "ok"
                   PROVE  pieces(p) \in Seq(Text) /\ Len(flat(p)) + 1 <= r(p).pos - p
        OBVIOUS
    <2>2. p \in 0 .. Len(s) /\ p \in Nat
        BY <1>1
    <2>3. p < Len(s)
        BY <2>1, <2>2, ItemsNeed DEF ItemsAt
    <2>4. CASE s[p + 1] = "e"
        <3>1. r(p) = Ok(ListNode(<<>>), p + 1)
            BY <2>2, <2>3, <2>4, LoopsEnd
        <3>2. r(p).node = ListNode(<<>>) /\ r(p).pos = p + 1
            BY <3>1, OkIs
        <3>3. r(p).node.list = <<>>
            BY <3>2 DEF ListNode
        <3>4. pieces(p) = <<>>
            BY <3>3 DEF ListPieces
        <3>5. flat(p) = <<>>
            BY <3>4, EmptySeq DEF FlattenSeq
        <3>6. pieces(p) \in Seq(Text) /\ Len(flat(p)) = 0
            BY <3>4, <3>5, EmptySeq
        <3> HIDE DEF r, pieces, flat
        <3> QED
            BY <2>2, <3>2, <3>6
    <2>5. CASE s[p + 1] # "e"
        <3> DEFINE v == Value(s, p)
                   e == v.pos
                   rest == r(e).node.list
        <3>1. v.st = "ok" /\ r(e).st = "ok"
            BY <2>1, <2>2, <2>5, ItemsNeed DEF ItemsAt, Value
        <3>2. e \in p + 1 .. Len(s)
            <4>1. v \in Values(s, p)
                BY <2>2, ParsedIs DEF Value
            <4> HIDE DEF v
            <4> QED
                BY <3>1, <4>1, OksAre DEF Values
        <3>3. Reaches(s, p, e)
            BY <2>3, <2>5, <3>1 DEF Reaches
        <3>4. r(p) = Ok(ListNode(<<p>> \o rest), r(e).pos)
            BY <2>2, <3>1, <3>3, ItemsMore
        <3>5. r(p).node = ListNode(<<p>> \o rest) /\ r(p).pos = r(e).pos
            <4> HIDE DEF r, rest
            <4> QED
                BY <3>4, OkIs
        <3>6. enc[p] \in Text /\ Len(enc[p]) <= e - p
            BY <3>1 DEF Fitting
        <3> HIDE DEF v
        <3>7. e \in X /\ mu[e] < mu[p]
            BY <1>1, <2>2, <3>2
        <3>8. pieces(e) \in Seq(Text) /\ Len(flat(e)) + 1 <= r(e).pos - e
            BY <1>3, <3>1, <3>7
        <3>9. rest \in Seq(Nat)
            <4>1. r(e) \in Items(s, e)
                <5> HIDE DEF e, X
                <5>1. e \in 0 .. Len(s)
                    BY <1>1, <2>2, <3>2
                <5> QED
                    BY <5>1, ParsedIs DEF ItemsAt
            <4>2. r(e).node \in ListNodes(e, Len(s))
                <5> HIDE DEF r
                <5> QED
                    BY <3>1, <4>1, OksAre DEF Items
            <4>3. rest \in Seq(e .. Len(s)) /\ e .. Len(s) \subseteq Nat
                BY <1>1, <2>2, <3>2, <4>2 DEF ListNodes
            <4> HIDE DEF rest
            <4> QED
                BY <4>3, SeqMonotonic
        <3>10. r(e).pos \in Nat /\ e \in Nat
            <4>1. r(e) \in Items(s, e)
                <5> HIDE DEF e, X
                <5>1. e \in 0 .. Len(s)
                    BY <1>1, <2>2, <3>2
                <5> QED
                    BY <5>1, ParsedIs DEF ItemsAt
            <4>2. r(e).pos \in e + 1 .. Len(s)
                <5> HIDE DEF r
                <5> QED
                    BY <3>1, <4>1, OksAre DEF Items
            <4> HIDE DEF r
            <4> QED
                BY <1>1, <2>2, <3>2, <4>2
        <3>11. pieces(e) = ListPieces(enc, rest)
            OBVIOUS
        <3>12. pieces(p) = ListPieces(enc, <<p>> \o rest)
            BY <3>5 DEF ListNode
        <3> HIDE DEF r, rest
        <3>13. /\ pieces(p) \in Seq(Text) /\ 1 \in 1 .. Len(pieces(p)) /\ pieces(p)[1] = enc[p]
               /\ Without(pieces(p), 1) = pieces(e)
            <4> HIDE DEF pieces
            <4> QED
                BY <2>2, <3>6, <3>8, <3>9, <3>11, <3>12, ListPiecesMore
        <3> HIDE DEF pieces
        <3>14. Len(flat(p)) = Len(enc[p]) + Len(flat(e))
            <4> DEFINE ps == pieces(p)
                       i == 1
            <4>1. ps \in Seq(Text) /\ 1 \in 1 .. Len(ps) /\ pieces(e) = Without(ps, 1)
                BY <3>13
            <4> HIDE DEF ps
            <4>2. Len(FlattenSeq(ps)) = Len(ps[1]) + Len(FlattenSeq(pieces(e)))
                BY <4>1, FlattenWithout
            <4> QED
                BY <3>13, <4>2 DEF ps
        <3>15. Len(enc[p]) \in Nat /\ Len(flat(e)) \in Nat
            <4>1. flat(e) \in Text
                BY <3>8, FlattenIs
            <4> HIDE DEF flat
            <4> QED
                BY <3>6, <4>1 DEF Text
        <3> HIDE DEF flat, e
        <3> QED
            BY <2>2, <3>5, <3>6, <3>8, <3>10, <3>13, <3>14, <3>15, SMTT(60)
    <2> QED
        BY <2>4, <2>5
<1>4. X = T
    <2> HIDE DEF X, mu, T
    <2> QED
        BY <1>2, <1>3, MeasureInduction
<1> QED
    BY <1>4

\* The pairs of a dictionary with these keys, in any order.
KeyPieces(enc, dict, ks) == [k \in DOMAIN ks |-> EncodeString(ks[k]) \o enc[dict[ks[k]]]]
Distinct(ks) == \A i, j \in 1 .. Len(ks) : ks[i] = ks[j] => i = j
Sound(enc, dict) == DOMAIN dict \subseteq Strings /\ \A k \in DOMAIN dict : enc[dict[k]] \in Text
Roomy(enc, dict, room) ==
    \A ks \in Seq(DOMAIN dict) : Distinct(ks) => Len(FlattenSeq(KeyPieces(enc, dict, ks))) <= room
KeyedBy(enc, dict, ks, pieces) ==
    /\ Len(pieces) = Len(ks)
    /\ \A k \in 1 .. Len(ks) : pieces[k] = EncodeString(ks[k]) \o enc[dict[ks[k]]]

\* The pieces of pairs are texts.
LEMMA KeyPiecesAre ==
    ASSUME NEW enc, NEW dict, Sound(enc, dict), NEW ks \in Seq(DOMAIN dict),
           NEW pieces, pieces = KeyPieces(enc, dict, ks)
    PROVE  pieces \in Seq(Text) /\ KeyedBy(enc, dict, ks, pieces)
<1> DEFINE n == Len(ks)
<1>1. n \in Nat /\ DOMAIN ks = 1 .. n /\ \A k \in 1 .. n : ks[k] \in DOMAIN dict
    OBVIOUS
<1> HIDE DEF n
<1>2. pieces = [k \in 1 .. n |-> EncodeString(ks[k]) \o enc[dict[ks[k]]]]
    BY <1>1 DEF KeyPieces
<1>3. ASSUME NEW k \in 1 .. n PROVE EncodeString(ks[k]) \o enc[dict[ks[k]]] \in Text
    <2>1. ks[k] \in Strings /\ enc[dict[ks[k]]] \in Text
        BY <1>1 DEF Sound
    <2>2. EncodeString(ks[k]) \in Text
        BY <2>1, StringReads
    <2> QED
        BY <2>1, <2>2, Joined
<1>4. pieces \in [1 .. n -> Text]
    BY <1>2, <1>3
<1>5. pieces \in Seq(Text) /\ Len(pieces) = n
    BY <1>1, <1>4
<1>6. \A k \in 1 .. n : pieces[k] = EncodeString(ks[k]) \o enc[dict[ks[k]]]
    BY <1>2
<1> QED
    BY <1>5, <1>6 DEF KeyedBy, n

\* The same pairs from two dictionaries.
LEMMA KeyPiecesAgree ==
    ASSUME NEW enc, NEW a, NEW b, Sound(enc, a), Sound(enc, b),
           NEW ks, ks \in Seq(DOMAIN a), ks \in Seq(DOMAIN b),
           \A k \in 1 .. Len(ks) : a[ks[k]] = b[ks[k]]
    PROVE  KeyPieces(enc, a, ks) = KeyPieces(enc, b, ks)
<1>1. DOMAIN ks = 1 .. Len(ks)
    OBVIOUS
<1> QED
    BY <1>1 DEF KeyPieces

\* Without one of its keys, a choice of keys has one piece less.
LEMMA KeyPiecesLess ==
    ASSUME NEW enc, NEW dict, Sound(enc, dict), NEW ks \in Seq(DOMAIN dict), NEW i \in 1 .. Len(ks),
           Distinct(ks), NEW less, less = Without(ks, i)
    PROVE  /\ less \in Seq(DOMAIN dict) /\ Distinct(less)
           /\ \A j \in 1 .. Len(less) : less[j] # ks[i]
           /\ KeyPieces(enc, dict, less) = Without(KeyPieces(enc, dict, ks), i)
<1> DEFINE n == Len(ks)
           all == KeyPieces(enc, dict, ks)
           some == KeyPieces(enc, dict, less)
           cut == Without(all, i)
<1>1. n \in Nat \ {0} /\ less \in Seq(DOMAIN dict) /\ Len(less) = n - 1 /\ Lacks(less, ks, i)
    BY WithoutIs
<1>2. \A j \in 1 .. n - 1 : less[j] = IF j < i THEN ks[j] ELSE ks[j + 1]
    BY <1>1 DEF Lacks
<1>3. \A j, k \in 1 .. n : ks[j] = ks[k] => j = k
    BY DEF Distinct
<1>4. all \in Seq(Text) /\ KeyedBy(enc, dict, ks, all)
    BY KeyPiecesAre
<1>5. some \in Seq(Text) /\ KeyedBy(enc, dict, less, some)
    BY <1>1, KeyPiecesAre
<1>6. i \in 1 .. n
    OBVIOUS
<1> HIDE DEF all, some
<1>7. Len(all) = n /\ i \in 1 .. Len(all)
    BY <1>4 DEF KeyedBy
<1>8. /\ cut \in Seq(Text) /\ Len(cut) = Len(all) - 1 /\ Lacks(cut, all, i)
    BY <1>4, <1>7, WithoutIs
<1> HIDE DEF cut
<1> DEFINE at(j) == IF j < i THEN j ELSE j + 1
<1>9. \A j \in 1 .. n - 1 : at(j) \in 1 .. n /\ at(j) # i /\ less[j] = ks[at(j)]
    BY <1>1, <1>2, <1>6
<1>10. \A j \in 1 .. n - 1 : cut[j] = all[at(j)]
    BY <1>7, <1>8 DEF Lacks
<1>11. \A j, k \in 1 .. n - 1 : at(j) = at(k) => j = k
    BY <1>1, <1>6
<1> HIDE DEF n, at
<1>12. \A j, k \in 1 .. n - 1 : less[j] = less[k] => j = k
    BY <1>3, <1>9, <1>11
<1>13. \A j \in 1 .. n - 1 : less[j] # ks[i]
    BY <1>3, <1>6, <1>9
<1>14. Len(some) = n - 1 /\ Len(cut) = n - 1
    BY <1>1, <1>5, <1>7, <1>8 DEF KeyedBy
<1>15. ASSUME NEW j \in 1 .. n - 1 PROVE some[j] = cut[j]
    <2>1. some[j] = EncodeString(less[j]) \o enc[dict[less[j]]]
        BY <1>1, <1>5 DEF KeyedBy
    <2>2. all[at(j)] = EncodeString(ks[at(j)]) \o enc[dict[ks[at(j)]]]
        BY <1>4, <1>9 DEF KeyedBy, n
    <2> QED
        BY <1>9, <1>10, <2>1, <2>2
<1>16. some = cut
    <2>1. Len(some) = Len(cut) /\ \A j \in 1 .. Len(some) : some[j] = cut[j]
        BY <1>14, <1>15
    <2>2. some \in Seq(Text)
        BY <1>5
    <2>3. cut \in Seq(Text)
        BY <1>8
    <2> QED
        BY <2>1, <2>2, <2>3, SeqEqual
<1>17. Distinct(less)
    BY <1>1, <1>12 DEF Distinct
<1> QED
    BY <1>1, <1>13, <1>16, <1>17 DEF some, cut, all

\* One more pair takes its own room more.
LEMMA AddedFits ==
    ASSUME NEW enc, NEW dict, Sound(enc, dict), NEW str \in Strings, NEW val, enc[val] \in Text,
           NEW room \in Nat, Roomy(enc, dict, room), NEW new, new = Added(dict, str, val)
    PROVE  /\ Sound(enc, new)
           /\ Roomy(enc, new, (room + Len(EncodeString(str))) + Len(enc[val]))
<1> DEFINE x == EncodeString(str)
           y == enc[val]
<1>1. /\ DOMAIN new = DOMAIN dict \cup {str}
      /\ \A k \in DOMAIN dict : new[k] = dict[k]
      /\ str \notin DOMAIN dict => new[str] = val
    BY DEF Added
<1>2. Sound(enc, new)
    BY <1>1 DEF Sound
<1>3. x \in Text /\ y \in Text
    BY StringReads
<1>4. Len(x) \in Nat /\ Len(y) \in Nat
    BY <1>3 DEF Text
<1>5. ASSUME NEW ks \in Seq(DOMAIN new), Distinct(ks)
      PROVE  Len(FlattenSeq(KeyPieces(enc, new, ks))) <= (room + Len(x)) + Len(y)
    <2> HIDE DEF x, y
    <2>1. Len(ks) \in Nat /\ \A k \in 1 .. Len(ks) : ks[k] \in DOMAIN new
        OBVIOUS
    <2>2. ASSUME NEW less \in Seq(DOMAIN new), Distinct(less), \A k \in 1 .. Len(less) : less[k] \in DOMAIN dict
          PROVE  Len(FlattenSeq(KeyPieces(enc, new, less))) <= room
        <3>1. less \in Seq(DOMAIN dict)
            <4>1. less \in [1 .. Len(less) -> DOMAIN dict] /\ Len(less) \in Nat
                BY <2>2
            <4> QED
                BY <4>1
        <3>2. \A k \in 1 .. Len(less) : new[less[k]] = dict[less[k]]
            BY <1>1, <2>2
        <3>3. KeyPieces(enc, new, less) = KeyPieces(enc, dict, less)
            BY <1>2, <3>1, <3>2, KeyPiecesAgree
        <3> QED
            BY <2>2, <3>1, <3>3 DEF Roomy
    <2>3. CASE \A k \in 1 .. Len(ks) : ks[k] \in DOMAIN dict
        <3> DEFINE flat == FlattenSeq(KeyPieces(enc, new, ks))
        <3>1. Len(flat) <= room
            BY <1>5, <2>2, <2>3
        <3>2. KeyPieces(enc, new, ks) \in Seq(Text)
            BY <1>2, KeyPiecesAre
        <3>3. flat \in Text
            BY <3>2, FlattenIs
        <3> HIDE DEF flat
        <3>4. Len(flat) \in Nat
            BY <3>3 DEF Text
        <3>5. Len(flat) <= (room + Len(x)) + Len(y)
            BY <1>4, <3>1, <3>4
        <3> QED
            BY <3>5 DEF flat
    <2>4. CASE \E k \in 1 .. Len(ks) : ks[k] \notin DOMAIN dict
        <3>1. PICK i \in 1 .. Len(ks) : ks[i] \notin DOMAIN dict
            BY <2>4
        <3>2. ks[i] = str /\ new[str] = val
            BY <1>1, <2>1, <3>1
        <3> DEFINE less == Without(ks, i)
                   all == KeyPieces(enc, new, ks)
                   some == KeyPieces(enc, new, less)
        <3>3. /\ less \in Seq(DOMAIN new) /\ Distinct(less)
              /\ \A j \in 1 .. Len(less) : less[j] # ks[i]
              /\ some = Without(all, i)
            BY <1>2, <1>5, KeyPiecesLess
        <3>4. all \in Seq(Text) /\ KeyedBy(enc, new, ks, all)
            BY <1>2, KeyPiecesAre
        <3>5. some \in Seq(Text)
            BY <1>2, <3>3, KeyPiecesAre
        <3> HIDE DEF less
        <3>6. \A k \in 1 .. Len(less) : less[k] \in DOMAIN dict
            <4>1. \A k \in 1 .. Len(less) : less[k] \in DOMAIN new
                BY <3>3
            <4> QED
                BY <1>1, <3>2, <3>3, <4>1
        <3>7. Len(FlattenSeq(some)) <= room
            BY <2>2, <3>3, <3>6
        <3> HIDE DEF all, some
        <3>8. i \in 1 .. Len(all) /\ all[i] = x \o y
            BY <3>2, <3>4 DEF KeyedBy, x, y
        <3>9. Len(FlattenSeq(all)) = Len(all[i]) + Len(FlattenSeq(some))
            BY <3>3, <3>4, <3>8, FlattenWithout
        <3>10. Len(x \o y) = Len(x) + Len(y) /\ Len(x) \in Nat /\ Len(y) \in Nat
            <4>1. x \in Text /\ y \in Text
                BY <1>3 DEF x, y
            <4> QED
                BY <4>1, Joined
        <3>11. Len(FlattenSeq(some)) \in Nat
            <4>1. FlattenSeq(some) \in Text
                BY <3>5, FlattenIs
            <4> QED
                BY <4>1 DEF Text
        <3>12. Len(FlattenSeq(all)) <= (room + Len(x)) + Len(y)
            BY <3>7, <3>8, <3>9, <3>10, <3>11
        <3> QED
            BY <3>12 DEF all
    <2> QED
        BY <2>3, <2>4 DEF x, y
<1> QED
    BY <1>2, <1>5 DEF Roomy

\* An empty dictionary needs no room.
LEMMA NoKeysFit ==
    ASSUME NEW enc
    PROVE  Sound(enc, <<>>) /\ Roomy(enc, <<>>, 0)
<1>1. DOMAIN <<>> = {}
    OBVIOUS
<1>2. ASSUME NEW ks \in Seq(DOMAIN <<>>) PROVE Len(FlattenSeq(KeyPieces(enc, <<>>, ks))) <= 0
    <2>1. Len(ks) \in Nat /\ DOMAIN ks = 1 .. Len(ks) /\ \A k \in 1 .. Len(ks) : ks[k] \in DOMAIN <<>>
        OBVIOUS
    <2>2. Len(ks) = 0
        <3>1. SUFFICES ASSUME Len(ks) # 0 PROVE FALSE
            OBVIOUS
        <3>2. 1 \in 1 .. Len(ks)
            BY <2>1, <3>1
        <3> QED
            BY <1>1, <2>1, <3>2
    <2>3. KeyPieces(enc, <<>>, ks) = <<>>
        BY <2>1, <2>2 DEF KeyPieces
    <2>4. FlattenSeq(KeyPieces(enc, <<>>, ks)) = <<>>
        BY <2>3, EmptySeq DEF FlattenSeq
    <2> QED
        BY <2>4, EmptySeq
<1> QED
    BY <1>1, <1>2 DEF Sound, Roomy

\* What has room has more room.
LEMMA RoomyMore ==
    ASSUME NEW enc, NEW dict, Sound(enc, dict), NEW a \in Int, Roomy(enc, dict, a), NEW b \in Int, a <= b
    PROVE  Roomy(enc, dict, b)
<1>1. SUFFICES ASSUME NEW ks \in Seq(DOMAIN dict), Distinct(ks)
               PROVE  Len(FlattenSeq(KeyPieces(enc, dict, ks))) <= b
    BY DEF Roomy
<1> DEFINE pieces == KeyPieces(enc, dict, ks)
           flat == FlattenSeq(pieces)
<1>2. pieces \in Seq(Text)
    BY KeyPiecesAre
<1>3. Len(flat) <= a
    BY <1>1 DEF Roomy
<1> HIDE DEF pieces
<1>4. flat \in Text
    BY <1>2, FlattenIs
<1> HIDE DEF flat
<1>5. Len(flat) \in Nat
    BY <1>4 DEF Text
<1>6. Len(flat) <= b
    BY <1>3, <1>5
<1> QED
    BY <1>6 DEF flat, pieces

\* The encoded pairs of a dictionary fit where parseDict read them, whatever keys came twice.
LEMMA PairsFit ==
    ASSUME NEW s \in Text, NEW lo \in 0 .. Len(s), NEW enc, Fitting(s, enc, lo)
    PROVE  \A p \in lo .. Len(s) : PairsAt(s, p).st = "ok" =>
               /\ Sound(enc, PairsAt(s, p).node.dict)
               /\ Roomy(enc, PairsAt(s, p).node.dict, (PairsAt(s, p).pos - p) - 1)
<1> DEFINE X == lo .. Len(s)
           mu == [p \in X |-> Len(s) - p]
           r(p) == PairsAt(s, p)
           dict(p) == r(p).node.dict
           room(p) == (r(p).pos - p) - 1
           T == {p \in X : r(p).st = "ok" => Sound(enc, dict(p)) /\ Roomy(enc, dict(p), room(p))}
<1>1. Len(s) \in Nat /\ lo \in Nat
    BY DEF Text
<1>2. mu \in [X -> Nat] /\ T \in SUBSET X
    BY <1>1
<1>3. ASSUME NEW p \in X, \A y \in X : mu[y] < mu[p] => y \in T PROVE p \in T
    <2>1. SUFFICES ASSUME r(p).st = "ok" PROVE Sound(enc, dict(p)) /\ Roomy(enc, dict(p), room(p))
        OBVIOUS
    <2>2. p \in 0 .. Len(s) /\ p \in Nat
        BY <1>1
    <2> DEFINE key == ParseString(s, p)
               k == key.pos
               str == key.node.str
               val == Value(s, k)
               e == val.pos
    <2>3. p < Len(s) /\ (s[p + 1] = "e" \/ (s[p + 1] # "e" /\ key.st = "ok" /\ val.st = "ok" /\ r(e).st = "ok"))
        BY <2>1, <2>2, PairsUnfold DEF PairsAt, Value
    <2>4. CASE s[p + 1] = "e"
        <3>1. r(p) = Ok(DictNode(<<>>), p + 1)
            BY <2>2, <2>3, <2>4, LoopsEnd
        <3>2. r(p).node = DictNode(<<>>) /\ r(p).pos = p + 1
            BY <3>1, OkIs
        <3>3. dict(p) = <<>>
            BY <3>2 DEF DictNode
        <3> HIDE DEF r, dict
        <3>4. room(p) = 0
            BY <2>2, <3>2
        <3> HIDE DEF room
        <3> QED
            BY <3>3, <3>4, NoKeysFit
    <2>5. CASE s[p + 1] # "e"
        <3>1. key.st = "ok" /\ val.st = "ok" /\ r(e).st = "ok"
            BY <2>3, <2>5
        <3>2. k \in p + 1 .. Len(s) /\ str \in Strings
            <4>1. key \in Failures \cup Oks(StrNodes, p + 1, Len(s))
                BY <2>2, StringTyped
            <4> HIDE DEF key
            <4>2. key.node \in StrNodes /\ key.pos \in p + 1 .. Len(s)
                BY <3>1, <4>1, Succeeds
            <4> QED
                BY <4>2 DEF StrNodes
        <3>3. KeyReads(s, p, str, k)
            BY <2>3, <2>5, <3>1 DEF KeyReads
        <3>4. Len(EncodeString(str)) <= k - p
            BY <2>2, <3>1, StringFits
        <3> HIDE DEF key, str, k
        <3>5. k \in 0 .. Len(s) /\ k \in X /\ k \in Nat /\ p < k
            BY <1>1, <2>2, <3>2
        <3>6. e \in k + 1 .. Len(s)
            <4>1. val \in Values(s, k)
                BY <3>5, ParsedIs DEF Value
            <4> HIDE DEF val
            <4> QED
                BY <3>1, <4>1, OksAre DEF Values
        <3>7. enc[k] \in Text /\ Len(enc[k]) <= e - k
            BY <3>1, <3>5 DEF Fitting
        <3>8. r(p) = Ok(DictNode(Added(dict(e), str, k)), r(e).pos)
            BY <2>2, <3>1, <3>3, PairsMore
        <3>9. r(p).node = DictNode(Added(dict(e), str, k)) /\ r(p).pos = r(e).pos
            <4> HIDE DEF r, dict, val
            <4> QED
                BY <3>8, OkIs
        <3>10. dict(p) = Added(dict(e), str, k)
            <4> HIDE DEF r
            <4>1. dict(p) = r(p).node.dict
                OBVIOUS
            <4> QED
                BY <3>9, <4>1 DEF DictNode
        <3> HIDE DEF val
        <3>11. e \in 0 .. Len(s) /\ e \in X /\ e \in Nat /\ mu[e] < mu[p]
            BY <1>1, <2>2, <3>5, <3>6
        <3>12. Sound(enc, dict(e)) /\ Roomy(enc, dict(e), room(e))
            BY <1>3, <3>1, <3>11
        <3> HIDE DEF e
        <3>13. r(e).pos \in e + 1 .. Len(s)
            <4>1. r(e) \in Pairs(s, e)
                BY <3>11, ParsedIs DEF PairsAt
            <4> HIDE DEF r
            <4> QED
                BY <3>1, <4>1, OksAre DEF Pairs
        <3> HIDE DEF r, dict
        <3>14. room(e) \in Nat /\ room(p) = ((r(e).pos - p) - 1) /\ room(p) \in Int
            BY <1>1, <2>2, <3>9, <3>11, <3>13, SMTT(60)
        <3> DEFINE x == Len(EncodeString(str))
                   y == Len(enc[k])
                   more == (room(e) + x) + y
        <3>15. x \in Nat /\ y \in Nat
            <4>1. EncodeString(str) \in Text
                BY <3>2, StringReads
            <4> QED
                BY <3>7, <4>1 DEF Text
        <3>16. more <= room(p) /\ more \in Int
            <4> HIDE DEF x, y
            <4>1. x <= k - p /\ y <= e - k
                BY <3>4, <3>7 DEF x, y
            <4>2. room(e) = (r(e).pos - e) - 1
                OBVIOUS
            <4>3. r(e).pos \in Nat
                BY <1>1, <3>11, <3>13
            <4>4. PICK z \in Nat : z = r(e).pos
                BY <4>3
            <4> HIDE DEF room, X
            <4>5. PICK u \in Nat : u = room(e)
                BY <3>14
            <4>6. PICK v \in Int : v = room(p)
                BY <3>14
            <4>7. u = (z - e) - 1 /\ v = (z - p) - 1
                BY <3>14, <4>2, <4>4, <4>5, <4>6
            <4>8. k \in Nat /\ e \in Nat /\ p \in Nat
                BY <2>2, <3>5, <3>11
            <4>9. (u + x) + y <= v /\ (u + x) + y \in Int
                BY <3>15, <4>1, <4>7, <4>8
            <4> QED
                BY <4>5, <4>6, <4>9
        <3> HIDE DEF room
        <3>17. Sound(enc, dict(p)) /\ Roomy(enc, dict(p), more)
            BY <3>2, <3>7, <3>10, <3>12, <3>14, AddedFits
        <3> HIDE DEF more
        <3> QED
            BY <3>14, <3>16, <3>17, RoomyMore
    <2> QED
        BY <2>3, <2>4, <2>5
<1>4. X = T
    <2> HIDE DEF X, mu, T
    <2> QED
        BY <1>2, <1>3, MeasureInduction
<1> QED
    BY <1>4

\* The sorted keys are such a choice, so the body of a dictionary fits.
LEMMA DictFits ==
    ASSUME NEW enc, NEW dict, IsFiniteSet(DOMAIN dict), Sound(enc, dict), NEW room, Roomy(enc, dict, room)
    PROVE  Len(FlattenSeq(DictPieces(enc, dict))) <= room
<1> DEFINE keys == SortedKeys(dict)
<1>1. DOMAIN dict \subseteq Text
    BY DEF Sound, Strings
<1>2. keys \in Seq(DOMAIN dict) /\ \A i, j \in 1 .. Len(keys) : keys[i] = keys[j] => i = j
    BY <1>1, SortedKeysAre
<1>3. DictPieces(enc, dict) = KeyPieces(enc, dict, keys)
    BY DEF DictPieces, KeyPieces
<1> HIDE DEF keys
<1>4. Distinct(keys)
    BY <1>2 DEF Distinct
<1> QED
    BY <1>2, <1>3, <1>4 DEF Roomy

\* A body that fits inside the brackets fits with them.
LEMMA BodyFits ==
    ASSUME NEW open \in Char, NEW flat \in Text, NEW w, w = <<open>> \o flat \o <<"e">>,
           NEW p \in Nat, NEW e \in Nat, Len(flat) <= (e - (p + 1)) - 1
    PROVE  w \in Text /\ Len(w) <= e - p
<1>1. "e" \in Char
    BY BencodeAssumption
<1>2. w \in Text /\ Len(w) = Len(flat) + 2
    BY <1>1, WrappedIs DEF Wraps
<1>3. Len(flat) \in Nat
    BY DEF Text
<1> QED
    BY <1>2, <1>3

\* Everything that was decoded, and everything built of it, is encoded in the room it was
\* read from.
LEMMA Fits ==
    ASSUME NEW s \in Text, Len(s) <= IntMax, NEW g, g = Read(s) \/ g = Built(Read(s)),
           NEW enc, enc = Encode(g)
    PROVE  Fitting(s, enc, 0)
<1> DEFINE h == Read(s)
           X == 0 .. Len(s)
           mu == [p \in X |-> Len(s) - p]
           v(p) == Value(s, p)
           T == {p \in X : v(p).st = "ok" => enc[p] \in Text /\ Len(enc[p]) <= v(p).pos - p}
<1>1. Len(s) \in Nat
    BY DEF Text
<1>2. mu \in [X -> Nat] /\ T \in SUBSET X
    BY <1>1
<1>3. Heap(h, Len(s)) /\ \A p : p \in DOMAIN h <=> p \in X /\ v(p).st = "ok"
    BY DecodedHeap, NodesAre DEF Read, Value
<1>4. \A p \in DOMAIN h : h[p] = v(p).node
    BY NodesAre DEF Read, Value
<1>5. g = h \/ g = Built(h)
    OBVIOUS
<1> HIDE DEF h
<1>6. Heap(g, Len(s)) /\ DOMAIN g = DOMAIN h
    BY <1>3, <1>5, BuiltHeap, BuiltIs
<1>7. ASSUME NEW p \in DOMAIN h
      PROVE  /\ g[p] = h[p] \/ g[p] = With(h[p], <<>>)
             /\ h[p].type \notin {"int", "str"} => g[p] = h[p]
    BY <1>5, BuiltIs
<1>8. ASSUME NEW p \in X, \A y \in X : mu[y] < mu[p] => y \in T PROVE p \in T
    <2>1. SUFFICES ASSUME v(p).st = "ok" PROVE enc[p] \in Text /\ Len(enc[p]) <= v(p).pos - p
        OBVIOUS
    <2>2. p \in DOMAIN h /\ p \in DOMAIN g /\ p \in Nat
        BY <1>1, <1>3, <1>6, <2>1
    <2>3. enc[p] = EncodeNode(enc, g[p])
        BY <1>6, <2>2, EncodeIs
    <2>4. v(p) = DecodeValue(Parsed(s), s, p)
        BY ParsedIs DEF Value
    <2>5. ~ (p >= Len(s))
        BY <2>1, <2>4 DEF DecodeValue, Error
    <2>6. p + 1 \in 0 .. Len(s)
        BY <1>1, <2>2, <2>5
    <2>7. Fitting(s, enc, p + 1)
        <3>1. SUFFICES ASSUME NEW c \in p + 1 .. Len(s), v(c).st = "ok"
                       PROVE  enc[c] \in Text /\ Len(enc[c]) <= v(c).pos - c
            BY DEF Fitting
        <3>2. c \in X /\ mu[c] < mu[p]
            BY <1>1, <2>2
        <3>3. c \in T
            BY <1>8, <3>2
        <3> HIDE DEF v
        <3> QED
            BY <3>1, <3>3
    <2>8. v(p).node = h[p]
        BY <1>4, <2>2
    <2> HIDE DEF v
    <2>9. v(p).pos \in p + 1 .. Len(s) /\ v(p).pos \in Nat
        <3>1. v(p) \in Values(s, p)
            BY ParsedIs DEF Value, v
        <3>2. v(p).pos \in p + 1 .. Len(s)
            BY <2>1, <3>1, OksAre DEF Values
        <3> QED
            BY <1>1, <2>2, <3>2
    <2> DEFINE c == s[p + 1]
    <2>10. CASE c \in DigitChars \cup {"i"}
        <3>1. IsLeaf(s, p)
            BY <1>1, <2>2, <2>5, <2>10 DEF IsLeaf
        <3>2. v(p) = LeafAt(s, p)
            BY <2>4, <3>1, LeafIs
        <3>3. g[p] = v(p).node \/ g[p] = With(v(p).node, <<>>)
            BY <1>7, <2>2, <2>8
        <3>4. Len(EncodeNode(enc, g[p])) <= v(p).pos - p
            BY <2>1, <3>1, <3>2, <3>3, LeafFits
        <3> QED
            BY <1>6, <2>2, <2>3, <3>4, EncodeIs
    <2>11. CASE c = "l"
        <3>1. v(p) = ItemsAt(s, p + 1)
            BY <2>4, <2>5, <2>11, ValueCases DEF ItemsAt
        <3>2. v(p).node \in ListNodes(p + 1, Len(s))
            <4>1. v(p) \in Items(s, p + 1)
                BY <2>6, <3>1, ParsedIs DEF ItemsAt
            <4> QED
                BY <2>1, <4>1, OksAre DEF Items
        <3>3. g[p] = v(p).node /\ g[p].type = "list"
            <4>1. v(p).node.type = "list"
                BY <3>2 DEF ListNodes
            <4> QED
                BY <1>7, <2>2, <2>8, <4>1
        <3> DEFINE pieces == ListPieces(enc, g[p].list)
                   flat == FlattenSeq(pieces)
        <3>4. pieces \in Seq(Text) /\ Len(flat) + 1 <= v(p).pos - (p + 1)
            <4>1. p + 1 \in p + 1 .. Len(s)
                BY <2>2, <2>6
            <4> QED
                BY <2>1, <2>6, <2>7, <3>1, <3>3, <4>1, ItemsFit
        <3> HIDE DEF pieces
        <3>5. flat \in Text
            BY <3>4, FlattenIs
        <3>6. enc[p] = <<"l">> \o flat \o <<"e">>
            BY <2>3, <3>3, EncodeCases, PiecesEncoded DEF pieces
        <3> HIDE DEF flat
        <3>7. Len(flat) <= (v(p).pos - (p + 1)) - 1 /\ "l" \in Char
            <4>1. Len(flat) \in Nat
                BY <3>5 DEF Text
            <4> QED
                BY <2>2, <2>9, <3>4, <4>1, BencodeAssumption
        <3> QED
            BY <2>2, <2>9, <3>5, <3>6, <3>7, BodyFits
    <2>12. CASE c = "d"
        <3>1. v(p) = PairsAt(s, p + 1)
            BY <2>4, <2>5, <2>12, ValueCases DEF PairsAt
        <3>2. v(p).node \in DictNodes(p + 1, Len(s))
            <4>1. v(p) \in Pairs(s, p + 1)
                BY <2>6, <3>1, ParsedIs DEF PairsAt
            <4> QED
                BY <2>1, <4>1, OksAre DEF Pairs
        <3>3. g[p] = v(p).node /\ g[p].type = "dict"
            <4>1. v(p).node.type = "dict"
                BY <3>2 DEF DictNodes
            <4> QED
                BY <1>7, <2>2, <2>8, <4>1
        <3> DEFINE dict == g[p].dict
                   pieces == DictPieces(enc, dict)
                   flat == FlattenSeq(pieces)
                   room == (v(p).pos - (p + 1)) - 1
        <3>4. Sound(enc, dict) /\ Roomy(enc, dict, room)
            <4>1. p + 1 \in p + 1 .. Len(s)
                BY <2>2, <2>6
            <4> QED
                BY <2>1, <2>6, <2>7, <3>1, <3>3, <4>1, PairsFit
        <3>5. IsFiniteSet(DOMAIN dict)
            <4>1. GoodDict(g, p)
                BY <1>6, <2>2, <3>3 DEF Heap, GoodLeaf, GoodList, IntNodes, StrNodes
            <4> QED
                BY <4>1 DEF GoodDict
        <3>6. pieces \in Seq(Text)
            <4>1. GoodDict(g, p)
                BY <1>6, <2>2, <3>3 DEF Heap, GoodLeaf, GoodList, IntNodes, StrNodes
            <4>2. \A x \in Below(g, p) : enc[x] \in Text
                BY <1>6, <2>2, EncodeIs
            <4>3. Keyed(g, p, enc, dict, SortedKeys(dict))
                BY <4>1, <4>2, DictPiecesAre
            <4> QED
                BY <4>3 DEF Keyed
        <3>7. enc[p] = <<"d">> \o flat \o <<"e">>
            BY <2>3, <3>3, EncodeCases, PiecesEncoded
        <3> HIDE DEF dict, room
        <3>8. Len(flat) <= room
            BY <3>4, <3>5, DictFits
        <3> HIDE DEF pieces
        <3>9. flat \in Text
            BY <3>6, FlattenIs
        <3> HIDE DEF flat
        <3>10. "d" \in Char
            BY BencodeAssumption
        <3> QED
            BY <2>2, <2>9, <3>7, <3>8, <3>9, <3>10, BodyFits DEF room
    <2>13. c \in DigitChars \cup {"i", "l", "d"}
        <3>1. SUFFICES ASSUME c \notin DigitChars \cup {"i", "l", "d"} PROVE FALSE
            OBVIOUS
        <3>2. v(p) = Error
            BY <2>4, <2>5, <3>1, ValueCases
        <3> QED
            BY <2>1, <3>2 DEF Error
    <2> QED
        BY <2>10, <2>11, <2>12, <2>13
<1>9. X = T
    <2> HIDE DEF X, mu, T
    <2> QED
        BY <1>2, <1>8, MeasureInduction
<1> QED
    BY <1>9 DEF Fitting

-----------------------------------------------------------------------------
(***************************************************************************)
(* Decode, Encode, Decode again.                                           *)
(***************************************************************************)
LEMMA DecodeReads ==
    ASSUME NEW s \in Text
    PROVE  /\ Decode(s).st = Value(s, 0).st
           /\ Value(s, 0).st = "ok" => /\ Decode(s).pos = Value(s, 0).pos /\ Value(s, 0).pos \in 1 .. Len(s)
                                       /\ Decode(s).nodes = Read(s)
BY DecodeIs DEF Value, Read

\* What was decoded, or built of it, is encoded to a text that decodes to the same and is
\* encoded the same.
LEMMA EncodedAgain ==
    ASSUME NEW s \in Text, Len(s) <= IntMax, Decode(s).st = "ok",
           NEW g, g = Decode(s).nodes \/ g = Built(Decode(s).nodes),
           NEW t, t = Encode(g)[0], NEW again, again = Decode(t)
    PROVE  /\ again.st = "ok" /\ again.pos = Len(t)
           /\ Same(g, again.nodes)[<<0, 0>>]
           /\ Encode(again.nodes)[0] = t
           /\ Bare(g) => Encode(Built(again.nodes))[0] = t
<1> DEFINE h == Read(s)
           v == Value(s, 0)
<1>1. Len(s) \in Nat /\ 0 \in 0 .. Len(s) /\ IntMax \in Nat
    BY BencodeAssumption DEF Text
<1>2. v.st = "ok" /\ v.pos \in 1 .. Len(s) /\ Decode(s).nodes = h
    BY DecodeReads
<1>3. g = h \/ g = Built(h)
    BY <1>2
<1>4. Heap(h, Len(s)) /\ 0 \in DOMAIN h
    BY <1>1, <1>2, ReadIs
<1>5. Fitting(s, Encode(g), 0)
    BY <1>3, Fits
<1> HIDE DEF h
<1>6. Heap(g, Len(s)) /\ 0 \in DOMAIN g
    BY <1>3, <1>4, BuiltHeap, BuiltIs
<1>7. t \in Text /\ Len(t) <= v.pos - 0
    BY <1>1, <1>2, <1>5 DEF Fitting
<1>8. Len(t) \in Nat /\ Len(t) <= IntMax /\ 0 \in 0 .. Len(t) /\ 0 + Len(t) = Len(t)
    <2>1. Len(t) \in Nat
        BY <1>7 DEF Text
    <2> HIDE DEF v
    <2> QED
        BY <1>1, <1>2, <1>7, <2>1
<1>9. Written(Encode(g)[0], t, 0)
    <2>1. \A k \in 1 .. Len(t) : 0 + k = k
        BY <1>8
    <2>2. Holds(t, 0, t, 0, Len(t))
        BY <1>8, <2>1 DEF Holds
    <2> QED
        BY <1>7, <1>8, <2>2 DEF Written
<1>10. Reread(g, 0, t, 0)
    <2>1. PICK p \in DOMAIN g : p = 0
        BY <1>6
    <2>2. \A u, q : Written(Encode(g)[p], u, q) => Reread(g, p, u, q)
        BY <1>6, EverythingReread
    <2> QED
        BY <1>9, <2>1, <2>2
<1>11. /\ Value(t, 0).st = "ok" /\ Value(t, 0).pos = Len(t)
       /\ Same(g, Read(t))[<<0, 0>>]
       /\ Encode(Read(t))[0] = t
       /\ Bare(g) => Encode(Built(Read(t)))[0] = t
    BY <1>8, <1>10 DEF Reread
<1>12. again.st = "ok" /\ again.pos = Len(t) /\ again.nodes = Read(t)
    BY <1>7, <1>11, DecodeReads
<1> QED
    BY <1>11, <1>12

(***************************************************************************)
(* Encode of encode.go writes what Decode of decode.go reads back: what    *)
(* was decoded, with the bytes it kept or built anew, is encoded to a text *)
(* that decodes to the same meaning and is consumed to its end.            *)
(***************************************************************************)
THEOREM DecodesBack == Spec => []RoundTrip
<1>1. DecodedOnce => RoundTrip
    <2>1. SUFFICES ASSUME DecodedOnce, Decoded,
                          NEW nodes, nodes = result.nodes \/ nodes = Built(result.nodes),
                          NEW text, text = Encode(nodes)[0], NEW again, again = Decode(text)
                   PROVE  again.st = "ok" /\ again.pos = Len(text) /\ Same(nodes, again.nodes)[<<0, 0>>]
        BY DEF RoundTrip
    <2>2. data \in Text /\ Len(data) <= IntMax /\ result = Decode(data) /\ result.st = "ok"
        BY <2>1 DEF DecodedOnce, Decoded
    <2>3. Decode(data).st = "ok"
        BY <2>2
    <2>4. nodes = Decode(data).nodes \/ nodes = Built(Decode(data).nodes)
        BY <2>1, <2>2
    <2> QED
        BY <2>1, <2>2, <2>3, <2>4, EncodedAgain
<1> QED
    BY <1>1, DecodesOnce, PTL

\* The sorted keys of a dictionary of a heap are in their order.
LEMMA KeysInOrder ==
    ASSUME NEW g, NEW n, Heap(g, n), NEW p \in DOMAIN g, g[p].type = "dict",
           NEW keys, keys = SortedKeys(g[p].dict), NEW i \in DOMAIN keys, NEW j \in DOMAIN keys, i < j
    PROVE  KeyLess(keys[i], keys[j])
<1> DEFINE dict == g[p].dict
<1>1. GoodDict(g, p)
    BY DEF Heap, GoodLeaf, GoodList, IntNodes, StrNodes
<1>2. IsFiniteSet(DOMAIN dict) /\ DOMAIN dict \subseteq Text
    BY <1>1 DEF GoodDict, Strings
<1> HIDE DEF dict
<1>3. keys = SortedKeys(dict)
    BY DEF dict
<1>4. keys \in Seq(DOMAIN dict)
    BY <1>2, <1>3, SortedKeysAre
<1>5. \A a, b \in 1 .. Len(keys) : a < b => KeyLess(keys[a], keys[b])
    BY <1>2, <1>3, SortedKeysAre
<1>6. DOMAIN keys = 1 .. Len(keys)
    BY <1>4
<1> QED
    BY <1>5, <1>6

(***************************************************************************)
(* Encode is canonical: encoding what its own output decodes to gives that *)
(* output again, whether the bytes are kept or the nodes are built anew,   *)
(* and the keys of every dictionary are written in strictly rising order.  *)
(***************************************************************************)
THEOREM EncodesCanonically == Spec => []Canonical
<1>1. DecodedOnce => Canonical
    <2>1. SUFFICES ASSUME DecodedOnce, Decoded PROVE Canonical
        BY DEF Canonical
    <2>2. data \in Text /\ Len(data) <= IntMax /\ result = Decode(data) /\ result.st = "ok"
        BY <2>1 DEF DecodedOnce, Decoded
    <2> DEFINE g == result.nodes
               b == Built(g)
    <2>3. g = Decode(data).nodes /\ Decode(data).st = "ok"
        BY <2>2
    <2>4. Heap(g, Len(data))
        <3>1. Value(data, 0).st = "ok" /\ g = Read(data)
            BY <2>2, DecodeReads
        <3> QED
            BY <2>2, <3>1, DecodedHeap DEF Read
    <2>5. b = Built(Decode(data).nodes) /\ Bare(b)
        BY <2>3, <2>4, BuiltHeap
    <2>6. \A text : text = Encode(g)[0] => Encode(Decode(text).nodes)[0] = text
        BY <2>2, <2>3, EncodedAgain
    <2>7. \A text : text = Encode(b)[0] => Encode(Built(Decode(text).nodes))[0] = text
        <3> HIDE DEF b
        <3> QED
            BY <2>2, <2>3, <2>5, EncodedAgain
    <2>8. ASSUME NEW p \in DOMAIN g, g[p].type = "dict", NEW keys, keys = SortedKeys(g[p].dict),
                 NEW i \in DOMAIN keys, NEW j \in DOMAIN keys, i < j
          PROVE  KeyLess(keys[i], keys[j])
        BY <2>4, <2>8, KeysInOrder
    <2> QED
        BY <2>6, <2>7, <2>8 DEF Canonical
<1> QED
    BY <1>1, DecodesOnce, PTL

=============================================================================
