-------------------------- MODULE SelectionProofs --------------------------
(***************************************************************************)
(* Induction over the natural numbers without an operator for a parameter; *)
(* with it, functions defined by recursion, finite sets of numbers, and    *)
(* what Filtered() does to sequences of every length.                      *)
(***************************************************************************)
EXTENDS Selection, FiniteSets, TLAPS, WellFoundedInduction, FiniteSetTheorems, FunctionTheorems

\* Every set of natural numbers has a least one.
LEMMA LeastNumber ==
    ASSUME NEW T, T \subseteq Nat, T # {}
    PROVE  \E n \in T : \A m \in T : n <= m
<1> DEFINE R == OpToRel(<, Nat)
<1>1. IsWellFoundedOn(R, Nat)
    BY NatLessThanWellFounded DEF R
<1>2. \A x, y \in Nat : x < y => <<x, y>> \in R
    BY DEF OpToRel
<1> HIDE DEF R
<1>3. PICK n \in T : \A m \in T : ~ (<<m, n>> \in R)
    BY <1>1, WFMin
<1>4. ASSUME NEW m \in T PROVE n <= m
    <2>1. n \in Nat /\ m \in Nat /\ ~ (m < n)
        BY <1>2, <1>3
    <2> QED BY <2>1
<1> QED BY <1>4

\* Induction, for a property that is given as the set of numbers that have it.
LEMMA Induction ==
    ASSUME NEW S, 0 \in S, \A n \in Nat : n \in S => n + 1 \in S
    PROVE  \A n \in Nat : n \in S
<1> SUFFICES ASSUME Nat \ S # {} PROVE FALSE
    OBVIOUS
<1>1. PICK n \in Nat \ S : \A m \in Nat \ S : n <= m
    BY LeastNumber
<1>2. n # 0 /\ n - 1 \in Nat /\ n - 1 \in S
    BY <1>1
<1> QED BY <1>2

-----------------------------------------------------------------------------
(* Filtered(), from its definition *)

\* What one more element does.
WithOne(kept, x, S) == IF x \in S THEN Append(kept, x) ELSE kept

\* k is the function that Filtered() defines, up to n.
Collector(s, S, n, k) ==
    k = [i \in 0 .. n |-> IF i = 0 THEN <<>>
                          ELSE IF s[i] \in S THEN Append(k[i - 1], s[i]) ELSE k[i - 1]]

\* What is to be known of it.
Collects(k, s, S, n) ==
    /\ k[0] = <<>>
    /\ \A i \in 1 .. n : k[i] = WithOne(k[i - 1], s[i], S)

LEMMA CollectorCollects ==
    ASSUME NEW s, NEW S, NEW n \in Nat, NEW k, Collector(s, S, n, k)
    PROVE  Collects(k, s, S, n)
<1>1. \A i \in 0 .. n : k[i] = IF i = 0 THEN <<>>
                          ELSE IF s[i] \in S THEN Append(k[i - 1], s[i]) ELSE k[i - 1]
    BY DEF Collector
<1>2. k[0] = <<>>
    BY <1>1
<1>3. ASSUME NEW i \in 1 .. n PROVE k[i] = WithOne(k[i - 1], s[i], S)
    <2>1. i \in 0 .. n /\ i # 0
        OBVIOUS
    <2> QED BY <1>1, <2>1 DEF WithOne
<1> QED BY <1>2, <1>3 DEF Collects

LEMMA CollectorExists ==
    ASSUME NEW s, NEW S
    PROVE  \A n \in Nat : \E k : Collector(s, S, n, k)
<1> DEFINE Q == {n \in Nat : \E k : Collector(s, S, n, k)}
<1>1. 0 \in Q
    <2>1. Collector(s, S, 0, [i \in 0 .. 0 |-> <<>>])
        BY DEF Collector
    <2> QED BY <2>1
<1>2. ASSUME NEW n \in Nat, n \in Q PROVE n + 1 \in Q
    <2>1. PICK k : Collector(s, S, n, k)
        BY <1>2
    <2> DEFINE g == [i \in 0 .. n + 1 |-> IF i <= n THEN k[i] ELSE WithOne(k[n], s[n + 1], S)]
    <2>2. k[0] = <<>> /\ \A i \in 1 .. n : k[i] = WithOne(k[i - 1], s[i], S)
        BY <2>1, CollectorCollects DEF Collects
    <2>3. g[n + 1] = WithOne(g[n], s[n + 1], S) /\ \A i \in 0 .. n : g[i] = k[i]
        OBVIOUS
    <2>4. \A i \in 0 .. n + 1 :
             g[i] = IF i = 0 THEN <<>>
                    ELSE IF s[i] \in S THEN Append(g[i - 1], s[i]) ELSE g[i - 1]
        <3>1. \A i \in 1 .. n : i \in 0 .. n /\ i - 1 \in 0 .. n
            OBVIOUS
        <3>2. \A i \in 1 .. n : g[i] = WithOne(g[i - 1], s[i], S)
            BY <2>2, <2>3, <3>1
        <3>3. g[0] = <<>>
            BY <2>2
        <3>4. \A i \in 0 .. n + 1 : i = 0 \/ i = n + 1 \/ i \in 1 .. n
            OBVIOUS
        <3> HIDE DEF g
        <3> QED BY <2>3, <3>2, <3>3, <3>4 DEF WithOne
    <2>5. g = [i \in 0 .. n + 1 |-> g[i]]
        OBVIOUS
    <2> HIDE DEF g
    <2>6. Collector(s, S, n + 1, g)
        BY <2>4, <2>5 DEF Collector
    <2> QED BY <2>6
<1> HIDE DEF Q
<1>3. \A n \in Nat : n \in Q
    BY <1>1, <1>2, Induction
<1> QED BY <1>3 DEF Q

LEMMA FilteredCollects ==
    ASSUME NEW E, NEW s \in Seq(E), NEW S
    PROVE  \E k : Collects(k, s, S, Len(s)) /\ Filtered(s, S) = k[Len(s)]
<1> DEFINE k == CHOOSE k : Collector(s, S, Len(s), k)
<1>0. Len(s) \in Nat
    OBVIOUS
<1>1. Collector(s, S, Len(s), k)
    BY <1>0, CollectorExists
<1>2. Filtered(s, S) = k[Len(s)]
    BY DEF Filtered, Collector
<1>3. Collects(k, s, S, Len(s))
    BY <1>0, <1>1, CollectorCollects
<1> QED BY <1>2, <1>3

\* A prefix determines what is kept of it.
LEMMA CollectsPrefix ==
    ASSUME NEW s, NEW t, NEW S, NEW m \in Nat, NEW n \in Nat, m <= n,
           \A i \in 1 .. m : s[i] = t[i],
           NEW k, Collects(k, s, S, m), NEW l, Collects(l, t, S, n)
    PROVE  k[m] = l[m]
<1> DEFINE Q == {i \in Nat : i <= m => k[i] = l[i]}
<1>1. 0 \in Q
    BY DEF Collects
<1>2. ASSUME NEW i \in Nat, i \in Q PROVE i + 1 \in Q
    <2> SUFFICES ASSUME i + 1 <= m PROVE k[i + 1] = l[i + 1]
        OBVIOUS
    <2>1. i + 1 \in 1 .. m /\ i + 1 \in 1 .. n /\ (i + 1) - 1 = i
        OBVIOUS
    <2>2. k[i + 1] = WithOne(k[i], s[i + 1], S) /\ l[i + 1] = WithOne(l[i], t[i + 1], S)
        BY <2>1 DEF Collects
    <2> QED BY <1>2, <2>1, <2>2
<1> HIDE DEF Q
<1>3. \A i \in Nat : i \in Q
    BY <1>1, <1>2, Induction
<1> QED BY <1>3 DEF Q

-----------------------------------------------------------------------------
(* The laws of Filtered() *)

LEMMA FilteredEmpty == ASSUME NEW S PROVE Filtered(<<>>, S) = <<>>
<1>1. <<>> \in Seq({})
    OBVIOUS
<1>2. PICK k : Collects(k, <<>>, S, Len(<<>>)) /\ Filtered(<<>>, S) = k[Len(<<>>)]
    BY <1>1, FilteredCollects
<1>3. Len(<<>>) = 0
    OBVIOUS
<1> QED BY <1>2, <1>3 DEF Collects

LEMMA FilteredAppend ==
    ASSUME NEW E, NEW s \in Seq(E), NEW x \in E, NEW S
    PROVE  Filtered(Append(s, x), S) = WithOne(Filtered(s, S), x, S)
<1> DEFINE t == Append(s, x)
<1>1. /\ t \in Seq(E) /\ Len(t) = Len(s) + 1 /\ Len(s) \in Nat
      /\ t[Len(s) + 1] = x
      /\ \A i \in 1 .. Len(s) : s[i] = t[i]
    OBVIOUS
<1> HIDE DEF t
<1>2. PICK k : Collects(k, s, S, Len(s)) /\ Filtered(s, S) = k[Len(s)]
    BY FilteredCollects
<1>3. PICK l : Collects(l, t, S, Len(t)) /\ Filtered(t, S) = l[Len(t)]
    BY <1>1, FilteredCollects
<1>4. k[Len(s)] = l[Len(s)]
    BY <1>1, <1>2, <1>3, CollectsPrefix
<1>5. l[Len(s) + 1] = WithOne(l[Len(s)], t[Len(s) + 1], S)
    <2>1. Len(s) + 1 \in 1 .. Len(t) /\ (Len(s) + 1) - 1 = Len(s)
        BY <1>1
    <2> QED BY <1>1, <1>3, <2>1 DEF Collects
<1> QED BY <1>1, <1>2, <1>3, <1>4, <1>5 DEF t

\* A sequence that is not empty, without its last element.
LEMMA SplitLast ==
    ASSUME NEW E, NEW s \in Seq(E), s # <<>>
    PROVE  \E t \in Seq(E), x \in E : s = Append(t, x) /\ Len(s) = Len(t) + 1
<1>0. Len(s) \in Nat \ {0}
    OBVIOUS
<1> DEFINE n == Len(s) - 1
           t == [i \in 1 .. n |-> s[i]]
<1>1. t \in Seq(E) /\ Len(t) = n
    BY <1>0
<1>2. s[n + 1] \in E
    BY <1>0
<1>3. s = Append(t, s[n + 1])
    BY <1>0
<1>4. Len(s) = n + 1
    BY <1>0
<1> HIDE DEF t, n
<1> QED BY <1>1, <1>2, <1>3, <1>4

LEMMA FilteredIsSeq ==
    ASSUME NEW E, NEW s \in Seq(E), NEW S
    PROVE  Filtered(s, S) \in Seq(E \cap S)
<1> DEFINE Q == {n \in Nat : \A t \in Seq(E) : Len(t) = n => Filtered(t, S) \in Seq(E \cap S)}
<1>1. 0 \in Q
    <2>1. \A t \in Seq(E) : Len(t) = 0 => t = <<>>
        OBVIOUS
    <2> QED BY <2>1, FilteredEmpty
<1>2. ASSUME NEW n \in Nat, n \in Q PROVE n + 1 \in Q
    <2> SUFFICES ASSUME NEW u \in Seq(E), Len(u) = n + 1 PROVE Filtered(u, S) \in Seq(E \cap S)
        OBVIOUS
    <2>0. u # <<>>
        OBVIOUS
    <2>1. PICK t \in Seq(E), x \in E : u = Append(t, x) /\ Len(u) = Len(t) + 1
        BY <2>0, SplitLast
    <2>2. Filtered(t, S) \in Seq(E \cap S)
        BY <1>2, <2>1
    <2>3. Filtered(u, S) = WithOne(Filtered(t, S), x, S)
        BY <2>1, FilteredAppend
    <2> QED BY <2>2, <2>3 DEF WithOne
<1> HIDE DEF Q
<1>3. \A n \in Nat : n \in Q
    BY <1>1, <1>2, Induction
<1> QED BY <1>3 DEF Q

\* The law for the first element.
LEMMA FilteredHead ==
    ASSUME NEW E, NEW s \in Seq(E), s # <<>>, NEW S
    PROVE  Filtered(s, S) = IF Head(s) \in S THEN <<Head(s)>> \o Filtered(Tail(s), S)
                                         ELSE Filtered(Tail(s), S)
<1> DEFINE Law(u) == Filtered(u, S) = IF Head(u) \in S THEN <<Head(u)>> \o Filtered(Tail(u), S)
                                                   ELSE Filtered(Tail(u), S)
           Q == {n \in Nat : \A u \in Seq(E) : Len(u) = n + 1 => Law(u)}
<1>0. ASSUME NEW u \in Seq(E), Len(u) = 1 PROVE Law(u)
    <2>0. u # <<>>
        <3> SUFFICES ASSUME u = <<>> PROVE FALSE
            OBVIOUS
        <3>1. Len(u) = 0 /\ Len(u) = 1
            BY ONLY <1>0, u = <<>>
        <3> QED BY ONLY <3>1
    <2>1. PICK t \in Seq(E), x \in E : u = Append(t, x) /\ Len(u) = Len(t) + 1
        BY <2>0, SplitLast
    <2>2. t = <<>> /\ Head(u) = x /\ Tail(u) = <<>>
        <3>1. Len(t) = 0
            BY <1>0, <2>1
        <3>2. t = <<>>
            BY ONLY <3>1, t \in Seq(E)
        <3>3. u = <<x>>
            BY <2>1, <3>2
        <3>4. Head(<<x>>) = x /\ Tail(<<x>>) = <<>>
            OBVIOUS
        <3> QED BY ONLY <3>2, <3>3, <3>4
    <2>3. Filtered(u, S) = WithOne(<<>>, x, S)
        <3>1. Filtered(Append(t, x), S) = WithOne(Filtered(t, S), x, S)
            BY FilteredAppend
        <3> QED BY <2>1, <2>2, <3>1, FilteredEmpty
    <2>4. Append(<<>>, x) = <<x>> /\ <<x>> \o <<>> = <<x>>
        OBVIOUS
    <2> QED BY <2>2, <2>3, <2>4, FilteredEmpty DEF WithOne
<1>1. 0 \in Q
    <2> HIDE DEF Law
    <2> QED BY <1>0
<1>2. ASSUME NEW n \in Nat, n \in Q PROVE n + 1 \in Q
    <2> SUFFICES ASSUME NEW u \in Seq(E), Len(u) = (n + 1) + 1 PROVE Law(u)
        OBVIOUS
    <2>0. u # <<>>
        OBVIOUS
    <2>1. PICK t \in Seq(E), x \in E : u = Append(t, x) /\ Len(u) = Len(t) + 1
        BY <2>0, SplitLast
    <2>2. /\ Tail(t) \in Seq(E) /\ Head(u) = Head(t) /\ Tail(u) = Append(Tail(t), x)
          /\ Head(t) \in E
        BY <2>1
    <2>3. Law(t)
        BY <1>2, <2>1
    <2>4. Filtered(u, S) = WithOne(Filtered(t, S), x, S) /\ Filtered(Tail(u), S) = WithOne(Filtered(Tail(t), S), x, S)
        BY <2>1, <2>2, FilteredAppend
    <2>5. Filtered(Tail(t), S) \in Seq(E)
        <3>1. Filtered(Tail(t), S) \in Seq(E \cap S)
            BY <2>2, FilteredIsSeq
        <3> QED BY <3>1
    <2>6. Append(<<Head(t)>> \o Filtered(Tail(t), S), x) = <<Head(t)>> \o Append(Filtered(Tail(t), S), x)
        BY <2>2, <2>5
    <2> QED BY <2>2, <2>3, <2>4, <2>6 DEF WithOne
<1> HIDE DEF Q, Law
<1>3. \A n \in Nat : n \in Q
    BY <1>1, <1>2, Induction
<1>4. Len(s) - 1 \in Nat /\ Len(s) = (Len(s) - 1) + 1
    OBVIOUS
<1>5. Law(s)
    BY <1>3, <1>4 DEF Q
<1> QED BY <1>5 DEF Law

-----------------------------------------------------------------------------
(* Functions defined by recursion over an interval *)

StepFunctions(T) == [Nat -> [T -> T]]

\* From a, a step of F for each number up to N.
Recursion(f, T, a, F, N) ==
    f \in [0 .. N -> T] /\ f[0] = a /\ \A n \in 1 .. N : f[n] = F[n][f[n - 1]]

LEMMA RecursionExists ==
    ASSUME NEW T, NEW a \in T, NEW F \in StepFunctions(T), NEW N \in Nat
    PROVE  \E f : Recursion(f, T, a, F, N)
<1> USE DEF StepFunctions
<1> DEFINE Solves(f, n) == f[0] = a /\ \A i \in 1 .. n : f[i] = F[i][f[i - 1]]
           Q == {n \in Nat : \E f \in [0 .. n -> T] : Solves(f, n)}
<1>1. 0 \in Q
    <2> DEFINE f == [i \in 0 .. 0 |-> a]
    <2>1. f \in [0 .. 0 -> T] /\ Solves(f, 0)
        OBVIOUS
    <2> HIDE DEF f, Solves
    <2> QED BY <2>1
<1>2. ASSUME NEW n \in Nat, n \in Q PROVE n + 1 \in Q
    <2>1. PICK f \in [0 .. n -> T] : Solves(f, n)
        BY <1>2
    <2> DEFINE x == F[n + 1][f[n]]
               g == [i \in 0 .. n + 1 |-> IF i <= n THEN f[i] ELSE x]
    <2> HIDE DEF Q
    <2>2. x \in T
        <3>1. n \in 0 .. n /\ n + 1 \in Nat
            OBVIOUS
        <3> QED BY <3>1
    <2> HIDE DEF x
    <2>3. g \in [0 .. n + 1 -> T]
        BY <2>2
    <2>4. /\ g[n + 1] = x
          /\ \A i \in 0 .. n : g[i] = f[i]
        OBVIOUS
    <2> HIDE DEF g
    <2>5. g[0] = a
        BY <2>1, <2>4
    <2>6. ASSUME NEW i \in 1 .. n + 1 PROVE g[i] = F[i][g[i - 1]]
        <3>1. i - 1 \in 0 .. n
            OBVIOUS
        <3>2. CASE i = n + 1
            <4>1. i - 1 = n
                BY <3>2
            <4> QED BY <2>4, <3>1, <3>2, <4>1 DEF x
        <3>3. CASE i # n + 1
            <4>1. i \in 1 .. n /\ i \in 0 .. n
                BY <3>3
            <4> QED BY <2>1, <2>4, <3>1, <4>1
        <3> QED BY <3>2, <3>3
    <2>7. Solves(g, n + 1)
        BY <2>5, <2>6
    <2> QED BY <2>3, <2>7 DEF Q
<1> HIDE DEF Q
<1>3. N \in Q
    BY <1>1, <1>2, Induction
<1> QED BY <1>3 DEF Q, Recursion

-----------------------------------------------------------------------------
(* Finite sets of numbers *)

LEMMA IntervalSize ==
    ASSUME NEW n \in Nat
    PROVE  IsFiniteSet(1 .. n) /\ Cardinality(1 .. n) = n
<1>1. 1 \in Int /\ n \in Int
    OBVIOUS
<1>2. IsFiniteSet(1 .. n) /\ Cardinality(1 .. n) = IF 1 > n THEN 0 ELSE n - 1 + 1
    BY <1>1, FS_Interval
<1> QED BY <1>2

LEMMA FiniteIsBounded ==
    ASSUME NEW S, S \subseteq Nat, IsFiniteSet(S)
    PROVE  \E n \in Nat : \A x \in S : x <= n
<1> DEFINE Bounded(T) == \E n \in Nat : \A x \in T : x <= n
           Q == {k \in Nat : \A T \in SUBSET Nat : IsFiniteSet(T) /\ Cardinality(T) = k => Bounded(T)}
<1>1. Bounded({})
    OBVIOUS
<1>2. ASSUME NEW T \in SUBSET Nat, NEW y \in T, Bounded(T \ {y}) PROVE Bounded(T)
    <2>1. PICK n \in Nat : \A x \in T \ {y} : x <= n
        BY <1>2
    <2>2. n + y \in Nat /\ \A x \in T : x <= n + y
        BY <2>1
    <2> QED BY <2>2
<1> HIDE DEF Bounded
<1>3. 0 \in Q
    BY <1>1, FS_EmptySet
<1>4. ASSUME NEW k \in Nat, k \in Q PROVE k + 1 \in Q
    <2> SUFFICES ASSUME NEW T \in SUBSET Nat, IsFiniteSet(T), Cardinality(T) = k + 1
                 PROVE  Bounded(T)
        OBVIOUS
    <2>1. \A R \in SUBSET Nat : IsFiniteSet(R) /\ Cardinality(R) = k => Bounded(R)
        BY <1>4
    <2> HIDE DEF Q
    <2>2. Cardinality(T) # 0
        OBVIOUS
    <2>3. T # {}
        BY <2>2, FS_EmptySet
    <2>4. PICK y \in T : TRUE
        BY <2>3
    <2>5. IsFiniteSet(T \ {y}) /\ Cardinality(T \ {y}) = Cardinality(T) - 1
        BY FS_RemoveElement
    <2>6. Cardinality(T \ {y}) = k
        BY <2>5
    <2> QED BY <1>2, <2>1, <2>5, <2>6
<1> HIDE DEF Q
<1>5. \A k \in Nat : k \in Q
    BY <1>3, <1>4, Induction
<1>6. Cardinality(S) \in Nat
    BY FS_CardinalityType
<1> QED BY <1>5, <1>6 DEF Q, Bounded

LEMMA GreatestNumber ==
    ASSUME NEW S, S \subseteq Nat, S # {}, IsFiniteSet(S)
    PROVE  \E x \in S : \A y \in S : y <= x
<1> DEFINE Above == {n \in Nat : \A x \in S : x <= n}
<1>1. Above # {}
    BY FiniteIsBounded
<1>2. PICK n \in Above : \A m \in Above : n <= m
    BY <1>1, LeastNumber
<1>3. CASE n \in S
    BY <1>3
<1>4. CASE n \notin S
    <2>1. \A x \in S : x <= n /\ x # n /\ x \in Nat /\ n \in Nat
        BY <1>4
    <2>2. PICK x \in S : TRUE
        OBVIOUS
    <2>3. n - 1 \in Nat /\ \A y \in S : y <= n - 1
        BY <2>1, <2>2
    <2>4. n - 1 \in Above
        BY <2>3
    <2> QED BY <1>2, <2>1, <2>2, <2>4
<1> QED BY <1>3, <1>4

-----------------------------------------------------------------------------
(* A sequence that has the elements at some places of another, each once *)

Places(p, s, I) ==
    \E h \in Bijection(1 .. Len(p), I) : \A j \in 1 .. Len(p) : p[j] = s[h[j]]

LEMMA PlacesConcat ==
    ASSUME NEW E, NEW p \in Seq(E), NEW q \in Seq(E), NEW s, NEW I, NEW J,
           I \cap J = {}, Places(p, s, I), Places(q, s, J)
    PROVE  Places(p \o q, s, I \cup J)
<1>1. PICK h \in Bijection(1 .. Len(p), I) : \A j \in 1 .. Len(p) : p[j] = s[h[j]]
    BY DEF Places
<1>2. PICK k \in Bijection(1 .. Len(q), J) : \A j \in 1 .. Len(q) : q[j] = s[k[j]]
    BY DEF Places
<1>3. /\ Len(p) \in Nat /\ Len(q) \in Nat /\ Len(p \o q) = Len(p) + Len(q)
      /\ \A j \in 1 .. Len(p) : (p \o q)[j] = p[j]
      /\ \A j \in 1 .. Len(p) + Len(q) : j > Len(p) => (p \o q)[j] = q[j - Len(p)]
    OBVIOUS
<1> DEFINE m == Len(p)
           n == Len(q)
           g == [j \in 1 .. m + n |-> IF j <= m THEN h[j] ELSE k[j - m]]
<1> HIDE DEF m, n
<1>4. \A j \in 1 .. m + n : \/ j <= m /\ j \in 1 .. m /\ g[j] = h[j] /\ h[j] \in I
                            \/ j > m /\ j - m \in 1 .. n /\ g[j] = k[j - m] /\ k[j - m] \in J
    BY <1>1, <1>2, <1>3 DEF m, n, Bijection, Injection
<1>5. g \in [1 .. m + n -> I \cup J]
    BY <1>4
<1>6. ASSUME NEW i \in 1 .. m + n, NEW j \in 1 .. m + n, g[i] = g[j] PROVE i = j
    <2>1. CASE i <= m /\ j <= m
        <3>1. i \in 1 .. m /\ j \in 1 .. m /\ h[i] = h[j]
            BY <1>3, <1>4, <1>6, <2>1 DEF m, n
        <3> QED BY <1>1, <3>1 DEF m, Bijection, Injection, IsInjective
    <2>2. CASE i > m /\ j > m
        <3>1. i - m \in 1 .. n /\ j - m \in 1 .. n /\ k[i - m] = k[j - m]
            BY <1>3, <1>4, <1>6, <2>2 DEF m, n
        <3>2. i - m = j - m
            BY <1>2, <3>1 DEF n, Bijection, Injection, IsInjective
        <3> QED BY <1>3, <3>2 DEF m, n
    <2>3. m \in Nat
        BY <1>3 DEF m
    <2> QED BY <1>4, <1>6, <2>1, <2>2, <2>3
<1>7. ASSUME NEW x \in I \cup J PROVE \E j \in 1 .. m + n : g[j] = x
    <2>1. CASE x \in I
        <3>1. PICK j \in 1 .. m : h[j] = x
            BY <1>1, <2>1 DEF m, Bijection, Surjection
        <3>2. j \in 1 .. m + n /\ j <= m
            BY <1>3 DEF m, n
        <3> QED BY <3>1, <3>2
    <2>2. CASE x \in J
        <3>1. PICK j \in 1 .. n : k[j] = x
            BY <1>2, <2>2 DEF n, Bijection, Surjection
        <3>2. j + m \in 1 .. m + n /\ ~(j + m <= m) /\ (j + m) - m = j
            BY <1>3 DEF m, n
        <3> QED BY <3>1, <3>2
    <2> QED BY <2>1, <2>2
<1>8. g \in Bijection(1 .. m + n, I \cup J)
    <2> HIDE DEF g
    <2> QED BY <1>5, <1>6, <1>7 DEF Bijection, Injection, Surjection, IsInjective
<1>9. ASSUME NEW j \in 1 .. m + n PROVE (p \o q)[j] = s[g[j]]
    <2>1. CASE j <= m
        <3>1. j \in 1 .. m /\ g[j] = h[j]
            BY <2>1
        <3>2. (p \o q)[j] = p[j] /\ p[j] = s[h[j]]
            BY <1>1, <1>3, <3>1 DEF m
        <3> QED BY <3>1, <3>2
    <2>2. CASE j > m
        <3>1. j - m \in 1 .. n /\ g[j] = k[j - m]
            BY <1>3, <1>4, <2>2 DEF m, n
        <3>2. (p \o q)[j] = q[j - m] /\ q[j - m] = s[k[j - m]]
            BY <1>2, <1>3, <2>2, <3>1 DEF m, n
        <3> QED BY <3>1, <3>2
    <2>3. j <= m \/ j > m
        BY <1>3 DEF m, n
    <2> HIDE DEF g
    <2> QED BY <2>1, <2>2, <2>3
<1> HIDE DEF g
<1> QED BY <1>3, <1>8, <1>9 DEF m, n, Places

\* What Filtered() keeps is what is in the set, each as often.
LEMMA FilteredPlaces ==
    ASSUME NEW E, NEW s \in Seq(E), NEW S
    PROVE  Places(Filtered(s, S), s, {i \in 1 .. Len(s) : s[i] \in S})
<1> DEFINE Kept(u) == {i \in 1 .. Len(u) : u[i] \in S}
           Q == {n \in Nat : \A u \in Seq(E) : Len(u) = n => Places(Filtered(u, S), u, Kept(u))}
<1>1. ASSUME NEW u \in Seq(E), Len(u) = 0 PROVE Places(Filtered(u, S), u, Kept(u))
    <2>1. u = <<>> /\ Kept(u) = {} /\ Filtered(u, S) = <<>> /\ 1 .. Len(<<>>) = {}
        BY <1>1, FilteredEmpty
    <2> DEFINE h == [j \in {} |-> 0]
    <2>2. h \in Bijection({}, {})
        BY DEF Bijection, Injection, Surjection, IsInjective
    <2> HIDE DEF h, Kept
    <2> QED BY <2>1, <2>2 DEF Places
<1>2. ASSUME NEW t \in Seq(E), NEW x \in E, Places(Filtered(t, S), t, Kept(t))
      PROVE  Places(Filtered(Append(t, x), S), Append(t, x), Kept(Append(t, x)))
    <2> DEFINE u == Append(t, x)
               p == Filtered(t, S)
    <2>1. /\ u \in Seq(E) /\ Len(u) = Len(t) + 1 /\ Len(t) \in Nat
          /\ u[Len(t) + 1] = x /\ \A i \in 1 .. Len(t) : u[i] = t[i]
        OBVIOUS
    <2>2. Filtered(u, S) = WithOne(p, x, S)
        BY FilteredAppend
    <2>3. p \in Seq(E \cap S)
        BY FilteredIsSeq
    <2> HIDE DEF u, p
    <2>4. CASE x \notin S
        <3>1. Kept(u) = Kept(t)
            BY <2>1, <2>4
        <3>2. Filtered(u, S) = p
            BY <2>2, <2>4 DEF WithOne
        <3>3. \A i \in Kept(t) : u[i] = t[i]
            BY <2>1
        <3> HIDE DEF Kept
        <3>4. PICK h \in Bijection(1 .. Len(p), Kept(t)) : \A j \in 1 .. Len(p) : p[j] = t[h[j]]
            BY <1>2 DEF Places, p
        <3>5. \A j \in 1 .. Len(p) : h[j] \in Kept(t)
            BY <3>4 DEF Bijection, Injection
        <3>6. \A j \in 1 .. Len(p) : p[j] = u[h[j]]
            BY <3>3, <3>4, <3>5
        <3> QED BY <3>1, <3>2, <3>4, <3>6 DEF Places, u
    <2>5. CASE x \in S
        <3>1. Filtered(u, S) = p \o <<x>>
            BY <2>2, <2>3, <2>5 DEF WithOne
        <3>2. Kept(u) = Kept(t) \cup {Len(t) + 1} /\ Kept(t) \cap {Len(t) + 1} = {}
            BY <2>1, <2>5
        <3>3. \A i \in Kept(t) : u[i] = t[i]
            BY <2>1
        <3> HIDE DEF Kept
        <3>4. Places(p, u, Kept(t))
            <4>1. PICK h \in Bijection(1 .. Len(p), Kept(t)) : \A j \in 1 .. Len(p) : p[j] = t[h[j]]
                BY <1>2 DEF Places, p
            <4>2. \A j \in 1 .. Len(p) : h[j] \in Kept(t)
                BY <4>1 DEF Bijection, Injection
            <4>3. \A j \in 1 .. Len(p) : p[j] = u[h[j]]
                BY <3>3, <4>1, <4>2
            <4> QED BY <4>1, <4>3 DEF Places
        <3>5. Places(<<x>>, u, {Len(t) + 1})
            <4> DEFINE k == [j \in 1 .. 1 |-> Len(t) + 1]
            <4>1. k \in Bijection(1 .. 1, {Len(t) + 1})
                BY DEF Bijection, Injection, Surjection, IsInjective
            <4>2. \A j \in 1 .. 1 : <<x>>[j] = u[k[j]]
                BY <2>1
            <4>3. Len(<<x>>) = 1
                OBVIOUS
            <4> HIDE DEF k
            <4> QED BY <4>1, <4>2, <4>3 DEF Places
        <3>6. p \in Seq(E) /\ <<x>> \in Seq(E)
            BY <2>3
        <3>7. Places(p \o <<x>>, u, Kept(t) \cup {Len(t) + 1})
            BY <3>2, <3>4, <3>5, <3>6, PlacesConcat
        <3> QED BY <3>1, <3>2, <3>7 DEF u
    <2> QED BY <2>4, <2>5
<1> HIDE DEF Kept
<1>3. 0 \in Q
    BY <1>1
<1>4. ASSUME NEW n \in Nat, n \in Q PROVE n + 1 \in Q
    <2> SUFFICES ASSUME NEW u \in Seq(E), Len(u) = n + 1 PROVE Places(Filtered(u, S), u, Kept(u))
        OBVIOUS
    <2>0. u # <<>>
        OBVIOUS
    <2>1. PICK t \in Seq(E), x \in E : u = Append(t, x) /\ Len(u) = Len(t) + 1
        BY <2>0, SplitLast
    <2>2. Len(t) = n
        BY <2>1
    <2> QED BY <1>2, <1>4, <2>1, <2>2
<1> HIDE DEF Q
<1>5. \A n \in Nat : n \in Q
    BY <1>3, <1>4, Induction
<1>6. Len(s) \in Nat
    OBVIOUS
<1>7. Places(Filtered(s, S), s, Kept(s))
    BY <1>5, <1>6 DEF Q
<1> QED BY <1>7 DEF Kept

-----------------------------------------------------------------------------
(* Sequences, longer by some elements or by one *)

LEMMA OneElement ==
    ASSUME NEW S, NEW x \in S
    PROVE  <<x>> \in Seq(S) /\ Len(<<x>>) = 1 /\ <<x>>[1] = x
OBVIOUS

LEMMA Concatenation ==
    ASSUME NEW S, NEW o \in Seq(S), NEW s \in Seq(S)
    PROVE  /\ o \o s \in Seq(S) /\ Len(o \o s) = Len(o) + Len(s)
           /\ \A i \in 1 .. Len(o) : (o \o s)[i] = o[i]
           /\ \A i \in 1 .. Len(s) : (o \o s)[Len(o) + i] = s[i]
OBVIOUS

LEMMA OneBefore ==
    ASSUME NEW S, NEW x \in S, NEW s \in Seq(S), NEW t, t = <<x>> \o s
    PROVE  /\ t \in Seq(S) /\ Len(t) = Len(s) + 1 /\ t[1] = x
           /\ \A i \in 1 .. Len(s) : t[i + 1] = s[i]
<1> DEFINE o == <<x>>
<1>1. o \in Seq(S) /\ Len(o) = 1 /\ o[1] = x
    BY OneElement
<1> HIDE DEF o
<1>2. t = o \o s
    BY DEF o
<1>3. /\ t \in Seq(S) /\ Len(t) = Len(o) + Len(s)
      /\ \A i \in 1 .. Len(o) : t[i] = o[i]
      /\ \A i \in 1 .. Len(s) : t[Len(o) + i] = s[i]
    BY <1>1, <1>2, Concatenation
<1>4. Len(s) \in Nat
    OBVIOUS
<1> QED BY <1>1, <1>3, <1>4

LEMMA OneAfter ==
    ASSUME NEW S, NEW x \in S, NEW s \in Seq(S), NEW t, t = Append(s, x)
    PROVE  /\ t \in Seq(S) /\ Len(t) = Len(s) + 1 /\ t[Len(s) + 1] = x
           /\ \A i \in 1 .. Len(s) : t[i] = s[i]
OBVIOUS

\* A sequence without repetitions is no longer than the set is large.
LEMMA NoRepetition ==
    ASSUME NEW S, IsFiniteSet(S), NEW s \in Seq(S),
           \A i, j \in 1 .. Len(s) : s[i] = s[j] => i = j
    PROVE  Len(s) <= Cardinality(S)
<1>1. Len(s) \in Nat /\ s \in [1 .. Len(s) -> S]
    OBVIOUS
<1>2. s \in Injection(1 .. Len(s), S)
    BY <1>1 DEF Injection, IsInjective
<1>3. Cardinality(1 .. Len(s)) <= Cardinality(S)
    BY <1>2, FS_Injection
<1> QED BY <1>1, <1>3, IntervalSize

-----------------------------------------------------------------------------
(* What Filtered() keeps, as a set *)

LEMMA FilteredElements ==
    ASSUME NEW E, NEW s \in Seq(E), NEW S, NEW p, p = Filtered(s, S)
    PROVE  \A x : (\E j \in DOMAIN p : p[j] = x) <=> x \in S /\ \E i \in DOMAIN s : s[i] = x
<1> DEFINE I == {i \in 1 .. Len(s) : s[i] \in S}
<1>0. Places(p, s, I)
    BY FilteredPlaces
<1>1. p \in Seq(E \cap S) /\ DOMAIN s = 1 .. Len(s)
    BY FilteredIsSeq
<1>2. PICK h \in Bijection(1 .. Len(p), I) : \A j \in 1 .. Len(p) : p[j] = s[h[j]]
    BY ONLY <1>0 DEF Places
<1>3. DOMAIN p = 1 .. Len(p) /\ \A j \in 1 .. Len(p) : p[j] \in S
    BY <1>1
<1>4. ASSUME NEW j \in DOMAIN p PROVE p[j] \in S /\ \E i \in DOMAIN s : s[i] = p[j]
    <2>1. h[j] \in I
        BY <1>2, <1>3 DEF Bijection, Injection
    <2> QED BY <1>1, <1>2, <1>3, <2>1
<1>5. ASSUME NEW i \in DOMAIN s, s[i] \in S PROVE \E j \in DOMAIN p : p[j] = s[i]
    <2>1. i \in I
        BY <1>1, <1>5
    <2>2. PICK j \in 1 .. Len(p) : h[j] = i
        BY <1>2, <2>1 DEF Bijection, Surjection
    <2> QED BY <1>2, <1>3, <2>2
<1> QED BY <1>4, <1>5

LEMMA FilteredOnce ==
    ASSUME NEW E, NEW s \in Seq(E), NEW S,
           \A i, j \in DOMAIN s : s[i] = s[j] => i = j, NEW p, p = Filtered(s, S)
    PROVE  \A i, j \in DOMAIN p : p[i] = p[j] => i = j
<1> DEFINE I == {i \in 1 .. Len(s) : s[i] \in S}
<1>0. Places(p, s, I)
    BY FilteredPlaces
<1>1. p \in Seq(E \cap S) /\ DOMAIN s = 1 .. Len(s)
    BY FilteredIsSeq
<1>2. PICK h \in Bijection(1 .. Len(p), I) : \A j \in 1 .. Len(p) : p[j] = s[h[j]]
    BY ONLY <1>0 DEF Places
<1>3. DOMAIN p = 1 .. Len(p)
    BY <1>1
<1> SUFFICES ASSUME NEW i \in 1 .. Len(p), NEW j \in 1 .. Len(p), p[i] = p[j] PROVE i = j
    BY <1>3
<1>4. h[i] \in DOMAIN s /\ h[j] \in DOMAIN s
    BY <1>1, <1>2 DEF Bijection, Injection
<1>5. h[i] = h[j]
    BY <1>2, <1>4
<1> QED BY <1>2, <1>5 DEF Bijection, Injection, IsInjective

\* Nothing is left out if everything is in the set.
LEMMA FilteredAll ==
    ASSUME NEW E, NEW s \in Seq(E), NEW S, \A i \in DOMAIN s : s[i] \in S
    PROVE  Filtered(s, S) = s
<1> DEFINE Whole(u) == (\A i \in DOMAIN u : u[i] \in S) => Filtered(u, S) = u
           Q == {n \in Nat : \A u \in Seq(E) : Len(u) = n => Whole(u)}
<1>1. 0 \in Q
    <2> SUFFICES ASSUME NEW u \in Seq(E), Len(u) = 0 PROVE Filtered(u, S) = u
        OBVIOUS
    <2>1. u = <<>>
        OBVIOUS
    <2> QED BY <2>1, FilteredEmpty
<1>2. ASSUME NEW n \in Nat, n \in Q PROVE n + 1 \in Q
    <2> SUFFICES ASSUME NEW u \in Seq(E), Len(u) = n + 1, \A i \in DOMAIN u : u[i] \in S
                 PROVE  Filtered(u, S) = u
        OBVIOUS
    <2>0. u # <<>>
        OBVIOUS
    <2>1. PICK t \in Seq(E), x \in E : u = Append(t, x) /\ Len(u) = Len(t) + 1
        BY <2>0, SplitLast
    <2>2. Len(t) = n /\ Whole(t)
        BY <1>2, <2>1
    <2>3. x \in S /\ \A i \in DOMAIN t : t[i] \in S
        <3>1. DOMAIN u = 1 .. n + 1 /\ DOMAIN t = 1 .. n /\ u[n + 1] = x
            BY <2>1, <2>2
        <3>2. \A i \in 1 .. n : i \in 1 .. n + 1 /\ u[i] = t[i]
            BY <2>1, <2>2
        <3> HIDE DEF Q
        <3> QED BY <3>1, <3>2
    <2>4. Filtered(Append(t, x), S) = WithOne(Filtered(t, S), x, S)
        BY FilteredAppend
    <2> HIDE DEF Q
    <2> QED BY <2>1, <2>2, <2>3, <2>4 DEF WithOne
<1> HIDE DEF Q
<1>3. \A n \in Nat : n \in Q
    BY <1>1, <1>2, Induction
<1>4. Len(s) \in Q
    BY <1>3
<1> QED BY <1>4 DEF Q

\* The places of a bijection's pre-image are as many.
LEMMA SameNumber ==
    ASSUME NEW n \in Nat, NEW h \in Bijection(1 .. n, 1 .. n), NEW A, A \subseteq 1 .. n
    PROVE  Cardinality({j \in 1 .. n : h[j] \in A}) = Cardinality(A)
<1> DEFINE B == {j \in 1 .. n : h[j] \in A}
           g == [j \in B |-> h[j]]
<1>1. /\ h \in [1 .. n -> 1 .. n]
      /\ \A i, j \in 1 .. n : h[i] = h[j] => i = j
      /\ \A x \in 1 .. n : \E j \in 1 .. n : h[j] = x
    BY DEF Bijection, Injection, Surjection, IsInjective
<1>2. /\ g \in [B -> A] /\ DOMAIN g = B
      /\ \A i, j \in B : g[i] = g[j] => i = j
      /\ \A x \in A : \E j \in B : g[j] = x
    BY <1>1
<1>3. B \subseteq 1 .. n
    OBVIOUS
<1> HIDE DEF B, g
<1>4. g \in Bijection(B, A)
    BY <1>2 DEF Bijection, Injection, Surjection, IsInjective
<1>5. ExistsBijection(B, A)
    BY <1>4 DEF ExistsBijection
<1>6. IsFiniteSet(B)
    BY <1>3, IntervalSize, FS_Subset
<1>7. Cardinality(A) = Cardinality(B)
    BY <1>5, <1>6, FS_Bijection
<1> QED BY <1>7 DEF B

-----------------------------------------------------------------------------
(* Sequences joined, and with an element taken out *)

Values(s) == {s[i] : i \in DOMAIN s}

Joins(t, q, o) == t = q \o o

LEMMA JoinedElements ==
    ASSUME NEW E, NEW q \in Seq(E), NEW o \in Seq(E), NEW t, Joins(t, q, o)
    PROVE  t \in Seq(E) /\ Values(t) = Values(q) \cup Values(o)
<1>1. /\ t \in Seq(E) /\ Len(t) = Len(q) + Len(o)
      /\ \A i \in 1 .. Len(q) : t[i] = q[i]
      /\ \A i \in 1 .. Len(o) : t[Len(q) + i] = o[i]
    BY Concatenation DEF Joins
<1> DEFINE m == Len(q)
           n == Len(o)
<1>2. m \in Nat /\ n \in Nat /\ DOMAIN q = 1 .. m /\ DOMAIN o = 1 .. n /\ DOMAIN t = 1 .. m + n
    BY <1>1
<1>3. (\A i \in 1 .. m : t[i] = q[i]) /\ (\A i \in 1 .. n : t[m + i] = o[i])
    BY <1>1
<1> HIDE DEF m, n
<1>4. \A i \in 1 .. m + n : i \in 1 .. m \/ (i - m \in 1 .. n /\ m + (i - m) = i)
    BY <1>2
<1>5. (\A i \in 1 .. m : i \in 1 .. m + n) /\ (\A i \in 1 .. n : m + i \in 1 .. m + n)
    BY <1>2
<1>6. ASSUME NEW i \in 1 .. m + n
      PROVE  (\E j \in 1 .. m : q[j] = t[i]) \/ (\E j \in 1 .. n : o[j] = t[i])
    <2>1. CASE i \in 1 .. m
        BY <1>3, <2>1
    <2>2. CASE i - m \in 1 .. n /\ m + (i - m) = i
        BY <1>3, <2>2
    <2> QED BY <1>4, <2>1, <2>2
<1>7. Values(t) \subseteq Values(q) \cup Values(o)
    BY <1>2, <1>6 DEF Values
<1>8. ASSUME NEW i \in 1 .. m PROVE q[i] \in Values(t)
    BY <1>2, <1>3, <1>5 DEF Values
<1>9. ASSUME NEW i \in 1 .. n PROVE o[i] \in Values(t)
    BY <1>2, <1>3, <1>5 DEF Values
<1>10. Values(q) = {q[i] : i \in 1 .. m} /\ Values(o) = {o[i] : i \in 1 .. n}
    BY <1>2 DEF Values
<1> QED BY <1>1, <1>7, <1>8, <1>9, <1>10

LeavingOut(s, i) == SubSeq(s, 1, i - 1) \o SubSeq(s, i + 1, Len(s))

LEMMA Removal ==
    ASSUME NEW S, NEW s \in Seq(S), NEW i \in DOMAIN s
    PROVE  /\ LeavingOut(s, i) \in Seq(S)
           /\ DOMAIN LeavingOut(s, i) = 1 .. (Len(s) - 1)
           /\ \A j \in 1 .. (Len(s) - 1) :
                 LeavingOut(s, i)[j] = IF j < i THEN s[j] ELSE s[j + 1]
<1> DEFINE n == Len(s)
           p == SubSeq(s, 1, i - 1)
           q == SubSeq(s, i + 1, n)
           r == LeavingOut(s, i)
<1>1. n \in Nat /\ i \in 1 .. n /\ DOMAIN s = 1 .. n
    OBVIOUS
<1>2. /\ p \in Seq(S) /\ Len(p) = i - 1
      /\ \A j \in 1 .. i - 1 : p[j] = s[j]
    BY <1>1
<1>3. /\ q \in Seq(S) /\ Len(q) = n - i
      /\ \A j \in 1 .. n - i : q[j] = s[j + i]
    BY <1>1
<1> HIDE DEF p, q
<1>4. /\ p \o q \in Seq(S) /\ Len(p \o q) = Len(p) + Len(q)
      /\ \A j \in 1 .. Len(p) : (p \o q)[j] = p[j]
      /\ \A j \in 1 .. Len(q) : (p \o q)[Len(p) + j] = q[j]
    <2>1. p \in Seq(S) /\ q \in Seq(S)
        BY <1>2, <1>3
    <2> QED BY ONLY <2>1
<1>5. r = p \o q
    BY DEF LeavingOut, p, q
<1> HIDE DEF n, r
<1>6. /\ r \in Seq(S) /\ Len(r) = (i - 1) + (n - i)
      /\ \A j \in 1 .. i - 1 : r[j] = p[j]
      /\ \A j \in 1 .. n - i : r[(i - 1) + j] = q[j]
    <2>1. /\ r \in Seq(S) /\ Len(r) = Len(p) + Len(q)
          /\ \A j \in 1 .. Len(p) : r[j] = p[j]
          /\ \A j \in 1 .. Len(q) : r[Len(p) + j] = q[j]
        BY ONLY <1>4, <1>5, Zenon
    <2> QED BY <1>2, <1>3, <2>1
<1>7. Len(r) = n - 1 /\ DOMAIN r = 1 .. (n - 1)
    BY <1>1, <1>6
<1>8. ASSUME NEW j \in 1 .. (n - 1) PROVE r[j] = IF j < i THEN s[j] ELSE s[j + 1]
    <2>1. CASE j < i
        <3>1. j \in 1 .. i - 1
            BY <1>1, <2>1
        <3> QED BY <1>2, <1>6, <2>1, <3>1
    <2>2. CASE ~(j < i)
        <3> DEFINE k == j - (i - 1)
        <3>1. k \in 1 .. n - i /\ (i - 1) + k = j /\ k + i = j + 1
            BY <1>1, <2>2
        <3> HIDE DEF k
        <3> QED BY <1>3, <1>6, <2>2, <3>1
    <2> QED BY <2>1, <2>2
<1> QED BY <1>6, <1>7, <1>8 DEF n, r
=============================================================================
