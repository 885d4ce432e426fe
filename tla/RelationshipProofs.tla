------------------------ MODULE RelationshipProofs -------------------------
(***************************************************************************)
(* Proofs about the relationship store, for every domain and any number of *)
(* links.                                                                  *)
(***************************************************************************)
EXTENDS RelationshipStore, SelectionProofs, SequenceTheorems

RInv == LinksTypeOK /\ AtMostOne

\* A side on which _count_on_side() finds less than one link has none.
LEMMA NotCounted ==
    ASSUME links \in [Rel -> Seq(Link)], NEW r \in Rel, NEW x
    PROVE  /\ ~(CountA(r, x) >= 1) => \A i \in DOMAIN links[r] : links[r][i].a # x
           /\ ~(CountB(r, x) >= 1) => \A i \in DOMAIN links[r] : links[r][i].b # x
  <1>1. IsFiniteSet(DOMAIN links[r])
    <2>1. links[r] \in Seq(Link)
      OBVIOUS
    <2>2. DOMAIN links[r] = 1 .. Len(links[r]) /\ Len(links[r]) \in Nat
      BY <2>1
    <2> QED
      BY <2>2, FS_Interval
  <1>2. ASSUME NEW T \in SUBSET (DOMAIN links[r]), ~(Cardinality(T) >= 1)
        PROVE  T = {}
    <2>1. IsFiniteSet(T) /\ Cardinality(T) \in Nat
      BY <1>1, FS_Subset, FS_CardinalityType
    <2>2. Cardinality(T) = 0
      BY <1>2, <2>1
    <2> QED
      BY <2>1, <2>2, FS_EmptySet
  <1>3. ~(CountA(r, x) >= 1) => \A i \in DOMAIN links[r] : links[r][i].a # x
    <2> DEFINE T == {i \in DOMAIN links[r] : links[r][i].a = x}
    <2>1. ~(Cardinality(T) >= 1) => T = {}
      BY <1>2
    <2> QED
      BY <2>1 DEF CountA
  <1>4. ~(CountB(r, x) >= 1) => \A i \in DOMAIN links[r] : links[r][i].b # x
    <2> DEFINE T == {i \in DOMAIN links[r] : links[r][i].b = x}
    <2>1. ~(Cardinality(T) >= 1) => T = {}
      BY <1>2
    <2> QED
      BY <2>1 DEF CountB
  <1> QED
    BY <1>3, <1>4

\* A link in the orientation of its association.
LEMMA NormalizedType ==
    ASSUME NEW r \in Rel, NEW x \in Addr, NEW y \in Addr, NEW l \in Normalized(r, x, y)
    PROVE  l \in Link /\ l.a[1] = EndA[r] /\ l.b[1] = EndB[r]
  BY DEF Normalized, Link

\* Taking an element out of a list of links.
LEMMA RemoveAtLinks ==
    ASSUME NEW s \in Seq(Link), NEW i \in DOMAIN s
    PROVE  /\ RemoveAt(s, i) \in Seq(Link)
           /\ DOMAIN RemoveAt(s, i) = 1 .. (Len(s) - 1)
           /\ \A j \in 1 .. (Len(s) - 1) :
                 RemoveAt(s, i)[j] = IF j < i THEN s[j] ELSE s[j + 1]
BY Removal DEF RemoveAt, LeavingOut

LEMMA RelateKeeps ==
    ASSUME RInv, NEW r \in Rel, NEW x \in Addr, NEW y \in Addr, Relate(r, x, y)
    PROVE  RInv'
  <1>1. PICK l \in Normalized(r, x, y) :
           ~Full(r, l) /\ links' = [links EXCEPT ![r] = Append(@, l)]
    BY DEF Relate
  <1>2. l \in Link /\ l.a[1] = EndA[r] /\ l.b[1] = EndB[r]
    BY NormalizedType
  <1>3. links \in [Rel -> Seq(Link)] /\ links[r] \in Seq(Link)
    BY DEF RInv, LinksTypeOK
  <1>4. /\ links' \in [Rel -> Seq(Link)]
        /\ \A q \in Rel \ {r} : links'[q] = links[q]
        /\ DOMAIN links'[r] = 1 .. (Len(links[r]) + 1)
        /\ \A i \in DOMAIN links[r] : links'[r][i] = links[r][i]
        /\ links'[r][Len(links[r]) + 1] = l
        /\ DOMAIN links[r] = 1 .. Len(links[r]) /\ Len(links[r]) \in Nat
    BY <1>1, <1>2, <1>3
  <1>5. LinksTypeOK'
    <2>1. alive' \subseteq Addr
      BY DEF RInv, LinksTypeOK, Relate
    <2>2. ASSUME NEW q \in Rel, NEW i \in DOMAIN links'[q]
          PROVE  links'[q][i].a[1] = EndA[q] /\ links'[q][i].b[1] = EndB[q]
      <3>1. CASE q # r
        BY <1>4, <3>1 DEF RInv, LinksTypeOK
      <3>2. CASE q = r
        <4>1. CASE i \in DOMAIN links[r]
          BY <1>4, <3>2, <4>1 DEF RInv, LinksTypeOK
        <4>2. CASE i = Len(links[r]) + 1
          BY <1>2, <1>4, <3>2, <4>2
        <4> QED
          BY <1>4, <3>2, <4>1, <4>2
      <3> QED
        BY <3>1, <3>2
    <2> QED
      BY <1>4, <2>1, <2>2 DEF LinksTypeOK
  <1>6. AtMostOne'
    <2> SUFFICES ASSUME NEW i \in DOMAIN links'[r], NEW j \in DOMAIN links'[r], i # j
                 PROVE  /\ IsOne(MultAB[r]) => links'[r][i].a # links'[r][j].a
                        /\ IsOne(MultBA[r]) => links'[r][i].b # links'[r][j].b
      <3>1. \A q \in Rel \ {r} : \A i, j \in DOMAIN links'[q] : i # j =>
               /\ IsOne(MultAB[q]) => links'[q][i].a # links'[q][j].a
               /\ IsOne(MultBA[q]) => links'[q][i].b # links'[q][j].b
        BY <1>4 DEF RInv, AtMostOne
      <3> QED
        BY <3>1 DEF AtMostOne
    <2>1. \A k \in DOMAIN links[r] :
             /\ IsOne(MultAB[r]) => links[r][k].a # l.a
             /\ IsOne(MultBA[r]) => links[r][k].b # l.b
      BY <1>1, <1>3, NotCounted DEF Full
    <2>2. CASE i \in DOMAIN links[r] /\ j \in DOMAIN links[r]
      BY <1>4, <2>2 DEF RInv, AtMostOne
    <2>3. CASE i = Len(links[r]) + 1 \/ j = Len(links[r]) + 1
      BY <1>4, <2>1, <2>3
    <2> QED
      BY <1>4, <2>2, <2>3
  <1> QED
    BY <1>5, <1>6 DEF RInv

LEMMA UnrelateKeeps ==
    ASSUME RInv, NEW r \in Rel, NEW x \in Addr, NEW y \in Addr, Unrelate(r, x, y)
    PROVE  RInv'
  <1>1. PICK k \in DOMAIN links[r] : links' = [links EXCEPT ![r] = RemoveAt(@, k)]
    BY DEF Unrelate
  <1>2. links \in [Rel -> Seq(Link)] /\ links[r] \in Seq(Link)
    BY DEF RInv, LinksTypeOK
  <1>3. /\ links'[r] = RemoveAt(links[r], k)
        /\ \A q \in Rel \ {r} : links'[q] = links[q]
    BY <1>1, <1>2
  <1>4. /\ links'[r] \in Seq(Link)
        /\ DOMAIN links'[r] = 1 .. (Len(links[r]) - 1)
        /\ \A j \in 1 .. (Len(links[r]) - 1) :
              links'[r][j] = IF j < k THEN links[r][j] ELSE links[r][j + 1]
    BY <1>2, <1>3, RemoveAtLinks
  <1>5. links' \in [Rel -> Seq(Link)]
    BY <1>1, <1>2, <1>3, <1>4
  <1> DEFINE old(j) == IF j < k THEN j ELSE j + 1
  <1>6. \A j \in DOMAIN links'[r] : old(j) \in DOMAIN links[r] /\ links'[r][j] = links[r][old(j)]
    <2> SUFFICES ASSUME NEW j \in 1 .. (Len(links[r]) - 1)
                 PROVE  old(j) \in DOMAIN links[r] /\ links'[r][j] = links[r][old(j)]
      BY <1>4
    <2>1. DOMAIN links[r] = 1 .. Len(links[r]) /\ Len(links[r]) \in Nat
      BY <1>2
    <2>2. k \in 1 .. Len(links[r])
      BY <2>1
    <2>3. links'[r][j] = IF j < k THEN links[r][j] ELSE links[r][j + 1]
      BY <1>4
    <2>4. CASE j < k
      BY <2>1, <2>2, <2>3, <2>4
    <2>5. CASE ~(j < k)
      BY <2>1, <2>2, <2>3, <2>5
    <2> QED
      BY <2>4, <2>5
  <1>7. \A i, j \in DOMAIN links'[r] : i # j => old(i) # old(j)
    BY <1>2, <1>4
  <1> HIDE DEF old
  <1>8. LinksTypeOK'
    BY <1>3, <1>5, <1>6 DEF RInv, LinksTypeOK, Unrelate
  <1>9. AtMostOne'
    BY <1>3, <1>6, <1>7 DEF RInv, AtMostOne
  <1> QED
    BY <1>8, <1>9 DEF RInv

LEMMA StoreInvariant == RSpec => []RInv
  <1>1. RInit => RInv
    BY DEF RInit, RInv, LinksTypeOK, AtMostOne
  <1>2. RInv /\ [RNext]_rVars => RInv'
    <2> SUFFICES ASSUME RInv, [RNext]_rVars PROVE RInv'
      OBVIOUS
    <2>1. ASSUME NEW x \in Addr, CreateInstance(x) \/ DeleteInstance(x)
          PROVE  RInv'
      BY <2>1 DEF CreateInstance, DeleteInstance, RInv, LinksTypeOK, AtMostOne
    <2>2. CASE UNCHANGED rVars
      BY <2>2 DEF rVars, RInv, LinksTypeOK, AtMostOne
    <2> QED
      BY <2>1, <2>2, RelateKeeps, UnrelateKeeps DEF RNext
  <1> QED
    BY <1>1, <1>2, PTL DEF RSpec

\* Every link joins instances of the classes of its association, whatever the
\* order of the arguments of relate() (relationship.py:34-50).
THEOREM LinksAreTyped == RSpec => []LinksTypeOK
  <1>1. RInv => LinksTypeOK
    BY DEF RInv
  <1> QED
    BY <1>1, StoreInvariant, PTL

\* D-08 for multiplicity "1": no sequence of calls gives an instance a second
\* partner across such an end (relationship.py:103-137).
THEOREM OneMeansOne == RSpec => []AtMostOne
  <1>1. RInv => AtMostOne
    BY DEF RInv
  <1> QED
    BY <1>1, StoreInvariant, PTL

\* What relate() and unrelate() do to the list of their relationship.
LEMMA OneLinkStep ==
    ASSUME LinksTypeOK, RNext, links' # links
    PROVE  \E r \in Rel :
              /\ \A q \in Rel \ {r} : links'[q] = links[q]
              /\ \/ links'[r] # <<>> /\ Front(links'[r]) = links[r]
                 \/ \E i \in DOMAIN links[r] : links'[r] = RemoveAt(links[r], i)
  <1>1. ASSUME NEW s \in Seq(Link), NEW l \in Link
        PROVE  Append(s, l) # <<>> /\ Front(Append(s, l)) = s
    <2>1. Len(Append(s, l)) = Len(s) + 1 /\ Len(s) \in Nat
      OBVIOUS
    <2>2. Front(Append(s, l)) = SubSeq(Append(s, l), 1, Len(s))
      BY <2>1 DEF Front
    <2> QED
      BY <2>1, <2>2
  <1>2. ASSUME NEW r \in Rel, NEW x \in Addr, NEW y \in Addr, Relate(r, x, y)
        PROVE  /\ \A q \in Rel \ {r} : links'[q] = links[q]
               /\ links'[r] # <<>> /\ Front(links'[r]) = links[r]
    <2>1. PICK l \in Normalized(r, x, y) : links' = [links EXCEPT ![r] = Append(@, l)]
      BY <1>2 DEF Relate
    <2>2. l \in Link
      BY NormalizedType
    <2>3. links \in [Rel -> Seq(Link)] /\ links[r] \in Seq(Link)
      BY DEF LinksTypeOK
    <2>4. links'[r] = Append(links[r], l)
      BY <2>1, <2>3
    <2> QED
      BY <1>1, <2>1, <2>2, <2>3, <2>4
  <1>3. ASSUME NEW r \in Rel, NEW x \in Addr, NEW y \in Addr, Unrelate(r, x, y)
        PROVE  /\ \A q \in Rel \ {r} : links'[q] = links[q]
               /\ \E i \in DOMAIN links[r] : links'[r] = RemoveAt(links[r], i)
    BY <1>3 DEF Unrelate, LinksTypeOK
  <1> QED
    BY <1>2, <1>3 DEF RNext, CreateInstance, DeleteInstance

\* relate() appends one link, unrelate() takes one out and leaves the order of
\* the others, and neither touches another relationship, nor do creations and
\* deletions (relationship.py:68-206).
THEOREM LinksChangeOneByOne == RSpec => OneLinkAtATime
  <1>1. LinksTypeOK /\ [RNext]_rVars =>
          (links' # links =>
             \E r \in Rel :
                /\ \A q \in Rel \ {r} : links'[q] = links[q]
                /\ \/ links'[r] # <<>> /\ Front(links'[r]) = links[r]
                   \/ \E i \in DOMAIN links[r] : links'[r] = RemoveAt(links[r], i))
    BY OneLinkStep DEF rVars
  <1> QED
    BY <1>1, LinksAreTyped, PTL DEF RSpec, OneLinkAtATime

-----------------------------------------------------------------------------
(* Queries *)

\* A link of r joins x and y.
Joined(r, x, y) ==
    \E i \in DOMAIN links[r] : links[r][i] \in {[a |-> x, b |-> y], [a |-> y, b |-> x]}

LEMMA NavigateType ==
    ASSUME LinksTypeOK, NEW r \in Rel, NEW x \in Addr
    PROVE  /\ Navigate(r, x) \in Seq(Addr)
           /\ ToSet(Navigate(r, x)) = {z \in Addr : Joined(r, x, z)}
  <1> DEFINE ls == links[r]
             S == {l \in ToSet(ls) : x \in {l.a, l.b}}
             hits == Filtered(ls, S)
             Other(l) == IF l.a = x THEN l.b ELSE l.a
  <1>1. ls \in Seq(Link)
    BY DEF LinksTypeOK
  <1> HIDE DEF ls
  <1>2. hits \in Seq(Link \cap S)
    BY <1>1, FilteredIsSeq
  <1>3. \A l : (\E j \in DOMAIN hits : hits[j] = l) <=> l \in S /\ \E i \in DOMAIN ls : ls[i] = l
    <2>1. hits = Filtered(ls, S)
      OBVIOUS
    <2> HIDE DEF hits, S
    <2> QED BY <1>1, <2>1, FilteredElements
  <1>4. Navigate(r, x) = [i \in DOMAIN hits |-> Other(hits[i])]
    BY DEF Navigate, ls
  <1> HIDE DEF hits
  <1>5. DOMAIN hits = 1 .. Len(hits) /\ Len(hits) \in Nat /\ \A i \in 1 .. Len(hits) : hits[i] \in Link
    BY <1>2
  <1>6. \A l \in Link : Other(l) \in Addr /\ l = [a |-> l.a, b |-> l.b]
    BY DEF Link
  <1>7. Navigate(r, x) \in Seq(Addr)
    <2>1. \A i \in 1 .. Len(hits) : Other(hits[i]) \in Addr
      BY <1>5, <1>6
    <2> HIDE DEF Other
    <2> QED BY <1>4, <1>5, <2>1
  <1>8. ASSUME NEW i \in DOMAIN hits PROVE Joined(r, x, Other(hits[i]))
    <2> DEFINE l == hits[i]
    <2>1. PICK j \in DOMAIN ls : ls[j] = l
      BY <1>3, <1>8
    <2>2. x \in {l.a, l.b} /\ l \in Link
      BY <1>2, <1>5, <1>8
    <2> HIDE DEF l
    <2>3. l \in {[a |-> x, b |-> Other(l)], [a |-> Other(l), b |-> x]}
      BY <1>6, <2>2
    <2> QED BY <2>1, <2>3 DEF Joined, l, ls
  <1>9. ASSUME NEW z \in Addr, Joined(r, x, z) PROVE \E i \in DOMAIN hits : Other(hits[i]) = z
    <2>1. PICK j \in DOMAIN ls : ls[j] \in {[a |-> x, b |-> z], [a |-> z, b |-> x]}
      BY <1>9 DEF Joined, ls
    <2> DEFINE l == ls[j]
    <2>2. x \in {l.a, l.b} /\ Other(l) = z
      BY <2>1
    <2>3. l \in ToSet(ls)
      BY DEF ToSet
    <2> HIDE DEF l, Other
    <2>4. l \in S /\ \E i \in DOMAIN ls : ls[i] = l
      BY <2>2, <2>3 DEF l
    <2> QED BY <1>3, <2>2, <2>4
  <1> HIDE DEF Other
  <1>10. ToSet(Navigate(r, x)) = {Other(hits[i]) : i \in DOMAIN hits}
    BY <1>4 DEF ToSet
  <1>11. \A i \in DOMAIN hits : Other(hits[i]) \in Addr
    BY <1>5, <1>6
  <1> QED
    BY <1>7, <1>8, <1>9, <1>10, <1>11

\* What the `seen` set does with one more instance.
WithNew(q, x) == IF x \in ToSet(q) THEN q ELSE Append(q, x)

Once(q) == \A i, j \in DOMAIN q : q[i] = q[j] => i = j

LEMMA WithNewKeeps ==
    ASSUME NEW E, NEW q \in Seq(E), NEW x \in E, Once(q)
    PROVE  /\ WithNew(q, x) \in Seq(E) /\ Once(WithNew(q, x))
           /\ ToSet(WithNew(q, x)) = ToSet(q) \cup {x}
  <1> DEFINE t == Append(q, x)
             n == Len(q)
  <1>1. CASE x \in ToSet(q)
    BY <1>1 DEF WithNew
  <1>2. CASE x \notin ToSet(q)
    <2>1. WithNew(q, x) = t
      BY <1>2 DEF WithNew
    <2> HIDE DEF t
    <2>2. /\ t \in Seq(E) /\ Len(t) = n + 1 /\ t[n + 1] = x
          /\ \A i \in 1 .. n : t[i] = q[i]
      BY OneAfter DEF t
    <2>3. n \in Nat /\ DOMAIN q = 1 .. n /\ DOMAIN t = 1 .. n + 1
      BY <2>2
    <2>4. \A i \in 1 .. n : q[i] # x
      BY <1>2, <2>3 DEF ToSet
    <2> HIDE DEF n
    <2>5. \A i \in 1 .. n + 1 : i = n + 1 \/ i \in 1 .. n
      BY <2>3
    <2>6. Once(t)
      BY <2>2, <2>3, <2>4, <2>5 DEF Once
    <2>7. ToSet(t) = ToSet(q) \cup {x}
      <3>1. n + 1 \in 1 .. n + 1 /\ \A i \in 1 .. n : i \in 1 .. n + 1
        BY <2>3
      <3> QED BY <2>2, <2>3, <2>5, <3>1 DEF ToSet
    <2> QED BY <2>1, <2>2, <2>6, <2>7
  <1> QED BY <1>1, <1>2

LEMMA DistinctSteps ==
    ASSUME NEW E, NEW s \in Seq(E)
    PROVE  \E kept : /\ kept[0] = <<>> /\ kept[Len(s)] = Distinct(s)
                     /\ \A n \in 1 .. Len(s) : kept[n] = WithNew(kept[n - 1], s[n])
  <1> DEFINE N == Len(s)
             T == Seq(E)
             Body(f, n) == IF n = 0 THEN <<>>
                           ELSE IF s[n] \in ToSet(f[n - 1]) THEN f[n - 1] ELSE Append(f[n - 1], s[n])
             IsF(f) == f = [n \in 0 .. N |-> Body(f, n)]
             f == CHOOSE f : IsF(f)
             F == [n \in Nat |-> [q \in T |-> IF n \in 1 .. N THEN WithNew(q, s[n]) ELSE q]]
  <1>1. Distinct(s) = f[N]
    BY DEF Distinct
  <1>2. N \in Nat /\ <<>> \in T /\ \A n \in 1 .. N : s[n] \in E
    OBVIOUS
  <1>3. F \in StepFunctions(T)
    <2>1. \A n \in 1 .. N, q \in T : WithNew(q, s[n]) \in T
      BY <1>2 DEF WithNew
    <2> HIDE DEF T, N
    <2>2. \A n \in Nat, q \in T : (IF n \in 1 .. N THEN WithNew(q, s[n]) ELSE q) \in T
      BY <2>1
    <2> QED BY <2>2 DEF StepFunctions
  <1>4. \A g, n : Body(g, n) = IF n = 0 THEN <<>> ELSE WithNew(g[n - 1], s[n])
    BY DEF WithNew
  <1> HIDE DEF Body, N, T
  <1>5. PICK g : Recursion(g, T, <<>>, F, N)
    BY <1>2, <1>3, RecursionExists
  <1>6. IsF(g)
    <2>1. g \in [0 .. N -> T] /\ g[0] = <<>> /\ \A n \in 1 .. N : g[n] = F[n][g[n - 1]]
      BY <1>5 DEF Recursion
    <2>2. \A n \in 1 .. N : n \in Nat /\ n - 1 \in 0 .. N /\ n # 0
      BY <1>2
    <2>3. \A n \in 1 .. N : g[n] = WithNew(g[n - 1], s[n])
      BY <2>1, <2>2
    <2>4. \A n \in 0 .. N : n = 0 \/ n \in 1 .. N
      BY <1>2
    <2>5. \A n \in 0 .. N : g[n] = Body(g, n)
      BY <1>4, <2>1, <2>2, <2>3, <2>4
    <2> QED BY <2>1, <2>5
  <1>7. IsF(f)
    BY <1>6
  <1> HIDE DEF f
  <1>8. \A n \in 0 .. N : f[n] = Body(f, n)
    BY <1>7
  <1>9. 0 \in 0 .. N /\ \A n \in 1 .. N : n \in 0 .. N /\ n # 0
    BY <1>2
  <1>10. f[0] = <<>> /\ \A n \in 1 .. N : f[n] = WithNew(f[n - 1], s[n])
    BY <1>4, <1>8, <1>9
  <1> QED
    BY <1>1, <1>10 DEF N

\* Of each instance, its first occurrence.
LEMMA DistinctType ==
    ASSUME NEW E, NEW s \in Seq(E)
    PROVE  Distinct(s) \in Seq(E) /\ Once(Distinct(s)) /\ ToSet(Distinct(s)) = ToSet(s)
  <1> DEFINE N == Len(s)
  <1>1. PICK kept : /\ kept[0] = <<>> /\ kept[N] = Distinct(s)
                    /\ \A n \in 1 .. N : kept[n] = WithNew(kept[n - 1], s[n])
    BY DistinctSteps
  <1>2. N \in Nat /\ DOMAIN s = 1 .. N /\ \A n \in 1 .. N : s[n] \in E
    OBVIOUS
  <1> HIDE DEF N
  <1> DEFINE Good(n) == /\ kept[n] \in Seq(E) /\ Once(kept[n])
                        /\ ToSet(kept[n]) = {s[i] : i \in 1 .. n}
             Q == {n \in Nat : n <= N => Good(n)}
  <1>3. 0 \in Q
    <2>1. <<>> \in Seq(E) /\ DOMAIN <<>> = {}
      OBVIOUS
    <2>2. Once(<<>>) /\ ToSet(<<>>) = {}
      BY <2>1 DEF Once, ToSet
    <2>3. {s[i] : i \in 1 .. 0} = {}
      OBVIOUS
    <2> HIDE DEF N
    <2>4. Good(0)
      <3> DEFINE q == kept[0]
      <3>1. q \in Seq(E) /\ Once(q) /\ ToSet(q) = {}
        BY <1>1, <2>1, <2>2
      <3> QED BY <2>3, <3>1
    <2> HIDE DEF Good
    <2> QED BY <2>4
  <1>4. ASSUME NEW n \in Nat, n \in Q PROVE n + 1 \in Q
    <2> SUFFICES ASSUME n + 1 <= N PROVE Good(n + 1)
      OBVIOUS
    <2>1. n + 1 \in 1 .. N /\ (n + 1) - 1 = n /\ n <= N /\ 1 .. n + 1 = (1 .. n) \cup {n + 1}
      BY <1>2
    <2>2. Good(n) /\ kept[n + 1] = WithNew(kept[n], s[n + 1]) /\ s[n + 1] \in E
      BY <1>1, <1>2, <1>4, <2>1
    <2>3. /\ kept[n + 1] \in Seq(E) /\ Once(kept[n + 1])
          /\ ToSet(kept[n + 1]) = ToSet(kept[n]) \cup {s[n + 1]}
      <3> DEFINE q == kept[n]
                 x == s[n + 1]
                 t == kept[n + 1]
      <3>1. q \in Seq(E) /\ x \in E /\ Once(q) /\ t = WithNew(q, x)
        BY <2>2
      <3> HIDE DEF q, x, t
      <3>2. t \in Seq(E) /\ Once(t) /\ ToSet(t) = ToSet(q) \cup {x}
        BY <3>1, WithNewKeeps
      <3> QED BY <3>2 DEF q, x, t
    <2>4. {s[i] : i \in 1 .. n + 1} = {s[i] : i \in 1 .. n} \cup {s[n + 1]}
      BY <2>1
    <2> QED BY <2>2, <2>3, <2>4
  <1> HIDE DEF Q
  <1>5. N \in Q
    BY <1>2, <1>3, <1>4, Induction
  <1>6. Good(N)
    BY <1>2, <1>5 DEF Q
  <1> QED
    BY <1>1, <1>2, <1>6 DEF ToSet

LEMMA HopSteps ==
    ASSUME LinksTypeOK, NEW h \in HopSet, NEW s \in Seq(Addr)
    PROVE  \E found : /\ found[0] = <<>>
                      /\ Hop(s, h) = Distinct(Filtered(found[Len(s)], h.to \X Key))
                      /\ \A n \in 1 .. Len(s) : found[n] = found[n - 1] \o Navigate(h.rel, s[n])
  <1> DEFINE N == Len(s)
             r == h.rel
             T == Seq(Addr)
             Body(f, n) == IF n = 0 THEN <<>> ELSE f[n - 1] \o Navigate(r, s[n])
             IsF(f) == f = [n \in 0 .. N |-> Body(f, n)]
             f == CHOOSE f : IsF(f)
             F == [n \in Nat |-> [q \in T |-> IF n \in 1 .. N THEN q \o Navigate(r, s[n]) ELSE q]]
  <1>1. Hop(s, h) = Distinct(Filtered(f[N], h.to \X Key))
    BY DEF Hop
  <1>2. N \in Nat /\ <<>> \in T /\ r \in Rel /\ \A n \in 1 .. N : s[n] \in Addr
    BY DEF HopSet
  <1>3. F \in StepFunctions(T)
    <2>1. \A n \in 1 .. N, q \in T : q \o Navigate(r, s[n]) \in T
      <3> SUFFICES ASSUME NEW n \in 1 .. N, NEW q \in T PROVE q \o Navigate(r, s[n]) \in T
        OBVIOUS
      <3>1. Navigate(r, s[n]) \in Seq(Addr)
        BY <1>2, NavigateType
      <3> QED BY <3>1
    <2> HIDE DEF T, N
    <2>2. \A n \in Nat, q \in T : (IF n \in 1 .. N THEN q \o Navigate(r, s[n]) ELSE q) \in T
      BY <2>1
    <2> QED BY <2>2 DEF StepFunctions
  <1> HIDE DEF N, T
  <1>5. PICK g : Recursion(g, T, <<>>, F, N)
    BY <1>2, <1>3, RecursionExists
  <1>6. IsF(g)
    <2>1. g \in [0 .. N -> T] /\ g[0] = <<>> /\ \A n \in 1 .. N : g[n] = F[n][g[n - 1]]
      BY <1>5 DEF Recursion
    <2>2. \A n \in 1 .. N : n \in Nat /\ n - 1 \in 0 .. N /\ n # 0
      BY <1>2
    <2>3. \A n \in 1 .. N : g[n] = g[n - 1] \o Navigate(r, s[n])
      BY <2>1, <2>2
    <2>4. \A n \in 0 .. N : n = 0 \/ n \in 1 .. N
      BY <1>2
    <2>5. \A n \in 0 .. N : g[n] = Body(g, n)
      BY <2>1, <2>2, <2>3, <2>4
    <2> HIDE DEF Body
    <2> QED BY <2>1, <2>5
  <1>7. IsF(f)
    BY <1>6
  <1> HIDE DEF f
  <1>8. \A n \in 0 .. N : f[n] = Body(f, n)
    <2> HIDE DEF Body
    <2> QED BY <1>7
  <1>9. 0 \in 0 .. N /\ \A n \in 1 .. N : n \in 0 .. N /\ n # 0
    BY <1>2
  <1>10. f[0] = <<>> /\ \A n \in 1 .. N : f[n] = f[n - 1] \o Navigate(r, s[n])
    BY <1>8, <1>9
  <1> QED
    BY <1>1, <1>10 DEF N

\* One hop further than the instances of S.
Further(S, h, ways) ==
    {z \in Addr : z[1] \in h.to /\ \E y \in S : <<h.rel, y, z>> \in ways}

\* The links of relationship r as pairs, one way and the other.
LEMMA LinesAreJoins ==
    ASSUME LinksTypeOK, NEW r \in Rel, NEW x \in Addr, NEW z \in Addr
    PROVE  <<r, x, z>> \in Lines <=> Joined(r, x, z)
  <1>1. \A y \in Addr, u \in Addr : <<r, y, u>> \in Forth
          <=> \E i \in DOMAIN links[r] : links[r][i] = [a |-> y, b |-> u]
    <2> SUFFICES ASSUME NEW y \in Addr, NEW u \in Addr
                 PROVE  <<r, y, u>> \in Forth
                          <=> \E i \in DOMAIN links[r] : links[r][i] = [a |-> y, b |-> u]
      OBVIOUS
    <2>1. \A q \in Rel : \A i \in DOMAIN links[q] :
            links[q][i] = [a |-> links[q][i].a, b |-> links[q][i].b]
      <3>1. \A q \in Rel : \A i \in DOMAIN links[q] : links[q][i] \in Link
        <4> SUFFICES ASSUME NEW q \in Rel, NEW i \in DOMAIN links[q] PROVE links[q][i] \in Link
          OBVIOUS
        <4>1. links[q] \in Seq(Link)
          BY DEF LinksTypeOK
        <4> QED BY <4>1
      <3>2. \A l \in Link : l = [a |-> l.a, b |-> l.b]
        BY DEF Link
      <3> QED BY <3>1, <3>2
    <2>2. ASSUME <<r, y, u>> \in Forth
          PROVE  \E i \in DOMAIN links[r] : links[r][i] = [a |-> y, b |-> u]
      <3>1. \E q \in Rel : \E l \in ToSet(links[q]) : <<r, y, u>> = <<q, l.a, l.b>>
        BY <2>2 DEF Forth
      <3>2. PICK q \in Rel : \E l \in ToSet(links[q]) : <<r, y, u>> = <<q, l.a, l.b>>
        BY <3>1
      <3>3. PICK l \in ToSet(links[q]) : <<r, y, u>> = <<q, l.a, l.b>>
        BY <3>2
      <3>4. PICK i \in DOMAIN links[q] : links[q][i] = l
        BY DEF ToSet
      <3> QED BY <2>1, <3>3, <3>4
    <2>3. ASSUME NEW i \in DOMAIN links[r], links[r][i] = [a |-> y, b |-> u]
          PROVE  <<r, y, u>> \in Forth
      <3> DEFINE l == links[r][i]
      <3>1. l \in ToSet(links[r]) /\ l.a = y /\ l.b = u
        BY <2>3 DEF ToSet
      <3> HIDE DEF l
      <3>2. <<r, l>> \in UNION {{q} \X ToSet(links[q]) : q \in Rel}
        BY <3>1
      <3> QED BY <3>1, <3>2 DEF Forth
    <2> QED BY <2>2, <2>3
  <1>2. <<r, x, z>> \in Back <=> <<r, z, x>> \in Forth
    <2>1. \A w \in Forth : w = <<w[1], w[2], w[3]>>
      BY DEF Forth
    <2>2. ASSUME <<r, x, z>> \in Back PROVE <<r, z, x>> \in Forth
      <3>1. PICK w \in Forth : <<r, x, z>> = <<w[1], w[3], w[2]>>
        BY <2>2 DEF Back
      <3> QED BY <2>1, <3>1
    <2>3. ASSUME <<r, z, x>> \in Forth PROVE <<r, x, z>> \in Back
      <3> DEFINE w == <<r, z, x>>
      <3>1. w \in Forth /\ <<w[1], w[3], w[2]>> = <<r, x, z>>
        BY <2>3
      <3> HIDE DEF w
      <3> QED BY <3>1 DEF Back
    <2> QED BY <2>2, <2>3
  <1> QED
    BY <1>1, <1>2 DEF Lines, Joined

\* A hop finds the neighbours of the instances that it starts from, once.
LEMMA HopType ==
    ASSUME LinksTypeOK, NEW h \in HopSet, NEW s \in Seq(Addr)
    PROVE  /\ Hop(s, h) \in Seq(Addr) /\ Once(Hop(s, h))
           /\ ToSet(Hop(s, h)) = Further(ToSet(s), h, Lines)
  <1> DEFINE N == Len(s)
             r == h.rel
             C == h.to \X Key
  <1>0. r \in Rel /\ h.to \subseteq Class
    BY DEF HopSet
  <1>1. PICK found : /\ found[0] = <<>> /\ Hop(s, h) = Distinct(Filtered(found[N], C))
                     /\ \A n \in 1 .. N : found[n] = found[n - 1] \o Navigate(r, s[n])
    BY HopSteps
  <1>2. N \in Nat /\ DOMAIN s = 1 .. N /\ \A n \in 1 .. N : s[n] \in Addr
    OBVIOUS
  <1> HIDE DEF N, r, C
  <1> DEFINE Found(n) == {z \in Addr : \E i \in 1 .. n : Joined(r, s[i], z)}
             Good(n) == found[n] \in Seq(Addr) /\ ToSet(found[n]) = Found(n)
             Q == {n \in Nat : n <= N => Good(n)}
  <1>3. 0 \in Q
    <2>1. <<>> \in Seq(Addr) /\ DOMAIN <<>> = {} /\ ToSet(<<>>) = {}
      BY DEF ToSet
    <2>2. Found(0) = {}
      OBVIOUS
    <2> HIDE DEF N, Found
    <2>3. Good(0)
      <3> DEFINE q == found[0]
      <3>1. q \in Seq(Addr) /\ ToSet(q) = {}
        BY <1>1, <2>1
      <3> QED BY <2>2, <3>1
    <2> HIDE DEF Good
    <2> QED BY <2>3
  <1>4. ASSUME NEW n \in Nat, n \in Q PROVE n + 1 \in Q
    <2> SUFFICES ASSUME n + 1 <= N PROVE Good(n + 1)
      OBVIOUS
    <2> DEFINE q == found[n]
               x == s[n + 1]
               o == Navigate(r, x)
               t == found[n + 1]
    <2>1. /\ n + 1 \in 1 .. N /\ (n + 1) - 1 = n /\ n <= N
          /\ \A i \in 1 .. n + 1 : i = n + 1 \/ i \in 1 .. n
          /\ \A i \in 1 .. n : i \in 1 .. n + 1
          /\ n + 1 \in 1 .. n + 1
      BY <1>2
    <2>2. Good(n) /\ t = q \o o /\ x \in Addr
      BY <1>1, <1>2, <1>4, <2>1
    <2>3. Found(n + 1) = Found(n) \cup {z \in Addr : Joined(r, x, z)}
      BY <2>1
    <2> HIDE DEF Found
    <2>4. q \in Seq(Addr) /\ ToSet(q) = Found(n)
      BY <2>2
    <2>5. o \in Seq(Addr) /\ ToSet(o) = {z \in Addr : Joined(r, x, z)}
      BY <1>0, <2>2, NavigateType
    <2> HIDE DEF q, x, o, t
    <2>6. t \in Seq(Addr) /\ ToSet(t) = ToSet(q) \cup ToSet(o)
      <3>1. Joins(t, q, o) /\ q \in Seq(Addr) /\ o \in Seq(Addr)
        BY <2>2, <2>4, <2>5 DEF Joins
      <3> HIDE DEF Good
      <3>2. t \in Seq(Addr) /\ Values(t) = Values(q) \cup Values(o)
        BY ONLY <3>1, JoinedElements
      <3> QED BY <3>2 DEF Values, ToSet
    <2>7. t \in Seq(Addr) /\ ToSet(t) = Found(n + 1)
      BY <2>3, <2>4, <2>5, <2>6
    <2> QED BY <2>7 DEF t
  <1> HIDE DEF Q
  <1>5. N \in Q
    BY <1>2, <1>3, <1>4, Induction
  <1>6. Good(N)
    BY <1>2, <1>5 DEF Q
  <1>7. Found(N) = {z \in Addr : \E y \in ToSet(s) : Joined(r, y, z)}
    BY <1>2 DEF ToSet
  <1> DEFINE u == found[N]
             t == Filtered(u, C)
             v == Hop(s, h)
  <1>8. u \in Seq(Addr) /\ ToSet(u) = Found(N) /\ v = Distinct(t)
    BY <1>1, <1>6
  <1> HIDE DEF u, v, Found
  <1>9. t \in Seq(Addr) /\ ToSet(t) = ToSet(u) \cap C
    <2>1. t \in Seq(Addr \cap C)
      BY <1>8, FilteredIsSeq
    <2>2. t \in Seq(Addr)
      BY <2>1
    <2>3. \A x : (\E j \in DOMAIN t : t[j] = x) <=> x \in C /\ \E i \in DOMAIN u : u[i] = x
      <3>1. u \in Seq(Addr) /\ t = Filtered(u, C)
        BY <1>8
      <3> HIDE DEF t
      <3> QED BY <3>1, FilteredElements
    <2> HIDE DEF t
    <2> QED BY <2>2, <2>3 DEF ToSet
  <1> HIDE DEF t
  <1>10. v \in Seq(Addr) /\ Once(v) /\ ToSet(v) = ToSet(t)
    BY <1>8, <1>9, DistinctType
  <1>11. ToSet(s) \subseteq Addr
    BY <1>2 DEF ToSet
  <1>12. ToSet(v) = Further(ToSet(s), h, Lines)
    <2>1. \A y \in ToSet(s), z \in Addr : Joined(r, y, z) <=> <<r, y, z>> \in Lines
      BY <1>0, <1>11, LinesAreJoins
    <2>2. \A z \in Addr : z \in C <=> z[1] \in h.to
      BY <1>0 DEF C, Addr
    <2>3. ToSet(v) = {z \in Addr : z \in C /\ \E y \in ToSet(s) : Joined(r, y, z)}
      BY <1>7, <1>8, <1>9, <1>10
    <2> QED BY <2>1, <2>2, <2>3 DEF Further, r
  <1> QED
    BY <1>10, <1>12 DEF v

\* The frontiers of a query.
Frontiers(f, x, chain) ==
    /\ f[0] = <<x>>
    /\ \A n \in 1 .. Len(chain) : f[n] = Hop(f[n - 1], chain[n])

LEMMA ChainSteps ==
    ASSUME LinksTypeOK, NEW x \in Addr, NEW chain \in Seq(HopSet)
    PROVE  \E f : Frontiers(f, x, chain) /\ NavigateChain(x, chain) = f[Len(chain)]
  <1> DEFINE N == Len(chain)
             T == Seq(Addr)
             Body(f, n) == IF n = 0 THEN <<x>> ELSE Hop(f[n - 1], chain[n])
             IsF(f) == f = [n \in 0 .. N |-> Body(f, n)]
             f == CHOOSE f : IsF(f)
             F == [n \in Nat |-> [q \in T |-> IF n \in 1 .. N THEN Hop(q, chain[n]) ELSE q]]
  <1>1. NavigateChain(x, chain) = f[N]
    BY DEF NavigateChain
  <1>2. N \in Nat /\ <<x>> \in T /\ \A n \in 1 .. N : chain[n] \in HopSet
    BY OneElement
  <1>3. F \in StepFunctions(T)
    <2>1. \A n \in 1 .. N, q \in T : Hop(q, chain[n]) \in T
      BY <1>2, HopType
    <2> HIDE DEF T, N
    <2>2. \A n \in Nat, q \in T : (IF n \in 1 .. N THEN Hop(q, chain[n]) ELSE q) \in T
      BY <2>1
    <2> QED BY <2>2 DEF StepFunctions
  <1> HIDE DEF N, T
  <1>4. PICK g : Recursion(g, T, <<x>>, F, N)
    BY <1>2, <1>3, RecursionExists
  <1>5. IsF(g)
    <2>1. g \in [0 .. N -> T] /\ g[0] = <<x>> /\ \A n \in 1 .. N : g[n] = F[n][g[n - 1]]
      BY <1>4 DEF Recursion
    <2>2. \A n \in 1 .. N : n \in Nat /\ n - 1 \in 0 .. N /\ n # 0
      BY <1>2
    <2>3. \A n \in 1 .. N : g[n] = Hop(g[n - 1], chain[n])
      BY <2>1, <2>2
    <2>4. \A n \in 0 .. N : n = 0 \/ n \in 1 .. N
      BY <1>2
    <2>5. \A n \in 0 .. N : g[n] = Body(g, n)
      BY <2>1, <2>2, <2>3, <2>4
    <2> HIDE DEF Body
    <2> QED BY <2>1, <2>5
  <1>6. IsF(f)
    BY <1>5
  <1> HIDE DEF f
  <1>7. \A n \in 0 .. N : f[n] = Body(f, n)
    <2> HIDE DEF Body
    <2> QED BY <1>6
  <1>8. 0 \in 0 .. N /\ \A n \in 1 .. N : n \in 0 .. N /\ n # 0
    BY <1>2
  <1> QED
    BY <1>1, <1>7, <1>8 DEF N, Frontiers

\* A path along the first n hops of a chain.
Walks(p, chain, i, ways) == p[i][1] \in chain[i].to /\ <<chain[i].rel, p[i - 1], p[i]>> \in ways

Path(p, chain, n, x, z, ways) ==
    /\ p \in [0 .. n -> Addr] /\ p[0] = x /\ p[n] = z
    /\ \A i \in 1 .. n : Walks(p, chain, i, ways)

LedBy(chain, n, x, ways) == {z \in Addr : \E p : Path(p, chain, n, x, z, ways)}

LEMMA LedFurther ==
    ASSUME NEW chain, NEW n \in Nat, NEW x \in Addr, NEW ways
    PROVE  LedBy(chain, n + 1, x, ways) = Further(LedBy(chain, n, x, ways), chain[n + 1], ways)
  <1>1. /\ \A i \in 0 .. n : i \in 0 .. n + 1 /\ i # n + 1
        /\ \A i \in 1 .. n : i \in 1 .. n + 1 /\ i \in 0 .. n /\ i - 1 \in 0 .. n /\ i # n + 1 /\ i - 1 # n + 1
        /\ n + 1 \in 1 .. n + 1 /\ n + 1 \in 0 .. n + 1 /\ (n + 1) - 1 = n
        /\ 0 \in 0 .. n /\ n \in 0 .. n
        /\ \A i \in 1 .. n + 1 : i = n + 1 \/ i \in 1 .. n
        /\ \A i \in 0 .. n + 1 : i = n + 1 \/ i \in 0 .. n
    OBVIOUS
  <1>2. ASSUME NEW z \in Addr, NEW p, Path(p, chain, n + 1, x, z, ways)
        PROVE  /\ z[1] \in chain[n + 1].to
               /\ \E y \in LedBy(chain, n, x, ways) : <<chain[n + 1].rel, y, z>> \in ways
    <2> DEFINE y == p[n]
               o == [i \in 0 .. n |-> p[i]]
    <2>1. p \in [0 .. n + 1 -> Addr] /\ p[0] = x /\ p[n + 1] = z
      BY <1>2 DEF Path
    <2>2. \A i \in 1 .. n + 1 : Walks(p, chain, i, ways)
      BY <1>2 DEF Path
    <2>3. o \in [0 .. n -> Addr] /\ \A i \in 0 .. n : o[i] = p[i]
      BY <1>1, <2>1
    <2> HIDE DEF o
    <2>4. \A i \in 1 .. n : Walks(o, chain, i, ways)
      BY <1>1, <2>2, <2>3 DEF Walks
    <2>5. Path(o, chain, n, x, y, ways)
      BY <1>1, <2>1, <2>3, <2>4 DEF Path
    <2>6. y \in Addr /\ z[1] \in chain[n + 1].to /\ <<chain[n + 1].rel, y, z>> \in ways
      BY <1>1, <2>1, <2>2 DEF Walks
    <2> QED BY <2>5, <2>6 DEF LedBy
  <1>3. ASSUME NEW z \in Addr, NEW y \in Addr, NEW p, Path(p, chain, n, x, y, ways),
               z[1] \in chain[n + 1].to, <<chain[n + 1].rel, y, z>> \in ways
        PROVE  \E o : Path(o, chain, n + 1, x, z, ways)
    <2> DEFINE o == [i \in 0 .. n + 1 |-> IF i = n + 1 THEN z ELSE p[i]]
    <2>1. p \in [0 .. n -> Addr] /\ p[0] = x /\ p[n] = y
      BY <1>3 DEF Path
    <2>2. \A i \in 1 .. n : Walks(p, chain, i, ways)
      BY <1>3 DEF Path
    <2>3. /\ o \in [0 .. n + 1 -> Addr] /\ o[n + 1] = z
          /\ \A i \in 0 .. n : o[i] = p[i]
      BY <1>1, <2>1
    <2> HIDE DEF o
    <2>4. ASSUME NEW i \in 1 .. n + 1 PROVE Walks(o, chain, i, ways)
      <3>1. CASE i = n + 1
        BY <1>1, <1>3, <2>1, <2>3, <3>1 DEF Walks
      <3>2. CASE i \in 1 .. n
        BY <1>1, <2>2, <2>3, <3>2 DEF Walks
      <3> QED BY <1>1, <3>1, <3>2
    <2>5. Path(o, chain, n + 1, x, z, ways)
      BY <1>1, <2>1, <2>3, <2>4 DEF Path
    <2> QED BY <2>5
  <1> QED
    BY <1>2, <1>3 DEF LedBy, Further

LEMMA FrontierType ==
    ASSUME LinksTypeOK, NEW x \in Addr, NEW chain \in Seq(HopSet), NEW f, Frontiers(f, x, chain)
    PROVE  LET s == f[Len(chain)]
           IN  s \in Seq(Addr) /\ Once(s) /\ ToSet(s) = LedBy(chain, Len(chain), x, Lines)
  <1> DEFINE N == Len(chain)
             Good(n) == f[n] \in Seq(Addr) /\ Once(f[n]) /\ ToSet(f[n]) = LedBy(chain, n, x, Lines)
             Q == {n \in Nat : n <= N => Good(n)}
  <1>1. N \in Nat /\ \A n \in 1 .. N : chain[n] \in HopSet
    OBVIOUS
  <1>2. f[0] = <<x>> /\ \A n \in 1 .. N : f[n] = Hop(f[n - 1], chain[n])
    BY DEF Frontiers
  <1> HIDE DEF N
  <1>3. 0 \in Q
    <2> DEFINE o == <<x>>
    <2>1. o \in Seq(Addr) /\ Len(o) = 1 /\ o[1] = x
      BY OneElement
    <2> HIDE DEF o
    <2>2. DOMAIN o = {1}
      BY <2>1
    <2>3. Once(o) /\ ToSet(o) = {x}
      BY <2>1, <2>2 DEF Once, ToSet
    <2>4. LedBy(chain, 0, x, Lines) = {x}
      <3>1. ASSUME NEW z, NEW p, Path(p, chain, 0, x, z, Lines) PROVE z = x
        BY <3>1 DEF Path
      <3> DEFINE p == [i \in 0 .. 0 |-> x]
      <3>2. Path(p, chain, 0, x, x, Lines)
        BY DEF Path
      <3> QED BY <3>1, <3>2 DEF LedBy
    <2>5. f[0] = o
      BY <1>2 DEF o
    <2>6. Good(0)
      BY <2>1, <2>3, <2>4, <2>5
    <2> HIDE DEF Good
    <2> QED BY <2>6
  <1>4. ASSUME NEW n \in Nat, n \in Q PROVE n + 1 \in Q
    <2> SUFFICES ASSUME n + 1 <= N PROVE Good(n + 1)
      OBVIOUS
    <2> DEFINE q == f[n]
               r == chain[n + 1]
               t == f[n + 1]
    <2>1. n + 1 \in 1 .. N /\ (n + 1) - 1 = n /\ n <= N
      BY <1>1
    <2>2. Good(n) /\ t = Hop(q, r) /\ r \in HopSet
      BY <1>1, <1>2, <1>4, <2>1
    <2>3. q \in Seq(Addr) /\ ToSet(q) = LedBy(chain, n, x, Lines)
      BY <2>2
    <2> HIDE DEF Good, q, r, t
    <2>4. t \in Seq(Addr) /\ Once(t) /\ ToSet(t) = Further(ToSet(q), r, Lines)
      BY <2>2, <2>3, HopType
    <2>5. LedBy(chain, n + 1, x, Lines) = Further(LedBy(chain, n, x, Lines), r, Lines)
      BY LedFurther DEF r
    <2>6. t \in Seq(Addr) /\ Once(t) /\ ToSet(t) = LedBy(chain, n + 1, x, Lines)
      BY <2>3, <2>4, <2>5
    <2> QED BY <2>6 DEF t, Good
  <1> HIDE DEF Q
  <1>5. N \in Q
    BY <1>1, <1>3, <1>4, Induction
  <1>6. Good(N)
    BY <1>1, <1>5 DEF Q
  <1> QED
    BY <1>6 DEF N

\* The instances at the end of a chain, by paths that begin with x.
LEMMA LedByPaths ==
    ASSUME NEW chain \in Seq(HopSet), NEW x \in Addr, NEW ways
    PROVE  Led(chain, x, ways) = LedBy(chain, Len(chain), x, ways)
  <1> DEFINE N == Len(chain)
             Good(p) == \A n \in 1 .. N : /\ p[n][1] \in chain[n].to
                                          /\ <<chain[n].rel, At(p, x, n - 1), p[n]>> \in ways
  <1>1. N \in Nat
    OBVIOUS
  <1>2. Led(chain, x, ways) = {At(p, x, N) : p \in {q \in [1 .. N -> Addr] : Good(q)}}
    BY DEF Led
  <1> HIDE DEF N
  <1>3. /\ \A i \in 1 .. N : i \in 0 .. N /\ i # 0 /\ i - 1 \in 0 .. N
        /\ \A i \in 1 .. N : i - 1 = 0 \/ i - 1 \in 1 .. N
        /\ \A i \in 0 .. N : i = 0 \/ i \in 1 .. N
        /\ 0 \in 0 .. N /\ N \in 0 .. N /\ 0 \notin 1 .. N
    BY <1>1
  <1>4. ASSUME NEW p \in [1 .. N -> Addr], Good(p)
        PROVE  At(p, x, N) \in LedBy(chain, N, x, ways)
    <2> DEFINE o == [i \in 0 .. N |-> IF i = 0 THEN x ELSE p[i]]
    <2>1. o \in [0 .. N -> Addr] /\ \A i \in 0 .. N : o[i] = At(p, x, i)
      BY <1>3 DEF At
    <2>2. o[0] = x /\ \A i \in 1 .. N : o[i] = p[i]
      BY <1>3
    <2> HIDE DEF o
    <2>3. \A i \in 1 .. N : Walks(o, chain, i, ways)
      BY <1>3, <1>4, <2>1, <2>2 DEF Walks
    <2>4. Path(o, chain, N, x, At(p, x, N), ways) /\ At(p, x, N) \in Addr
      BY <1>3, <2>1, <2>2, <2>3 DEF Path
    <2> QED BY <2>4 DEF LedBy
  <1>5. ASSUME NEW z \in Addr, NEW p, Path(p, chain, N, x, z, ways)
        PROVE  \E q \in [1 .. N -> Addr] : Good(q) /\ z = At(q, x, N)
    <2> DEFINE o == [i \in 1 .. N |-> p[i]]
    <2>1. p \in [0 .. N -> Addr] /\ p[0] = x /\ p[N] = z
      BY <1>5 DEF Path
    <2>2. \A i \in 1 .. N : Walks(p, chain, i, ways)
      BY <1>5 DEF Path
    <2>3. o \in [1 .. N -> Addr] /\ \A i \in 1 .. N : o[i] = p[i]
      BY <1>3, <2>1
    <2> HIDE DEF o
    <2>4. \A i \in 0 .. N : At(o, x, i) = p[i]
      BY <1>3, <2>1, <2>3 DEF At
    <2>5. Good(o)
      BY <1>3, <2>2, <2>3, <2>4 DEF Walks
    <2>6. z = At(o, x, N)
      BY <1>3, <2>1, <2>4
    <2> QED BY <2>3, <2>5, <2>6
  <1>6. LedBy(chain, N, x, ways) \subseteq Addr
    BY DEF LedBy
  <1> HIDE DEF Good
  <1>7. \A z : z \in Led(chain, x, ways) <=> z \in LedBy(chain, N, x, ways)
    <2>1. ASSUME NEW z, z \in Led(chain, x, ways) PROVE z \in LedBy(chain, N, x, ways)
      BY <1>2, <1>4, <2>1
    <2>2. ASSUME NEW z, z \in LedBy(chain, N, x, ways) PROVE z \in Led(chain, x, ways)
      <3>1. PICK p : z \in Addr /\ Path(p, chain, N, x, z, ways)
        BY <2>2 DEF LedBy
      <3>2. PICK q \in [1 .. N -> Addr] : Good(q) /\ z = At(q, x, N)
        BY <1>5, <3>1
      <3> QED BY <1>2, <3>2
    <2> QED BY <2>1, <2>2
  <1> QED
    BY <1>7 DEF N

\* What the chain leads to along its directions is joined to x by its links.
LEMMA ArrowsAreLines ==
    ASSUME NEW chain, NEW x
    PROVE  Led(chain, x, Arrows) \subseteq Led(chain, x, Lines)
  <1>1. Arrows \subseteq Lines
    BY DEF Arrows, Lines
  <1> QED
    BY <1>1 DEF Led

LEMMA ChainExact ==
    ASSUME LinksTypeOK, NEW x \in Addr, NEW chain \in Seq(HopSet)
    PROVE  IsExact(NavigateChain(x, chain), chain, x, Addr)
  <1> DEFINE answer == NavigateChain(x, chain)
             N == Len(chain)
  <1>1. PICK f : Frontiers(f, x, chain) /\ answer = f[N]
    BY ChainSteps
  <1>2. answer \in Seq(Addr) /\ Once(answer) /\ ToSet(answer) = LedBy(chain, N, x, Lines)
    BY <1>1, FrontierType
  <1> HIDE DEF answer
  <1>3. ToSet(answer) = Led(chain, x, Lines)
    BY <1>2, LedByPaths
  <1>4. ToSet(answer) \subseteq Addr
    BY <1>2 DEF ToSet
  <1> QED
    BY <1>2, <1>3, <1>4, ArrowsAreLines DEF IsExact, IsInjective, Once, answer

LEMMA TraverseExact ==
    ASSUME LinksTypeOK, NEW x \in Addr, NEW rels \in Seq(Rel)
    PROVE  IsExact(Traverse(x, rels), AnyClass(rels), x, alive)
  <1> DEFINE chain == AnyClass(rels)
             s == NavigateChain(x, chain)
             answer == Traverse(x, rels)
             N == Len(chain)
  <1>1. chain \in Seq(HopSet)
    <2>1. Len(rels) \in Nat /\ DOMAIN rels = 1 .. Len(rels) /\ \A n \in 1 .. Len(rels) : rels[n] \in Rel
      OBVIOUS
    <2>2. \A n \in 1 .. Len(rels) : [rel |-> rels[n], to |-> Class] \in HopSet
      BY <2>1 DEF HopSet
    <2>3. chain = [n \in 1 .. Len(rels) |-> [rel |-> rels[n], to |-> Class]]
      BY <2>1 DEF AnyClass
    <2> QED BY <2>1, <2>2, <2>3
  <1>2. answer = Filtered(s, alive)
    BY DEF Traverse
  <1> HIDE DEF chain
  <1>3. PICK f : Frontiers(f, x, chain) /\ s = f[N]
    BY <1>1, ChainSteps
  <1>4. s \in Seq(Addr) /\ Once(s) /\ ToSet(s) = LedBy(chain, N, x, Lines)
    BY <1>1, <1>3, FrontierType
  <1>5. ToSet(s) = Led(chain, x, Lines)
    BY <1>1, <1>4, LedByPaths
  <1> HIDE DEF answer, s
  <1>6. \A z : (\E j \in DOMAIN answer : answer[j] = z)
                  <=> z \in alive /\ \E i \in DOMAIN s : s[i] = z
    BY <1>2, <1>4, FilteredElements
  <1>7. \A i, j \in DOMAIN answer : answer[i] = answer[j] => i = j
    BY <1>2, <1>4, FilteredOnce DEF Once
  <1>8. ToSet(answer) = alive \cap Led(chain, x, Lines)
    <2>1. \A z : z \in ToSet(answer) <=> z \in alive /\ z \in ToSet(s)
      BY <1>6 DEF ToSet
    <2> QED BY <1>5, <2>1
  <1> QED
    BY <1>7, <1>8, ArrowsAreLines DEF IsExact, IsInjective, answer, chain

\* Queries along a chain of any length are exact, whatever the links are and
\* whichever instances are gone: they answer all the instances that the chain
\* leads to, each once, and none that its links do not join to the first; those
\* of ctx, the live ones among them (relationship.py:224-246, ctx.py:360-392).
THEOREM ChainsAreExact ==
    RSpec => [](\A x \in Addr :
                  /\ \A chain \in Seq(HopSet) : IsExact(NavigateChain(x, chain), chain, x, Addr)
                  /\ \A rels \in Seq(Rel) : IsExact(Traverse(x, rels), AnyClass(rels), x, alive))
  <1>1. LinksTypeOK =>
          \A x \in Addr :
             /\ \A chain \in Seq(HopSet) : IsExact(NavigateChain(x, chain), chain, x, Addr)
             /\ \A rels \in Seq(Rel) : IsExact(Traverse(x, rels), AnyClass(rels), x, alive)
    BY ChainExact, TraverseExact
  <1> QED
    BY <1>1, LinksAreTyped, PTL

\* So are those of one hop, and those of ctx along two relationships.
THEOREM HopsCompose == RSpec => []ChainIsComposition
  <1>1. ASSUME NEW h \in HopSet PROVE <<h>> \in Seq(HopSet)
    OBVIOUS
  <1>2. ASSUME NEW rels \in {<<r>> : r \in Rel} \cup (Rel \X Rel) PROVE rels \in Seq(Rel)
    <2>1. CASE rels \in Rel \X Rel
      <3>1. PICK q \in Rel, r \in Rel : rels = <<q, r>>
        BY <2>1
      <3>2. <<q, r>> \in Seq(Rel)
        OBVIOUS
      <3> QED BY <3>1, <3>2
    <2>2. CASE rels \in {<<r>> : r \in Rel}
      <3>1. PICK r \in Rel : rels = <<r>>
        BY <2>2
      <3>2. <<r>> \in Seq(Rel)
        OBVIOUS
      <3> QED BY <3>1, <3>2
    <2> QED BY <1>2, <2>1, <2>2
  <1>3. LinksTypeOK => ChainIsComposition
    <2> SUFFICES ASSUME LinksTypeOK, NEW x \in Addr
                 PROVE  /\ \A h \in {hop \in HopSet : Cardinality(hop.to) = 1} :
                              IsExact(NavigateChain(x, <<h>>), <<h>>, x, Addr)
                        /\ \A rels \in {<<r>> : r \in Rel} \cup (Rel \X Rel) :
                              IsExact(Traverse(x, rels), AnyClass(rels), x, alive)
      BY DEF ChainIsComposition
    <2>1. \A h \in HopSet : IsExact(NavigateChain(x, <<h>>), <<h>>, x, Addr)
      BY <1>1, ChainExact
    <2>2. \A rels \in {<<r>> : r \in Rel} \cup (Rel \X Rel) :
             IsExact(Traverse(x, rels), AnyClass(rels), x, alive)
      BY <1>2, TraverseExact
    <2> QED BY <2>1, <2>2
  <1> QED
    BY <1>3, LinksAreTyped, PTL
=============================================================================
