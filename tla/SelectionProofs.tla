--------------------------- MODULE SelectionProofs ---------------------------
(***************************************************************************)
(* What the choices of the crawl are, whatever they are made from: a sort  *)
(* lists each element once and in order, discovery chooses the best pages  *)
(* within its limits, and the addresses found on pages are merged and      *)
(* ranked so that none is better than the first.                           *)
(***************************************************************************)
EXTENDS Discovery, Judgment, FiniteSetTheorems, TLAPS

-----------------------------------------------------------------------------
(* The order of appearance                                                 *)

\* The distance between two pages in the order of appearance.
LEMMA PageOrder == PAGE_ORDER \in Nat /\ 1 < PAGE_ORDER
  BY DEF PAGE_ORDER

\* A product of numbers is a number, and a later block starts a block later.
LEMMA BlockStarts ==
  ASSUME NEW N \in Nat, NEW p \in Nat, NEW r \in Nat
  PROVE  p * N \in Nat /\ (p < r => p * N + N <= r * N)
<1>1. \A a, b \in Nat : a * b \in Nat
  OBVIOUS
<1>2. ASSUME p < r PROVE p * N + N <= r * N
  <2> DEFINE d == r - p - 1
  <2>1. d \in Nat /\ r = p + 1 + d
    BY <1>2
  <2> HIDE DEF d
  <2>2. r * N = p * N + N + d * N
    BY <2>1
  <2>3. d * N \in Nat /\ p * N \in Nat
    BY <1>1, <2>1
  <2>4. QED
    BY <2>2, <2>3
<1>3. QED
  BY <1>1, <1>2

\* PAGE_ORDER leaves room for the addresses of a page.
LEMMA PageBlocks ==
  ASSUME NEW p \in Nat \ {0}, NEW r \in Nat \ {0},
         NEW q \in 1..(PAGE_ORDER - 1), NEW s \in 1..(PAGE_ORDER - 1)
  PROVE  /\ (p - 1) * PAGE_ORDER + q \in Nat
         /\ (p - 1) * PAGE_ORDER + q = (r - 1) * PAGE_ORDER + s => p = r /\ q = s
<1> DEFINE a == p - 1
           b == r - 1
           A == a * PAGE_ORDER
           B == b * PAGE_ORDER
<1>1. a \in Nat /\ b \in Nat /\ (p = r <=> a = b)
  OBVIOUS
<1>2. /\ q \in Nat /\ 1 <= q /\ q < PAGE_ORDER
      /\ s \in Nat /\ 1 <= s /\ s < PAGE_ORDER
  BY PageOrder
<1> HIDE DEF a, b
<1>3. /\ A \in Nat /\ B \in Nat
      /\ a < b => A + PAGE_ORDER <= B
      /\ b < a => B + PAGE_ORDER <= A
      /\ a = b => A = B
  BY <1>1, BlockStarts, PageOrder
<1> HIDE DEF A, B
<1>4. A + q \in Nat /\ (A + q = B + s => a = b /\ q = s)
  BY <1>1, <1>2, <1>3, PageOrder
<1>5. QED
  BY <1>1, <1>4 DEF A, B, a, b

-----------------------------------------------------------------------------
(* Sorting and filtering                                                   *)

\* A set of numbers has a least element.
LEMMA LeastNumber ==
  ASSUME NEW T \in SUBSET Nat, T # {}
  PROVE  \E n \in T : \A m \in T : n <= m
<1> DEFINE R == OpToRel(<, Nat)
<1>1. IsWellFoundedOn(R, Nat)
  BY NatLessThanWellFounded, Zenon
<1>2. \A x, y \in Nat : x < y => <<x, y>> \in R
  BY DEF OpToRel
<1> HIDE DEF R
<1>3. PICK n \in T : \A m \in T : ~(<<m, n>> \in R)
  BY <1>1, WFMin, Zenon
<1>4. \A m \in T : ~(m < n)
  BY <1>2, <1>3
<1>5. QED
  BY <1>4

\* A function on 1..n is a sequence, and its prefixes are what one expects.
LEMMA FunctionIsSequence ==
  ASSUME NEW S, NEW n \in Nat, NEW f \in [1..n -> S]
  PROVE  f \in Seq(S) /\ Len(f) = n
  OBVIOUS

\* A prefix, position by position.
LEMMA PrefixOf ==
  ASSUME NEW S, NEW s \in Seq(S), NEW n \in Nat, n <= Len(s)
  PROVE  SubSeq(s, 1, n) = [k \in 1..n |-> s[k]]
  OBVIOUS

\* The first n of a sequence, position by position.
LEMMA TakeByPosition ==
  ASSUME NEW S, NEW s \in Seq(S), NEW n \in Nat
  PROVE  Take(s, n) = [k \in 1..(IF Len(s) > n THEN n ELSE Len(s)) |-> s[k]]
<1> DEFINE m == IF Len(s) > n THEN n ELSE Len(s)
<1>1. m \in Nat /\ m <= Len(s)
  OBVIOUS
<1>2. Take(s, n) = SubSeq(s, 1, m)
  BY DEF Take
<1> HIDE DEF m
<1>3. Take(s, n) = [k \in 1..m |-> s[k]]
  BY <1>1, <1>2, PrefixOf
<1>4. QED
  BY <1>3 DEF m

\* They are elements of the sequence, and no more than n.
LEMMA TakeIsRight ==
  ASSUME NEW S, NEW s \in Seq(S), NEW n \in Nat
  PROVE  /\ Take(s, n) \in Seq(S) /\ Len(Take(s, n)) <= n
         /\ \A i \in DOMAIN Take(s, n) : i \in DOMAIN s /\ Take(s, n)[i] = s[i]
<1> DEFINE m == IF Len(s) > n THEN n ELSE Len(s)
<1>1. m \in Nat /\ m <= Len(s) /\ m <= n
  OBVIOUS
<1>2. Take(s, n) = [k \in 1..m |-> s[k]]
  BY TakeByPosition
<1> HIDE DEF m
<1>3. Take(s, n) \in [1..m -> S]
  BY <1>1, <1>2
<1>4. Take(s, n) \in Seq(S) /\ Len(Take(s, n)) = m
  BY <1>1, <1>3, FunctionIsSequence
<1>5. QED
  BY <1>1, <1>2, <1>4

\* The values of a function on a finite set are finite in number; as many as the
\* arguments when no two arguments have the same.
LEMMA FiniteImage ==
  ASSUME NEW D, IsFiniteSet(D), NEW f, DOMAIN f = D
  PROVE  /\ IsFiniteSet({f[x] : x \in D})
         /\ Cardinality({f[x] : x \in D}) <= Cardinality(D)
         /\ (\A x, y \in D : x # y => f[x] # f[y])
              => Cardinality({f[x] : x \in D}) = Cardinality(D)
<1> DEFINE T == {f[x] : x \in D}
           g == [x \in D |-> f[x]]
<1>1. g \in Surjection(D, T)
  BY DEF Surjection
<1>2. (\A x, y \in D : x # y => f[x] # f[y]) => g \in Injection(D, T)
  BY DEF Injection, IsInjective
<1> HIDE DEF g, T
<1>3. QED
  BY <1>1, <1>2, FS_Surjection DEF T

\* Strict orders.
Strict(S, R) ==
  /\ \A a \in S : <<a, a>> \notin R
  /\ \A a, b, c \in S : <<a, b>> \in R /\ <<b, c>> \in R => <<a, c>> \in R

\* Any two elements are ordered.
Linear(S, R) == \A a, b \in S : a # b => <<a, b>> \in R \/ <<b, a>> \in R

\* What comes before c.
Down(S, R, c) == {d \in S : <<d, c>> \in R}

\* An element has fewer elements before it than the ones after it have.
LEMMA DownGrows ==
  ASSUME NEW S, IsFiniteSet(S), NEW R, Strict(S, R)
  PROVE  /\ \A c \in S : Cardinality(Down(S, R, c)) \in 0..(Cardinality(S) - 1)
         /\ \A a, b \in S : <<a, b>> \in R
                              => Cardinality(Down(S, R, a)) < Cardinality(Down(S, R, b))
<1>1. ASSUME NEW c \in S PROVE Cardinality(Down(S, R, c)) \in 0..(Cardinality(S) - 1)
  <2>1. IsFiniteSet(S \ {c}) /\ Cardinality(S \ {c}) = Cardinality(S) - 1
    BY FS_RemoveElement
  <2>2. Down(S, R, c) \in SUBSET (S \ {c})
    BY DEF Down, Strict
  <2>3. IsFiniteSet(Down(S, R, c)) /\ Cardinality(Down(S, R, c)) <= Cardinality(S) - 1
    BY <2>1, <2>2, FS_Subset
  <2>4. Cardinality(S) \in Nat /\ Cardinality(Down(S, R, c)) \in Nat
    BY <2>3, FS_CardinalityType
  <2>5. QED
    BY <2>3, <2>4
<1>2. ASSUME NEW a \in S, NEW b \in S, <<a, b>> \in R
      PROVE  Cardinality(Down(S, R, a)) < Cardinality(Down(S, R, b))
  <2>1. Down(S, R, a) \in SUBSET Down(S, R, b) /\ Down(S, R, a) # Down(S, R, b)
    BY <1>2, Zenon DEF Down, Strict
  <2>2. IsFiniteSet(Down(S, R, b))
    BY FS_Subset DEF Down
  <2>3. /\ Cardinality(Down(S, R, a)) <= Cardinality(Down(S, R, b))
        /\ Cardinality(Down(S, R, a)) # Cardinality(Down(S, R, b))
    BY <2>1, <2>2, FS_Subset
  <2>4. QED
    BY <1>1, <2>3
<1>3. QED
  BY <1>1, <1>2

\* A finite set has an element that nothing precedes.
LEMMA FirstElement ==
  ASSUME NEW S, IsFiniteSet(S), S # {}, NEW R, Strict(S, R)
  PROVE  \E c \in S : \A d \in S : <<d, c>> \notin R
<1> DEFINE N == {Cardinality(Down(S, R, c)) : c \in S}
<1>1. N \in SUBSET Nat /\ N # {}
  BY DownGrows, FS_CardinalityType
<1>2. PICK n \in N : \A m \in N : n <= m
  BY <1>1, LeastNumber, Zenon
<1>3. PICK c \in S : n = Cardinality(Down(S, R, c))
  OBVIOUS
<1>4. ASSUME NEW d \in S, <<d, c>> \in R PROVE FALSE
  <2>1. Cardinality(Down(S, R, d)) < n
    BY <1>3, <1>4, DownGrows
  <2>2. n <= Cardinality(Down(S, R, d))
    BY <1>2
  <2>3. n \in Nat /\ Cardinality(Down(S, R, d)) \in Nat
    BY <1>1
  <2>4. QED
    BY <2>1, <2>2, <2>3
<1>5. QED
  BY <1>4

\* A finite set of numbers has a greatest element.
LEMMA GreatestNumber ==
  ASSUME NEW T \in SUBSET Nat, IsFiniteSet(T), T # {}
  PROVE  \E n \in T : \A m \in T : m <= n
<1> DEFINE R == {p \in T \X T : p[1] > p[2]}
<1>1. \A i, j \in T : <<i, j>> \in R <=> i > j
  OBVIOUS
<1> HIDE DEF R
<1>2. Strict(T, R)
  BY <1>1 DEF Strict
<1>3. PICK n \in T : \A m \in T : <<m, n>> \notin R
  BY <1>2, FirstElement, Zenon
<1>4. \A m \in T : ~(m > n)
  BY <1>1, <1>3
<1>5. QED
  BY <1>4

\* Sorted(S, R) lists every element of S once, each before the ones it precedes.
LEMMA SortedIsRight ==
  ASSUME NEW S, IsFiniteSet(S), NEW R, Strict(S, R), Linear(S, R)
  PROVE  /\ Cardinality(S) \in Nat
         /\ Sorted(S, R) \in [1..Cardinality(S) -> S]
         /\ \A c \in S : \E k \in 1..Cardinality(S) : Sorted(S, R)[k] = c
         /\ \A j, k \in 1..Cardinality(S) : j < k => <<Sorted(S, R)[j], Sorted(S, R)[k]>> \in R
<1> DEFINE n == Cardinality(S)
           place == [c \in S |-> Cardinality(Down(S, R, c)) + 1]
<1>1. n \in Nat
  BY FS_CardinalityType
<1> HIDE DEF n
<1>2. place \in [S -> 1..n]
  BY <1>1, DownGrows DEF n
<1>3. \A a, b \in S : <<a, b>> \in R => place[a] < place[b]
  BY <1>1, DownGrows DEF n
<1> HIDE DEF place
<1>4. \A a, b \in S : a # b => place[a] # place[b]
  <2> TAKE a, b \in S
  <2> HAVE a # b
  <2>1. <<a, b>> \in R \/ <<b, a>> \in R
    BY DEF Linear
  <2>2. place[a] < place[b] \/ place[b] < place[a]
    BY <1>3, <2>1
  <2>3. place[a] \in Int /\ place[b] \in Int
    BY <1>1, <1>2
  <2>4. QED
    BY <2>2, <2>3
<1>5. place \in Injection(S, 1..n)
  BY <1>2, <1>4 DEF Injection, IsInjective
<1>6. IsFiniteSet(1..n) /\ Cardinality(1..n) = n
  BY <1>1, FS_Interval
<1>7. place \in Surjection(S, 1..n)
  BY <1>5, <1>6, FS_Injection DEF n
<1>8. \A k \in 1..n : \E c \in S : place[c] = k
  BY <1>7 DEF Surjection
<1>9. \A k \in 1..n : Sorted(S, R)[k] \in S /\ place[Sorted(S, R)[k]] = k
  <2> TAKE k \in 1..n
  <2>1. \A c \in S : (Cardinality({d \in S : <<d, c>> \in R}) = k - 1) <=> place[c] = k
    BY <1>1, DownGrows DEF place, Down
  <2>2. Sorted(S, R)[k] = CHOOSE c \in S : Cardinality({d \in S : <<d, c>> \in R}) = k - 1
    BY Zenon DEF Sorted, n
  <2>3. QED
    BY <1>8, <2>1, <2>2
<1>10. Sorted(S, R) \in [1..n -> S]
  <2> DEFINE at(k) == CHOOSE c \in S : Cardinality({d \in S : <<d, c>> \in R}) = k - 1
  <2>1. Sorted(S, R) = [k \in 1..n |-> at(k)]
    BY DEF Sorted, n
  <2> HIDE DEF at
  <2>2. \A k \in 1..n : at(k) \in S
    BY <1>9, <2>1
  <2>3. QED
    BY <2>1, <2>2
<1>11. \A c \in S : \E k \in 1..n : Sorted(S, R)[k] = c
  BY <1>2, <1>4, <1>9
<1>12. \A j, k \in 1..n : j < k => <<Sorted(S, R)[j], Sorted(S, R)[k]>> \in R
  <2> TAKE j, k \in 1..n
  <2> HAVE j < k
  <2>1. Sorted(S, R)[j] # Sorted(S, R)[k]
    BY <1>1, <1>9
  <2>2. ~(<<Sorted(S, R)[k], Sorted(S, R)[j]>> \in R)
    BY <1>1, <1>3, <1>9
  <2>3. QED
    BY <1>9, <2>1, <2>2 DEF Linear
<1>13. QED
  BY <1>1, <1>10, <1>11, <1>12 DEF n

\* Places(I) numbers the positions I from the lowest to the highest, and At(s, I)
\* has the elements at those positions.
LEMMA PlacesAreRight ==
  ASSUME NEW I \in SUBSET Nat, IsFiniteSet(I)
  PROVE  /\ Cardinality(I) \in Nat
         /\ Places(I) \in [1..Cardinality(I) -> I]
         /\ \A i \in I : \E k \in 1..Cardinality(I) : Places(I)[k] = i
         /\ \A j, k \in 1..Cardinality(I) : j < k => Places(I)[j] < Places(I)[k]
<1> DEFINE R == {p \in I \X I : p[1] < p[2]}
<1>1. \A i, j \in I : <<i, j>> \in R <=> i < j
  OBVIOUS
<1>2. Places(I) = Sorted(I, R)
  BY DEF Places
<1> HIDE DEF R
<1>3. Strict(I, R) /\ Linear(I, R)
  <2>1. Strict(I, R)
    BY <1>1 DEF Strict
  <2>2. Linear(I, R)
    BY <1>1 DEF Linear
  <2>3. QED
    BY <2>1, <2>2
<1>4. /\ Cardinality(I) \in Nat
      /\ Places(I) \in [1..Cardinality(I) -> I]
      /\ \A i \in I : \E k \in 1..Cardinality(I) : Places(I)[k] = i
      /\ \A j, k \in 1..Cardinality(I) : j < k => <<Places(I)[j], Places(I)[k]>> \in R
  BY <1>2, <1>3, SortedIsRight
<1>5. \A j, k \in 1..Cardinality(I) : j < k => Places(I)[j] < Places(I)[k]
  BY <1>1, <1>4, Zenon
<1>6. QED
  BY <1>4, <1>5

\* Filtering a sequence gives a sequence of its elements.
LEMMA AtIsRight ==
  ASSUME NEW S, NEW s \in Seq(S), NEW I \in SUBSET (DOMAIN s)
  PROVE  /\ IsFiniteSet(I) /\ I \in SUBSET Nat
         /\ At(s, I) \in Seq(S) /\ Len(At(s, I)) = Cardinality(I)
         /\ \A k \in 1..Cardinality(I) : At(s, I)[k] = s[Places(I)[k]]
<1>1. DOMAIN s = 1..Len(s) /\ Len(s) \in Nat /\ s \in [1..Len(s) -> S]
  OBVIOUS
<1>2. IsFiniteSet(I) /\ I \in SUBSET Nat
  <2>1. IsFiniteSet(1..Len(s))
    BY <1>1, FS_Interval
  <2>2. QED
    BY <1>1, <2>1, FS_Subset
<1> DEFINE n == Cardinality(I)
<1>3. n \in Nat /\ Places(I) \in [1..n -> I]
  BY <1>2, PlacesAreRight
<1>4. At(s, I) = [k \in 1..n |-> s[Places(I)[k]]]
  BY DEF At
<1> HIDE DEF n
<1>5. At(s, I) \in [1..n -> S]
  BY <1>1, <1>3, <1>4
<1>6. At(s, I) \in Seq(S) /\ Len(At(s, I)) = n
  BY <1>3, <1>5, FunctionIsSequence
<1>7. QED
  BY <1>2, <1>4, <1>6 DEF n

-----------------------------------------------------------------------------
(* Discovery                                                               *)

\* A scored link.
Scored == [url : Nat, score : Nat, tier : DOMAIN TIERS, depth : Nat]

\* The candidate kept for a page is one of its candidates, and none has a higher
\* score (select).
LEMMA BestOfIsBest ==
  ASSUME NEW C \in Seq(Scored), NEW j \in DOMAIN C
  PROVE  \E i \in DOMAIN C :
           /\ BestOf(C, C[j].url) = C[i]
           /\ C[i].url = C[j].url
           /\ \A k \in DOMAIN C : C[k].url = C[j].url => C[k].score <= C[i].score
<1> DEFINE at == {i \in DOMAIN C : C[i].url = C[j].url}
           R == {p \in at \X at : \/ C[p[1]].score > C[p[2]].score
                                  \/ C[p[1]].score = C[p[2]].score /\ p[1] < p[2]}
<1>1. \A i \in DOMAIN C : i \in Nat /\ C[i].score \in Nat
  <2>1. DOMAIN C = 1..Len(C) /\ Len(C) \in Nat /\ \A i \in DOMAIN C : C[i] \in Scored
    OBVIOUS
  <2>2. QED
    BY <2>1 DEF Scored
<1>2. IsFiniteSet(at) /\ at # {} /\ at \subseteq DOMAIN C
  <2>1. IsFiniteSet(DOMAIN C)
    BY FS_Interval
  <2>2. QED
    BY <2>1, FS_Subset
<1>3. \A a, b \in at : <<a, b>> \in R <=> \/ C[a].score > C[b].score
                                          \/ C[a].score = C[b].score /\ a < b
  OBVIOUS
<1> HIDE DEF R
<1>4. Strict(at, R)
  <2>1. \A a \in at : <<a, a>> \notin R
    BY <1>1, <1>3
  <2>2. ASSUME NEW a \in at, NEW b \in at, NEW c \in at, <<a, b>> \in R, <<b, c>> \in R
        PROVE  <<a, c>> \in R
    <3>1. /\ C[a].score \in Nat /\ C[b].score \in Nat /\ C[c].score \in Nat
          /\ a \in Nat /\ b \in Nat /\ c \in Nat
      BY <1>1
    <3>2. C[a].score > C[c].score \/ (C[a].score = C[c].score /\ a < c)
      BY <1>3, <2>2, <3>1
    <3>3. QED
      BY <1>3, <3>2
  <2>3. QED
    BY <2>1, <2>2 DEF Strict
<1>5. PICK m \in at : \A k \in at : <<k, m>> \notin R
  BY <1>2, <1>4, FirstElement
<1> DEFINE P(i) == \A k \in at : \/ C[k].score < C[i].score
                                 \/ C[k].score = C[i].score /\ i <= k
<1>6. P(m)
  <2> SUFFICES ASSUME NEW k \in at
               PROVE  C[k].score < C[m].score \/ (C[k].score = C[m].score /\ m <= k)
    OBVIOUS
  <2>1. ~(C[k].score > C[m].score) /\ ~(C[k].score = C[m].score /\ k < m)
    BY <1>3, <1>5, Zenon
  <2>2. QED
    BY <1>1, <2>1
<1> DEFINE i == CHOOSE i \in at : P(i)
<1>7. i \in at /\ P(i)
  BY <1>6, Zenon
<1>8. BestOf(C, C[j].url) = C[i]
  BY DEF BestOf
<1> HIDE DEF i
<1>9. \A k \in DOMAIN C : C[k].url = C[j].url => C[k].score <= C[i].score
  BY <1>1, <1>7
<1>10. QED
  BY <1>7, <1>8, <1>9

\* The candidates select keeps, one per page, in the order it takes them.
BestSet(C) == {BestOf(C, C[i].url) : i \in DOMAIN C}
BeforeOn(S) == {p \in S \X S : Before(p[1], p[2])}
InTurn(C) == Sorted(BestSet(C), BeforeOn(BestSet(C)))

\* Of each address one link is kept, of the highest score (_best_by_url).
LEMMA BestSetIsRight ==
  ASSUME NEW C \in Seq(Scored)
  PROVE  /\ IsFiniteSet(BestSet(C))
         /\ BestSet(C) \subseteq Range(C) /\ BestSet(C) \subseteq Scored
         /\ \A c \in Range(C) : \E b \in BestSet(C) : b.url = c.url /\ c.score <= b.score
         /\ \A a, b \in BestSet(C) : a.url = b.url => a = b
<1> DEFINE f == [i \in DOMAIN C |-> BestOf(C, C[i].url)]
<1>1. IsFiniteSet(BestSet(C))
  <2>1. IsFiniteSet(DOMAIN C) /\ DOMAIN f = DOMAIN C
    BY FS_Interval
  <2>2. BestSet(C) = {f[i] : i \in DOMAIN C}
    BY DEF BestSet
  <2> HIDE DEF f
  <2>3. QED
    BY <2>1, <2>2, FiniteImage
<1> HIDE DEF f
<1>2. \A j \in DOMAIN C : \E i \in DOMAIN C :
         /\ BestOf(C, C[j].url) = C[i] /\ C[i].url = C[j].url
         /\ \A k \in DOMAIN C : C[k].url = C[j].url => C[k].score <= C[i].score
  BY BestOfIsBest
<1>3. BestSet(C) \subseteq Range(C)
  BY <1>2 DEF BestSet, Range
<1>4. Range(C) \subseteq Scored
  BY DEF Range
<1>5. \A c \in Range(C) : \E b \in BestSet(C) : b.url = c.url /\ c.score <= b.score
  BY <1>2 DEF BestSet, Range
<1>6. \A a, b \in BestSet(C) : a.url = b.url => a = b
  <2> TAKE a, b \in BestSet(C)
  <2> HAVE a.url = b.url
  <2>1. PICK j \in DOMAIN C : a = BestOf(C, C[j].url)
    BY DEF BestSet
  <2>2. PICK k \in DOMAIN C : b = BestOf(C, C[k].url)
    BY DEF BestSet
  <2>3. a.url = C[j].url /\ b.url = C[k].url
    BY <1>2, <2>1, <2>2
  <2>4. QED
    BY <2>1, <2>2, <2>3
<1>7. QED
  BY <1>1, <1>3, <1>4, <1>5, <1>6

\* With one link per address, discovery's order leaves nothing open.
LEMMA BeforeIsAnOrder ==
  ASSUME NEW S \in SUBSET Scored, \A a, b \in S : a.url = b.url => a = b
  PROVE  /\ Strict(S, BeforeOn(S)) /\ Linear(S, BeforeOn(S))
         /\ \A a, b \in S : <<a, b>> \in BeforeOn(S) <=> Before(a, b)
<1>1. \A a, b \in S : <<a, b>> \in BeforeOn(S) <=> Before(a, b)
  BY DEF BeforeOn
<1>2. \A a \in S : a.score \in Nat /\ a.depth \in Nat /\ a.url \in Nat
  BY DEF Scored
<1>3. Strict(S, BeforeOn(S))
  <2>1. \A a \in S : ~Before(a, a)
    BY <1>2 DEF Before
  <2>2. \A a, b, c \in S : Before(a, b) /\ Before(b, c) => Before(a, c)
    BY <1>2 DEF Before
  <2>3. QED
    BY <1>1, <2>1, <2>2 DEF Strict
<1>4. Linear(S, BeforeOn(S))
  <2>1. \A a, b \in S : a # b => Before(a, b) \/ Before(b, a)
    BY <1>2 DEF Before
  <2>2. QED
    BY <1>1, <2>1 DEF Linear
<1>5. QED
  BY <1>1, <1>3, <1>4

\* InTurn(C) lists the kept candidates, each once, the better ones first.
LEMMA InTurnIsRight ==
  ASSUME NEW C \in Seq(Scored)
  PROVE  LET n == Cardinality(BestSet(C)) IN
           /\ n \in Nat
           /\ InTurn(C) \in [1..n -> BestSet(C)]
           /\ \A c \in BestSet(C) : \E k \in 1..n : InTurn(C)[k] = c
           /\ \A j, k \in 1..n : j < k => Before(InTurn(C)[j], InTurn(C)[k])
<1>1. /\ IsFiniteSet(BestSet(C)) /\ BestSet(C) \in SUBSET Scored
      /\ \A a, b \in BestSet(C) : a.url = b.url => a = b
  BY BestSetIsRight
<1>2. /\ Strict(BestSet(C), BeforeOn(BestSet(C))) /\ Linear(BestSet(C), BeforeOn(BestSet(C)))
      /\ \A a, b \in BestSet(C) : <<a, b>> \in BeforeOn(BestSet(C)) <=> Before(a, b)
  BY <1>1, BeforeIsAnOrder
<1> DEFINE S == BestSet(C)
           R == BeforeOn(S)
           n == Cardinality(S)
<1>3. /\ n \in Nat
      /\ Sorted(S, R) \in [1..n -> S]
      /\ \A c \in S : \E k \in 1..n : Sorted(S, R)[k] = c
      /\ \A j, k \in 1..n : j < k => <<Sorted(S, R)[j], Sorted(S, R)[k]>> \in R
  BY <1>1, <1>2, SortedIsRight
<1> HIDE DEF n
<1>4. \A j, k \in 1..n : j < k => Before(Sorted(S, R)[j], Sorted(S, R)[k])
  BY <1>2, <1>3, Zenon
<1>5. QED
  BY <1>3, <1>4 DEF InTurn, n

\* The positions select does not pass over: fewer than PER_TIER_CAP of their tier
\* come before them.
EarlierIn(o, i) == {k \in 1..(i - 1) : o[k].tier = o[i].tier}
KeptAt(o) == {i \in DOMAIN o : Cardinality(EarlierIn(o, i)) < PER_TIER_CAP}

\* What comes before a place is finite.
LEMMA EarlierFinite ==
  ASSUME NEW N \in Nat, NEW o, NEW i \in 1..N
  PROVE  /\ IsFiniteSet(EarlierIn(o, i)) /\ Cardinality(EarlierIn(o, i)) \in Nat
         /\ EarlierIn(o, i) \subseteq 1..(i - 1)
<1>1. EarlierIn(o, i) \in SUBSET (1..(i - 1)) /\ i - 1 \in Int
  BY DEF EarlierIn
<1>2. IsFiniteSet(1..(i - 1))
  BY <1>1, FS_Interval
<1>3. IsFiniteSet(EarlierIn(o, i))
  BY <1>1, <1>2, FS_Subset
<1>4. QED
  BY <1>1, <1>3, FS_CardinalityType

\* Before a position that is passed over, two of its tier are not.
LEMMA TwoEarlier ==
  ASSUME NEW N \in Nat, NEW o, DOMAIN o = 1..N, NEW i \in 1..N, i \notin KeptAt(o)
  PROVE  \E j, k \in KeptAt(o) : j < k /\ k < i /\ o[j].tier = o[i].tier /\ o[k].tier = o[i].tier
<1> DEFINE E == EarlierIn(o, i)
<1>1. IsFiniteSet(E) /\ Cardinality(E) \in Nat /\ E \subseteq 1..(i - 1)
  BY EarlierFinite
<1>2. Cardinality(E) >= 2
  BY <1>1 DEF KeptAt, PER_TIER_CAP
<1>3. E \in SUBSET Nat /\ E # {}
  BY <1>1, <1>2, FS_EmptySet
<1>4. PICK j \in E : \A m \in E : j <= m
  BY <1>3, LeastNumber, Zenon
<1>5. IsFiniteSet(E \ {j}) /\ Cardinality(E \ {j}) = Cardinality(E) - 1
  BY <1>1, FS_RemoveElement
<1>6. E \ {j} \in SUBSET Nat /\ E \ {j} # {}
  BY <1>1, <1>2, <1>3, <1>5, FS_EmptySet
<1>7. PICK k \in E \ {j} : \A m \in E \ {j} : k <= m
  BY <1>6, LeastNumber, Zenon
<1>8. \A m \in E : m \in 1..N /\ m < i /\ o[m].tier = o[i].tier
  BY <1>1 DEF EarlierIn
<1>9. \A m \in E : EarlierIn(o, m) \subseteq {x \in E : x < m}
  BY <1>8 DEF EarlierIn
<1> HIDE DEF E
<1>10. EarlierIn(o, j) \in SUBSET {k} /\ EarlierIn(o, k) \in SUBSET {j}
  <2>1. \A x \in E : x \in Nat /\ ~(x < j)
    BY <1>3, <1>4
  <2>2. \A x \in E : x < k => x = j
    BY <1>3, <1>7
  <2>3. EarlierIn(o, j) = {}
    BY <1>9, <2>1
  <2>4. \A x \in EarlierIn(o, k) : x \in E /\ x < k
    BY <1>9
  <2>5. QED
    BY <2>2, <2>3, <2>4
<1>11. \A S, x : S \in SUBSET {x} => Cardinality(S) <= 1
  <2> SUFFICES ASSUME NEW S, NEW x, S \in SUBSET {x} PROVE Cardinality(S) <= 1
    BY Zenon
  <2>1. IsFiniteSet({x}) /\ Cardinality({x}) = 1
    BY FS_Singleton, Zenon
  <2>2. QED
    BY <2>1, FS_Subset
<1>12. Cardinality(EarlierIn(o, j)) <= 1 /\ Cardinality(EarlierIn(o, k)) <= 1
  BY <1>10, <1>11, Zenon
<1>13. Cardinality(EarlierIn(o, j)) \in Nat /\ Cardinality(EarlierIn(o, k)) \in Nat
  BY <1>8, EarlierFinite
<1>14. j \in KeptAt(o) /\ k \in KeptAt(o)
  BY <1>8, <1>12, <1>13 DEF KeptAt, PER_TIER_CAP
<1>15. j < k
  BY <1>3, <1>4, <1>7
<1>16. QED
  BY <1>8, <1>14, <1>15

\* At most PER_TIER_CAP positions of a tier are kept.
LEMMA TierCapped ==
  ASSUME NEW N \in Nat, NEW o, DOMAIN o = 1..N, NEW t,
         NEW G \in SUBSET KeptAt(o), \A i \in G : o[i].tier = t
  PROVE  IsFiniteSet(G) /\ Cardinality(G) \in Nat /\ Cardinality(G) <= PER_TIER_CAP
<1>1. G \in SUBSET (1..N) /\ IsFiniteSet(1..N)
  BY FS_Interval DEF KeptAt
<1>2. IsFiniteSet(G) /\ Cardinality(G) \in Nat
  BY <1>1, FS_Subset, FS_CardinalityType, Zenon
<1>3. CASE G = {}
  BY <1>2, <1>3, FS_EmptySet DEF PER_TIER_CAP
<1>4. CASE G # {}
  <2> DEFINE D == {N - i : i \in G}
  <2>1. D \in SUBSET Nat /\ D # {}
    <3>1. \A i \in G : N - i \in Nat
      BY <1>1
    <3>2. QED
      BY <1>4, <3>1
  <2>2. PICK d \in D : \A e \in D : d <= e
    BY <2>1, LeastNumber, Zenon
  <2>3. PICK m \in G : d = N - m
    OBVIOUS
  <2>4. \A i \in G : i <= m
    <3> TAKE i \in G
    <3>1. N - m <= N - i
      BY <2>2, <2>3
    <3>2. QED
      BY <1>1, <3>1
  <2>5. G \ {m} \in SUBSET EarlierIn(o, m)
    BY <1>1, <2>4 DEF EarlierIn
  <2>6. IsFiniteSet(EarlierIn(o, m)) /\ Cardinality(EarlierIn(o, m)) \in Nat
    BY <1>1, EarlierFinite
  <2>7. Cardinality(EarlierIn(o, m)) <= 1
    BY <2>6 DEF KeptAt, PER_TIER_CAP
  <2>8. Cardinality(G \ {m}) <= Cardinality(EarlierIn(o, m))
    BY <2>5, <2>6, FS_Subset
  <2>9. Cardinality(G \ {m}) = Cardinality(G) - 1
    BY <1>2, FS_RemoveElement, Zenon
  <2>10. QED
    BY <1>2, <2>6, <2>7, <2>8, <2>9 DEF PER_TIER_CAP
<1>5. QED
  BY <1>2, <1>3, <1>4

\* What select returns, by position: the first of the kept positions, in turn.
LEMMA SelectByPosition ==
  ASSUME NEW C \in Seq(Scored), NEW limit \in Nat
  PROVE  LET o == InTurn(C)
             K == KeptAt(o)
             M == Cardinality(K)
             n == IF M > limit THEN limit ELSE M
         IN  /\ IsFiniteSet(K) /\ K \in SUBSET Nat /\ M \in Nat
             /\ select(C, limit) \in Seq(BestSet(C)) /\ Len(select(C, limit)) = n
             /\ \A k \in 1..n : select(C, limit)[k] = o[Places(K)[k]]
<1> DEFINE N == Cardinality(BestSet(C))
           o == InTurn(C)
           K == KeptAt(o)
           M == Cardinality(K)
           n == IF M > limit THEN limit ELSE M
<1>1. N \in Nat /\ o \in [1..N -> BestSet(C)]
  BY InTurnIsRight
<1>2. select(C, limit) = Take(At(o, K), limit)
  BY DEF select, InTurn, BestSet, BeforeOn, KeptAt, EarlierIn
<1>3. K \in SUBSET (DOMAIN o)
  BY DEF KeptAt
<1> HIDE DEF o, K, N
<1>4. o \in Seq(BestSet(C))
  BY <1>1, FunctionIsSequence
<1>5. /\ IsFiniteSet(K) /\ K \in SUBSET Nat
      /\ At(o, K) \in Seq(BestSet(C)) /\ Len(At(o, K)) = M
      /\ \A k \in 1..M : At(o, K)[k] = o[Places(K)[k]]
  BY <1>3, <1>4, AtIsRight
<1>6. M \in Nat
  BY <1>5, FS_CardinalityType
<1> HIDE DEF M
<1>7. n \in Nat /\ n <= M
  BY <1>6
<1>9. select(C, limit) = [k \in 1..n |-> At(o, K)[k]]
  BY <1>2, <1>5, TakeByPosition
<1> HIDE DEF n
<1>10. \A k \in 1..n : k \in 1..M
  BY <1>6, <1>7
<1>11. \A k \in 1..M : At(o, K)[k] \in BestSet(C)
  BY <1>5
<1>12. select(C, limit) \in [1..n -> BestSet(C)]
  BY <1>9, <1>10, <1>11
<1>13. select(C, limit) \in Seq(BestSet(C)) /\ Len(select(C, limit)) = n
  BY <1>7, <1>12, FunctionIsSequence
<1>14. \A k \in 1..n : select(C, limit)[k] = o[Places(K)[k]]
  BY <1>5, <1>9, <1>10, Zenon
<1>15. QED
  BY <1>5, <1>6, <1>13, <1>14, Zenon DEF o, K, M, n

\* The candidates for one page differ in their score alone: tier and depth are
\* read from its path.
PagesAgree(C) ==
  \A c, d \in Range(C) : c.url = d.url => c.tier = d.tier /\ c.depth = d.depth

\* select makes a good choice from any candidates, for any limit, and chooses no
\* page twice.
LEMMA SelectIsGood ==
  ASSUME NEW C \in Seq(Scored), NEW limit \in Nat, PagesAgree(C)
  PROVE  /\ GoodChoice(C, select(C, limit), limit)
         /\ \A j, k \in DOMAIN select(C, limit) :
              select(C, limit)[j].url = select(C, limit)[k].url => j = k
<1> DEFINE S == BestSet(C)
           N == Cardinality(S)
           o == InTurn(C)
           K == KeptAt(o)
           M == Cardinality(K)
           p == Places(K)
           n == IF M > limit THEN limit ELSE M
           chosen == select(C, limit)
           X == Range(chosen)
<1>1. /\ N \in Nat /\ o \in [1..N -> S]
      /\ \A c \in S : \E k \in 1..N : o[k] = c
      /\ \A j, k \in 1..N : j < k => Before(o[j], o[k])
  BY InTurnIsRight
<1>2. /\ IsFiniteSet(K) /\ K \in SUBSET Nat /\ M \in Nat
      /\ chosen \in Seq(S) /\ Len(chosen) = n
      /\ \A k \in 1..n : chosen[k] = o[p[k]]
  BY SelectByPosition, Zenon
<1>3. /\ p \in [1..M -> K]
      /\ \A i \in K : \E k \in 1..M : p[k] = i
      /\ \A j, k \in 1..M : j < k => p[j] < p[k]
  BY <1>2, PlacesAreRight, Zenon
<1>4. /\ S \subseteq Range(C) /\ S \subseteq Scored
      /\ \A c \in Range(C) : \E b \in S : b.url = c.url /\ c.score <= b.score
      /\ \A a, b \in S : a.url = b.url => a = b
  BY BestSetIsRight
<1>5. K \subseteq 1..N
  BY <1>1 DEF KeptAt
<1> HIDE DEF S, N, o, K, M, p, chosen
<1>6. n \in Nat /\ n <= M /\ n <= limit
  BY <1>2
<1>7. \A k \in 1..n : k \in 1..M /\ p[k] \in K /\ p[k] \in 1..N /\ p[k] \in Nat
  <2> HIDE DEF n
  <2>1. \A k \in 1..n : k \in 1..M
    BY <1>2, <1>6
  <2>2. QED
    BY <1>2, <1>3, <1>5, <2>1, Zenon
<1>8. n < M => n = limit
  BY <1>2
<1> HIDE DEF n
<1>9. X = {o[p[k]] : k \in 1..n}
  <2>1. DOMAIN chosen = 1..n
    BY <1>2
  <2>2. QED
    BY <1>2, <2>1, Zenon DEF Range
<1>10. X \subseteq S
  BY <1>1, <1>7, <1>9
<1> HIDE DEF X
<1>11. \A c \in Scored : c.score \in Nat /\ c.depth \in Nat /\ c.url \in Nat
  BY DEF Scored
<1>12. \A j, k \in 1..n : j < k => Before(o[p[j]], o[p[k]]) /\ o[p[j]].url # o[p[k]].url
  <2> TAKE j, k \in 1..n
  <2> HAVE j < k
  <2>1. Before(o[p[j]], o[p[k]])
    BY <1>1, <1>3, <1>7
  <2>2. o[p[j]] \in S /\ o[p[k]] \in S
    BY <1>1, <1>7, Zenon
  <2>3. o[p[j]] # o[p[k]]
    BY <1>4, <1>11, <2>1, <2>2 DEF Before
  <2>4. QED
    BY <1>4, <2>1, <2>2, <2>3
<1>13. Cardinality({c.url : c \in X}) = n
  <2> DEFINE f == [k \in 1..n |-> o[p[k]].url]
  <2>1. {c.url : c \in X} = {f[k] : k \in 1..n}
    BY <1>9
  <2>2. \A j, k \in 1..n : j # k => f[j] # f[k]
    BY <1>6, <1>12
  <2>3. DOMAIN f = 1..n
    OBVIOUS
  <2> HIDE DEF f
  <2>4. IsFiniteSet(1..n) /\ Cardinality(1..n) = n
    BY <1>6, FS_Interval
  <2>5. Cardinality({f[k] : k \in 1..n}) = Cardinality(1..n)
    BY <2>2, <2>3, <2>4, FiniteImage, Zenon
  <2>6. QED
    BY <2>1, <2>4, <2>5, Zenon
<1>14. \A c \in X : /\ IsFiniteSet({d \in X : d.tier = c.tier})
                    /\ Cardinality({d \in X : d.tier = c.tier}) <= PER_TIER_CAP
  <2> TAKE c \in X
  <2> DEFINE G == {i \in K : o[i].tier = c.tier /\ \E k \in 1..n : p[k] = i}
             g == [i \in G |-> o[i]]
  <2>1. /\ G \in SUBSET K /\ \A i \in G : o[i].tier = c.tier
        /\ DOMAIN g = G
    OBVIOUS
  <2>2. {d \in X : d.tier = c.tier} = {g[i] : i \in G}
    BY <1>7, <1>9, Zenon
  <2> HIDE DEF G, g
  <2>3. IsFiniteSet(G) /\ Cardinality(G) \in Nat /\ Cardinality(G) <= PER_TIER_CAP
    <3>1. DOMAIN o = 1..N
      BY <1>1
    <3>2. G \in SUBSET KeptAt(o)
      BY <2>1 DEF K
    <3> DEFINE t == c.tier
    <3>3. \A i \in G : o[i].tier = t
      BY <2>1
    <3> HIDE DEF t
    <3>4. N \in Nat
      BY <1>1
    <3>5. QED
      BY <3>1, <3>2, <3>3, <3>4, TierCapped, Zenon
  <2>4. IsFiniteSet({g[i] : i \in G}) /\ Cardinality({g[i] : i \in G}) <= Cardinality(G)
    BY <2>1, <2>3, FiniteImage
  <2>5. Cardinality({g[i] : i \in G}) \in Nat
    BY <2>4, FS_CardinalityType
  <2>6. Cardinality({g[i] : i \in G}) <= PER_TIER_CAP
    BY <2>3, <2>4, <2>5 DEF PER_TIER_CAP
  <2>7. QED
    BY <2>2, <2>4, <2>6
<1>15. ASSUME NEW c \in Range(C) \ X
       PROVE  \/ \E d \in X : d.url = c.url /\ d.score >= c.score
              \/ Cardinality({d \in X : d.tier = c.tier /\ ~Before(c, d)}) = PER_TIER_CAP
              \/ n = limit /\ \A d \in X : ~Before(c, d)
  <2>1. PICK b \in S : b.url = c.url /\ c.score <= b.score
    BY <1>4
  <2>2. c \in Scored /\ b \in Scored /\ c.tier = b.tier /\ c.depth = b.depth
    BY <1>4, <2>1 DEF PagesAgree, Range
  <2>3. \A d \in Scored : Before(d, b) => ~Before(c, d)
    BY <1>11, <2>1, <2>2 DEF Before
  <2>4. PICK i \in 1..N : o[i] = b
    BY <1>1
  <2>5. ASSUME NEW j \in K, j <= i, \A k \in 1..n : p[k] # j
        PROVE  n = limit /\ \A d \in X : ~Before(c, d)
    <3>1. PICK m \in 1..M : p[m] = j
      BY <1>3
    <3>2. m > n
      BY <1>2, <1>6, <2>5, <3>1
    <3>3. n = limit
      BY <1>2, <1>6, <1>8, <3>2
    <3>4. ASSUME NEW d \in X PROVE ~Before(c, d)
      <4>1. PICK k \in 1..n : d = o[p[k]]
        BY <1>9
      <4>2. p[k] < j
        BY <1>3, <1>6, <1>7, <3>1, <3>2, <4>1
      <4>3. p[k] \in 1..N /\ p[k] < i
        BY <1>2, <1>7, <2>5, <4>1, <4>2
      <4>4. Before(d, b)
        BY <1>1, <2>4, <4>1, <4>3
      <4>5. QED
        BY <1>4, <1>10, <2>3, <4>4
    <3>5. QED
      BY <3>3, <3>4
  <2>6. CASE b \in X
    BY <1>11, <2>1, <2>2, <2>6
  <2>7. CASE b \notin X /\ i \in K
    <3>1. \A k \in 1..n : p[k] # i
      BY <1>9, <2>4, <2>7, Zenon
    <3>2. QED
      BY <2>5, <2>7, <3>1
  <2>8. CASE i \notin K
    <3>1. PICK j, k \in K : j < k /\ k < i /\ o[j].tier = b.tier /\ o[k].tier = b.tier
      BY <1>1, <2>4, <2>8, TwoEarlier DEF K
    <3>2. j \in 1..N /\ k \in 1..N /\ j < i
      BY <1>5, <3>1
    <3>3. CASE \A m \in 1..n : p[m] # j
      BY <2>5, <3>2, <3>3
    <3>4. CASE \A m \in 1..n : p[m] # k
      BY <2>5, <3>1, <3>2, <3>4
    <3>5. CASE (\E m \in 1..n : p[m] = j) /\ (\E m \in 1..n : p[m] = k)
      <4> DEFINE D == {d \in X : d.tier = c.tier /\ ~Before(c, d)}
                 T == {d \in X : d.tier = o[j].tier}
      <4>1. o[j] \in X /\ o[k] \in X
        BY <1>9, <3>5
      <4>2. Before(o[j], b) /\ Before(o[k], b) /\ Before(o[j], o[k])
        BY <1>1, <2>4, <3>1, <3>2, Zenon
      <4>3. o[j] \in Scored /\ o[k] \in Scored /\ o[j] # o[k]
        BY <1>4, <1>10, <1>11, <4>1, <4>2 DEF Before
      <4>4. {o[j], o[k]} \in SUBSET D
        BY <2>2, <2>3, <3>1, <4>1, <4>2, <4>3
      <4>5. D \in SUBSET T
        BY <2>2, <3>1
      <4>6. IsFiniteSet(T) /\ Cardinality(T) <= 2
        BY <1>14, <4>1, Zenon DEF PER_TIER_CAP
      <4> HIDE DEF D, T
      <4>7. IsFiniteSet(D) /\ Cardinality(D) <= Cardinality(T)
        BY <4>5, <4>6, FS_Subset
      <4>8. Cardinality({o[j], o[k]}) = 2 /\ Cardinality({o[j], o[k]}) <= Cardinality(D)
        <5>1. IsFiniteSet({o[j]}) /\ Cardinality({o[j]}) = 1
          BY FS_Singleton, Zenon
        <5>2. Cardinality({o[j]} \cup {o[k]}) = 2
          <6>1. o[k] \notin {o[j]}
            BY <4>3
          <6>2. Cardinality({o[j]} \cup {o[k]}) = Cardinality({o[j]}) + 1
            BY <5>1, <6>1, FS_AddElement, Zenon
          <6>3. QED
            BY <5>1, <6>2
        <5>3. {o[j]} \cup {o[k]} = {o[j], o[k]}
          OBVIOUS
        <5>4. Cardinality({o[j], o[k]}) <= Cardinality(D)
          BY <4>4, <4>7, FS_Subset
        <5>5. QED
          BY <5>2, <5>3, <5>4, Zenon
      <4>9. Cardinality(D) \in Nat /\ Cardinality(T) \in Nat
        BY <4>6, <4>7, FS_CardinalityType
      <4>10. Cardinality(D) = PER_TIER_CAP
        BY <4>6, <4>7, <4>8, <4>9 DEF PER_TIER_CAP
      <4>11. QED
        BY <4>10 DEF D
    <3>6. QED
      BY <3>3, <3>4, <3>5
  <2>9. QED
    BY <2>6, <2>7, <2>8
<1>16. QED
  <2>1. /\ X \subseteq Range(C) /\ Len(chosen) = n /\ n <= limit
    BY <1>2, <1>4, <1>6, <1>10, Zenon
  <2>2. GoodChoice(C, chosen, limit)
    BY <1>13, <1>14, <1>15, <2>1, Zenon DEF GoodChoice, X
  <2>3. DOMAIN chosen = 1..n
    BY <1>2
  <2>4. ASSUME NEW j \in 1..n, NEW k \in 1..n, chosen[j].url = chosen[k].url PROVE j = k
    BY <1>2, <1>6, <1>12, <2>4
  <2>5. QED
    BY <2>2, <2>3, <2>4, Zenon DEF chosen

\* Scores are numbers, and tiers one of TIERS.
LEMMA TierIsOne ==
  ASSUME NEW l \in LinkRecord
  PROVE  tier_for(l) \in DOMAIN TIERS /\ TIERS[tier_for(l)] \in Nat
<1> DEFINE T == l.marks \cap DOMAIN TIERS
<1>1. \A t \in DOMAIN TIERS : TIERS[t] \in 0..100
  BY DEF TIERS
<1>2. NoTier \in DOMAIN TIERS
  BY DEF TIERS, NoTier
<1>3. CASE T = {}
  BY <1>1, <1>2, <1>3 DEF tier_for
<1>4. CASE T # {}
  <2> DEFINE D == {100 - TIERS[t] : t \in T}
  <2>1. D \in SUBSET Nat /\ D # {}
    <3>1. \A t \in T : 100 - TIERS[t] \in Nat
      BY <1>1
    <3>2. QED
      BY <1>4, <3>1
  <2>2. PICK d \in D : \A e \in D : d <= e
    BY <2>1, LeastNumber
  <2>3. PICK m \in T : d = 100 - TIERS[m]
    OBVIOUS
  <2>4. \A u \in T : TIERS[u] <= TIERS[m]
    <3> TAKE u \in T
    <3>1. 100 - TIERS[m] <= 100 - TIERS[u]
      BY <2>2, <2>3
    <3>2. QED
      BY <1>1, <3>1
  <2>5. tier_for(l) = CHOOSE t \in T : \A u \in T : TIERS[u] <= TIERS[t]
    BY <1>4 DEF tier_for
  <2>6. tier_for(l) \in T
    BY <2>4, <2>5
  <2>7. QED
    BY <1>1, <2>6
<1>5. QED
  BY <1>3, <1>4

\* score_url scores a link.
LEMMA ScoreIsRight ==
  ASSUME NEW l \in LinkRecord
  PROVE  score_url(l) \in Scored
<1>1. canonical(l.at) \in Nat /\ l.depth \in Nat
  BY DEF LinkRecord, canonical
<1>2. Total(l) \in Nat
  BY TierIsOne DEF Total, ANCHOR_BONUS
<1>3. QED
  BY <1>1, <1>2, TierIsOne, Zenon DEF score_url, Scored

\* Every score is of a link.
LEMMA ScoreAllIsRight ==
  ASSUME NEW links \in Seq(LinkRecord)
  PROVE  /\ ScoreAll(links) \in Seq(Scored)
         /\ \A c \in Range(ScoreAll(links)) : \E l \in Range(links) : c = score_url(l)
<1> DEFINE I == {i \in DOMAIN links : Scorable(links[i])}
           kept == At(links, I)
           n == Cardinality(I)
<1>1. ScoreAll(links) = [i \in DOMAIN kept |-> score_url(kept[i])]
  BY DEF ScoreAll
<1>2. I \in SUBSET (DOMAIN links)
  OBVIOUS
<1> HIDE DEF I
<1>3. /\ IsFiniteSet(I) /\ I \in SUBSET Nat
      /\ kept \in Seq(LinkRecord) /\ Len(kept) = n
      /\ \A k \in 1..n : kept[k] = links[Places(I)[k]]
  BY <1>2, AtIsRight
<1>4. n \in Nat /\ Places(I) \in [1..n -> I]
  BY <1>3, PlacesAreRight
<1> HIDE DEF kept, n
<1>5. DOMAIN kept = 1..n /\ \A k \in 1..n : kept[k] \in LinkRecord /\ kept[k] \in Range(links)
  BY <1>2, <1>3, <1>4 DEF Range
<1>6. \A k \in 1..n : score_url(kept[k]) \in Scored
  BY <1>5, ScoreIsRight
<1>7. ScoreAll(links) \in [1..n -> Scored]
  BY <1>1, <1>5, <1>6
<1>8. ScoreAll(links) \in Seq(Scored)
  BY <1>4, <1>7, FunctionIsSequence
<1>9. \A c \in Range(ScoreAll(links)) : \E l \in Range(links) : c = score_url(l)
  <2> TAKE c \in Range(ScoreAll(links))
  <2>1. PICK k \in 1..n : c = ScoreAll(links)[k]
    BY <1>7 DEF Range
  <2>2. c = score_url(kept[k])
    BY <1>1, <1>5, <2>1
  <2>3. QED
    BY <1>5, <2>2
<1>10. QED
  BY <1>8, <1>9

\* extract_links keeps some of a page's links.
LEMMA LinksAreRight ==
  ASSUME NEW links \in Seq(LinkRecord)
  PROVE  /\ extract_links(links) \in Seq(LinkRecord)
         /\ Range(extract_links(links)) \subseteq Range(links)
<1> DEFINE I == {i \in DOMAIN links :
                   links[i].own /\ \A k \in 1..(i - 1) : links[k].at # links[i].at}
           n == Cardinality(I)
<1>1. extract_links(links) = At(links, I)
  BY DEF extract_links
<1>2. I \in SUBSET (DOMAIN links)
  BY Zenon
<1> HIDE DEF I
<1>3. /\ IsFiniteSet(I) /\ I \in SUBSET Nat
      /\ At(links, I) \in Seq(LinkRecord) /\ Len(At(links, I)) = n
      /\ \A k \in 1..n : At(links, I)[k] = links[Places(I)[k]]
  BY <1>2, AtIsRight
<1>4. n \in Nat /\ Places(I) \in [1..n -> I]
  BY <1>3, PlacesAreRight
<1> HIDE DEF n
<1>5. \A k \in 1..n : At(links, I)[k] \in Range(links)
  BY <1>2, <1>3, <1>4 DEF Range
<1>6. DOMAIN At(links, I) = 1..n
  BY <1>3
<1>7. QED
  BY <1>1, <1>3, <1>5, <1>6 DEF Range

\* What a concatenation holds.
LEMMA RangeOfBoth ==
  ASSUME NEW S, NEW s \in Seq(S), NEW t \in Seq(S)
  PROVE  s \o t \in Seq(S) /\ Range(s \o t) = Range(s) \cup Range(t)
<1>1. s \o t \in Seq(S) /\ Len(s \o t) = Len(s) + Len(t) /\ DOMAIN (s \o t) = 1..(Len(s) + Len(t))
  OBVIOUS
<1>2. \A i \in 1..(Len(s) + Len(t)) :
         (s \o t)[i] = IF i <= Len(s) THEN s[i] ELSE t[i - Len(s)]
  OBVIOUS
<1>3. ASSUME NEW i \in 1..(Len(s) + Len(t)) PROVE (s \o t)[i] \in Range(s) \cup Range(t)
  <2>1. Len(s) \in Nat /\ Len(t) \in Nat /\ DOMAIN s = 1..Len(s) /\ DOMAIN t = 1..Len(t)
    OBVIOUS
  <2>2. CASE i <= Len(s)
    BY <1>2, <2>1, <2>2 DEF Range
  <2>3. CASE ~(i <= Len(s))
    <3>1. i - Len(s) \in 1..Len(t)
      BY <2>1, <2>3
    <3>2. QED
      BY <1>2, <2>1, <2>3, <3>1 DEF Range
  <2>4. QED
    BY <2>2, <2>3
<1>4. ASSUME NEW i \in DOMAIN s PROVE s[i] \in Range(s \o t)
  <2>1. i \in 1..(Len(s) + Len(t)) /\ (s \o t)[i] = s[i]
    OBVIOUS
  <2>2. QED
    BY <1>1, <2>1 DEF Range
<1>5. ASSUME NEW i \in DOMAIN t PROVE t[i] \in Range(s \o t)
  <2>1. Len(s) + i \in 1..(Len(s) + Len(t)) /\ (s \o t)[Len(s) + i] = t[i]
    OBVIOUS
  <2>2. QED
    BY <1>1, <2>1 DEF Range
<1>6. QED
  BY <1>1, <1>3, <1>4, <1>5 DEF Range

\* No element of s is there twice.
Once(s) == \A i, k \in DOMAIN s : s[i] = s[k] => i = k

\* Two sequences with nothing in common, one after the other.
LEMMA JoinedOnce ==
  ASSUME NEW S, NEW s \in Seq(S), NEW t \in Seq(S), Once(s), Once(t), Range(s) \cap Range(t) = {}
  PROVE  Once(s \o t)
<1>1. /\ Len(s) \in Nat /\ Len(t) \in Nat /\ DOMAIN s = 1..Len(s) /\ DOMAIN t = 1..Len(t)
      /\ DOMAIN (s \o t) = 1..(Len(s) + Len(t))
      /\ \A i \in 1..(Len(s) + Len(t)) :
           (s \o t)[i] = IF i <= Len(s) THEN s[i] ELSE t[i - Len(s)]
  OBVIOUS
<1>2. \A i \in 1..Len(s), k \in 1..Len(t) : s[i] # t[k]
  BY <1>1 DEF Range
<1>3. ASSUME NEW i \in 1..(Len(s) + Len(t)), NEW k \in 1..(Len(s) + Len(t)),
             (s \o t)[i] = (s \o t)[k]
      PROVE  i = k
  <2>1. CASE i <= Len(s) /\ k <= Len(s)
    BY <1>1, <1>3, <2>1 DEF Once
  <2>2. CASE i > Len(s) /\ k > Len(s)
    <3>1. i - Len(s) \in 1..Len(t) /\ k - Len(s) \in 1..Len(t)
      BY <1>1, <2>2
    <3>2. t[i - Len(s)] = t[k - Len(s)]
      BY <1>1, <1>3, <2>2
    <3>3. i - Len(s) = k - Len(s)
      BY <1>1, <3>1, <3>2, Zenon DEF Once
    <3>4. QED
      BY <1>1, <3>3
  <2>3. CASE i <= Len(s) /\ k > Len(s)
    BY <1>1, <1>2, <1>3, <2>3
  <2>4. CASE i > Len(s) /\ k <= Len(s)
    BY <1>1, <1>2, <1>3, <2>4
  <2>5. QED
    BY <1>1, <2>1, <2>2, <2>3, <2>4
<1>4. QED
  BY <1>1, <1>3 DEF Once

\* Filtering a sequence, as a set: the elements at the positions, each once if they
\* differ.
LEMMA AtHolds ==
  ASSUME NEW S, NEW s \in Seq(S), NEW I \in SUBSET (DOMAIN s)
  PROVE  /\ At(s, I) \in Seq(S)
         /\ Range(At(s, I)) = {s[i] : i \in I}
         /\ (\A i, k \in I : s[i] = s[k] => i = k) => Once(At(s, I))
<1> DEFINE n == Cardinality(I)
           a == At(s, I)
<1>1. /\ a \in Seq(S) /\ Len(a) = n /\ IsFiniteSet(I) /\ I \in SUBSET Nat
      /\ \A k \in 1..n : a[k] = s[Places(I)[k]]
  BY AtIsRight, Zenon
<1>2. /\ n \in Nat /\ Places(I) \in [1..n -> I]
      /\ \A i \in I : \E k \in 1..n : Places(I)[k] = i
      /\ \A j, k \in 1..n : j < k => Places(I)[j] < Places(I)[k]
  BY <1>1, PlacesAreRight, Zenon
<1> HIDE DEF n, a
<1>3. DOMAIN a = 1..n
  BY <1>1
<1>4. Range(a) = {s[i] : i \in I}
  <2>1. Range(a) = {a[k] : k \in 1..n}
    BY <1>3, Zenon DEF Range
  <2>2. \A k \in 1..n : Places(I)[k] \in I /\ a[k] = s[Places(I)[k]]
    BY <1>1, <1>2
  <2>3. ASSUME NEW i \in I PROVE s[i] \in {a[k] : k \in 1..n}
    <3>1. PICK k \in 1..n : Places(I)[k] = i
      BY <1>2, Zenon
    <3>2. a[k] = s[i]
      BY <2>2, <3>1
    <3>3. QED
      BY <3>2
  <2>4. ASSUME NEW k \in 1..n PROVE a[k] \in {s[i] : i \in I}
    BY <2>2
  <2>5. QED
    BY <2>1, <2>3, <2>4
<1>5. ASSUME \A i, k \in I : s[i] = s[k] => i = k, NEW j \in 1..n, NEW k \in 1..n, a[j] = a[k]
      PROVE  j = k
  <2>1. Places(I)[j] \in I /\ Places(I)[k] \in I
    BY <1>2
  <2>2. Places(I)[j] = Places(I)[k]
    <3>1. s[Places(I)[j]] = s[Places(I)[k]]
      BY <1>1, <1>5
    <3>2. QED
      BY <1>5, <2>1, <3>1, Zenon
  <2>3. Places(I)[j] \in Nat
    BY <1>1, <2>1
  <2>4. QED
    BY <1>2, <2>2, <2>3
<1>6. QED
  BY <1>1, <1>3, <1>4, <1>5, Zenon DEF a, Once

\* What discovery chooses from: the scores of links.
LEMMA CandidatesAreRight ==
  ASSUME NEW links \in Seq(LinkRecord), NEW mapped \in Seq(LinkRecord),
         NEW fallback \in Seq(LinkRecord), NEW limit
  PROVE  LET C == Candidates(links, mapped, fallback, limit)
             L == Range(links) \cup Range(mapped) \cup Range(fallback)
         IN  C \in Seq(Scored) /\ \A c \in Range(C) : \E l \in L : c = score_url(l)
<1> DEFINE a == ScoreAll(extract_links(links))
           b == ScoreAll(mapped)
           c == ScoreAll(fallback)
           L == Range(links) \cup Range(mapped) \cup Range(fallback)
           Ok(s) == s \in Seq(Scored) /\ \A x \in Range(s) : \E l \in L : x = score_url(l)
           C == Candidates(links, mapped, fallback, limit)
<1>1. Ok(a)
  <2>1. /\ extract_links(links) \in Seq(LinkRecord)
        /\ Range(extract_links(links)) \subseteq Range(links)
    BY LinksAreRight
  <2>2. a \in Seq(Scored) /\ \A x \in Range(a) : \E l \in Range(extract_links(links)) : x = score_url(l)
    BY <2>1, ScoreAllIsRight
  <2>3. QED
    BY <2>1, <2>2
<1>2. Ok(b) /\ Ok(c)
  BY ScoreAllIsRight
<1>3. C = a \/ C = a \o b \/ C = (a \o b) \o c
  BY DEF Candidates
<1> HIDE DEF a, b, c, L, C
<1>4. \A s, t : Ok(s) /\ Ok(t) => Ok(s \o t)
  <2> SUFFICES ASSUME NEW s, NEW t, Ok(s), Ok(t) PROVE Ok(s \o t)
    OBVIOUS
  <2>1. s \o t \in Seq(Scored) /\ Range(s \o t) \subseteq Range(s) \cup Range(t)
    BY RangeOfBoth
  <2>2. QED
    BY <2>1, Zenon
<1> HIDE DEF Ok
<1>5. Ok(C)
  BY <1>1, <1>2, <1>3, <1>4, Zenon
<1>6. QED
  BY <1>5 DEF Ok, C, L

-----------------------------------------------------------------------------
(* Extraction, merging and ranking                                         *)

\* A page as the scratchpad keeps it.
PageRecord ==
  [url : Nat, score : Nat, finds : FindSeq, cf : SUBSET DOMAIN Traits, form : BOOLEAN]

\* The parts of extract_page, by name.
FoundOn(page) == {page.finds[i].email : i \in DOMAIN page.finds}
PlacesOn(page, e) == {i \in DOMAIN page.finds : page.finds[i].email = e}
FirstOn(page, e) == CHOOSE i \in PlacesOn(page, e) : \A k \in PlacesOn(page, e) : i <= k
OrderOn(page, e) == Cardinality({page.finds[i].email : i \in 1..FirstOn(page, e)})
CandidateOn(page, e) ==
  [email |-> e,
   method |-> BestMethod({MethodOf(page, page.finds[i]) : i \in PlacesOn(page, e)}),
   order |-> OrderOn(page, e)]

\* A page yields one candidate per address found on it.
LEMMA ExtractPageParts ==
  ASSUME NEW page
  PROVE  extract_page(page) = {CandidateOn(page, e) : e \in FoundOn(page)}
  BY Zenon DEF extract_page, CandidateOn, FoundOn, OrderOn, FirstOn, PlacesOn

\* The addresses of a page are numbered, each differently, by at most as many
\* numbers as the page has finds.
LEMMA OrderOnPage ==
  ASSUME NEW page \in PageRecord
  PROVE  /\ IsFiniteSet(FoundOn(page))
         /\ \A e \in FoundOn(page) : OrderOn(page, e) \in 1..(PAGE_ORDER - 1)
         /\ \A e, f \in FoundOn(page) : e # f => OrderOn(page, e) # OrderOn(page, f)
<1> DEFINE n == Len(page.finds)
           mail == [i \in 1..n |-> page.finds[i].email]
           Upto(m) == {mail[i] : i \in 1..m}
<1>1. n \in Nat /\ n < PAGE_ORDER /\ DOMAIN page.finds = 1..n
  <2>1. page.finds \in Seq(FindRecord) /\ Len(page.finds) < PAGE_ORDER
    BY DEF PageRecord, FindSeq
  <2>2. QED
    BY <2>1
<1> HIDE DEF n
<1>2. /\ DOMAIN mail = 1..n /\ FoundOn(page) = Upto(n)
      /\ \A e : PlacesOn(page, e) = {i \in 1..n : mail[i] = e}
  BY <1>1, Zenon DEF FoundOn, PlacesOn
<1>3. \A m \in 0..n : Upto(m) = {page.finds[i].email : i \in 1..m}
  <2> TAKE m \in 0..n
  <2>1. \A i \in 1..m : i \in 1..n
    BY <1>1
  <2>2. \A i \in 1..m : mail[i] = page.finds[i].email
    BY <2>1
  <2> HIDE DEF mail
  <2>3. QED
    BY <2>2
<1> HIDE DEF mail
<1>4. ASSUME NEW m \in 0..n
      PROVE  IsFiniteSet(Upto(m)) /\ Cardinality(Upto(m)) \in Nat /\ Cardinality(Upto(m)) <= m
  <2> DEFINE g == [i \in 1..m |-> mail[i]]
  <2>1. DOMAIN g = 1..m /\ Upto(m) = {g[i] : i \in 1..m}
    OBVIOUS
  <2>2. m \in Nat /\ IsFiniteSet(1..m) /\ Cardinality(1..m) = m
    BY <1>1, FS_Interval
  <2> HIDE DEF g
  <2>3. IsFiniteSet({g[i] : i \in 1..m}) /\ Cardinality({g[i] : i \in 1..m}) <= Cardinality(1..m)
    BY <2>1, <2>2, FiniteImage
  <2>4. Cardinality({g[i] : i \in 1..m}) \in Nat
    BY <2>3, FS_CardinalityType
  <2>5. QED
    BY <2>1, <2>2, <2>3, <2>4, Zenon
<1>5. ASSUME NEW e \in FoundOn(page)
      PROVE  /\ FirstOn(page, e) \in 1..n /\ mail[FirstOn(page, e)] = e
             /\ \A k \in 1..n : mail[k] = e => FirstOn(page, e) <= k
  <2>1. PlacesOn(page, e) \in SUBSET Nat /\ PlacesOn(page, e) # {}
    <3>1. PICK i \in 1..n : mail[i] = e
      BY <1>2
    <3>2. PlacesOn(page, e) = {k \in 1..n : mail[k] = e}
      BY <1>2
    <3>3. QED
      BY <3>1, <3>2
  <2>2. \E i \in PlacesOn(page, e) : \A k \in PlacesOn(page, e) : i <= k
    BY <2>1, LeastNumber
  <2>3. /\ FirstOn(page, e) \in PlacesOn(page, e)
        /\ \A k \in PlacesOn(page, e) : FirstOn(page, e) <= k
    BY <2>2, Zenon DEF FirstOn
  <2>4. QED
    BY <1>2, <2>3
<1>6. \A e \in FoundOn(page) : OrderOn(page, e) = Cardinality(Upto(FirstOn(page, e)))
  <2> HIDE DEF Upto
  <2> TAKE e \in FoundOn(page)
  <2>1. FirstOn(page, e) \in 0..n
    BY <1>1, <1>5
  <2>2. QED
    BY <1>3, <2>1 DEF OrderOn
<1> HIDE DEF Upto
<1>7. \A m \in 0..n : \A x : x \in Upto(m) <=> \E i \in 1..m : mail[i] = x
  BY DEF Upto
<1>8. ASSUME NEW e \in FoundOn(page) PROVE OrderOn(page, e) \in 1..(PAGE_ORDER - 1)
  <2> DEFINE m == FirstOn(page, e)
  <2>1. m \in 1..n /\ m \in 0..n /\ mail[m] = e
    BY <1>1, <1>5
  <2> HIDE DEF m
  <2>2. e \in Upto(m)
    BY <1>1, <1>7, <2>1
  <2>3. IsFiniteSet(Upto(m)) /\ Cardinality(Upto(m)) \in Nat /\ Cardinality(Upto(m)) <= m
    BY <1>4, <2>1
  <2>4. Cardinality(Upto(m)) # 0
    BY <2>2, <2>3, FS_EmptySet
  <2> DEFINE q == Cardinality(Upto(m))
  <2>5. q \in 1..(PAGE_ORDER - 1)
    <3>1. q \in Nat /\ q <= m /\ q # 0
      BY <2>3, <2>4
    <3> HIDE DEF q
    <3>2. m \in Nat /\ m <= n
      BY <1>1, <2>1
    <3>3. n \in Nat /\ n < PAGE_ORDER
      BY <1>1
    <3>4. QED
      BY ONLY <3>1, <3>2, <3>3, PageOrder
  <2>6. QED
    BY <1>6, <2>5, Zenon DEF m
<1>9. ASSUME NEW e \in FoundOn(page), NEW f \in FoundOn(page),
             FirstOn(page, e) < FirstOn(page, f)
      PROVE  OrderOn(page, e) < OrderOn(page, f)
  <2> DEFINE m == FirstOn(page, e)
             k == FirstOn(page, f)
  <2>1. m \in 0..n /\ k \in 0..n /\ m \in 1..n /\ k \in 1..n /\ m < k
    BY <1>1, <1>5, <1>9
  <2>2. f \in Upto(k) /\ f \notin Upto(m)
    BY <1>1, <1>5, <1>7, <2>1
  <2> HIDE DEF m, k
  <2>3. Upto(m) \in SUBSET Upto(k)
    BY <1>1, <1>7, <2>1
  <2>4. /\ IsFiniteSet(Upto(k)) /\ Cardinality(Upto(k)) \in Nat
        /\ Cardinality(Upto(m)) \in Nat
    BY <1>4, <2>1
  <2>5. Cardinality(Upto(m)) <= Cardinality(Upto(k)) /\ Cardinality(Upto(m)) # Cardinality(Upto(k))
    BY <2>2, <2>3, <2>4, FS_Subset
  <2>6. QED
    BY <1>6, <2>4, <2>5 DEF m, k
<1>10. ASSUME NEW e \in FoundOn(page), NEW f \in FoundOn(page), e # f
       PROVE  OrderOn(page, e) # OrderOn(page, f)
  <2>1. FirstOn(page, e) \in Nat /\ FirstOn(page, f) \in Nat /\ FirstOn(page, e) # FirstOn(page, f)
    BY <1>1, <1>5, <1>10
  <2>2. FirstOn(page, e) < FirstOn(page, f) \/ FirstOn(page, f) < FirstOn(page, e)
    BY <2>1
  <2>3. OrderOn(page, e) < OrderOn(page, f) \/ OrderOn(page, f) < OrderOn(page, e)
    BY <1>9, <2>2
  <2>4. OrderOn(page, e) \in Int /\ OrderOn(page, f) \in Int
    <3>1. \A x \in 1..(PAGE_ORDER - 1) : x \in Int
      BY PageOrder
    <3>2. QED
      BY <1>8, <3>1
  <2>5. QED
    BY <2>3, <2>4
<1>11. IsFiniteSet(FoundOn(page))
  <2>1. n \in 0..n
    BY <1>1
  <2>2. QED
    BY <1>2, <1>4, <2>1
<1>12. QED
  BY <1>8, <1>10, <1>11

\* The parts of merge_pages, by name.
Addresses(pages) == UNION {FoundOn(pages[i]) : i \in DOMAIN pages}
PagesWith(pages, e) == {i \in DOMAIN pages : e \in FoundOn(pages[i])}
FirstPage(pages, e) == CHOOSE i \in PagesWith(pages, e) : \A k \in PagesWith(pages, e) : i <= k
OrderIn(pages, e) ==
  (FirstPage(pages, e) - 1) * PAGE_ORDER + OrderOn(pages[FirstPage(pages, e)], e)

\* The pages of an attempt hold finitely many addresses.
LEMMA AddressesFinite ==
  ASSUME NEW pages \in Seq(PageRecord)
  PROVE  IsFiniteSet(Addresses(pages))
<1> DEFINE f == [i \in DOMAIN pages |-> FoundOn(pages[i])]
<1>1. IsFiniteSet(DOMAIN pages) /\ \A i \in DOMAIN pages : pages[i] \in PageRecord
  BY FS_Interval
<1>2. DOMAIN f = DOMAIN pages /\ Addresses(pages) = UNION {f[i] : i \in DOMAIN pages}
  BY DEF Addresses
<1>3. \A i \in DOMAIN pages : IsFiniteSet(f[i])
  BY <1>1, OrderOnPage
<1> HIDE DEF f
<1>4. IsFiniteSet({f[i] : i \in DOMAIN pages})
  BY <1>1, <1>2, FiniteImage
<1>5. IsFiniteSet(UNION {f[i] : i \in DOMAIN pages})
  BY <1>3, <1>4, FS_UNION, Zenon
<1>6. QED
  BY <1>2, <1>5

\* The first page with an address has it.
LEMMA FirstPageHasIt ==
  ASSUME NEW pages \in Seq(PageRecord), NEW e \in Addresses(pages)
  PROVE  FirstPage(pages, e) \in PagesWith(pages, e)
<1>1. PagesWith(pages, e) \in SUBSET Nat /\ PagesWith(pages, e) # {}
  BY DEF PagesWith, Addresses
<1>2. \E i \in PagesWith(pages, e) : \A k \in PagesWith(pages, e) : i <= k
  BY <1>1, LeastNumber, Zenon
<1>3. QED
  BY <1>2 DEF FirstPage

\* There is one candidate per address, found on every page that shows it.
LEMMA MergedIsRight ==
  ASSUME NEW pages \in Seq(PageRecord)
  PROVE  /\ IsFiniteSet(merge_pages(pages))
         /\ \A c \in merge_pages(pages) :
              /\ c.email \in Addresses(pages)
              /\ c.sources = {pages[i].url : i \in PagesWith(pages, c.email)}
              /\ c.order = OrderIn(pages, c.email)
         /\ \A e \in Addresses(pages) : \E c \in merge_pages(pages) : c.email = e
         /\ \A c, d \in merge_pages(pages) : c.email = d.email => c = d
<1> DEFINE found == [i \in DOMAIN pages |-> extract_page(pages[i])]
           on(e) == {i \in DOMAIN pages : \E c \in found[i] : c.email = e}
           cand(i, e) == CHOOSE c \in found[i] : c.email = e
           first(e) == CHOOSE i \in on(e) : \A k \in on(e) : i <= k
           A == UNION {{c.email : c \in found[i]} : i \in DOMAIN pages}
           rec(e) == [email |-> e,
                      method |-> BestMethod({cand(i, e).method : i \in on(e)}),
                      sources |-> {pages[i].url : i \in on(e)},
                      order |-> (first(e) - 1) * PAGE_ORDER + cand(first(e), e).order]
<1>1. merge_pages(pages) = {rec(e) : e \in A}
  BY DEF merge_pages
<1>2. \A i \in DOMAIN pages : found[i] = {CandidateOn(pages[i], e) : e \in FoundOn(pages[i])}
  BY ExtractPageParts
<1>3. \A p, e : CandidateOn(p, e).email = e /\ CandidateOn(p, e).order = OrderOn(p, e)
  BY Zenon DEF CandidateOn
<1> HIDE DEF found
<1>4. \A i \in DOMAIN pages : {c.email : c \in found[i]} = FoundOn(pages[i])
  BY <1>2, <1>3
<1>5. A = Addresses(pages)
  BY <1>4 DEF Addresses
<1>6. \A e : on(e) = PagesWith(pages, e)
  BY <1>2, <1>3 DEF PagesWith
<1>7. \A e : first(e) = FirstPage(pages, e)
  BY <1>6, Zenon DEF FirstPage
<1>8. \A e \in A : FirstPage(pages, e) \in PagesWith(pages, e)
  BY <1>5, FirstPageHasIt, Zenon
<1>9. \A e : \A i \in PagesWith(pages, e) : cand(i, e) = CandidateOn(pages[i], e)
  BY <1>2, <1>3 DEF PagesWith
<1> HIDE DEF cand, on, first
<1>10. \A e \in A : /\ rec(e).email = e
                    /\ rec(e).sources = {pages[i].url : i \in PagesWith(pages, e)}
                    /\ rec(e).order = OrderIn(pages, e)
  <2> TAKE e \in A
  <2>1. rec(e).email = e /\ rec(e).sources = {pages[i].url : i \in on(e)}
    BY Zenon
  <2>2. rec(e).order = (first(e) - 1) * PAGE_ORDER + cand(first(e), e).order
    BY Zenon
  <2>3. cand(first(e), e).order = OrderOn(pages[FirstPage(pages, e)], e)
    BY <1>3, <1>7, <1>8, <1>9
  <2>4. QED
    BY <1>6, <1>7, <2>1, <2>2, <2>3, Zenon DEF OrderIn
<1> DEFINE g == [e \in A |-> rec(e)]
<1>11. DOMAIN g = A /\ merge_pages(pages) = {g[e] : e \in A} /\ \A e \in A : g[e] = rec(e)
  BY <1>1, Zenon
<1> HIDE DEF g, rec, A
<1>12. IsFiniteSet(merge_pages(pages))
  BY <1>5, <1>11, AddressesFinite, FiniteImage
<1>13. QED
  BY <1>5, <1>10, <1>11, <1>12

\* No two addresses have the same place in the order of appearance.
LEMMA OrderIsUnique ==
  ASSUME NEW pages \in Seq(PageRecord)
  PROVE  /\ \A e \in Addresses(pages) : OrderIn(pages, e) \in Nat
         /\ \A e, f \in Addresses(pages) : e # f => OrderIn(pages, e) # OrderIn(pages, f)
<1>1. \A i \in DOMAIN pages : pages[i] \in PageRecord /\ i \in Nat \ {0}
  OBVIOUS
<1>2. \A e \in Addresses(pages) :
         FirstPage(pages, e) \in DOMAIN pages /\ e \in FoundOn(pages[FirstPage(pages, e)])
  BY FirstPageHasIt DEF PagesWith
<1> DEFINE p == [e \in Addresses(pages) |-> FirstPage(pages, e)]
           q == [e \in Addresses(pages) |-> OrderOn(pages[FirstPage(pages, e)], e)]
<1>3. \A e \in Addresses(pages) :
         /\ p[e] \in Nat \ {0} /\ q[e] \in 1..(PAGE_ORDER - 1)
         /\ OrderIn(pages, e) = (p[e] - 1) * PAGE_ORDER + q[e]
  BY <1>1, <1>2, OrderOnPage DEF OrderIn
<1>4. ASSUME NEW e \in Addresses(pages), NEW f \in Addresses(pages), e # f, p[e] = p[f]
      PROVE  q[e] # q[f]
  BY <1>1, <1>2, <1>4, OrderOnPage, Zenon
<1> HIDE DEF p, q
<1>5. ASSUME NEW e \in Addresses(pages), NEW f \in Addresses(pages), e # f
      PROVE  OrderIn(pages, e) # OrderIn(pages, f)
  <2>1. p[e] = p[f] => q[e] # q[f]
    BY <1>4, <1>5, Zenon
  <2>2. QED
    BY <1>3, <2>1, PageBlocks
<1>6. \A e \in Addresses(pages) : OrderIn(pages, e) \in Nat
  BY <1>3, PageBlocks
<1>7. QED
  BY <1>5, <1>6

\* Page scores are numbers.
LEMMA ScoresAreNumbers ==
  ASSUME NEW pages \in Seq(PageRecord), NEW c \in merge_pages(pages)
  PROVE  best_page_score(pages, c) \in Nat
<1>1. /\ IsFiniteSet(DOMAIN pages) /\ DOMAIN pages \in SUBSET Nat
      /\ \A i \in DOMAIN pages : pages[i].score \in Nat
  <2>1. \A i \in DOMAIN pages : pages[i] \in PageRecord
    OBVIOUS
  <2>2. DOMAIN pages = 1..Len(pages) /\ Len(pages) \in Nat
    OBVIOUS
  <2>3. IsFiniteSet(DOMAIN pages) /\ DOMAIN pages \in SUBSET Nat
    BY <2>2, FS_Interval
  <2>4. \A p \in PageRecord : p.score \in Nat
    BY DEF PageRecord
  <2>5. QED
    BY <2>1, <2>3, <2>4
<1>2. ASSUME NEW u PROVE PageScore(pages, u) \in Nat
  <2> DEFINE at == {i \in DOMAIN pages : pages[i].url = u}
  <2>1. at \in SUBSET Nat /\ IsFiniteSet(at) /\ at \subseteq DOMAIN pages
    BY <1>1, FS_Subset, Zenon
  <2>2. PageScore(pages, u) = IF at = {} THEN 0
                              ELSE pages[CHOOSE i \in at : \A k \in at : k <= i].score
    BY Zenon DEF PageScore
  <2> HIDE DEF at
  <2>3. CASE at = {}
    BY <2>2, <2>3
  <2>4. CASE at # {}
    <3>1. \E i \in at : \A k \in at : k <= i
      BY <2>1, <2>4, GreatestNumber
    <3>2. (CHOOSE i \in at : \A k \in at : k <= i) \in DOMAIN pages
      BY <2>1, <3>1, Zenon
    <3>3. QED
      BY <1>1, <2>2, <2>4, <3>2
  <2>5. QED
    BY <2>3, <2>4, Zenon
<1> DEFINE W == PagesWith(pages, c.email)
           g == [i \in W |-> PageScore(pages, pages[i].url)]
           S == {g[i] : i \in W}
<1>3. c.sources = {pages[i].url : i \in W}
  BY MergedIsRight, Zenon
<1>4. {PageScore(pages, u) : u \in c.sources} = S
  BY <1>3
<1>5. IsFiniteSet(W) /\ DOMAIN g = W
  BY <1>1, FS_Subset DEF PagesWith
<1>6. S \in SUBSET Nat
  BY <1>2, Zenon
<1> HIDE DEF g, W
<1>7. IsFiniteSet(S)
  BY <1>5, FiniteImage
<1> DEFINE T == {PageScore(pages, u) : u \in c.sources}
<1>8. best_page_score(pages, c) = IF T = {} THEN 0 ELSE CHOOSE s \in T : \A t \in T : t <= s
  BY DEF best_page_score
<1>9. T \in SUBSET Nat /\ IsFiniteSet(T)
  BY <1>4, <1>6, <1>7, Zenon
<1> HIDE DEF S, T
<1>10. CASE T = {}
  BY <1>8, <1>10
<1>11. CASE T # {}
  <2>1. \E s \in T : \A t \in T : t <= s
    BY <1>9, <1>11, GreatestNumber
  <2>2. (CHOOSE s \in T : \A t \in T : t <= s) \in T
    BY <2>1, Zenon
  <2>3. QED
    BY <1>8, <1>9, <1>11, <2>2, Zenon
<1>12. QED
  BY <1>10, <1>11

\* KeyLess compares keys of four numbers as a dictionary does.
IsKey(a) == DOMAIN a = {1, 2, 3, 4} /\ a[1] \in Int /\ a[2] \in Int /\ a[3] \in Int /\ a[4] \in Int

\* The order of the ranking keys, component by component.
LEMMA KeyOrder ==
  ASSUME NEW a, NEW b, IsKey(a), IsKey(b)
  PROVE  KeyLess(a, b)
           <=> \/ a[1] < b[1]
               \/ a[1] = b[1] /\ a[2] < b[2]
               \/ a[1] = b[1] /\ a[2] = b[2] /\ a[3] < b[3]
               \/ a[1] = b[1] /\ a[2] = b[2] /\ a[3] = b[3] /\ a[4] < b[4]
<1> DEFINE L(i) == a[i] < b[i] /\ \A k \in 1..(i - 1) : a[k] = b[k]
<1>1. KeyLess(a, b) <=> \E i \in DOMAIN a : L(i)
  BY DEF KeyLess
<1>2. 1..(1 - 1) = {} /\ 1..(2 - 1) = {1} /\ 1..(3 - 1) = {1, 2} /\ 1..(4 - 1) = {1, 2, 3}
  OBVIOUS
<1>3. /\ L(1) <=> a[1] < b[1]
      /\ L(2) <=> a[1] = b[1] /\ a[2] < b[2]
      /\ L(3) <=> a[1] = b[1] /\ a[2] = b[2] /\ a[3] < b[3]
      /\ L(4) <=> a[1] = b[1] /\ a[2] = b[2] /\ a[3] = b[3] /\ a[4] < b[4]
  BY <1>2
<1> HIDE DEF L
<1>4. (\E i \in DOMAIN a : L(i)) <=> (L(1) \/ L(2) \/ L(3) \/ L(4))
  BY DEF IsKey
<1>5. QED
  BY <1>1, <1>3, <1>4

\* The candidates that are ranked, and the order of their keys.
KeptIn(pages) == {c \in merge_pages(pages) : ~should_drop(c.email)}
RankedBefore(pages) ==
  {p \in KeptIn(pages) \X KeptIn(pages) : KeyLess(RankKey(pages, p[1]), RankKey(pages, p[2]))}

\* The ranking leaves nothing open, and puts better classes first
\* (rank_candidates).
LEMMA RankIsAnOrder ==
  ASSUME NEW pages \in Seq(PageRecord)
  PROVE  /\ IsFiniteSet(KeptIn(pages))
         /\ Strict(KeptIn(pages), RankedBefore(pages))
         /\ Linear(KeptIn(pages), RankedBefore(pages))
         /\ \A c, d \in KeptIn(pages) :
              <<c, d>> \in RankedBefore(pages) => classify(c.email) <= classify(d.email)
<1> DEFINE K == KeptIn(pages)
           R == RankedBefore(pages)
           key == [c \in K |-> RankKey(pages, c)]
<1>1. K \subseteq merge_pages(pages) /\ IsFiniteSet(K)
  BY MergedIsRight, FS_Subset DEF KeptIn
<1>2. \A c \in K : IsKey(key[c]) /\ key[c][1] = classify(c.email) /\ key[c][4] = c.order
  <2> TAKE c \in K
  <2> DEFINE m == IF c.method \in {"mailto", "jsonld"} THEN 0 ELSE 1
             s == -best_page_score(pages, c)
             e == classify(c.email)
  <2>1. key[c] = <<e, m, s, c.order>>
    BY Zenon DEF RankKey
  <2>2. e \in Int /\ m \in Int
    BY DEF classify
  <2>3. best_page_score(pages, c) \in Nat
    BY <1>1, ScoresAreNumbers
  <2>4. s \in Int
    BY <2>3
  <2>5. c.order \in Int
    BY <1>1, MergedIsRight, OrderIsUnique
  <2> HIDE DEF m, s, e
  <2>6. QED
    BY <2>1, <2>2, <2>4, <2>5 DEF IsKey, e
<1>3. \A c, d \in K : key[c][4] = key[d][4] => c = d
  BY <1>1, <1>2, MergedIsRight, OrderIsUnique
<1>4. \A c, d \in K : <<c, d>> \in R <=> KeyLess(key[c], key[d])
  BY DEF RankedBefore
<1> HIDE DEF K, R, key
<1> DEFINE Less(c, d) ==
             \/ key[c][1] < key[d][1]
             \/ key[c][1] = key[d][1] /\ key[c][2] < key[d][2]
             \/ key[c][1] = key[d][1] /\ key[c][2] = key[d][2] /\ key[c][3] < key[d][3]
             \/ key[c][1] = key[d][1] /\ key[c][2] = key[d][2] /\ key[c][3] = key[d][3]
                /\ key[c][4] < key[d][4]
<1>5. \A c, d \in K : <<c, d>> \in R <=> Less(c, d)
  BY <1>2, <1>4, KeyOrder, Zenon
<1>6. \A c \in K : /\ key[c][1] \in Int /\ key[c][2] \in Int
                   /\ key[c][3] \in Int /\ key[c][4] \in Int
  BY <1>2 DEF IsKey
<1>7. Strict(K, R)
  <2>1. \A c \in K : ~Less(c, c)
    BY <1>6
  <2>2. ASSUME NEW a \in K, NEW b \in K, NEW c \in K, Less(a, b), Less(b, c)
        PROVE  Less(a, c)
    <3>1. /\ key[a][1] \in Int /\ key[a][2] \in Int /\ key[a][3] \in Int /\ key[a][4] \in Int
          /\ key[b][1] \in Int /\ key[b][2] \in Int /\ key[b][3] \in Int /\ key[b][4] \in Int
          /\ key[c][1] \in Int /\ key[c][2] \in Int /\ key[c][3] \in Int /\ key[c][4] \in Int
      BY <1>6, Zenon
    <3>2. CASE (key[a][1] # key[b][1] \/ key[b][1] # key[c][1])
      BY ONLY <2>2, <3>1, <3>2, SMTT(30)
    <3>3. CASE key[a][1] = key[b][1] /\ key[b][1] = key[c][1] /\ (key[a][2] # key[b][2] \/ key[b][2] # key[c][2])
      BY ONLY <2>2, <3>1, <3>3, SMTT(30)
    <3>4. CASE /\ key[a][1] = key[b][1] /\ key[b][1] = key[c][1]
               /\ key[a][2] = key[b][2] /\ key[b][2] = key[c][2] /\ (key[a][3] # key[b][3] \/ key[b][3] # key[c][3])
      BY ONLY <2>2, <3>1, <3>4, SMTT(30)
    <3>5. CASE /\ key[a][1] = key[b][1] /\ key[b][1] = key[c][1]
               /\ key[a][2] = key[b][2] /\ key[b][2] = key[c][2]
               /\ key[a][3] = key[b][3] /\ key[b][3] = key[c][3]
      BY ONLY <2>2, <3>1, <3>5
    <3>6. QED
      BY ONLY <3>2, <3>3, <3>4, <3>5, Zenon
  <2> HIDE DEF Less
  <2>3. QED
    BY <1>5, <2>1, <2>2, Zenon DEF Strict
<1>8. Linear(K, R)
  <2>1. ASSUME NEW a \in K, NEW b \in K, a # b PROVE Less(a, b) \/ Less(b, a)
    <3>1. key[a][4] # key[b][4]
      BY <1>3, <2>1, Zenon
    <3>2. QED
      BY ONLY <1>6, <3>1, a \in K, b \in K
  <2> HIDE DEF Less
  <2>2. QED
    BY <1>5, <2>1, Zenon DEF Linear
<1>9. \A c, d \in K : <<c, d>> \in R => classify(c.email) <= classify(d.email)
  BY <1>2, <1>5, <1>6
<1>10. QED
  BY <1>1, <1>7, <1>8, <1>9, Zenon DEF K, R

\* Ranking gives a sequence of kept candidates, empty only when there is none, and
\* none is of a better rank than the first.
LEMMA RankedIsRight ==
  ASSUME NEW pages \in Seq(PageRecord), MAX_CANDIDATES \in Nat \ {0}
  PROVE  LET r == rank_candidates(pages) IN
           /\ r \in Seq(KeptIn(pages))
           /\ \A c \in KeptIn(pages) : Len(r) >= 1 /\ classify(r[1].email) <= classify(c.email)
<1> DEFINE K == KeptIn(pages)
           R == RankedBefore(pages)
           n == Cardinality(K)
           sorted == Sorted(K, R)
           cut == IF n > MAX_CANDIDATES THEN MAX_CANDIDATES ELSE n
           r == rank_candidates(pages)
<1>1. /\ IsFiniteSet(K) /\ Strict(K, R) /\ Linear(K, R)
      /\ \A c, d \in K : <<c, d>> \in R => classify(c.email) <= classify(d.email)
  BY RankIsAnOrder, Zenon
<1>2. r = Take(sorted, MAX_CANDIDATES)
  <2> DEFINE key == [c \in K |-> RankKey(pages, c)]
  <2>1. R = {p \in K \X K : KeyLess(key[p[1]], key[p[2]])}
    BY Zenon DEF RankedBefore
  <2>2. QED
    BY <2>1, Zenon DEF rank_candidates, KeptIn
<1> HIDE DEF K, R
<1>3. /\ n \in Nat
      /\ sorted \in [1..n -> K]
      /\ \A c \in K : \E k \in 1..n : sorted[k] = c
      /\ \A j, k \in 1..n : j < k => <<sorted[j], sorted[k]>> \in R
  BY <1>1, SortedIsRight, Zenon
<1> HIDE DEF n, sorted
<1>4. sorted \in Seq(K) /\ Len(sorted) = n
  BY <1>3, FunctionIsSequence, Zenon
<1>6. cut \in Nat /\ cut <= n /\ (n >= 1 => cut >= 1)
  BY <1>3
<1>7. r = [k \in 1..cut |-> sorted[k]]
  BY <1>2, <1>4, TakeByPosition
<1> HIDE DEF cut, r
<1>8. r \in [1..cut -> K]
  BY <1>3, <1>6, <1>7
<1>9. r \in Seq(K) /\ Len(r) = cut
  BY <1>6, <1>8, FunctionIsSequence
<1>10. ASSUME NEW c \in K PROVE Len(r) >= 1 /\ classify(r[1].email) <= classify(c.email)
  <2>1. PICK k \in 1..n : sorted[k] = c
    BY <1>3
  <2>2. n >= 1 /\ cut >= 1
    BY <1>3, <1>6
  <2>3. r[1] = sorted[1]
    BY <1>6, <1>7, <2>2
  <2>4. classify(c.email) \in Int
    BY DEF classify
  <2>5. CASE k = 1
    BY <1>9, <2>1, <2>2, <2>3, <2>4, <2>5
  <2>6. CASE k # 1
    <3>1. 1 < k /\ 1 \in 1..n
      BY <1>3, <2>2, <2>6
    <3>2. <<r[1], c>> \in R /\ r[1] \in K
      BY <1>3, <2>1, <2>3, <3>1
    <3>3. QED
      BY <1>1, <1>9, <2>2, <3>2
  <2>7. QED
    BY <2>5, <2>6
<1>11. QED
  BY <1>9, <1>10, Zenon DEF K, r

==============================================================================
