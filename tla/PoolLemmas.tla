----------------------------- MODULE PoolLemmas -----------------------------
(***************************************************************************)
(* What the proofs about the pools need of counting, and of sequences used *)
(* as stacks of distinct elements.                                         *)
(***************************************************************************)
EXTENDS Integers, SequencesExt, FiniteSetTheorems, SequenceTheorems, TLAPS

\* 1 for a point of S, 0 for another.
In(p, S) == IF p \in S THEN 1 ELSE 0

\* How many of the T are at a program point in S.
CountAt(T, f, S) == Cardinality({u \in T : f[u] \in S})

\* A finite set's part that satisfies a condition can be counted.
LEMMA CountIsFinite ==
  ASSUME NEW T, IsFiniteSet(T), NEW f, NEW S
  PROVE  IsFiniteSet({u \in T : f[u] \in S})
BY FS_Subset

LEMMA CountIsNat ==
  ASSUME NEW T, IsFiniteSet(T), NEW f, NEW S
  PROVE  CountAt(T, f, S) \in Nat
BY CountIsFinite, FS_CardinalityType DEF CountAt

\* A larger set of points counts at least as many.
LEMMA CountMonotone ==
  ASSUME NEW T, IsFiniteSet(T), NEW f, NEW S, NEW R, S \subseteq R
  PROVE  CountAt(T, f, S) <= CountAt(T, f, R)
<1>1. {u \in T : f[u] \in S} \in SUBSET {u \in T : f[u] \in R}
  OBVIOUS
<1> QED
  BY <1>1, CountIsFinite, FS_Subset DEF CountAt

\* Somebody at a point of S: the count is positive.
LEMMA CountPositive ==
  ASSUME NEW T, IsFiniteSet(T), NEW f, NEW S, NEW t \in T, f[t] \in S
  PROVE  CountAt(T, f, S) >= 1
<1>1. {u \in T : f[u] \in S} # {}
  OBVIOUS
<1> QED
  BY <1>1, CountIsFinite, CountIsNat, FS_EmptySet DEF CountAt

\* One thread moves: the count changes by what it leaves and what it enters.
LEMMA CountMove ==
  ASSUME NEW T, IsFiniteSet(T), NEW f, NEW g, NEW S, NEW t \in T,
         \A u \in T \ {t} : g[u] = f[u]
  PROVE  CountAt(T, g, S) = CountAt(T, f, S) + In(g[t], S) - In(f[t], S)
<1> DEFINE A == {u \in T : f[u] \in S}
           B == {u \in T : g[u] \in S}
<1>1. IsFiniteSet(A) /\ Cardinality(A) \in Nat
  <2>1. IsFiniteSet(A)
    BY CountIsFinite
  <2> QED
    BY <2>1, FS_CardinalityType
<1>2. CASE g[t] \in S
  <2>1. B = A \cup {t}
    BY <1>2
  <2> HIDE DEF A, B
  <2>2. Cardinality(B) = IF t \in A THEN Cardinality(A) ELSE Cardinality(A) + 1
    BY <2>1, <1>1, FS_AddElement
  <2> QED
    BY <1>1, <1>2, <2>2 DEF A, B, CountAt, In
<1>3. CASE g[t] \notin S
  <2>1. B = A \ {t}
    BY <1>3
  <2> HIDE DEF A, B
  <2>2. Cardinality(B) = IF t \in A THEN Cardinality(A) - 1 ELSE Cardinality(A)
    BY <2>1, <1>1, FS_RemoveElement
  <2> QED
    BY <1>1, <1>3, <2>2 DEF A, B, CountAt, In
<1> QED
  BY <1>2, <1>3

\* Appending an element to a sequence.
LEMMA PushFacts ==
  ASSUME NEW R, NEW q \in Seq(R), NEW r \in R
  PROVE  LET s == Append(q, r) IN
         /\ s \in Seq(R)
         /\ Len(s) = Len(q) + 1
         /\ Range(s) = Range(q) \cup {r}
         /\ IsInjective(q) /\ r \notin Range(q) => IsInjective(s)
<1> DEFINE s == Append(q, r)
<1>1. /\ s \in Seq(R) /\ Len(s) = Len(q) + 1
      /\ \A i \in 1..Len(q) : s[i] = q[i]
      /\ s[Len(q) + 1] = r
  BY AppendProperties
<1>2. /\ Len(q) \in Nat /\ DOMAIN q = 1..Len(q)
      /\ DOMAIN s = 1..(Len(q) + 1)
  BY <1>1, LenProperties
<1> HIDE DEF s
<1>3. Range(s) = Range(q) \cup {r}
  BY <1>1, <1>2 DEF Range
<1>4. IsInjective(q) /\ r \notin Range(q) => IsInjective(s)
  BY <1>1, <1>2 DEF Range, IsInjective
<1> QED
  BY <1>1, <1>3, <1>4 DEF s

\* Taking the last element off a sequence.
LEMMA PopFacts ==
  ASSUME NEW R, NEW q \in Seq(R), q # <<>>
  PROVE  /\ Front(q) \in Seq(R)
         /\ Len(Front(q)) = Len(q) - 1
         /\ Last(q) \in R \cap Range(q)
         /\ Range(Front(q)) \subseteq Range(q)
         /\ IsInjective(q) =>
              IsInjective(Front(q)) /\ Last(q) \notin Range(Front(q))
<1> DEFINE s == Front(q)
<1>1. /\ Len(q) \in Nat \ {0} /\ DOMAIN q = 1..Len(q)
      /\ \A i \in 1..Len(q) : q[i] \in R
  BY LenProperties, EmptySeq
<1>2. /\ s \in Seq(R) /\ Len(s) = Len(q) - 1
      /\ \A i \in 1..(Len(q) - 1) : s[i] = q[i]
  BY <1>1, SubSeqProperties DEF Front
<1>3. DOMAIN s = 1..(Len(q) - 1)
  BY <1>1, <1>2, LenProperties
<1> HIDE DEF s
<1>4. Last(q) \in R \cap Range(q)
  BY <1>1 DEF Last, Range
<1>5. Range(s) \subseteq Range(q)
  BY <1>1, <1>2, <1>3 DEF Range
<1>6. ASSUME IsInjective(q)
      PROVE  IsInjective(s) /\ Last(q) \notin Range(s)
  BY <1>1, <1>2, <1>3, <1>6 DEF Range, Last, IsInjective
<1> QED
  BY <1>2, <1>4, <1>5, <1>6 DEF s

\* Taking the first element off a sequence.
LEMMA TakeFacts ==
  ASSUME NEW R, NEW q \in Seq(R), q # <<>>
  PROVE  /\ Tail(q) \in Seq(R)
         /\ Len(Tail(q)) = Len(q) - 1
         /\ Head(q) \in R
         /\ Range(q) = Range(Tail(q)) \cup {Head(q)}
         /\ IsInjective(q) =>
              IsInjective(Tail(q)) /\ Head(q) \notin Range(Tail(q))
<1> DEFINE s == Tail(q)
<1>1. /\ Len(q) \in Nat \ {0} /\ DOMAIN q = 1..Len(q)
      /\ \A i \in 1..Len(q) : q[i] \in R
  BY LenProperties, EmptySeq
<1>2. /\ s \in Seq(R) /\ Len(s) = Len(q) - 1
      /\ \A i \in 1..(Len(q) - 1) : s[i] = q[i + 1]
  BY HeadTailProperties
<1>3. Head(q) = q[1]
  BY HeadTailProperties
<1>4. DOMAIN s = 1..(Len(q) - 1)
  BY <1>1, <1>2, LenProperties
<1> HIDE DEF s
<1>5. Range(s) \cup {q[1]} \subseteq Range(q)
  BY <1>1, <1>2, <1>4 DEF Range
<1>6. ASSUME NEW i \in 1..Len(q), q[i] # q[1]
      PROVE  q[i] \in Range(s)
  <2>1. i - 1 \in 1..(Len(q) - 1) /\ s[i - 1] = q[i]
    BY <1>1, <1>2, <1>6
  <2> QED
    BY <1>4, <2>1 DEF Range
<1>7. Range(q) \subseteq Range(s) \cup {q[1]}
  BY <1>1, <1>6 DEF Range
<1>8. ASSUME IsInjective(q)
      PROVE  IsInjective(s) /\ q[1] \notin Range(s)
  <2>1. \A k, m \in 1..Len(q) : q[k] = q[m] => k = m
    BY <1>1, <1>8 DEF IsInjective
  <2>2. \A k \in 1..(Len(q) - 1) : k + 1 \in (1..Len(q)) \ {1}
    BY <1>1
  <2>3. IsInjective(s)
    BY <1>1, <1>2, <1>4, <2>1, <2>2 DEF IsInjective
  <2>4. q[1] \notin Range(s)
    BY <1>1, <1>2, <1>4, <2>1, <2>2 DEF Range
  <2> QED
    BY <2>3, <2>4
<1> QED
  BY <1>1, <1>2, <1>3, <1>5, <1>7, <1>8 DEF s

\* Removing one element of a sequence of distinct elements.
LEMMA RemoveFacts ==
  ASSUME NEW R, NEW q \in Seq(R), IsInjective(q), NEW i \in DOMAIN q
  PROVE  LET s == RemoveAt(q, i) IN
         s \in Seq(R) /\ IsInjective(s) /\ Range(s) = Range(q) \ {q[i]}
<1> DEFINE n == Len(q)
           a == SubSeq(q, 1, i - 1)
           b == SubSeq(q, i + 1, n)
           s == RemoveAt(q, i)
<1>1. n \in Nat /\ DOMAIN q = 1..n /\ i \in 1..n /\ \A j \in 1..n : q[j] \in R
  BY LenProperties
<1> HIDE DEF n
<1>2. /\ a \in Seq(R) /\ Len(a) = i - 1 /\ \A j \in 1..(i - 1) : a[j] = q[j]
  BY <1>1, SubSeqProperties
<1>3. /\ b \in Seq(R) /\ Len(b) = n - i
      /\ \A j \in 1..(n - i) : b[j] = q[i + j]
  <2>1. /\ b \in Seq(R) /\ Len(b) = IF i + 1 <= n THEN n - (i + 1) + 1 ELSE 0
        /\ \A j \in 1..(n - (i + 1) + 1) : b[j] = q[(i + 1) + j - 1]
    BY <1>1, SubSeqProperties
  <2>2. \A j \in 1..(n - i) : (i + 1) + j - 1 = i + j
    BY <1>1
  <2> QED
    BY <1>1, <2>1, <2>2
<1>4. s = a \o b
  BY DEF RemoveAt, n
<1> HIDE DEF a, b, s
<1>5. /\ s \in Seq(R) /\ Len(s) = n - 1
      /\ \A j \in 1..(n - 1) : s[j] = IF j < i THEN q[j] ELSE q[j + 1]
  <2>1. /\ s \in Seq(R) /\ Len(s) = (i - 1) + (n - i)
        /\ \A j \in 1..((i - 1) + (n - i)) :
             s[j] = IF j <= i - 1 THEN a[j] ELSE b[j - (i - 1)]
    BY <1>2, <1>3, <1>4, ConcatProperties
  <2>2. ASSUME NEW j \in 1..(n - 1)
        PROVE  s[j] = IF j < i THEN q[j] ELSE q[j + 1]
    <3>1. CASE j < i
      BY <1>1, <1>2, <2>1, <3>1
    <3>2. CASE ~(j < i)
      <4>1. PICK k \in 1..(n - i) : k = j - (i - 1) /\ i + k = j + 1
        BY <1>1, <3>2
      <4>2. s[j] = b[k]
        BY <1>1, <2>1, <3>2, <4>1
      <4> QED
        BY <1>3, <3>2, <4>1, <4>2
    <3> QED
      BY <3>1, <3>2
  <2> QED
    BY <1>1, <2>1, <2>2
<1>6. DOMAIN s = 1..(n - 1)
  BY <1>1, <1>5, LenProperties
<1>7. \A j \in 1..(n - 1) : \E k \in (1..n) \ {i} :
          s[j] = q[k] /\ k = IF j < i THEN j ELSE j + 1
  BY <1>1, <1>5
<1>8. \A k, m \in 1..n : q[k] = q[m] => k = m
  BY <1>1 DEF IsInjective
<1>9. IsInjective(s)
  <2> SUFFICES ASSUME NEW j \in 1..(n - 1), NEW l \in 1..(n - 1), s[j] = s[l]
               PROVE  j = l
    BY <1>6 DEF IsInjective
  <2>1. PICK k \in (1..n) \ {i} :
          s[j] = q[k] /\ k = IF j < i THEN j ELSE j + 1
    BY <1>7
  <2>2. PICK m \in (1..n) \ {i} :
          s[l] = q[m] /\ m = IF l < i THEN l ELSE l + 1
    BY <1>7
  <2>3. k = m
    BY <1>8, <2>1, <2>2
  <2> QED
    BY <1>1, <2>1, <2>2, <2>3
<1>10. Range(s) \subseteq Range(q) \ {q[i]}
  <2> SUFFICES ASSUME NEW j \in 1..(n - 1) PROVE s[j] \in Range(q) \ {q[i]}
    BY <1>6 DEF Range
  <2>1. PICK k \in (1..n) \ {i} : s[j] = q[k]
    BY <1>7
  <2> QED
    BY <1>1, <1>8, <2>1 DEF Range
<1>11. ASSUME NEW j \in 1..n, q[j] # q[i]
      PROVE  q[j] \in Range(s)
  <2>1. CASE j < i
    <3>1. j \in 1..(n - 1) /\ s[j] = q[j]
      BY <1>1, <1>5, <2>1
    <3> QED
      BY <1>6, <3>1 DEF Range
  <2>2. CASE ~(j < i)
    <3>1. j - 1 \in 1..(n - 1) /\ s[j - 1] = q[j]
      BY <1>1, <1>5, <1>11, <2>2
    <3> QED
      BY <1>6, <3>1 DEF Range
  <2> QED
    BY <2>1, <2>2
<1>12. Range(q) \ {q[i]} \subseteq Range(s)
  BY <1>1, <1>11 DEF Range
<1> QED
  BY <1>5, <1>9, <1>10, <1>12 DEF s

\* Nothing is in the empty queue.
LEMMA EmptyQueue == Range(<<>>) = {} /\ IsInjective(<<>>)
BY EmptySeq DEF Range, IsInjective
=============================================================================
