----------------------------- MODULE DataFacts -----------------------------
(***************************************************************************)
(* Facts about sequences, finite sets and remainders that the proofs       *)
(* share.  First, what Append, Tail and RemoveAt do to the elements of a   *)
(* sequence, that is, of a queue of threads or of messages.                *)
(***************************************************************************)
EXTENDS SequencesExt, SequenceTheorems, FiniteSetTheorems, WellFoundedInduction, TLAPS

\* An item added at the tail of a queue.
LEMMA AppendFacts ==
  ASSUME NEW S, NEW q \in Seq(S), NEW t \in S
  PROVE  /\ Append(q, t) \in Seq(S)
         /\ Append(q, t) # <<>>
         /\ Len(Append(q, t)) = Len(q) + 1
         /\ Range(Append(q, t)) = Range(q) \cup {t}
         /\ IsInjective(q) /\ t \notin Range(q) => IsInjective(Append(q, t))
         /\ \A i \in 1..Len(q) : Append(q, t)[i] = q[i]
<1>1. /\ Append(q, t) \in Seq(S)
      /\ Append(q, t) # <<>>
      /\ Len(Append(q, t)) = Len(q) + 1
      /\ \A i \in 1..Len(q) : Append(q, t)[i] = q[i]
      /\ Append(q, t)[Len(q) + 1] = t
  BY AppendProperties
<1>2. DOMAIN q = 1..Len(q) /\ Len(q) \in Nat
  BY LenProperties
<1>3. DOMAIN Append(q, t) = 1..(Len(q) + 1)
  BY <1>1, LenProperties
<1>4. Range(Append(q, t)) = Range(q) \cup {t}
  <2>1. ASSUME NEW x \in Range(Append(q, t)) PROVE x \in Range(q) \cup {t}
    BY <1>1, <1>2, <1>3 DEF Range
  <2>2. ASSUME NEW x \in Range(q) PROVE x \in Range(Append(q, t))
    BY <1>1, <1>2, <1>3 DEF Range
  <2>3. t \in Range(Append(q, t))
    BY <1>1, <1>2, <1>3 DEF Range
  <2> QED BY <2>1, <2>2, <2>3
<1>5. ASSUME IsInjective(q), t \notin Range(q) PROVE IsInjective(Append(q, t))
  BY <1>1, <1>2, <1>3, <1>5 DEF IsInjective, Range
<1> QED BY <1>1, <1>4, <1>5

\* An item taken from the head of a queue.
LEMMA TailFacts ==
  ASSUME NEW S, NEW q \in Seq(S), q # <<>>
  PROVE  /\ Head(q) \in S
         /\ Head(q) \in Range(q)
         /\ Tail(q) \in Seq(S)
         /\ Len(Tail(q)) = Len(q) - 1
         /\ Range(q) = Range(Tail(q)) \cup {Head(q)}
         /\ IsInjective(q) => /\ IsInjective(Tail(q))
                              /\ Head(q) \notin Range(Tail(q))
<1>2. /\ Head(q) \in S
      /\ Tail(q) \in Seq(S)
      /\ Len(Tail(q)) = Len(q) - 1
      /\ \A i \in 1..Len(Tail(q)) : Tail(q)[i] = q[i + 1]
  BY HeadTailProperties
<1>3. /\ Len(q) \in Nat \ {0}
      /\ DOMAIN q = 1..Len(q)
      /\ DOMAIN Tail(q) = 1..Len(Tail(q))
      /\ Head(q) = q[1]
  BY <1>2, LenProperties, EmptySeq
<1>4. Range(q) = Range(Tail(q)) \cup {Head(q)}
  <2>1. ASSUME NEW x \in Range(q) PROVE x \in Range(Tail(q)) \cup {Head(q)}
    <3>1. PICK i \in 1..Len(q) : x = q[i]
      BY <1>3 DEF Range
    <3>2. CASE i = 1
      BY <1>3, <3>1, <3>2
    <3>3. CASE i # 1
      <4>1. i - 1 \in 1..Len(Tail(q)) /\ Tail(q)[i - 1] = q[i]
        BY <1>2, <1>3, <3>1, <3>3
      <4> QED BY <1>3, <3>1, <4>1 DEF Range
    <3> QED BY <3>2, <3>3
  <2>2. ASSUME NEW x \in Range(Tail(q)) PROVE x \in Range(q)
    BY <1>2, <1>3 DEF Range
  <2>3. Head(q) \in Range(q)
    BY <1>3 DEF Range
  <2> QED BY <2>1, <2>2, <2>3
<1>5. ASSUME IsInjective(q)
      PROVE  IsInjective(Tail(q)) /\ Head(q) \notin Range(Tail(q))
  <2>1. ASSUME NEW i \in 1..Len(Tail(q)), NEW j \in 1..Len(Tail(q)),
               Tail(q)[i] = Tail(q)[j]
        PROVE  i = j
    BY <1>2, <1>3, <1>5, <2>1 DEF IsInjective
  <2>2. ASSUME NEW i \in 1..Len(Tail(q)) PROVE Tail(q)[i] # Head(q)
    BY <1>2, <1>3, <1>5 DEF IsInjective
  <2> QED BY <1>3, <2>1, <2>2 DEF IsInjective, Range
<1> QED BY <1>2, <1>3, <1>4, <1>5 DEF Range

\* An item taken from anywhere in a queue.
LEMMA RemoveAtFacts ==
  ASSUME NEW S, NEW q \in Seq(S), NEW i \in 1..Len(q), IsInjective(q)
  PROVE  /\ RemoveAt(q, i) \in Seq(S)
         /\ IsInjective(RemoveAt(q, i))
         /\ Range(RemoveAt(q, i)) = Range(q) \ {q[i]}
<1> DEFINE front == SubSeq(q, 1, i - 1)
           back == SubSeq(q, i + 1, Len(q))
           r == RemoveAt(q, i)
<1>1. Len(q) \in Nat /\ DOMAIN q = 1..Len(q)
  BY LenProperties
<1>2. /\ front \in Seq(S) /\ Len(front) = i - 1
      /\ \A j \in 1..(i - 1) : front[j] = q[j]
  BY <1>1, SubSeqProperties
<1>3. /\ back \in Seq(S) /\ Len(back) = Len(q) - i
      /\ \A j \in 1..(Len(q) - i) : back[j] = q[i + j]
  <2>1. /\ i + 1 \in Int /\ Len(q) \in Int
        /\ \A k \in (i + 1)..Len(q) : q[k] \in S
    BY <1>1, ElementOfSeq
  <2>2. /\ back \in Seq(S)
        /\ Len(back) = IF i + 1 <= Len(q) THEN Len(q) - (i + 1) + 1 ELSE 0
        /\ \A j \in 1..(Len(q) - (i + 1) + 1) : back[j] = q[i + 1 + j - 1]
    BY <2>1, SubSeqProperties
  <2> HIDE DEF back
  <2>3. Len(back) = Len(q) - i
    <3>1. Len(back) = IF i + 1 <= Len(q) THEN Len(q) - (i + 1) + 1 ELSE 0
      BY <2>2
    <3>2. i \in Nat /\ i <= Len(q) /\ Len(q) \in Nat
      BY <1>1
    <3>3. CASE i = Len(q)
      BY <3>1, <3>2, <3>3
    <3>4. CASE i < Len(q)
      BY <3>1, <3>2, <3>4
    <3> QED BY <3>2, <3>3, <3>4
  <2>4. ASSUME NEW j \in 1..(Len(q) - i)
        PROVE  back[j] = q[i + j]
    <3>1. j \in 1..(Len(q) - (i + 1) + 1) /\ i + 1 + j - 1 = i + j
      BY <1>1
    <3>2. back[j] = q[i + 1 + j - 1]
      BY <2>2, <3>1
    <3> QED BY <3>1, <3>2
  <2> QED BY <2>2, <2>3, <2>4
<1>4. r = front \o back
  BY DEF RemoveAt
<1> HIDE DEF front, back, r
<1>5. /\ r \in Seq(S) /\ Len(r) = Len(q) - 1
      /\ \A j \in 1..Len(r) : r[j] = IF j < i THEN q[j] ELSE q[j + 1]
  <2>1. /\ front \o back \in Seq(S)
        /\ Len(front \o back) = Len(front) + Len(back)
        /\ \A j \in 1..(Len(front) + Len(back)) :
             (front \o back)[j] = IF j <= Len(front) THEN front[j] ELSE back[j - Len(front)]
    BY <1>2, <1>3, ConcatProperties
  <2>2. Len(r) = Len(q) - 1
    BY <1>1, <1>2, <1>3, <1>4, <2>1
  <2>3. ASSUME NEW j \in 1..Len(r)
        PROVE  r[j] = IF j < i THEN q[j] ELSE q[j + 1]
    <3>1. CASE j < i
      BY <1>1, <1>2, <1>3, <1>4, <2>1, <2>2, <3>1
    <3>2. CASE j >= i
      <4>1. r[j] = back[j - (i - 1)] /\ j - (i - 1) \in 1..(Len(q) - i)
        BY <1>1, <1>2, <1>3, <1>4, <2>1, <2>2, <3>2
      <4> QED BY <1>1, <1>3, <3>2, <4>1
    <3> QED BY <1>1, <3>1, <3>2
  <2> QED BY <1>4, <2>1, <2>2, <2>3
<1>6. DOMAIN r = 1..(Len(q) - 1)
  BY <1>5, LenProperties
<1>7. IsInjective(r)
  <2> SUFFICES ASSUME NEW j \in 1..(Len(q) - 1), NEW k \in 1..(Len(q) - 1), r[j] = r[k]
               PROVE  j = k
    BY <1>6 DEF IsInjective
  <2> DEFINE at(n) == IF n < i THEN n ELSE n + 1
  <2>1. /\ at(j) \in 1..Len(q) /\ r[j] = q[at(j)]
        /\ at(k) \in 1..Len(q) /\ r[k] = q[at(k)]
    BY <1>1, <1>5
  <2>2. at(j) = at(k)
    BY <1>1, <2>1 DEF IsInjective
  <2> QED BY <1>1, <2>2
<1>8. ASSUME NEW x \in Range(r) PROVE x \in Range(q) \ {q[i]}
  BY <1>1, <1>5, <1>6 DEF IsInjective, Range
<1>9. ASSUME NEW x \in Range(q) \ {q[i]} PROVE x \in Range(r)
  <2>1. PICK k \in 1..Len(q) : x = q[k] /\ k # i
    BY <1>1 DEF Range
  <2>2. CASE k < i
    BY <1>1, <1>5, <1>6, <2>1, <2>2 DEF Range
  <2>3. CASE k > i
    <3>1. k - 1 \in 1..(Len(q) - 1) /\ r[k - 1] = x
      BY <1>1, <1>5, <2>1, <2>3
    <3> QED BY <1>6, <3>1 DEF Range
  <2> QED BY <1>1, <2>1, <2>2, <2>3
<1> QED BY <1>5, <1>7, <1>8, <1>9 DEF r

\* A queue in which nothing is twice is as long as the set of its elements.
LEMMA InjectiveLength ==
  ASSUME NEW S, NEW q \in Seq(S), IsInjective(q)
  PROVE  IsFiniteSet(Range(q)) /\ Cardinality(Range(q)) = Len(q)
<1>1. Len(q) \in Nat /\ DOMAIN q = 1..Len(q) /\ q \in [1..Len(q) -> S]
  BY LenProperties
<1>2. q \in [1..Len(q) -> Range(q)]
  BY <1>1 DEF Range
<1>3. q \in Bijection(1..Len(q), Range(q))
  BY <1>1, <1>2 DEF Bijection, Injection, Surjection, IsInjective, Range
<1>4. ExistsBijection(1..Len(q), Range(q))
  BY <1>3 DEF ExistsBijection
<1>5. IsFiniteSet(1..Len(q))
  BY <1>1, FS_Interval
<1> QED BY <1>1, <1>4, <1>5, FS_Bijection, FS_CountingElements

-----------------------------------------------------------------------------
(***************************************************************************)
(* How the size of a set changes when one element comes or goes, and the   *)
(* remainder of a sum of two indices of a ring.                            *)
(***************************************************************************)
LEMMA OneMoves ==
  ASSUME NEW A, NEW B, NEW c, IsFiniteSet(A), A \ {c} = B \ {c}
  PROVE  /\ IsFiniteSet(B)
         /\ Cardinality(A) \in Nat /\ Cardinality(B) \in Nat
         /\ c \in A /\ c \notin B => Cardinality(B) = Cardinality(A) - 1
         /\ c \notin A /\ c \in B => Cardinality(B) = Cardinality(A) + 1
         /\ (c \in A <=> c \in B) => Cardinality(B) = Cardinality(A)
<1>1. CASE c \in A /\ c \notin B
  <2>1. B = A \ {c}
    BY <1>1
  <2> QED BY <1>1, <2>1, FS_RemoveElement, FS_CardinalityType
<1>2. CASE c \notin A /\ c \in B
  <2>1. B = A \cup {c}
    BY <1>2
  <2> QED BY <1>2, <2>1, FS_AddElement, FS_CardinalityType
<1>3. CASE c \in A <=> c \in B
  <2>1. B = A
    BY <1>3
  <2> QED BY <1>3, <2>1, FS_CardinalityType
<1> QED BY <1>1, <1>2, <1>3

LEMMA RingIndex ==
  ASSUME NEW n \in Nat \ {0}, NEW x \in 0..(2 * n - 1)
  PROVE  x % n = IF x < n THEN x ELSE x - n
<1>1. ASSUME NEW y \in 0..(n - 1) PROVE y % n = y /\ (y + n) % n = y
  OBVIOUS
<1>2. CASE x < n
  BY <1>1, <1>2
<1>3. CASE x >= n
  <2>1. x - n \in 0..(n - 1) /\ (x - n) + n = x
    BY <1>3
  <2> QED BY <1>1, <1>3, <2>1
<1> QED BY <1>2, <1>3

\* A sum of three when a unit moves between its terms, comes in or goes out.
LEMMA SumSteps ==
  ASSUME NEW r \in Int, NEW c \in Int, NEW k \in Int, NEW t \in Int, r = c + k + t
  PROVE  /\ r = (c - 1) + (k + 1) + t
         /\ r + 1 = c + k + (t + 1)
         /\ r - 1 = c + (k - 1) + t
         /\ r = (c + 1) + k + (t - 1)
OBVIOUS
-----------------------------------------------------------------------------
(***************************************************************************)
(* A ring b of n slots holds the sequence c from slot o up to slot i: what *)
(* is written to slot i is then its last element, and slot o is its first. *)
(***************************************************************************)
InRing(c, b, o, i, n) == /\ Len(c) <= n
                         /\ i = (o + Len(c)) % n
                         /\ \A j \in 1..Len(c) : c[j] = b[(o + j - 1) % n]

LEMMA RingAppend ==
  ASSUME NEW n \in Nat \ {0}, NEW S, NEW T, NEW c \in Seq(S), NEW b \in [0..(n - 1) -> T],
         NEW o \in 0..(n - 1), NEW i, InRing(c, b, o, i, n), Len(c) < n, NEW m \in S
  PROVE  InRing(Append(c, m), [b EXCEPT ![i] = m], o, (i + 1) % n, n)
<1> DEFINE l == Len(c)
           b1 == [b EXCEPT ![i] = m]
           c1 == Append(c, m)
<1>1. l \in Nat /\ Len(c1) = l + 1 /\ c1[l + 1] = m /\ \A j \in 1..l : c1[j] = c[j]
  BY AppendProperties, LenProperties
<1>2. i = (o + l) % n /\ l < n /\ \A j \in 1..l : c[j] = b[(o + j - 1) % n]
  BY DEF InRing
<1> HIDE DEF l, c1
<1> DEFINE InOne(x) == IF x < n THEN x ELSE x - n
<1>3. l \in Nat /\ l < n /\ o \in Nat /\ o < n /\ n \in Nat
  BY <1>1, <1>2
<1>4. \A x \in 0..(2 * n - 1) : x % n = InOne(x)
  BY RingIndex
<1>5. i = InOne(o + l) /\ i \in 0..(n - 1)
  <2>1. o + l \in 0..(2 * n - 1)
    BY <1>3
  <2>2. (o + l) % n = InOne(o + l)
    BY <1>4, <2>1
  <2>3. InOne(o + l) \in 0..(n - 1)
    BY <1>3
  <2> QED BY <1>2, <2>2, <2>3
<1>6. (i + 1) % n = (o + (l + 1)) % n
  <2>1. i + 1 \in 0..(2 * n - 1) /\ o + (l + 1) \in 0..(2 * n - 1)
    BY <1>3, <1>5
  <2>2. (i + 1) % n = InOne(i + 1) /\ (o + (l + 1)) % n = InOne(o + (l + 1))
    BY <1>4, <2>1
  <2>3. InOne(i + 1) = InOne(o + (l + 1))
    <3>1. CASE o + l < n
      BY <1>3, <1>5, <3>1
    <3>2. CASE o + l >= n
      BY <1>3, <1>5, <3>2
    <3> QED BY <1>3, <3>1, <3>2
  <2> QED BY <2>2, <2>3
<1>7. ASSUME NEW j \in 1..(l + 1) PROVE c1[j] = b1[(o + j - 1) % n]
  <2>1. CASE j = l + 1
    <3>1. o + j - 1 = o + l
      BY <1>1, <2>1
    <3> QED BY <1>1, <1>2, <1>5, <2>1, <3>1
  <2>2. CASE j \in 1..l
    <3>1. j \in Nat /\ j >= 1 /\ j <= l
      BY <1>3, <2>2
    <3>2. o + j - 1 \in 0..(2 * n - 1)
      BY <1>3, <3>1
    <3>3. (o + j - 1) % n = InOne(o + j - 1)
      BY <1>4, <3>2
    <3>4. InOne(o + j - 1) \in 0..(n - 1) /\ InOne(o + j - 1) # InOne(o + l)
      BY <1>3, <3>1
    <3>5. (o + j - 1) % n # i /\ (o + j - 1) % n \in 0..(n - 1)
      BY <1>5, <3>3, <3>4
    <3> QED BY <1>1, <1>2, <2>2, <3>5
  <2> QED BY <1>1, <2>1, <2>2
<1>8. Len(c1) <= n /\ (i + 1) % n = (o + Len(c1)) % n
  BY <1>1, <1>2, <1>6
<1>9. \A j \in 1..Len(c1) : c1[j] = b1[(o + j - 1) % n]
  BY <1>1, <1>7
<1> HIDE DEF b1
<1>10. InRing(c1, b1, o, (i + 1) % n, n)
  BY <1>8, <1>9 DEF InRing
<1> QED BY <1>10 DEF c1, b1

LEMMA RingTail ==
  ASSUME NEW n \in Nat \ {0}, NEW S, NEW c \in Seq(S), NEW b,
         NEW o \in 0..(n - 1), NEW i, InRing(c, b, o, i, n), c # <<>>
  PROVE  /\ b[o] = Head(c)
         /\ (o + 1) % n \in 0..(n - 1)
         /\ InRing(Tail(c), b, (o + 1) % n, i, n)
<1> DEFINE l == Len(c)
           c1 == Tail(c)
           o1 == (o + 1) % n
<1>1. l \in Nat \ {0} /\ Len(c1) = l - 1 /\ Head(c) = c[1] /\ \A j \in 1..(l - 1) : c1[j] = c[j + 1]
  BY HeadTailProperties, LenProperties, EmptySeq
<1>2. i = (o + l) % n /\ l <= n /\ \A j \in 1..l : c[j] = b[(o + j - 1) % n]
  BY DEF InRing
<1> HIDE DEF l, c1, o1
<1>3. o1 = IF o + 1 < n THEN o + 1 ELSE o + 1 - n
  <2> DEFINE x == o + 1
  <2>1. x \in 0..(2 * n - 1)
    BY DEF x
  <2> HIDE DEF x
  <2>2. x % n = IF x < n THEN x ELSE x - n
    BY <2>1, RingIndex
  <2> QED BY <2>2 DEF x, o1
<1>4. o1 \in 0..(n - 1)
  BY <1>3
<1>5. ASSUME NEW k \in 1..l PROVE (o1 + k - 1) % n = (o + k) % n
  <2>1. (o1 + k - 1) % n = IF o1 + k - 1 < n THEN o1 + k - 1 ELSE o1 + k - 1 - n
    <3> DEFINE x == o1 + k - 1
    <3>1. x \in 0..(2 * n - 1)
      BY <1>1, <1>2, <1>4 DEF x
    <3> HIDE DEF x
    <3>2. x % n = IF x < n THEN x ELSE x - n
      BY <3>1, RingIndex
    <3> QED BY <1>1, <1>4, <3>2 DEF x
  <2>2. (o + k) % n = IF o + k < n THEN o + k ELSE o + k - n
    <3> DEFINE x == o + k
    <3>1. x \in 0..(2 * n - 1)
      BY <1>1, <1>2 DEF x
    <3> HIDE DEF x
    <3>2. x % n = IF x < n THEN x ELSE x - n
      BY <3>1, RingIndex
    <3> QED BY <3>2 DEF x
  <2> QED BY <1>1, <1>2, <1>3, <2>1, <2>2
<1>6. i = (o1 + (l - 1)) % n
  BY <1>1, <1>2, <1>4, <1>5
<1>7. ASSUME NEW j \in 1..(l - 1) PROVE c1[j] = b[(o1 + j - 1) % n]
  <2>1. c1[j] = c[j + 1] /\ j + 1 \in 1..l
    BY <1>1
  <2>2. c[j + 1] = b[(o + (j + 1) - 1) % n]
    BY <1>2, <2>1
  <2>3. o + (j + 1) - 1 = o + j
    BY <1>1
  <2> QED BY <1>1, <1>5, <2>1, <2>2, <2>3
<1>8. b[o] = c[1]
  <2>1. o + 1 - 1 = o /\ o \in 0..(2 * n - 1)
    OBVIOUS
  <2>2. o % n = o
    BY <2>1, RingIndex
  <2> QED BY <1>1, <1>2, <2>1, <2>2
<1> QED BY <1>1, <1>2, <1>4, <1>6, <1>7, <1>8 DEF InRing, c1, l, o1

(***************************************************************************)
(* An array b holds the sequence c in its first k slots: what is written   *)
(* to slot k is then its last element, slot 0 is its first, and the others *)
(* move down.                                                              *)
(***************************************************************************)
InArray(c, b, k, n) == k = Len(c) /\ k <= n /\ \A j \in 1..Len(c) : c[j] = b[j - 1]
MovedDown(b, k, n) == [i \in 0..(n - 1) |-> IF i + 1 <= k THEN b[i + 1] ELSE b[i]]

LEMMA ArrayAppend ==
  ASSUME NEW n \in Nat \ {0}, NEW S, NEW T, NEW c \in Seq(S), NEW b \in [0..(n - 1) -> T],
         NEW k, InArray(c, b, k, n), Len(c) < n, NEW m \in S
  PROVE  InArray(Append(c, m), [b EXCEPT ![k] = m], k + 1, n)
<1> DEFINE c1 == Append(c, m)
           b1 == [b EXCEPT ![k] = m]
<1>1. /\ k \in Nat /\ k = Len(c) /\ k < n /\ \A j \in 1..k : c[j] = b[j - 1]
      /\ Len(c1) = k + 1 /\ c1[k + 1] = m /\ \A j \in 1..k : c1[j] = c[j]
  BY AppendProperties, LenProperties DEF InArray
<1> HIDE DEF c1
<1>2. ASSUME NEW j \in 1..(k + 1) PROVE c1[j] = b1[j - 1]
  BY <1>1
<1> QED BY <1>1, <1>2 DEF InArray, c1

LEMMA ArrayTail ==
  ASSUME NEW n \in Nat \ {0}, NEW S, NEW T, NEW c \in Seq(S), NEW b \in [0..(n - 1) -> T],
         NEW k, InArray(c, b, k, n), c # <<>>
  PROVE  /\ b[0] = Head(c)
         /\ MovedDown(b, k - 1, n) \in [0..(n - 1) -> T]
         /\ InArray(Tail(c), MovedDown(b, k - 1, n), k - 1, n)
<1> DEFINE c1 == Tail(c)
           b1 == MovedDown(b, k - 1, n)
<1>1. /\ k \in Nat \ {0} /\ k = Len(c) /\ k <= n /\ \A j \in 1..k : c[j] = b[j - 1]
      /\ Len(c1) = k - 1 /\ Head(c) = c[1] /\ \A j \in 1..(k - 1) : c1[j] = c[j + 1]
  BY HeadTailProperties, LenProperties, EmptySeq DEF InArray
<1>2. b1 \in [0..(n - 1) -> T]
  BY <1>1 DEF MovedDown
<1> HIDE DEF c1
<1>3. ASSUME NEW j \in 1..(k - 1) PROVE c1[j] = b1[j - 1]
  BY <1>1 DEF MovedDown
<1>4. b[0] = c[1]
  BY <1>1
<1> HIDE DEF b1
<1> QED BY <1>1, <1>2, <1>3, <1>4 DEF InArray, c1, b1
-----------------------------------------------------------------------------
(***************************************************************************)
(* Min and Max choose members, and the difference of two indices of a ring *)
(* is the number of its slots between them.                                *)
(***************************************************************************)
LEMMA LeastNatural ==
  ASSUME NEW T \in SUBSET Nat, T # {}
  PROVE  \E x \in T : \A y \in T : x <= y
<1>1. PICK x \in T : \A y \in T : ~(<<y, x>> \in OpToRel(<, Nat))
  BY NatLessThanWellFounded, WFMin
<1>2. ASSUME NEW y \in T, y < x PROVE <<y, x>> \in OpToRel(<, Nat)
  <2>1. <<y, x>> \in Nat \X Nat /\ <<y, x>>[1] = y /\ <<y, x>>[2] = x
    OBVIOUS
  <2> QED BY <1>2, <2>1, Zenon DEF OpToRel
<1>3. ASSUME NEW y \in T PROVE x <= y
  <2>1. ~(y < x)
    BY <1>1, <1>2
  <2>2. x \in Nat /\ y \in Nat
    OBVIOUS
  <2> QED BY <2>1, <2>2
<1> QED BY <1>3

LEMMA MinMaxAreMembers ==
  ASSUME NEW n \in Nat, NEW T \in SUBSET (0..n), T # {}
  PROVE  Min(T) \in T /\ Max(T) \in T
<1>1. \E x \in T : \A y \in T : x <= y
  BY LeastNatural
<1>2. \E x \in T : \A y \in T : x >= y
  <2> DEFINE U == {k \in 0..n : n - k \in T}
  <2>1. PICK z \in T : TRUE
    OBVIOUS
  <2>2. n - z \in 0..n /\ n - (n - z) = z
    OBVIOUS
  <2>3. U \in SUBSET Nat /\ U # {}
    <3>1. n - z \in U
      BY <2>2
    <3>2. U \in SUBSET (0..n) /\ 0..n \in SUBSET Nat
      OBVIOUS
    <3> QED BY <3>1, <3>2
  <2>4. PICK u \in U : \A v \in U : u <= v
    BY <2>3, LeastNatural
  <2>5. ASSUME NEW y \in T PROVE n - u >= y
    <3>1. n - y \in 0..n /\ n - (n - y) = y
      OBVIOUS
    <3>2. u <= n - y
      BY <2>4, <3>1
    <3> QED BY <3>1, <3>2
  <2> QED BY <2>5
<1> QED BY <1>1, <1>2 DEF Min, Max

LEMMA RingDistance ==
  ASSUME NEW n \in Nat \ {0}, NEW i \in 0..(n - 1), NEW o \in 0..(n - 1)
  PROVE  (i - o) % n = IF i >= o THEN i - o ELSE i - o + n
<1>1. ASSUME NEW y \in 0..(n - 1) PROVE y % n = y /\ (y - n) % n = y
  OBVIOUS
<1>2. CASE i >= o
  <2>1. i - o \in 0..(n - 1)
    BY <1>2
  <2> QED BY <1>1, <1>2, <2>1
<1>3. CASE i < o
  <2>1. i - o + n \in 0..(n - 1) /\ (i - o + n) - n = i - o
    BY <1>3
  <2> QED BY <1>1, <1>3, <2>1
<1> QED BY <1>2, <1>3
-----------------------------------------------------------------------------
(***************************************************************************)
(* How many items of a sequence are in X.                                  *)
(***************************************************************************)
CountIn(q, X) == Cardinality({k \in DOMAIN q : q[k] \in X})

LEMMA CountInType ==
  ASSUME NEW S, NEW q \in Seq(S), NEW X
  PROVE  /\ IsFiniteSet({k \in DOMAIN q : q[k] \in X}) /\ CountIn(q, X) \in Nat
         /\ CountIn(q, X) = 0 <=> \A k \in DOMAIN q : q[k] \notin X
<1> DEFINE K == {k \in DOMAIN q : q[k] \in X}
<1>1. DOMAIN q = 1..Len(q) /\ Len(q) \in Nat
  BY LenProperties
<1>2. IsFiniteSet(1..Len(q)) /\ K \in SUBSET (1..Len(q))
  BY <1>1, FS_Interval
<1>3. IsFiniteSet(K) /\ Cardinality(K) \in Nat
  BY <1>2, FS_Subset, FS_CardinalityType
<1>4. Cardinality(K) = 0 <=> K = {}
  BY <1>3, FS_EmptySet
<1> QED BY <1>3, <1>4 DEF CountIn

LEMMA CountInAppend ==
  ASSUME NEW S, NEW q \in Seq(S), NEW x \in S, NEW X
  PROVE  CountIn(Append(q, x), X) = CountIn(q, X) + IF x \in X THEN 1 ELSE 0
<1> DEFINE r == Append(q, x)
           A == {k \in DOMAIN q : q[k] \in X}
           B == {k \in DOMAIN r : r[k] \in X}
           c == Len(q) + 1
<1>1. /\ Len(q) \in Nat /\ DOMAIN q = 1..Len(q) /\ DOMAIN r = 1..c
      /\ \A k \in 1..Len(q) : r[k] = q[k]
      /\ r[c] = x
  BY AppendProperties, LenProperties
<1> HIDE DEF r
<1>2. A \ {c} = B \ {c} /\ c \notin A
  BY <1>1
<1>3. c \in B <=> x \in X
  BY <1>1
<1>4. IsFiniteSet(A)
  BY CountInType
<1> HIDE DEF A, B, c
<1>5. Cardinality(B) = Cardinality(A) + IF x \in X THEN 1 ELSE 0
  <2>1. CASE x \in X
    BY <1>2, <1>3, <1>4, <2>1, OneMoves
  <2>2. CASE x \notin X
    BY <1>2, <1>3, <1>4, <2>2, OneMoves
  <2> QED BY <2>1, <2>2
<1> QED BY <1>5 DEF CountIn, A, B, r

LEMMA CountInTail ==
  ASSUME NEW S, NEW q \in Seq(S), q # <<>>, NEW X
  PROVE  CountIn(q, X) = CountIn(Tail(q), X) + IF Head(q) \in X THEN 1 ELSE 0
<1> DEFINE r == Tail(q)
           A == {k \in DOMAIN r : r[k] \in X}
           C == {k \in DOMAIN q : q[k] \in X} \ {1}
           B == {k \in DOMAIN q : q[k] \in X}
           f == [k \in A |-> k + 1]
<1>1. /\ Len(q) \in Nat \ {0} /\ DOMAIN q = 1..Len(q)
      /\ r \in Seq(S) /\ Len(r) = Len(q) - 1 /\ DOMAIN r = 1..(Len(q) - 1)
      /\ \A k \in 1..(Len(q) - 1) : r[k] = q[k + 1]
      /\ Head(q) = q[1]
  BY HeadTailProperties, LenProperties, EmptySeq
<1> HIDE DEF r
<1>2. f \in Bijection(A, C)
  <2>1. ASSUME NEW k \in A PROVE k + 1 \in C
    BY <1>1
  <2>2. ASSUME NEW j \in C PROVE j - 1 \in A /\ j - 1 + 1 = j
    BY <1>1
  <2>3. \A j, k \in A : j + 1 = k + 1 => j = k
    BY <1>1
  <2>4. f \in [A -> C]
    BY <2>1
  <2>5. ASSUME NEW j \in A, NEW k \in A, f[j] = f[k] PROVE j = k
    BY <2>3, <2>5
  <2>6. ASSUME NEW j \in C PROVE \E k \in A : f[k] = j
    BY <2>2
  <2>7. DOMAIN f = A
    OBVIOUS
  <2> HIDE DEF A, C, f
  <2> QED BY <2>4, <2>5, <2>6, <2>7 DEF Bijection, Injection, Surjection, IsInjective
<1>3. IsFiniteSet(A)
  BY <1>1, CountInType
<1>4. Cardinality(C) = Cardinality(A) /\ IsFiniteSet(C)
  BY <1>2, <1>3, FS_Bijection DEF ExistsBijection
<1>5. 1 \in B <=> Head(q) \in X
  BY <1>1
<1>6. C \ {1} = B \ {1} /\ 1 \notin C
  OBVIOUS
<1> HIDE DEF A, B, C
<1>7. Cardinality(B) = Cardinality(C) + IF Head(q) \in X THEN 1 ELSE 0
  <2>1. CASE Head(q) \in X
    BY <1>4, <1>5, <1>6, <2>1, OneMoves
  <2>2. CASE Head(q) \notin X
    BY <1>4, <1>5, <1>6, <2>2, OneMoves
  <2> QED BY <2>1, <2>2
<1> QED BY <1>4, <1>7 DEF CountIn, A, B, r
-----------------------------------------------------------------------------
(***************************************************************************)
(* What a ring b holds from slot o up to slot i, when one slot is always   *)
(* left free, and what a push and a pop do to it.                          *)
(***************************************************************************)
RingContents(b, o, i, n) == [k \in 1..((i - o) % n) |-> b[(o + k - 1) % n]]

LEMMA RingContentsFacts ==
  ASSUME NEW n \in Nat \ {0}, NEW T, NEW b \in [0..(n - 1) -> T],
         NEW i \in 0..(n - 1), NEW o \in 0..(n - 1)
  PROVE  /\ RingContents(b, o, i, n) \in Seq(T)
         /\ Len(RingContents(b, o, i, n)) < n
         /\ InRing(RingContents(b, o, i, n), b, o, i, n)
         /\ RingContents(b, o, i, n) = <<>> <=> i = o
<1> DEFINE l == (i - o) % n
           c == RingContents(b, o, i, n)
<1>1. l = IF i >= o THEN i - o ELSE i - o + n
  BY RingDistance
<1>2. l \in 0..(n - 1) /\ o + l \in 0..(2 * n - 1)
  BY <1>1
<1>3. (o + l) % n = i
  <2> DEFINE x == o + l
  <2>1. x \in 0..(2 * n - 1) /\ x = IF i >= o THEN i ELSE i + n
    BY <1>1, <1>2
  <2> HIDE DEF x
  <2>2. x % n = IF x < n THEN x ELSE x - n
    BY <2>1, RingIndex
  <2>3. x % n = i
    BY <2>1, <2>2
  <2> QED BY <2>3 DEF x
<1> HIDE DEF l
<1>4. ASSUME NEW k \in 1..l PROVE (o + k - 1) % n \in 0..(n - 1)
  <2> DEFINE x == o + k - 1
  <2>1. x \in Int
    BY <1>2
  <2> HIDE DEF x
  <2>2. x % n \in 0..(n - 1)
    BY <2>1
  <2> QED BY <2>2 DEF x
<1>5. c = [k \in 1..l |-> b[(o + k - 1) % n]]
  BY DEF l, RingContents
<1> HIDE DEF c
<1>6. c \in Seq(T) /\ Len(c) = l /\ \A k \in 1..l : c[k] = b[(o + k - 1) % n]
  <2>1. \A k \in 1..l : b[(o + k - 1) % n] \in T
    BY <1>4
  <2>2. c \in [1..l -> T] /\ l \in Nat
    BY <1>2, <1>5, <2>1
  <2>3. c \in Seq(T)
    BY <2>2, IsASeq
  <2>4. Len(c) = l
    BY <2>2, <2>3, LenProperties
  <2> QED BY <1>5, <2>3, <2>4
<1>7. c = <<>> <=> l = 0
  BY <1>6, EmptySeq
<1>8. l = 0 <=> i = o
  BY <1>1
<1> QED BY <1>2, <1>3, <1>6, <1>7, <1>8 DEF InRing, c

LEMMA RingContentsUnique ==
  ASSUME NEW n \in Nat \ {0}, NEW S, NEW c \in Seq(S), NEW b,
         NEW i \in 0..(n - 1), NEW o \in 0..(n - 1), InRing(c, b, o, i, n), Len(c) < n
  PROVE  c = RingContents(b, o, i, n)
<1> DEFINE l == Len(c)
           d == (i - o) % n
<1>1. l \in 0..(n - 1) /\ i = (o + l) % n /\ \A k \in 1..l : c[k] = b[(o + k - 1) % n]
  BY LenProperties DEF InRing
<1>2. c = [k \in 1..l |-> c[k]]
  BY LenProperties
<1> HIDE DEF l
<1>3. (o + l) % n = IF o + l < n THEN o + l ELSE o + l - n
  <2> DEFINE x == o + l
  <2>1. x \in 0..(2 * n - 1)
    BY <1>1
  <2> HIDE DEF x
  <2>2. x % n = IF x < n THEN x ELSE x - n
    BY <2>1, RingIndex
  <2> QED BY <1>1, <2>2 DEF x
<1>4. d = IF i >= o THEN i - o ELSE i - o + n
  BY RingDistance
<1>5. i = IF o + l < n THEN o + l ELSE o + l - n
  BY <1>1, <1>3
<1> HIDE DEF d
<1>6. d = l
  BY <1>1, <1>4, <1>5
<1> QED BY <1>1, <1>2, <1>6 DEF RingContents, d

\* Of a ring that is not full after a push, the last slot is still free.
LEMMA RingNotFull ==
  ASSUME NEW n \in Nat \ {0}, NEW S, NEW c \in Seq(S), NEW b, NEW o \in 0..(n - 1), NEW i,
         InRing(c, b, o, i, n), i # o
  PROVE  Len(c) < n
<1>1. Len(c) <= n /\ Len(c) \in Nat /\ i = (o + Len(c)) % n
  BY LenProperties DEF InRing
<1>2. (o + n) % n = o
  <2> DEFINE x == o + n
  <2>1. x \in 0..(2 * n - 1) /\ x >= n /\ x - n = o
    OBVIOUS
  <2> HIDE DEF x
  <2>2. x % n = IF x < n THEN x ELSE x - n
    BY <2>1, RingIndex
  <2>3. x % n = o
    BY <2>1, <2>2
  <2> QED BY <2>3 DEF x
<1>3. Len(c) # n
  BY <1>1, <1>2
<1> QED BY <1>1, <1>3

LEMMA RingPop ==
  ASSUME NEW n \in Nat \ {0}, NEW T, NEW b \in [0..(n - 1) -> T],
         NEW i \in 0..(n - 1), NEW o \in 0..(n - 1), i # o
  PROVE  /\ RingContents(b, o, i, n) # <<>>
         /\ b[o] = Head(RingContents(b, o, i, n))
         /\ (o + 1) % n \in 0..(n - 1)
         /\ RingContents(b, (o + 1) % n, i, n) = Tail(RingContents(b, o, i, n))
<1> DEFINE c == RingContents(b, o, i, n)
           c1 == Tail(c)
           o1 == (o + 1) % n
<1>1. c \in Seq(T) /\ Len(c) < n /\ InRing(c, b, o, i, n) /\ c # <<>>
  BY RingContentsFacts
<1> HIDE DEF c
<1>2. c1 \in Seq(T) /\ Len(c1) < n
  BY <1>1, HeadTailProperties, LenProperties
<1>3. b[o] = Head(c) /\ o1 \in 0..(n - 1) /\ InRing(c1, b, o1, i, n)
  BY <1>1, RingTail
<1> HIDE DEF c1, o1
<1>4. c1 = RingContents(b, o1, i, n)
  BY <1>2, <1>3, RingContentsUnique
<1> QED BY <1>1, <1>3, <1>4 DEF c, c1, o1
=============================================================================
