------------------------- MODULE LinkedKernelProofs -------------------------
(***************************************************************************)
(* Proofs about the pointers of q.h, and that the scheduler and the        *)
(* semaphores on them implement those on sequences, for every finite set   *)
(* of threads, every set of semaphores and every initial count.            *)
(***************************************************************************)
EXTENDS LinkedKernel, DataFacts

(***************************************************************************)
(* The queue q is the ring w: next and prev lead round it.                 *)
(***************************************************************************)
Behind(n, k) == IF k = n THEN 1 ELSE k + 1
Ring(l, q, w) ==
  /\ IsInjective(w)
  /\ l.head[q] = IF w = <<>> THEN NULL ELSE w[1]
  /\ \A k \in 1..Len(w) : LET after == w[Behind(Len(w), k)] IN
       l.next[w[k]] = after /\ l.prev[after] = w[k]

(***************************************************************************)
(* The queues are rings of different items: what the lists hold.           *)
(***************************************************************************)
Holds(l, c) ==
  /\ l \in Lists(Queues)
  /\ c \in [Queues -> Seq(Item)]
  /\ \A q \in Queues : Ring(l, q, c[q])
  /\ \A q, r \in Queues : q # r => Range(c[q]) \cap Range(c[r]) = {}
-----------------------------------------------------------------------------
(***************************************************************************)
(* The walk along a ring.                                                  *)
(***************************************************************************)
LEMMA Remainder ==
  ASSUME NEW n \in Nat \ {0}, NEW d \in Nat, NEW y \in 0..(n - 1)
  PROVE  (n * d + y) % n = y
OBVIOUS

LEMMA BehindIs ==
  ASSUME NEW n \in Nat, NEW k \in 1..n
  PROVE  /\ Behind(n, k) \in 1..n
         /\ k = n => Behind(n, k) = 1
         /\ k # n => Behind(n, k) = k + 1 /\ k + 1 \in 1..n
BY DEF Behind

LEMMA FirstAndSecond ==
  ASSUME NEW n \in Nat \ {0}
  PROVE  1 \in 1..n /\ n \in 1..n /\ (n # 1 => 2 \in 1..n /\ Behind(n, 1) = 2)
<1>1. 1 \in 1..n /\ n \in 1..n /\ (n # 1 => 2 \in 1..n)
  OBVIOUS
<1>2. n # 1 => Behind(n, 1) = 2
  BY DEF Behind
<1> QED BY <1>1, <1>2

LEMMA Around ==
  ASSUME NEW n \in Nat \ {0}, NEW m \in Nat \ {0}
  PROVE  (m % n) + 1 = Behind(n, ((m - 1) % n) + 1) /\ ((m - 1) % n) + 1 \in 1..n
<1>1. PICK x \in 0..(n - 1) : x = (m - 1) % n
  OBVIOUS
<1>2. PICK d \in Nat : d = (m - 1) \div n
  OBVIOUS
<1>3. m - 1 = n * d + x
  BY <1>1, <1>2
<1>4. CASE x # n - 1
  <2>1. m = n * d + (x + 1) /\ x + 1 \in 0..(n - 1)
    BY <1>3, <1>4
  <2>2. m % n = x + 1
    BY <2>1, Remainder
  <2> QED BY <1>1, <1>4, <2>2 DEF Behind
<1>5. CASE x = n - 1
  <2>1. n * (d + 1) = n * d + n /\ d + 1 \in Nat
    OBVIOUS
  <2>2. m = n * (d + 1) + 0 /\ 0 \in 0..(n - 1)
    BY <1>3, <1>5, <2>1
  <2>3. m % n = 0
    BY <2>1, <2>2, Remainder
  <2> QED BY <1>1, <1>5, <2>3 DEF Behind
<1> QED BY <1>4, <1>5

LEMMA WalkOfRing ==
  ASSUME NEW l, NEW q, NEW w \in Seq(Item), w # <<>>, Ring(l, q, w)
  PROVE  \A m \in Steps : Walk(l, q)[m] = w[(m % Len(w)) + 1]
<1> DEFINE n == Len(w)
           At(m) == w[(m % n) + 1]
           g == [m \in Steps |-> At(m)]
           F(f) == [m \in Steps |-> IF m = 0 THEN l.head[q] ELSE Follow(l, f[m - 1])]
<1>1. n \in Nat \ {0} /\ \A k \in 1..n : w[k] \in Item
  BY EmptySeq, ElementOfSeq, LenProperties
<1>2. Cardinality(Item) \in Nat /\ Steps = 0..Cardinality(Item)
  BY ItemAssumption, FS_CardinalityType DEF Steps
<1>3. At(0) = l.head[q]
  <2>1. 0 % n = 0
    BY <1>1
  <2> QED BY <2>1 DEF Ring
<1>4. ASSUME NEW m \in Nat \ {0} PROVE At(m) = Follow(l, At(m - 1))
  <2> DEFINE k == ((m - 1) % n) + 1
  <2>1. k \in 1..n /\ (m % n) + 1 = Behind(n, k)
    BY <1>1, <1>4, Around
  <2>2. w[k] \in Item /\ w[k] # NULL
    BY <1>1, <2>1, ItemAssumption
  <2>3. l.next[w[k]] = w[Behind(n, k)]
    BY <2>1 DEF Ring
  <2> QED BY <2>1, <2>2, <2>3 DEF Follow
<1>5. g = F(g)
  <2>1. ASSUME NEW m \in Steps PROVE g[m] = F(g)[m]
    <3>1. CASE m = 0
      BY <1>3, <3>1
    <3>2. CASE m # 0
      <4>1. m \in Nat \ {0} /\ m - 1 \in Steps
        BY <1>2, <3>2
      <4> QED BY <1>4, <3>2, <4>1
    <3> QED BY <3>1, <3>2
  <2> QED BY <2>1
<1>6. Walk(l, q) = CHOOSE f : f = F(f)
  BY DEF Walk
<1>7. Walk(l, q) = F(Walk(l, q))
  <2> HIDE DEF F, g
  <2> QED BY <1>5, <1>6
<1> DEFINE f == Walk(l, q)
           Bad == {m \in Steps : f[m] # At(m)}
<1>8. ASSUME Bad # {} PROVE FALSE
  <2>1. Bad \in SUBSET Nat
    BY <1>2
  <2>2. PICK m \in Bad : \A k \in Bad : m <= k
    BY <1>8, <2>1, LeastNatural
  <2>3. f[m] = IF m = 0 THEN l.head[q] ELSE Follow(l, f[m - 1])
    BY <1>7
  <2>4. m # 0
    BY <1>3, <2>3
  <2>5. m \in Nat \ {0} /\ m - 1 \in Steps /\ m - 1 \notin Bad
    BY <1>2, <2>1, <2>2, <2>4
  <2>6. f[m - 1] = At(m - 1)
    BY <2>5
  <2> QED BY <1>4, <2>3, <2>4, <2>5, <2>6
<1> QED BY <1>8

(***************************************************************************)
(* Contents is the ring, whatever links the other items have.              *)
(***************************************************************************)
LEMMA RingFits ==
  ASSUME NEW w \in Seq(Item), IsInjective(w)
  PROVE  Len(w) <= Cardinality(Item) /\ Cardinality(Item) \in Nat
<1>1. Range(w) \in SUBSET Item
  BY RangeOfSeq
<1>2. Cardinality(Range(w)) = Len(w) /\ IsFiniteSet(Range(w))
  BY InjectiveLength
<1> QED BY <1>1, <1>2, ItemAssumption, FS_Subset, FS_CardinalityType

LEMMA ContentsOfRing ==
  ASSUME NEW l, NEW q, NEW w \in Seq(Item), Ring(l, q, w)
  PROVE  Contents(l, q) = w
<1>1. CASE w = <<>>
  BY <1>1 DEF Ring, Contents
<1>2. CASE w # <<>>
  <2> DEFINE n == Len(w)
             f == Walk(l, q)
             Ends(m) == /\ Follow(l, f[m]) = l.head[q] \/ m = Cardinality(Item)
                        /\ \A k \in 0..(m - 1) : Follow(l, f[k]) # l.head[q]
             last == CHOOSE m \in Steps : Ends(m)
  <2>1. /\ n \in Nat \ {0} /\ DOMAIN w = 1..n /\ w \in [1..n -> Item]
        /\ \A k \in 1..n : w[k] \in Item /\ w[k] # NULL
    BY <1>2, ItemAssumption, EmptySeq, ElementOfSeq, LenProperties
  <2>2. IsInjective(w) /\ l.head[q] = w[1]
    BY <1>2 DEF Ring
  <2>3. n <= Cardinality(Item) /\ Cardinality(Item) \in Nat
    BY <2>2, RingFits
  <2>4. ASSUME NEW m \in 0..(n - 1)
        PROVE  /\ m \in Steps /\ f[m] = w[m + 1]
               /\ Follow(l, f[m]) = w[Behind(n, m + 1)]
    <3>1. m \in Steps
      BY <2>1, <2>3 DEF Steps
    <3>2. m % n = m
      BY <2>1
    <3>3. f[m] = w[m + 1]
      BY <1>2, <3>1, <3>2, WalkOfRing
    <3>4. m + 1 \in 1..n /\ w[m + 1] # NULL
      BY <2>1
    <3>5. Follow(l, f[m]) = l.next[w[m + 1]]
      BY <3>3, <3>4 DEF Follow
    <3> QED BY <3>1, <3>3, <3>4, <3>5 DEF Ring
  <2>5. Follow(l, f[n - 1]) = l.head[q]
    <3>1. n - 1 \in 0..(n - 1) /\ Behind(n, (n - 1) + 1) = 1
      BY <2>1 DEF Behind
    <3> QED BY <2>2, <2>4, <3>1
  <2>6. ASSUME NEW m \in 0..(n - 2) PROVE Follow(l, f[m]) # l.head[q]
    <3>1. m \in 0..(n - 1) /\ Behind(n, m + 1) = m + 2 /\ m + 2 \in 1..n /\ m + 2 # 1
      BY <2>1 DEF Behind
    <3>2. w[m + 2] # w[1]
      BY <2>1, <2>2, <3>1 DEF IsInjective
    <3> QED BY <2>2, <2>4, <3>1, <3>2
  <2>7. n - 1 \in Steps /\ Ends(n - 1)
    <3>1. n - 1 \in 0..(n - 1) /\ (n - 1) - 1 = n - 2
      BY <2>1
    <3> QED BY <2>4, <2>5, <2>6, <3>1
  <2>8. ASSUME NEW m \in Steps, Ends(m) PROVE m = n - 1
    <3>1. m \in Nat /\ m <= Cardinality(Item)
      BY <2>3 DEF Steps
    <3>2. ASSUME m < n - 1 PROVE FALSE
      <4>1. m \in 0..(n - 2) /\ m # Cardinality(Item)
        BY <2>1, <2>3, <3>1, <3>2
      <4> QED BY <2>6, <2>8, <4>1
    <3>3. ASSUME m > n - 1 PROVE FALSE
      <4>1. n - 1 \in 0..(m - 1)
        BY <2>1, <3>1, <3>3
      <4> QED BY <2>5, <2>8, <4>1
    <3> QED BY <2>1, <3>1, <3>2, <3>3
  <2>9. last = n - 1
    <3> HIDE DEF Ends
    <3> QED BY <2>7, <2>8
  <2>10. Contents(l, q) = [k \in 1..(last + 1) |-> f[k - 1]]
    <3>1. l.head[q] # NULL
      BY <2>1, <2>2
    <3> QED BY <3>1 DEF Contents
  <2> HIDE DEF last, f
  <2>11. [k \in 1..(last + 1) |-> f[k - 1]] = w
    <3>1. last + 1 = n
      BY <2>1, <2>9
    <3>2. ASSUME NEW k \in 1..n PROVE f[k - 1] = w[k]
      <4>1. k - 1 \in 0..(n - 1) /\ (k - 1) + 1 = k
        BY <2>1
      <4> QED BY <2>4, <4>1
    <3> QED BY <2>1, <3>1, <3>2
  <2> QED BY <2>10, <2>11
<1> QED BY <1>1, <1>2

LEMMA HoldsContents ==
  ASSUME NEW l, NEW c, Holds(l, c)
  PROVE  \A q \in Queues : Contents(l, q) = c[q]
BY ContentsOfRing DEF Holds
-----------------------------------------------------------------------------
(***************************************************************************)
(* AddQueue and DelQueue on a ring, link by link.                          *)
(***************************************************************************)
LEMMA RingFacts ==
  ASSUME NEW l, NEW q, NEW w \in Seq(Item), Ring(l, q, w)
  PROVE  /\ Len(w) \in Nat /\ DOMAIN w = 1..Len(w)
         /\ \A k \in 1..Len(w) : w[k] \in Item /\ w[k] # NULL /\ w[k] \in Range(w)
         /\ \A j, k \in 1..Len(w) : w[j] = w[k] => j = k
         /\ \A x \in Range(w) : \E k \in 1..Len(w) : x = w[k]
         /\ w # <<>> => Len(w) \in Nat \ {0} /\ l.head[q] = w[1]
         /\ \A k \in 1..Len(w) : /\ Behind(Len(w), k) \in 1..Len(w)
                                 /\ l.next[w[k]] = w[Behind(Len(w), k)]
                                 /\ l.prev[w[Behind(Len(w), k)]] = w[k]
<1>1. Len(w) \in Nat /\ DOMAIN w = 1..Len(w)
  BY LenProperties
<1>2. \A k \in 1..Len(w) : w[k] \in Item /\ w[k] # NULL /\ w[k] \in Range(w)
  BY <1>1, ElementOfSeq, ItemAssumption DEF Range
<1>3. \A j, k \in 1..Len(w) : w[j] = w[k] => j = k
  BY <1>1 DEF Ring, IsInjective
<1>4. \A x \in Range(w) : \E k \in 1..Len(w) : x = w[k]
  BY <1>1 DEF Range
<1>5. w # <<>> => Len(w) \in Nat \ {0} /\ l.head[q] = w[1]
  BY EmptySeq DEF Ring
<1>6. \A k \in 1..Len(w) : Behind(Len(w), k) \in 1..Len(w)
  BY <1>1, BehindIs
<1>7. \A k \in 1..Len(w) : /\ l.next[w[k]] = w[Behind(Len(w), k)]
                          /\ l.prev[w[Behind(Len(w), k)]] = w[k]
  BY DEF Ring
<1> QED BY <1>1, <1>2, <1>3, <1>4, <1>5, <1>6, <1>7

\* A ring whose links are left alone.
LEMMA RingFrame ==
  ASSUME NEW l, NEW m, NEW q, NEW w \in Seq(Item), Ring(l, q, w), m.head[q] = l.head[q],
         \A x \in Range(w) : m.next[x] = l.next[x] /\ m.prev[x] = l.prev[x]
  PROVE  Ring(m, q, w)
<1>1. ASSUME NEW k \in 1..Len(w)
      PROVE  /\ m.next[w[k]] = w[Behind(Len(w), k)]
             /\ m.prev[w[Behind(Len(w), k)]] = w[k]
  <2>1. /\ Behind(Len(w), k) \in 1..Len(w)
        /\ l.next[w[k]] = w[Behind(Len(w), k)]
        /\ l.prev[w[Behind(Len(w), k)]] = w[k]
    BY RingFacts
  <2>2. w[k] \in Range(w) /\ w[Behind(Len(w), k)] \in Range(w)
    BY <2>1, RingFacts
  <2> QED BY <2>1, <2>2
<1> QED BY <1>1 DEF Ring

\* m is l with the item linked in behind the ring w, or without the head of w.
Added(l, m, q, w, item) ==
  /\ m \in Lists(Queues)
  /\ \A r \in Queues : m.head[r] = IF w = <<>> /\ r = q THEN item ELSE l.head[r]
  /\ w = <<>> => /\ m.next = [l.next EXCEPT ![item] = item]
                 /\ m.prev = [l.prev EXCEPT ![item] = item]
  /\ w # <<>> => /\ m.next = [l.next EXCEPT ![w[Len(w)]] = item, ![item] = w[1]]
                 /\ m.prev = [l.prev EXCEPT ![item] = w[Len(w)], ![w[1]] = item]
Deleted(l, m, q, w) ==
  /\ m \in Lists(Queues)
  /\ \A r \in Queues : m.head[r] = IF r # q THEN l.head[r]
                                   ELSE IF Len(w) = 1 THEN NULL ELSE w[2]
  /\ Len(w) = 1 => m.next = l.next /\ m.prev = l.prev
  /\ Len(w) # 1 => /\ m.next = [l.next EXCEPT ![w[Len(w)]] = w[2]]
                   /\ m.prev = [l.prev EXCEPT ![w[2]] = w[Len(w)]]

LEMMA AddLinks ==
  ASSUME NEW l \in Lists(Queues), NEW q \in Queues, NEW w \in Seq(Item), Ring(l, q, w),
         NEW item \in Item, item \notin Range(w)
  PROVE  Added(l, AddQueue(l, q, item), q, w, item)
<1> DEFINE m == AddQueue(l, q, item)
           n == Len(w)
<1>1. /\ l.head \in [Queues -> Item \cup {NULL}]
      /\ l.next \in [Item -> Item \cup {NULL}]
      /\ l.prev \in [Item -> Item \cup {NULL}]
      /\ l = [head |-> l.head, next |-> l.next, prev |-> l.prev]
  BY DEF Lists
<1>2. CASE w = <<>>
  <2>1. l.head[q] = NULL
    BY <1>2 DEF Ring
  <2>2. m = [head |-> [l.head EXCEPT ![q] = item], next |-> [l.next EXCEPT ![item] = item],
             prev |-> [l.prev EXCEPT ![item] = item]]
    BY <1>1, <2>1 DEF AddQueue
  <2>3. m \in Lists(Queues)
    BY <1>1, <2>2 DEF Lists
  <2>4. \A r \in Queues : m.head[r] = IF r = q THEN item ELSE l.head[r]
    BY <1>1, <2>2
  <2> QED BY <1>2, <2>2, <2>3, <2>4 DEF Added
<1>3. CASE w # <<>>
  <2>1. l.head[q] = w[1] /\ w[1] \in Item /\ w[n] \in Item /\ w[1] # NULL
    BY <1>3, RingFacts
  <2>2. Contents(l, q) = w
    BY ContentsOfRing
  <2>3. m = [head |-> l.head, next |-> [l.next EXCEPT ![w[n]] = item, ![item] = w[1]],
             prev |-> [l.prev EXCEPT ![item] = w[n], ![w[1]] = item]]
    BY <1>1, <2>1, <2>2 DEF AddQueue
  <2>4. m \in Lists(Queues)
    BY <1>1, <2>1, <2>3 DEF Lists
  <2> QED BY <1>3, <2>3, <2>4 DEF Added
<1> QED BY <1>2, <1>3

LEMMA AddRing ==
  ASSUME NEW l \in Lists(Queues), NEW q \in Queues, NEW w \in Seq(Item), Ring(l, q, w),
         NEW item \in Item, item \notin Range(w)
  PROVE  Ring(AddQueue(l, q, item), q, Append(w, item))
<1> DEFINE u == Append(w, item)
<1>1. PICK m : m = AddQueue(l, q, item)
  OBVIOUS
<1>2. PICK n : n = Len(w)
  OBVIOUS
<1>3. /\ n \in Nat /\ Len(u) = n + 1 /\ u # <<>> /\ IsInjective(u)
      /\ \A k \in 1..n : u[k] = w[k]
      /\ u[n + 1] = item
  BY AppendFacts, AppendProperties, RingFacts, <1>2 DEF Ring
<1>4. l.next \in [Item -> Item \cup {NULL}] /\ l.prev \in [Item -> Item \cup {NULL}]
  BY DEF Lists
<1>5. /\ \A j, k \in 1..n : w[j] = w[k] => j = k
      /\ \A k \in 1..n : /\ l.next[w[k]] = w[Behind(n, k)]
                         /\ l.prev[w[Behind(n, k)]] = w[k]
  <2>1. /\ \A j, k \in 1..Len(w) : w[j] = w[k] => j = k
        /\ \A k \in 1..Len(w) : /\ l.next[w[k]] = w[Behind(Len(w), k)]
                                /\ l.prev[w[Behind(Len(w), k)]] = w[k]
    BY RingFacts
  <2> QED BY <1>2, <2>1
<1>6. /\ m.head[q] = IF w = <<>> THEN item ELSE l.head[q]
      /\ w = <<>> => /\ m.next = [l.next EXCEPT ![item] = item]
                     /\ m.prev = [l.prev EXCEPT ![item] = item]
      /\ w # <<>> => /\ m.next = [l.next EXCEPT ![w[n]] = item, ![item] = w[1]]
                     /\ m.prev = [l.prev EXCEPT ![item] = w[n], ![w[1]] = item]
  <2>1. Added(l, m, q, w, item)
    BY <1>1, AddLinks
  <2> QED BY <1>2, <2>1 DEF Added
<1>7. CASE w = <<>>
  <2>1. n = 0 /\ u[1] = item /\ Behind(1, 1) = 1
    BY <1>3, <1>7 DEF Behind
  <2>2. m.head[q] = item /\ m.next[item] = item /\ m.prev[item] = item
    BY <1>4, <1>7, <1>6
  <2>3. \A k \in 1..Len(u) : k = 1
    BY <1>3, <2>1
  <2> QED BY <1>1, <1>3, <2>1, <2>2, <2>3 DEF Ring
<1>8. CASE w # <<>>
  <2>1. /\ n \in Nat \ {0} /\ m.head[q] = w[1]
        /\ m.next = [l.next EXCEPT ![w[n]] = item, ![item] = w[1]]
        /\ m.prev = [l.prev EXCEPT ![item] = w[n], ![w[1]] = item]
    BY <1>2, <1>8, <1>6, RingFacts
  <2>2. \A k \in 1..n : w[k] \in Item /\ w[k] # item
    BY <1>2, RingFacts
  <2>3. /\ m.next[item] = w[1] /\ m.next[w[n]] = item
        /\ m.prev[item] = w[n] /\ m.prev[w[1]] = item
    BY <1>4, <2>1, <2>2
  <2>4. ASSUME NEW k \in 1..(n - 1)
        PROVE  m.next[w[k]] = w[k + 1] /\ m.prev[w[k + 1]] = w[k]
    <3>1. k \in 1..n /\ k + 1 \in 1..n /\ k # n /\ k + 1 # 1 /\ Behind(n, k) = k + 1
          /\ n \in 1..n /\ 1 \in 1..n
      BY <2>1 DEF Behind
    <3>2. w[k] # w[n] /\ w[k + 1] # w[1]
      BY <1>5, <3>1
    <3>3. l.next[w[k]] = w[k + 1] /\ l.prev[w[k + 1]] = w[k]
      BY <1>5, <3>1
    <3>4. w[k] \in Item /\ w[k] # item /\ w[k + 1] \in Item /\ w[k + 1] # item
      BY <2>2, <3>1
    <3> QED BY <1>4, <2>1, <3>2, <3>3, <3>4
  <2>5. ASSUME NEW k \in 1..(n + 1)
        PROVE  m.next[u[k]] = u[Behind(n + 1, k)] /\ m.prev[u[Behind(n + 1, k)]] = u[k]
    <3>1. CASE k = n + 1
      BY <1>3, <2>1, <2>3, <3>1 DEF Behind
    <3>2. CASE k = n
      <4>1. Behind(n + 1, k) = n + 1 /\ k \in 1..n
        BY <2>1, <3>2 DEF Behind
      <4> QED BY <1>3, <2>3, <3>2, <4>1
    <3>3. CASE k \in 1..(n - 1)
      <4>1. Behind(n + 1, k) = k + 1 /\ k \in 1..n /\ k + 1 \in 1..n
        BY <2>1, <3>3 DEF Behind
      <4> QED BY <1>3, <2>4, <3>3, <4>1
    <3>4. k = n + 1 \/ k = n \/ k \in 1..(n - 1)
      BY <2>1
    <3> QED BY <3>1, <3>2, <3>3, <3>4
  <2>6. u[1] = w[1]
    BY <1>3, <2>1
  <2> QED BY <1>1, <1>3, <2>1, <2>5, <2>6 DEF Ring
<1> QED BY <1>7, <1>8

LEMMA DelLinks ==
  ASSUME NEW l \in Lists(Queues), NEW q \in Queues, NEW w \in Seq(Item), Ring(l, q, w),
         w # <<>>
  PROVE  DelQueue(l, q).item = w[1] /\ Deleted(l, DelQueue(l, q).lists, q, w)
<1> DEFINE m == DelQueue(l, q).lists
           n == Len(w)
<1>1. /\ l.head \in [Queues -> Item \cup {NULL}]
      /\ l.next \in [Item -> Item \cup {NULL}]
      /\ l.prev \in [Item -> Item \cup {NULL}]
      /\ l = [head |-> l.head, next |-> l.next, prev |-> l.prev]
  BY DEF Lists
<1>2. /\ n \in Nat \ {0} /\ l.head[q] = w[1] /\ w[1] \in Item /\ w[1] # NULL
      /\ w[n] \in Item
  BY RingFacts
<1>3. DelQueue(l, q).item = w[1]
  BY <1>2 DEF DelQueue
<1>4. l.next[w[1]] = w[Behind(n, 1)] /\ l.prev[w[1]] = w[n]
  <2>1. n \in 1..n /\ 1 \in 1..n /\ Behind(n, n) = 1
    BY <1>2 DEF Behind
  <2> QED BY <2>1, RingFacts
<1>5. CASE n = 1
  <2>1. l.next[w[1]] = w[1]
    BY <1>4, <1>5 DEF Behind
  <2>2. m = [head |-> [l.head EXCEPT ![q] = NULL], next |-> l.next, prev |-> l.prev]
    BY <1>1, <1>2, <2>1 DEF DelQueue
  <2>3. m \in Lists(Queues)
    BY <1>1, <2>2 DEF Lists
  <2>4. \A r \in Queues : m.head[r] = IF r # q THEN l.head[r] ELSE NULL
    BY <1>1, <2>2
  <2> QED BY <1>3, <1>5, <2>2, <2>3, <2>4 DEF Deleted
<1>6. CASE n # 1
  <2>1. Behind(n, 1) = 2 /\ 2 \in 1..n /\ 1 \in 1..n
    BY <1>2, <1>6, FirstAndSecond
  <2>2. w[2] # w[1] /\ w[2] \in Item
    BY <2>1, RingFacts
  <2>3. m = [head |-> [l.head EXCEPT ![q] = w[2]],
             next |-> [l.next EXCEPT ![w[n]] = w[2]],
             prev |-> [l.prev EXCEPT ![w[2]] = w[n]]]
    BY <1>1, <1>2, <1>4, <2>1, <2>2 DEF DelQueue
  <2>4. m \in Lists(Queues)
    BY <1>1, <1>2, <2>2, <2>3 DEF Lists
  <2>5. \A r \in Queues : m.head[r] = IF r # q THEN l.head[r] ELSE w[2]
    BY <1>1, <2>3
  <2> QED BY <1>3, <1>6, <2>3, <2>4, <2>5 DEF Deleted
<1> QED BY <1>5, <1>6

LEMMA DelRing ==
  ASSUME NEW l \in Lists(Queues), NEW q \in Queues, NEW w \in Seq(Item), Ring(l, q, w),
         w # <<>>
  PROVE  Ring(DelQueue(l, q).lists, q, Tail(w))
<1> DEFINE u == Tail(w)
<1>1. PICK m : m = DelQueue(l, q).lists
  OBVIOUS
<1>2. PICK n : n = Len(w)
  OBVIOUS
<1>3. /\ n \in Nat \ {0} /\ Len(u) = n - 1 /\ IsInjective(u)
      /\ \A k \in 1..(n - 1) : u[k] = w[k + 1]
  BY TailFacts, HeadTailProperties, RingFacts, <1>2 DEF Ring
<1>4. l.next \in [Item -> Item \cup {NULL}] /\ l.prev \in [Item -> Item \cup {NULL}]
  BY DEF Lists
<1>5. u \in Seq(Item) /\ (u = <<>> <=> n = 1)
  <2>1. u \in Seq(Item) /\ Len(<<>>) = 0
    BY TailFacts
  <2>2. u # <<>> => Len(u) \in Nat \ {0}
    BY <2>1, EmptySeq
  <2>3. n = 1 <=> Len(u) = 0
    BY <1>3
  <2> QED BY <2>1, <2>2, <2>3
<1>6. /\ \A j, k \in 1..n : w[j] = w[k] => j = k
      /\ \A k \in 1..n : /\ l.next[w[k]] = w[Behind(n, k)]
                         /\ l.prev[w[Behind(n, k)]] = w[k]
  <2>1. /\ \A j, k \in 1..Len(w) : w[j] = w[k] => j = k
        /\ \A k \in 1..Len(w) : /\ l.next[w[k]] = w[Behind(Len(w), k)]
                                /\ l.prev[w[Behind(Len(w), k)]] = w[k]
    BY RingFacts
  <2> QED BY <1>2, <2>1
<1>7. /\ m.head[q] = IF n = 1 THEN NULL ELSE w[2]
      /\ n # 1 => /\ m.next = [l.next EXCEPT ![w[n]] = w[2]]
                  /\ m.prev = [l.prev EXCEPT ![w[2]] = w[n]]
  <2>1. Deleted(l, m, q, w)
    BY <1>1, DelLinks
  <2> QED BY <1>2, <2>1 DEF Deleted
<1>8. CASE n = 1
  <2>1. m.head[q] = NULL
    BY <1>8, <1>7
  <2>2. u = <<>>
    BY <1>5, <1>8
  <2>3. IsInjective(u)
    BY <1>3
  <2> HIDE DEF u
  <2>4. 1..Len(u) = {}
    <3>1. Len(<<>>) = 0 /\ 1..0 = {}
      OBVIOUS
    <3> QED BY <2>2, <3>1
  <2>5. Ring(m, q, u)
    BY <2>1, <2>2, <2>3, <2>4 DEF Ring
  <2> QED BY <1>1, <2>5 DEF u
<1>9. CASE n # 1
  <2>1. /\ m.head[q] = w[2]
        /\ m.next = [l.next EXCEPT ![w[n]] = w[2]]
        /\ m.prev = [l.prev EXCEPT ![w[2]] = w[n]]
    BY <1>9, <1>7
  <2>2. 2 \in 1..n /\ n \in 1..n /\ \A k \in 1..n : w[k] \in Item
    BY <1>3, <1>9, <1>2, RingFacts
  <2>3. m.next[w[n]] = w[2] /\ m.prev[w[2]] = w[n]
    BY <1>4, <2>1, <2>2
  <2>4. ASSUME NEW k \in 2..(n - 1)
        PROVE  m.next[w[k]] = w[k + 1] /\ m.prev[w[k + 1]] = w[k]
    <3>1. k \in 1..n /\ k + 1 \in 1..n /\ k # n /\ k + 1 # 2 /\ Behind(n, k) = k + 1
      BY <1>3, BehindIs
    <3>2. w[k] # w[n] /\ w[k + 1] # w[2]
      BY <1>6, <2>2, <3>1
    <3>3. l.next[w[k]] = w[k + 1] /\ l.prev[w[k + 1]] = w[k]
      BY <1>6, <3>1
    <3>4. w[k] \in Item /\ w[k + 1] \in Item
      BY <2>2, <3>1
    <3> QED BY <1>4, <2>1, <3>2, <3>3, <3>4
  <2>5. ASSUME NEW k \in 1..(n - 1)
        PROVE  m.next[u[k]] = u[Behind(n - 1, k)] /\ m.prev[u[Behind(n - 1, k)]] = u[k]
    <3>1. CASE k = n - 1
      <4>1. Behind(n - 1, k) = 1 /\ 1 \in 1..(n - 1) /\ k + 1 = n /\ 1 + 1 = 2
        BY <1>3, <1>9, <3>1 DEF Behind
      <4>2. u[1] = w[2] /\ u[k] = w[n]
        BY <1>3, <4>1
      <4> QED BY <2>3, <4>1, <4>2
    <3>2. CASE k # n - 1
      <4>1. /\ Behind(n - 1, k) = k + 1 /\ k + 1 \in 1..(n - 1) /\ k + 1 \in 2..(n - 1)
            /\ (k + 1) + 1 = k + 2
        BY <1>3, <3>2 DEF Behind
      <4>2. PICK j \in 2..(n - 1) : j = k + 1
        BY <4>1
      <4>3. u[k] = w[j] /\ u[j] = w[j + 1] /\ Behind(n - 1, k) = j
        BY <1>3, <4>1, <4>2
      <4> QED BY <2>4, <4>3
    <3> QED BY <3>1, <3>2
  <2>6. u # <<>> /\ u[1] = w[2]
    <3>1. 1 \in 1..(n - 1) /\ 1 + 1 = 2
      BY <1>3, <1>9
    <3> QED BY <1>3, <1>5, <1>9, <3>1
  <2> QED BY <1>1, <1>3, <2>1, <2>5, <2>6 DEF Ring
<1> QED BY <1>8, <1>9
-----------------------------------------------------------------------------
(***************************************************************************)
(* AddQueue and DelQueue on all the queues.  Linked(l) are the items that  *)
(* some list has linked: an item keeps its links for good.                 *)
(***************************************************************************)
Linked(l) == {i \in Item : l.next[i] # NULL}

LEMMA RingsAreLinked ==
  ASSUME NEW l, NEW c, Holds(l, c), NEW q \in Queues
  PROVE  Range(c[q]) \subseteq Linked(l)
<1>1. PICK w \in Seq(Item) : w = c[q]
  BY DEF Holds
<1>2. Ring(l, q, w)
  BY <1>1 DEF Holds
<1>3. ASSUME NEW x \in Range(w) PROVE x \in Linked(l)
  <2>1. PICK k \in 1..Len(w) : x = w[k]
    BY <1>2, <1>3, RingFacts
  <2>2. Behind(Len(w), k) \in 1..Len(w) /\ l.next[x] = w[Behind(Len(w), k)] /\ x \in Item
    BY <1>2, <2>1, RingFacts
  <2>3. l.next[x] # NULL
    BY <1>2, <2>2, RingFacts
  <2> QED BY <2>2, <2>3 DEF Linked
<1> QED BY <1>1, <1>3

LEMMA HoldsAdd ==
  ASSUME NEW l, NEW c, Holds(l, c), NEW q \in Queues, NEW item \in Item,
         \A r \in Queues : item \notin Range(c[r])
  PROVE  /\ Holds(AddQueue(l, q, item), [c EXCEPT ![q] = Append(c[q], item)])
         /\ Linked(l) \subseteq Linked(AddQueue(l, q, item))
<1> DEFINE d == [c EXCEPT ![q] = Append(c[q], item)]
<1>1. PICK m : m = AddQueue(l, q, item)
  OBVIOUS
<1>2. PICK w \in Seq(Item) : w = c[q]
  BY DEF Holds
<1>3. /\ l \in Lists(Queues) /\ c \in [Queues -> Seq(Item)]
      /\ Ring(l, q, w) /\ item \notin Range(w)
  BY <1>2 DEF Holds
<1>4. Added(l, m, q, w, item)
  BY <1>1, <1>3, AddLinks
<1>5. m \in Lists(Queues) /\ Ring(m, q, Append(w, item))
  BY <1>1, <1>3, <1>4, AddRing DEF Added
<1>6. /\ l.next \in [Item -> Item \cup {NULL}] /\ l.prev \in [Item -> Item \cup {NULL}]
      /\ w # <<>> => /\ w[1] \in Item /\ w[Len(w)] \in Item
                     /\ w[1] \in Range(w) /\ w[Len(w)] \in Range(w)
      /\ item # NULL /\ NULL \notin Item
  BY <1>3, RingFacts, ItemAssumption DEF Lists
<1>7. \A x \in Item : x \notin Range(w) /\ x # item =>
        m.next[x] = l.next[x] /\ m.prev[x] = l.prev[x]
  BY <1>4, <1>6 DEF Added
<1>8. \A x \in Item : l.next[x] # NULL => m.next[x] # NULL
  BY <1>4, <1>6 DEF Added
<1>9. /\ d \in [Queues -> Seq(Item)] /\ d[q] = Append(w, item)
      /\ \A r \in Queues : r # q => d[r] = c[r]
      /\ Range(d[q]) = Range(w) \cup {item}
  BY <1>2, <1>3, AppendFacts
<1>10. ASSUME NEW r \in Queues, r # q PROVE Ring(m, r, d[r])
  <2>1. PICK v \in Seq(Item) : v = c[r]
    BY DEF Holds
  <2>2. Ring(l, r, v) /\ Range(v) \cap Range(w) = {} /\ item \notin Range(v)
    BY <1>2, <1>10, <2>1 DEF Holds
  <2>3. Range(v) \subseteq Item
    BY RangeOfSeq
  <2>4. \A x \in Range(v) : m.next[x] = l.next[x] /\ m.prev[x] = l.prev[x]
    BY <1>7, <2>2, <2>3
  <2>5. m.head[r] = l.head[r]
    BY <1>4, <1>10 DEF Added
  <2> QED BY <1>9, <1>10, <2>1, <2>2, <2>4, <2>5, RingFrame
<1>11. \A r, t \in Queues : r # t => Range(d[r]) \cap Range(d[t]) = {}
  <2>1. \A r, t \in Queues : r # t => Range(c[r]) \cap Range(c[t]) = {}
    BY DEF Holds
  <2> QED BY <1>2, <1>9, <2>1
<1>12. Holds(m, d)
  <2>1. \A r \in Queues : Ring(m, r, d[r])
    BY <1>5, <1>9, <1>10
  <2> QED BY <1>5, <1>9, <1>11, <2>1 DEF Holds
<1>13. Linked(l) \subseteq Linked(m)
  BY <1>8 DEF Linked
<1> QED BY <1>1, <1>12, <1>13

LEMMA HoldsDel ==
  ASSUME NEW l, NEW c, Holds(l, c), NEW q \in Queues, c[q] # <<>>
  PROVE  /\ DelQueue(l, q).item = Head(c[q])
         /\ Holds(DelQueue(l, q).lists, [c EXCEPT ![q] = Tail(c[q])])
         /\ Linked(l) \subseteq Linked(DelQueue(l, q).lists)
<1> DEFINE d == [c EXCEPT ![q] = Tail(c[q])]
<1>1. PICK m : m = DelQueue(l, q).lists
  OBVIOUS
<1>2. PICK w \in Seq(Item) : w = c[q]
  BY DEF Holds
<1>3. /\ l \in Lists(Queues) /\ c \in [Queues -> Seq(Item)]
      /\ Ring(l, q, w) /\ w # <<>>
  BY <1>2 DEF Holds
<1>4. Deleted(l, m, q, w) /\ DelQueue(l, q).item = w[1] /\ w[1] = Head(w)
  BY <1>1, <1>3, DelLinks, HeadTailProperties
<1>5. m \in Lists(Queues) /\ Ring(m, q, Tail(w))
  BY <1>1, <1>3, <1>4, DelRing DEF Deleted
<1>6. /\ l.next \in [Item -> Item \cup {NULL}] /\ l.prev \in [Item -> Item \cup {NULL}]
      /\ NULL \notin Item
  BY <1>3, ItemAssumption DEF Lists
<1>7. /\ w[Len(w)] \in Range(w) /\ w[Len(w)] \in Item
      /\ Len(w) # 1 => w[2] \in Range(w) /\ w[2] \in Item /\ w[2] # NULL
  <2>1. Len(w) \in 1..Len(w) /\ (Len(w) # 1 => 2 \in 1..Len(w))
    BY <1>3, EmptySeq, FirstAndSecond
  <2> QED BY <1>3, <2>1, RingFacts
<1>8. \A x \in Item : /\ x \notin Range(w) => m.next[x] = l.next[x] /\ m.prev[x] = l.prev[x]
                      /\ l.next[x] # NULL => m.next[x] # NULL
  BY <1>4, <1>6, <1>7 DEF Deleted
<1>9. /\ d \in [Queues -> Seq(Item)] /\ d[q] = Tail(w)
      /\ \A r \in Queues : r # q => d[r] = c[r]
      /\ Range(d[q]) \subseteq Range(w)
  BY <1>2, <1>3, TailFacts
<1>10. ASSUME NEW r \in Queues, r # q PROVE Ring(m, r, d[r])
  <2>1. PICK v \in Seq(Item) : v = c[r]
    BY DEF Holds
  <2>2. Ring(l, r, v) /\ Range(v) \cap Range(w) = {}
    BY <1>2, <1>10, <2>1 DEF Holds
  <2>3. Range(v) \subseteq Item
    BY RangeOfSeq
  <2>4. \A x \in Range(v) : m.next[x] = l.next[x] /\ m.prev[x] = l.prev[x]
    BY <1>8, <2>2, <2>3
  <2>5. m.head[r] = l.head[r]
    BY <1>4, <1>10 DEF Deleted
  <2> QED BY <1>9, <1>10, <2>1, <2>2, <2>4, <2>5, RingFrame
<1>11. \A r, t \in Queues : r # t => Range(d[r]) \cap Range(d[t]) = {}
  <2>1. \A r, t \in Queues : r # t => Range(c[r]) \cap Range(c[t]) = {}
    BY DEF Holds
  <2> QED BY <1>2, <1>9, <2>1
<1>12. Holds(m, d)
  <2>1. \A r \in Queues : Ring(m, r, d[r])
    BY <1>5, <1>9, <1>10
  <2> QED BY <1>5, <1>9, <1>11, <2>1 DEF Holds
<1>13. Linked(l) \subseteq Linked(m)
  BY <1>8 DEF Linked
<1> QED BY <1>1, <1>2, <1>4, <1>12, <1>13

(***************************************************************************)
(* The links of the items that are in no ring, and of the one taken out:   *)
(* the stale links.                                                        *)
(***************************************************************************)
LEMMA StaleAfterAdd ==
  ASSUME NEW l, NEW c, Holds(l, c), NEW q \in Queues, NEW item \in Item,
         \A r \in Queues : item \notin Range(c[r])
  PROVE  /\ Linked(AddQueue(l, q, item)) = Linked(l) \cup {item}
         /\ \A x \in Item : x # item /\ x \notin Range(c[q]) =>
              AddQueue(l, q, item).next[x] = l.next[x]
<1>1. PICK m : m = AddQueue(l, q, item)
  OBVIOUS
<1>2. PICK w \in Seq(Item) : w = c[q]
  BY DEF Holds
<1>3. l \in Lists(Queues) /\ Ring(l, q, w) /\ item \notin Range(w)
  BY <1>2 DEF Holds
<1>4. Added(l, m, q, w, item)
  BY <1>1, <1>3, AddLinks
<1>5. /\ l.next \in [Item -> Item \cup {NULL}]
      /\ w # <<>> => /\ w[1] \in Item /\ w[Len(w)] \in Item /\ w[Len(w)] \in Range(w)
                     /\ w[1] # NULL
      /\ item # NULL
  BY <1>3, RingFacts, ItemAssumption DEF Lists
<1>6. \A x \in Item : x # item /\ x \notin Range(w) => m.next[x] = l.next[x]
  BY <1>4, <1>5 DEF Added
<1>7. Range(w) \subseteq Linked(l)
  BY <1>2, RingsAreLinked
<1>8. \A x \in Item : m.next[x] # NULL <=> x = item \/ l.next[x] # NULL
  <2>1. w # <<>> => l.next[w[Len(w)]] # NULL
    BY <1>5, <1>7 DEF Linked
  <2> QED BY <1>4, <1>5, <2>1 DEF Added
<1>9. Linked(m) = Linked(l) \cup {item}
  BY <1>8 DEF Linked
<1> QED BY <1>1, <1>2, <1>6, <1>9

LEMMA StaleAfterDel ==
  ASSUME NEW l, NEW c, Holds(l, c), NEW q \in Queues, c[q] # <<>>
  PROVE  /\ Linked(DelQueue(l, q).lists) = Linked(l)
         /\ \A x \in Item : x \notin Range(c[q]) \/ x = Head(c[q]) =>
              DelQueue(l, q).lists.next[x] = l.next[x]
         /\ Tail(c[q]) # <<>> => l.next[Head(c[q])] = Head(Tail(c[q]))
<1>1. PICK m : m = DelQueue(l, q).lists
  OBVIOUS
<1>2. PICK w \in Seq(Item) : w = c[q]
  BY DEF Holds
<1>3. l \in Lists(Queues) /\ Ring(l, q, w) /\ w # <<>>
  BY <1>2 DEF Holds
<1>4. Deleted(l, m, q, w) /\ w[1] = Head(w)
  BY <1>1, <1>3, DelLinks, HeadTailProperties
<1>5. PICK n \in Nat \ {0} : n = Len(w)
  BY <1>3, EmptySeq
<1>6. /\ l.next \in [Item -> Item \cup {NULL}]
      /\ w[n] \in Item /\ w[n] \in Range(w)
      /\ n # 1 => w[2] \in Item /\ w[2] # NULL /\ w[n] # w[1] /\ l.next[w[1]] = w[2]
  <2>1. 1 \in 1..n /\ n \in 1..n /\ (n # 1 => 2 \in 1..n /\ Behind(n, 1) = 2)
    BY FirstAndSecond
  <2> QED BY <1>3, <1>5, <2>1, RingFacts DEF Lists
<1>7. Range(w) \subseteq Linked(l)
  BY <1>2, RingsAreLinked
<1>8. \A x \in Item : x # w[n] \/ n = 1 => m.next[x] = l.next[x]
  BY <1>4, <1>5, <1>6 DEF Deleted
<1>9. m.next[w[n]] # NULL
  <2>1. l.next[w[n]] # NULL
    BY <1>6, <1>7 DEF Linked
  <2> QED BY <1>4, <1>5, <1>6, <2>1 DEF Deleted
<1>10. Linked(m) = Linked(l)
  BY <1>6, <1>7, <1>8, <1>9 DEF Linked
<1>11. \A x \in Item : x \notin Range(w) \/ x = Head(w) => m.next[x] = l.next[x]
  BY <1>4, <1>6, <1>8
<1>12. Tail(w) # <<>> => l.next[Head(w)] = Head(Tail(w))
  <2>1. Tail(w) \in Seq(Item) /\ Len(Tail(w)) = n - 1
    BY <1>3, <1>5, TailFacts
  <2>2. ASSUME Tail(w) # <<>> PROVE n # 1 /\ 1 \in 1..(n - 1)
    <3>1. Len(Tail(w)) # 0
      BY <2>1, <2>2, EmptySeq
    <3> QED BY <1>5, <2>1, <3>1
  <2>3. ASSUME Tail(w) # <<>> PROVE Head(Tail(w)) = w[2]
    <3>1. Head(Tail(w)) = Tail(w)[1]
      BY <2>1, <2>3, HeadTailProperties
    <3>2. \A k \in 1..(n - 1) : Tail(w)[k] = w[k + 1]
      BY <1>3, <1>5, <2>1, HeadTailProperties
    <3>3. 1 \in 1..(n - 1) /\ 1 + 1 = 2
      BY <2>2, <2>3
    <3> QED BY <3>1, <3>2, <3>3
  <2> QED BY <1>4, <1>6, <2>2, <2>3
<1> QED BY <1>1, <1>2, <1>10, <1>11, <1>12

LEMMA DelEmpty ==
  ASSUME NEW l, NEW c, Holds(l, c), NEW q \in Queues, c[q] = <<>>
  PROVE  DelQueue(l, q).item = NULL /\ DelQueue(l, q).lists = l
<1>1. l.head[q] = NULL
  BY DEF Holds, Ring
<1> QED BY <1>1 DEF DelQueue
-----------------------------------------------------------------------------
(***************************************************************************)
(* The kernel on sequences: its queues are what the lists hold.  The proof *)
(* uses its invariant, by which an item that goes to a queue is in none.   *)
(***************************************************************************)
Seqs == INSTANCE KernelProofs WITH
  Thread <- Item,
  ReadyQ <- Contents(lists, Ready),
  TCB_Q <- [s \in Semaphore |-> Contents(lists, s)]

Held == [q \in Queues |-> Contents(lists, q)]

IInv == /\ Holds(lists, Held)
        /\ Curr_Thread \in Item => Curr_Thread \in Linked(lists)
        /\ Seqs!Inv

\* What a list l holds, c, becomes what the variable holds.
LEMMA HeldNext ==
  ASSUME NEW c, Holds(lists', c)
  PROVE  /\ Held' = c /\ Holds(lists, Held)'
         /\ Contents(lists', Ready) = c[Ready]
         /\ [s \in Semaphore |-> Contents(lists', s)] = [s \in Semaphore |-> c[s]]
<1>1. c \in [Queues -> Seq(Item)]
  BY DEF Holds
<1>2. \A q \in Queues : Contents(lists', q) = c[q]
  BY HoldsContents
<1>3. Held' = c
  BY <1>1, <1>2 DEF Held
<1>4. Holds(lists, Held)'
  BY <1>3
<1> QED BY <1>2, <1>3, <1>4 DEF Queues

(***************************************************************************)
(* A switch: the lists l hold c, and are dispatched from.                  *)
(***************************************************************************)
LEMMA DispatchHolds ==
  ASSUME NEW l, NEW c, Holds(l, c), Dispatch(l)
  PROVE  /\ Holds(lists', [c EXCEPT ![Ready] = Seqs!DelQueue(c[Ready]).rest])
         /\ Curr_Thread' = Seqs!DelQueue(c[Ready]).item
         /\ Linked(l) \subseteq Linked(lists')
         /\ Curr_Thread' \in Item => Curr_Thread' \in Linked(lists')
<1>1. Ready \in Queues /\ c \in [Queues -> Seq(Item)]
  BY DEF Queues, Holds
<1>2. lists' = DelQueue(l, Ready).lists /\ Curr_Thread' = DelQueue(l, Ready).item
  BY DEF Dispatch
<1>3. CASE c[Ready] = <<>>
  <2>1. Seqs!DelQueue(c[Ready]).item = NULL /\ Seqs!DelQueue(c[Ready]).rest = <<>>
    BY <1>3 DEF Seqs!DelQueue
  <2>2. [c EXCEPT ![Ready] = <<>>] = c
    BY <1>1, <1>3
  <2>3. Curr_Thread' = NULL /\ lists' = l
    BY <1>1, <1>2, <1>3, DelEmpty
  <2> QED BY <2>1, <2>2, <2>3, ItemAssumption
<1>4. CASE c[Ready] # <<>>
  <2>1. /\ Seqs!DelQueue(c[Ready]).item = Head(c[Ready])
        /\ Seqs!DelQueue(c[Ready]).rest = Tail(c[Ready])
    BY <1>4 DEF Seqs!DelQueue
  <2>2. /\ Curr_Thread' = Head(c[Ready])
        /\ Holds(lists', [c EXCEPT ![Ready] = Tail(c[Ready])])
        /\ Linked(l) \subseteq Linked(lists')
    BY <1>1, <1>2, <1>4, HoldsDel
  <2>3. Head(c[Ready]) \in Range(c[Ready])
    BY <1>1, <1>4, TailFacts
  <2>4. Head(c[Ready]) \in Linked(l)
    BY <1>1, <2>3, RingsAreLinked
  <2> QED BY <2>1, <2>2, <2>4
<1> QED BY <1>3, <1>4

LEMMA SwitchHolds ==
  ASSUME NEW l, NEW c, Holds(l, c), Dispatch(l)
  PROVE  /\ Seqs!Dispatch(c[Ready])
         /\ [s \in Semaphore |-> Contents(lists', s)] = [s \in Semaphore |-> c[s]]
         /\ Holds(lists, Held)'
         /\ Linked(l) \subseteq Linked(lists')
         /\ Curr_Thread' \in Item => Curr_Thread' \in Linked(lists')
<1> DEFINE d == [c EXCEPT ![Ready] = Seqs!DelQueue(c[Ready]).rest]
<1>1. /\ Holds(lists', d)
      /\ Curr_Thread' = Seqs!DelQueue(c[Ready]).item
      /\ Linked(l) \subseteq Linked(lists')
      /\ Curr_Thread' \in Item => Curr_Thread' \in Linked(lists')
  BY DispatchHolds
<1>2. Ready \in Queues /\ c \in [Queues -> Seq(Item)] /\ \A s \in Semaphore : s # Ready
  BY LinkedAssumption DEF Queues, Holds
<1>3. d[Ready] = Seqs!DelQueue(c[Ready]).rest /\ \A s \in Semaphore : d[s] = c[s]
  BY <1>2 DEF Queues
<1> HIDE DEF d
<1>4. /\ Holds(lists, Held)' /\ Contents(lists', Ready) = d[Ready]
      /\ [s \in Semaphore |-> Contents(lists', s)] = [s \in Semaphore |-> d[s]]
  BY <1>1, HeldNext
<1>5. Seqs!Dispatch(c[Ready])
  BY <1>1, <1>3, <1>4 DEF Seqs!Dispatch
<1> QED BY <1>1, <1>3, <1>4, <1>5

\* The running thread is in no queue, and an item in one queue is in no other.
LEMMA Places ==
  ASSUME IInv
  PROVE  /\ Held \in [Queues -> Seq(Item)]
         /\ Held[Ready] = Contents(lists, Ready)
         /\ \A s \in Semaphore : Held[s] = Contents(lists, s) /\ s # Ready /\ s \in Queues
         /\ \A q \in Queues : Curr_Thread \notin Range(Held[q])
         /\ Holds(lists, Held) /\ Ready \in Queues
<1>1. Holds(lists, Held) /\ Held \in [Queues -> Seq(Item)]
  BY DEF IInv, Holds
<1>2. /\ Held[Ready] = Contents(lists, Ready) /\ Ready \in Queues
      /\ \A s \in Semaphore : Held[s] = Contents(lists, s) /\ s # Ready /\ s \in Queues
  BY LinkedAssumption DEF Held, Queues
<1>3. Curr_Thread \notin Range(Contents(lists, Ready))
  BY DEF IInv, Seqs!Inv, Seqs!OnePlace, Seqs!ReadyPlace, Seqs!Range, Range
<1>4. ASSUME NEW s \in Semaphore PROVE Curr_Thread \notin Range(Contents(lists, s))
  BY DEF IInv, Seqs!Inv, Seqs!OnePlace, Seqs!BlockedPlace, Seqs!Blocked, Seqs!Range, Range
<1>5. ASSUME NEW q \in Queues PROVE Curr_Thread \notin Range(Held[q])
  BY <1>2, <1>3, <1>4 DEF Queues
<1> QED BY <1>1, <1>2, <1>5

(***************************************************************************)
(* Every step on the lists is the step of that name on the sequences.      *)
(***************************************************************************)
Follows == Holds(lists, Held)' /\ (Curr_Thread' \in Item => Curr_Thread' \in Linked(lists'))

LEMMA StartStep ==
  ASSUME IInv, NEW t \in Item, start_thread(t)
  PROVE  Seqs!Start(t) /\ Follows
<1> DEFINE d == [Held EXCEPT ![Ready] = Append(Held[Ready], t)]
<1>1. /\ Curr_Thread # NULL /\ t \notin Linked(lists)
      /\ lists' = AddQueue(lists, Ready, t)
      /\ Curr_Thread' = Curr_Thread /\ count' = count
  BY DEF start_thread, Linked
<1>2. \A q \in Queues : t \notin Range(Held[q])
  BY <1>1, Places, RingsAreLinked
<1>3. Holds(lists', d) /\ Linked(lists) \subseteq Linked(lists')
  BY <1>1, <1>2, Places, HoldsAdd
<1>4. /\ d[Ready] = Append(Contents(lists, Ready), t)
      /\ \A s \in Semaphore : d[s] = Contents(lists, s)
  BY Places
<1>5. Follows
  <2>1. Holds(lists, Held)'
    BY <1>3, HeldNext
  <2>2. Curr_Thread \in Item => Curr_Thread \in Linked(lists)
    BY DEF IInv
  <2> QED BY <1>1, <1>3, <2>1, <2>2 DEF Follows
<1> HIDE DEF d
<1>6. /\ Contents(lists', Ready) = Append(Contents(lists, Ready), t)
      /\ [s \in Semaphore |-> Contents(lists', s)] = [s \in Semaphore |-> Contents(lists, s)]
  BY <1>3, <1>4, HeldNext
<1>7. Seqs!start_thread(t)
  BY <1>1, <1>6 DEF Seqs!start_thread, Seqs!AddQueue
<1>8. t \notin Seqs!Started
  <2>1. t \notin Seqs!Range(Contents(lists, Ready))
    BY <1>2, Places DEF Seqs!Range, Range
  <2>2. ASSUME NEW s \in Semaphore PROVE t \notin Seqs!Blocked(s)
    <3>1. t \notin Range(Contents(lists, s))
      BY <1>2, Places
    <3> QED BY <3>1 DEF Seqs!Blocked, Seqs!Range, Range
  <2>3. t # Curr_Thread
    BY <1>1 DEF IInv
  <2> QED BY <2>1, <2>2, <2>3 DEF Seqs!Started
<1> QED BY <1>1, <1>5, <1>6, <1>7, <1>8 DEF Seqs!Start

LEMMA RunStep ==
  ASSUME IInv, run
  PROVE  Seqs!Run /\ Follows
<1>1. Curr_Thread = Main /\ Dispatch(lists) /\ count' = count
  BY DEF run
<1>2. /\ Seqs!Dispatch(Held[Ready])
      /\ [s \in Semaphore |-> Contents(lists', s)] = [s \in Semaphore |-> Held[s]]
      /\ Follows
  BY <1>1, Places, SwitchHolds DEF Follows
<1>3. [s \in Semaphore |-> Contents(lists', s)] = [s \in Semaphore |-> Contents(lists, s)]
  BY <1>2, Places
<1>4. Seqs!run
  BY <1>1, <1>2, Places DEF Seqs!run
<1> QED BY <1>1, <1>2, <1>3, <1>4 DEF Seqs!Run

LEMMA YieldStep ==
  ASSUME IInv, yield
  PROVE  /\ Seqs!yield /\ Follows
         /\ [s \in Semaphore |-> Contents(lists', s)] = [s \in Semaphore |-> Contents(lists, s)]
<1> DEFINE c == [Held EXCEPT ![Ready] = Append(Held[Ready], Curr_Thread)]
           l == AddQueue(lists, Ready, Curr_Thread)
<1>1. Curr_Thread \in Item /\ Dispatch(l)
  BY DEF yield
<1>2. Holds(l, c)
  BY <1>1, Places, HoldsAdd
<1>3. /\ c[Ready] = Append(Contents(lists, Ready), Curr_Thread)
      /\ \A s \in Semaphore : c[s] = Contents(lists, s)
  BY Places
<1> HIDE DEF c, l
<1>4. /\ Seqs!Dispatch(c[Ready])
      /\ [s \in Semaphore |-> Contents(lists', s)] = [s \in Semaphore |-> c[s]]
      /\ Follows
  BY <1>1, <1>2, SwitchHolds DEF Follows
<1>5. Seqs!yield
  BY <1>1, <1>3, <1>4 DEF Seqs!yield, Seqs!AddQueue
<1> QED BY <1>3, <1>4, <1>5

LEMMA PStep ==
  ASSUME IInv, NEW s \in Semaphore, P(s)
  PROVE  Seqs!P(s) /\ Follows
<1>1. Curr_Thread \in Item /\ count' = [count EXCEPT ![s] = count[s] - 1]
  BY DEF P
<1>2. CASE count'[s] < 0 /\ Block(s)
  <2> DEFINE c == [Held EXCEPT ![s] = Append(Held[s], Curr_Thread)]
             l == AddQueue(lists, s, Curr_Thread)
  <2>1. Dispatch(l)
    BY <1>2 DEF Block
  <2>2. Holds(l, c)
    BY <1>1, Places, HoldsAdd
  <2>3. /\ c[Ready] = Contents(lists, Ready)
        /\ [r \in Semaphore |-> c[r]] =
             [[r \in Semaphore |-> Contents(lists, r)] EXCEPT
                ![s] = Append(Contents(lists, s), Curr_Thread)]
    BY Places
  <2> HIDE DEF c, l
  <2>4. /\ Seqs!Dispatch(c[Ready])
        /\ [r \in Semaphore |-> Contents(lists', r)] = [r \in Semaphore |-> c[r]]
        /\ Follows
    BY <2>1, <2>2, SwitchHolds DEF Follows
  <2>5. Seqs!Block(s)
    BY <2>3, <2>4 DEF Seqs!Block, Seqs!AddQueue
  <2> QED BY <1>1, <1>2, <2>4, <2>5 DEF Seqs!P
<1>3. CASE count'[s] >= 0 /\ UNCHANGED <<lists, Curr_Thread>>
  <2>1. Seqs!P(s)
    BY <1>1, <1>3 DEF Seqs!P, Seqs!threadVars
  <2>2. Holds(lists', Held)
    BY <1>3, Places
  <2>3. Follows
    BY <1>3, <2>2, HeldNext DEF Follows, IInv
  <2> QED BY <2>1, <2>3
<1> QED BY <1>2, <1>3 DEF P

(***************************************************************************)
(* V: the head of the semaphore's queue goes from ring to ring, with the   *)
(* links it had, and the caller behind it.                                 *)
(***************************************************************************)
LEMMA WakeStep ==
  ASSUME IInv, NEW s \in Semaphore, Curr_Thread \in Item, Wake(s)
  PROVE  Seqs!Wake(s) /\ Follows
<1> DEFINE q == Contents(lists, s)
           woken == DelQueue(lists, s)
           l1 == woken.lists
           l2 == AddQueue(l1, Ready, woken.item)
           l3 == AddQueue(l2, Ready, Curr_Thread)
           c1 == [Held EXCEPT ![s] = Tail(q)]
           c2 == [c1 EXCEPT ![Ready] = Append(c1[Ready], Head(q))]
           c3 == [c2 EXCEPT ![Ready] = Append(c2[Ready], Curr_Thread)]
<1>1. s \in Queues /\ s # Ready /\ Ready \in Queues /\ Held[s] = q /\ q \in Seq(Item)
  BY Places
<1>2. CASE q = <<>>
  <2>1. woken.item = NULL
    BY <1>1, <1>2, Places, DelEmpty
  <2>2. Curr_Thread' = NULL /\ lists' = lists
    BY <2>1 DEF Wake
  <2>3. Seqs!DelQueue(q).item = NULL
    BY <1>2 DEF Seqs!DelQueue
  <2>4. Seqs!Wake(s)
    BY <2>2, <2>3 DEF Seqs!Wake
  <2>5. Holds(lists', Held)
    BY <2>2, Places
  <2>6. Follows
    BY <2>2, <2>5, HeldNext, ItemAssumption DEF Follows
  <2> QED BY <2>4, <2>6
<1>3. CASE q # <<>>
  <2>1. Holds(lists, Held) /\ s \in Queues /\ Held[s] # <<>>
    BY <1>1, <1>3, Places
  <2>2. /\ DelQueue(lists, s).item = Head(Held[s])
        /\ Holds(DelQueue(lists, s).lists, [Held EXCEPT ![s] = Tail(Held[s])])
    BY <2>1, HoldsDel
  <2>3. Head(q) \in Item /\ Head(q) \in Range(q)
    BY <1>1, <1>3, TailFacts
  <2>4. /\ woken.item = Head(q) /\ Holds(l1, c1)
        /\ Head(q) \in Item /\ Head(q) # NULL /\ Head(q) \in Range(q)
    BY <1>1, <2>2, <2>3, ItemAssumption
  <2>5. Dispatch(l3)
    BY <2>4 DEF Wake
  <2>6. /\ c1 \in [Queues -> Seq(Item)] /\ c1[s] = Tail(q)
        /\ \A r \in Queues : r # s => c1[r] = Held[r]
    BY <1>1, <1>3, Places, TailFacts
  <2>7. IsInjective(q) /\ \A r \in Queues : r # s => Range(Held[r]) \cap Range(q) = {}
    BY <1>1, Places DEF Holds, Ring
  <2>8. Head(q) \notin Range(Tail(q)) /\ Range(Tail(q)) \subseteq Range(q)
    BY <1>1, <1>3, <2>7, TailFacts
  <2>9. \A r \in Queues : Head(q) \notin Range(c1[r]) /\ Curr_Thread \notin Range(c1[r])
    BY <1>1, <2>4, <2>6, <2>7, <2>8, Places
  <2>10. Holds(l2, c2)
    <3> HIDE DEF c1, l1, woken, q
    <3> QED BY <1>1, <2>4, <2>9, HoldsAdd
  <2>11. \A r \in Queues : Curr_Thread \notin Range(c2[r])
    <3>1. Curr_Thread # Head(q)
      BY <1>1, <2>4, Places
    <3> HIDE DEF c1, q
    <3>2. Range(c2[Ready]) = Range(c1[Ready]) \cup {Head(q)}
      BY <1>1, <2>4, <2>6, AppendFacts
    <3>3. \A r \in Queues : r # Ready => c2[r] = c1[r]
      BY <2>6
    <3> QED BY <2>9, <3>1, <3>2, <3>3
  <2>12. Holds(l3, c3)
    <3> HIDE DEF c2, l2
    <3> QED BY <1>1, <2>10, <2>11, HoldsAdd
  <2>13. /\ c3[Ready] = Append(Append(Contents(lists, Ready), Head(q)), Curr_Thread)
         /\ \A r \in Semaphore : c3[r] = IF r = s THEN Tail(q) ELSE Contents(lists, r)
    BY <1>1, <2>6, Places
  <2> HIDE DEF c3, l3
  <2>14. /\ Seqs!Dispatch(c3[Ready])
         /\ [r \in Semaphore |-> Contents(lists', r)] = [r \in Semaphore |-> c3[r]]
         /\ Follows
    BY <2>5, <2>12, SwitchHolds DEF Follows
  <2>15. Seqs!DelQueue(q).item = Head(q) /\ Seqs!DelQueue(q).rest = Tail(q)
    BY <1>3 DEF Seqs!DelQueue
  <2>16. [r \in Semaphore |-> c3[r]] =
           [[r \in Semaphore |-> Contents(lists, r)] EXCEPT ![s] = Tail(q)]
    BY <2>13
  <2>17. Seqs!Wake(s)
    BY <2>4, <2>13, <2>14, <2>15, <2>16 DEF Seqs!Wake, Seqs!AddQueue
  <2> QED BY <2>14, <2>17
<1> QED BY <1>2, <1>3

LEMMA VStep ==
  ASSUME IInv, NEW s \in Semaphore, V(s)
  PROVE  Seqs!V(s) /\ Follows
<1>1. Curr_Thread \in Item /\ count' = [count EXCEPT ![s] = count[s] + 1]
  BY DEF V
<1>2. CASE count'[s] <= 0 /\ Wake(s)
  <2>1. Seqs!Wake(s) /\ Follows
    BY <1>1, <1>2, WakeStep
  <2> QED BY <1>1, <1>2, <2>1 DEF Seqs!V
<1>3. CASE count'[s] > 0 /\ yield
  <2>1. /\ Seqs!yield /\ Follows
        /\ [r \in Semaphore |-> Contents(lists', r)] = [r \in Semaphore |-> Contents(lists, r)]
    BY <1>3, YieldStep
  <2> QED BY <1>1, <1>3, <2>1 DEF Seqs!V
<1> QED BY <1>2, <1>3 DEF V
-----------------------------------------------------------------------------
LEMMA InitIInv == Init => IInv /\ Seqs!SemInit
<1> SUFFICES ASSUME Init PROVE IInv /\ Seqs!SemInit
  OBVIOUS
<1> DEFINE c == [q \in Queues |-> <<>>]
<1>1. lists = NewQueue(Queues) /\ Curr_Thread = Main /\ count = InputValue
  BY DEF Init
<1>2. Range(<<>>) = {} /\ IsInjective(<<>>) /\ Len(<<>>) = 0 /\ <<>> \in Seq(Item)
  BY DEF Range, IsInjective
<1>3. lists \in Lists(Queues) /\ \A q \in Queues : lists.head[q] = NULL
  BY <1>1 DEF NewQueue, Lists
<1>4. Holds(lists, c)
  BY <1>2, <1>3 DEF Holds, Ring
<1>5. \A q \in Queues : Contents(lists, q) = <<>>
  BY <1>4, HoldsContents
<1>6. Held = c
  BY <1>5 DEF Held
<1>7. Seqs!SemInit
  BY <1>1, <1>5 DEF Seqs!SemInit, Seqs!ThreadsInit, Queues
<1>8. Seqs!Inv
  BY <1>7, Seqs!InitInv, LinkedAssumption, ItemAssumption
<1>9. Curr_Thread \notin Item
  BY <1>1, LinkedAssumption
<1> QED BY <1>4, <1>6, <1>7, <1>8, <1>9 DEF IInv

LEMMA NextStep ==
  ASSUME IInv, Next
  PROVE  Seqs!Next /\ Follows
<1>1. ASSUME NEW t \in Item, start_thread(t) PROVE Seqs!Next /\ Follows
  BY <1>1, StartStep DEF Seqs!Next
<1>2. CASE run
  BY <1>2, RunStep DEF Seqs!Next
<1>3. CASE yield /\ UNCHANGED count
  BY <1>3, YieldStep DEF Seqs!Next, Seqs!Yield
<1>4. ASSUME NEW s \in Semaphore, P(s) PROVE Seqs!Next /\ Follows
  BY <1>4, PStep DEF Seqs!Next
<1>5. ASSUME NEW s \in Semaphore, count[s] < MaxCount, V(s) PROVE Seqs!Next /\ Follows
  BY <1>5, VStep DEF Seqs!Next
<1> QED BY <1>1, <1>2, <1>3, <1>4, <1>5 DEF Next

LEMMA NextIInv == IInv /\ [Next]_vars => IInv' /\ [Seqs!Next]_(Seqs!semVars)
<1> SUFFICES ASSUME IInv, [Next]_vars PROVE IInv' /\ [Seqs!Next]_(Seqs!semVars)
  OBVIOUS
<1>1. Seqs!Inv
  BY DEF IInv
<1>2. CASE Next
  <2>1. Seqs!Next /\ Follows
    BY <1>2, NextStep
  <2>2. Seqs!Inv'
    BY <1>1, <2>1, Seqs!NextInv, LinkedAssumption, ItemAssumption
  <2> QED BY <2>1, <2>2 DEF IInv, Follows
<1>3. CASE UNCHANGED vars
  <2>1. lists' = lists /\ Curr_Thread' = Curr_Thread /\ count' = count
    BY <1>3 DEF vars
  <2>2. UNCHANGED Seqs!semVars
    BY <2>1 DEF Seqs!semVars
  <2>3. Seqs!Inv'
    BY <1>1, <2>2, Seqs!NextInv, LinkedAssumption, ItemAssumption
  <2>4. Holds(lists', Held)
    BY <2>1 DEF IInv
  <2>5. Holds(lists, Held)'
    BY <2>4, HeldNext
  <2> QED BY <2>1, <2>2, <2>3, <2>5 DEF IInv
<1> QED BY <1>2, <1>3

LEMMA SpecIInv == Spec => []IInv
BY InitIInv, NextIInv, PTL DEF Spec

(***************************************************************************)
(* Every queue is always a ring.                                           *)
(***************************************************************************)
THEOREM LinkedRings == Spec => []Rings
<1>1. IInv => Rings
  <2> SUFFICES ASSUME IInv PROVE Rings
    OBVIOUS
  <2>1. lists \in Lists(Queues) /\ \A q \in Queues : Ring(lists, q, Contents(lists, q))
    BY DEF IInv, Holds, Held
  <2> QED BY <2>1 DEF Rings, Ring, Behind
<1> QED BY <1>1, SpecIInv, PTL

(***************************************************************************)
(* LinkedKernel names the kernel on sequences as an instance of Kernel,    *)
(* the proofs as one of KernelProofs: their actions are the same.          *)
(***************************************************************************)
LEMMA SameCalls ==
  /\ \A t \in Item : Seqs!Start(t) => Sequential!Start(t)
  /\ Seqs!Run => Sequential!Run
  /\ Seqs!Yield => Sequential!Yield
  /\ \A s \in Semaphore : Seqs!P(s) => Sequential!P(s)
  /\ \A s \in Semaphore : Seqs!V(s) => Sequential!V(s)
<1>1. ASSUME NEW t \in Item, Seqs!Start(t) PROVE Sequential!Start(t)
  BY <1>1 DEF Seqs!Start, Sequential!Start, Seqs!start_thread, Sequential!start_thread,
              Seqs!AddQueue, Sequential!AddQueue, Seqs!Started, Sequential!Started,
              Seqs!Blocked, Sequential!Blocked, Seqs!Range, Sequential!Range
<1>2. ASSUME Seqs!Run PROVE Sequential!Run
  BY <1>2 DEF Seqs!Run, Sequential!Run, Seqs!run, Sequential!run,
              Seqs!Dispatch, Sequential!Dispatch, Seqs!DelQueue, Sequential!DelQueue
<1>3. Seqs!yield => Sequential!yield
  BY DEF Seqs!yield, Sequential!yield, Seqs!Dispatch, Sequential!Dispatch,
         Seqs!DelQueue, Sequential!DelQueue, Seqs!AddQueue, Sequential!AddQueue
<1>4. ASSUME Seqs!Yield PROVE Sequential!Yield
  BY <1>3, <1>4 DEF Seqs!Yield, Sequential!Yield
<1>5. ASSUME NEW s \in Semaphore, Seqs!P(s) PROVE Sequential!P(s)
  BY <1>5 DEF Seqs!P, Sequential!P, Seqs!Block, Sequential!Block,
              Seqs!Dispatch, Sequential!Dispatch, Seqs!DelQueue, Sequential!DelQueue,
              Seqs!AddQueue, Sequential!AddQueue, Seqs!threadVars, Sequential!threadVars
<1>6. ASSUME NEW s \in Semaphore, Seqs!V(s) PROVE Sequential!V(s)
  <2>1. Seqs!Wake(s) => Sequential!Wake(s)
    BY DEF Seqs!Wake, Sequential!Wake, Seqs!Dispatch, Sequential!Dispatch,
           Seqs!DelQueue, Sequential!DelQueue, Seqs!AddQueue, Sequential!AddQueue
  <2> QED BY <1>3, <1>6, <2>1 DEF Seqs!V, Sequential!V
<1> QED BY <1>1, <1>2, <1>4, <1>5, <1>6

(***************************************************************************)
(* The linked lists implement the sequences of Kernel, and with them all   *)
(* that is proved of it: KernelProofs holds of the program's pointers.     *)
(***************************************************************************)
THEOREM LinkedImplementsKernel == Spec => ImplementsKernel
<1>1. Seqs!SemInit => Sequential!SemInit
  BY DEF Seqs!SemInit, Sequential!SemInit, Seqs!ThreadsInit, Sequential!ThreadsInit
<1>2. [Seqs!Next]_(Seqs!semVars) => [Sequential!Next]_(Sequential!semVars)
  <2>1. Seqs!Next => Sequential!Next
    BY SameCalls DEF Seqs!Next, Sequential!Next
  <2>2. UNCHANGED Seqs!semVars => UNCHANGED Sequential!semVars
    BY DEF Seqs!semVars, Sequential!semVars
  <2> QED BY <2>1, <2>2
<1> QED BY InitIInv, NextIInv, SpecIInv, <1>1, <1>2, PTL DEF Spec, ImplementsKernel, Sequential!Spec
=============================================================================
