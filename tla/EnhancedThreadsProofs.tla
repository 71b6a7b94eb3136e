----------------------- MODULE EnhancedThreadsProofs -----------------------
(***************************************************************************)
(* Proofs about the threads that return, for every finite set of threads   *)
(* and of calls of run(), every set of semaphores and every program whose  *)
(* main() starts two threads before run() and never blocks: in particular, *)
(* the stale link that cleanup() follows leads to the next thread.         *)
(***************************************************************************)
EXTENDS EnhancedThreads, DataFacts

(***************************************************************************)
(* What is proved in LinkedKernelProofs about AddQueue and DelQueue holds  *)
(* of these lists.  The instance asks for a name of its main(), which has  *)
(* no item; here it is only a name that nothing else has.                  *)
(***************************************************************************)
Nameless == CHOOSE x : x \notin Item \cup {NULL}

Links == INSTANCE LinkedKernelProofs WITH
  Main <- Nameless, InputValue <- [s \in Semaphore |-> 0]

Holds(l, c) == Links!Holds(l, c)
Linked(l) == {i \in Item : l.next[i] # NULL}
Held == [q \in Queues |-> Contents(lists, q)]

(***************************************************************************)
(* The inductive invariant, of the values l, c and r of lists, Held and    *)
(* returned.                                                               *)
(***************************************************************************)
LiveIn(l, r) == (Thread \cap Linked(l)) \ r
QueuedIn(c) == UNION {Range(c[q]) : q \in Queues}

CountsMatch(c, n) == \A s \in Semaphore : Len(c[s]) = IF n[s] < 0 THEN -n[s] ELSE 0

\* main() has no item before run(), and afterwards either it or a thread runs.
SomebodyRuns ==
  /\ Parent_Thread \in Parent \cup {NULL}
  /\ Parent_Thread = NULL => Curr_Thread = NULL
  /\ Parent_Thread # NULL => /\ Curr_Thread \in Thread \cup {Parent_Thread}
                             /\ Parent_Thread \in Linked(lists)

\* The items in the queues and the one that runs are the live threads and main().
Placed == /\ \A q \in Queues : Curr_Thread \notin Range(Held[q])
          /\ QueuedIn(Held) \cup ({Curr_Thread} \ {NULL})
               = LiveIn(lists, returned) \cup ({Parent_Thread} \ {NULL})
          /\ Curr_Thread \in Thread => Parent_Thread \in Range(Held[Ready])

\* The link that cleanup() is going to follow.
LinkToNext ==
  Curr_Thread \in Thread => lists.next[Curr_Thread] = Head(Held[Ready])

Counted == /\ returned \subseteq Thread \cap Linked(lists)
           /\ thread_count = Cardinality(LiveIn(lists, returned))

IInv == /\ Holds(lists, Held)
        /\ count \in [Semaphore -> Int] /\ CountsMatch(Held, count)
        /\ SomebodyRuns /\ Placed /\ LinkToNext /\ Counted
-----------------------------------------------------------------------------
(***************************************************************************)
(* The operators of Queue are those of the instance.                       *)
(***************************************************************************)
LEMMA NamelessIsNew == Nameless \notin Item /\ Nameless # NULL
<1>1. \E x : x \notin Item \cup {NULL}
  <2> DEFINE S == Item \cup {NULL}
             R == {y \in S : y \notin y}
  <2>1. R \notin S
    OBVIOUS
  <2> QED BY <2>1
<1>2. Nameless \notin Item \cup {NULL}
  BY <1>1 DEF Nameless
<1> QED BY <1>2

LEMMA SameSets ==
  /\ \A S : Links!IsFiniteSet(S) <=> IsFiniteSet(S)
  /\ \A S : Links!Cardinality(S) = Cardinality(S)
<1>1. \A S : Links!IsFiniteSet(S) <=> IsFiniteSet(S)
  BY DEF Links!IsFiniteSet, IsFiniteSet
<1>2. \A S : Links!Cardinality(S) = Cardinality(S)
  BY <1>1 DEF Links!Cardinality, Cardinality
<1> QED BY <1>1, <1>2

LEMMA SameContents ==
  ASSUME NEW l, NEW q
  PROVE  Links!Contents(l, q) = Contents(l, q)
<1>1. Links!Steps = Steps
  BY SameSets DEF Steps, Links!Steps
<1>2. \A i : Links!Follow(l, i) = Follow(l, i)
  BY DEF Follow, Links!Follow
<1>3. Links!Walk(l, q) = Walk(l, q)
  BY <1>1, <1>2 DEF Walk, Links!Walk
<1> QED BY <1>1, <1>2, <1>3, SameSets DEF Contents, Links!Contents

LEMMA SameAdd ==
  ASSUME NEW l, NEW q, NEW i
  PROVE  Links!AddQueue(l, q, i) = AddQueue(l, q, i)
<1>1. Links!Contents(l, q) = Contents(l, q)
  BY SameContents
<1> QED BY <1>1 DEF AddQueue, Links!AddQueue

LEMMA SameOthers ==
  /\ Links!Queues = Queues
  /\ \A l, q : Links!DelQueue(l, q) = DelQueue(l, q)
  /\ \A l : Links!Linked(l) = Linked(l)
  /\ \A f : Links!Range(f) = Range(f)
  /\ Links!Lists(Queues) = Lists(Queues)
BY DEF Queues, Links!Queues, DelQueue, Links!DelQueue, Linked, Links!Linked,
       Range, Links!Range, Lists, Links!Lists

LEMMA SameAssumptions ==
  /\ NULL \notin Item /\ Links!IsFiniteSet(Item)
  /\ Nameless \notin Item /\ Nameless # NULL
  /\ Ready \notin Semaphore
  /\ [s \in Semaphore |-> 0] \in [Semaphore -> Nat]
BY NamelessIsNew, SameSets, ItemAssumption, EnhancedAssumption

(***************************************************************************)
(* AddQueue and DelQueue, as LinkedKernelProofs has them.                  *)
(***************************************************************************)
LEMMA HoldsType ==
  ASSUME NEW l, NEW c, Holds(l, c)
  PROVE  /\ c \in [Queues -> Seq(Item)]
         /\ l \in Lists(Queues)
         /\ \A q \in Queues : IsInjective(c[q]) /\ Contents(l, q) = c[q]
         /\ \A q, r \in Queues : q # r => Range(c[q]) \cap Range(c[r]) = {}
         /\ \A q \in Queues : Range(c[q]) \subseteq Linked(l)
<1>1. /\ c \in [Queues -> Seq(Item)] /\ l \in Lists(Queues)
      /\ \A q, r \in Queues : q # r => Range(c[q]) \cap Range(c[r]) = {}
  BY SameOthers DEF Holds, Links!Holds
<1>2. \A q \in Queues : IsInjective(c[q])
  BY SameOthers DEF Holds, Links!Holds, Links!Ring, IsInjective, Links!IsInjective
<1>3. \A q \in Queues : Contents(l, q) = c[q]
  BY SameOthers, SameContents, SameAssumptions, Links!HoldsContents DEF Holds
<1>4. \A q \in Queues : Range(c[q]) \subseteq Linked(l)
  BY SameOthers, SameAssumptions, Links!RingsAreLinked DEF Holds
<1> QED BY <1>1, <1>2, <1>3, <1>4

WithLast(c, q, i) == [c EXCEPT ![q] = Append(c[q], i)]
WithoutFirst(c, q) == [c EXCEPT ![q] = Tail(c[q])]

AfterAdd(l, c, q, item) ==
  /\ Holds(AddQueue(l, q, item), WithLast(c, q, item))
  /\ Linked(AddQueue(l, q, item)) = Linked(l) \cup {item}
  /\ \A x \in Item : x # item /\ x \notin Range(c[q]) =>
       AddQueue(l, q, item).next[x] = l.next[x]

AfterDel(l, c, q) ==
  /\ DelQueue(l, q).item = Head(c[q])
  /\ Holds(DelQueue(l, q).lists, WithoutFirst(c, q))
  /\ Linked(DelQueue(l, q).lists) = Linked(l)
  /\ \A x \in Item : x \notin Range(c[q]) \/ x = Head(c[q]) =>
       DelQueue(l, q).lists.next[x] = l.next[x]
  /\ Tail(c[q]) # <<>> => l.next[Head(c[q])] = Head(Tail(c[q]))

LEMMA AddFacts ==
  ASSUME NEW l, NEW c, Holds(l, c), NEW q \in Queues, NEW item \in Item,
         \A r \in Queues : item \notin Range(c[r])
  PROVE  AfterAdd(l, c, q, item)
<1>1. Links!AddQueue(l, q, item) = AddQueue(l, q, item)
  BY SameAdd
<1>2. Holds(AddQueue(l, q, item), WithLast(c, q, item))
  BY <1>1, SameOthers, SameAssumptions, Links!HoldsAdd DEF Holds, WithLast
<1>3. /\ Linked(AddQueue(l, q, item)) = Linked(l) \cup {item}
      /\ \A x \in Item : x # item /\ x \notin Range(c[q]) =>
           AddQueue(l, q, item).next[x] = l.next[x]
  BY <1>1, SameOthers, SameAssumptions, Links!StaleAfterAdd DEF Holds
<1> QED BY <1>2, <1>3 DEF AfterAdd

LEMMA DelFacts ==
  ASSUME NEW l, NEW c, Holds(l, c), NEW q \in Queues, c[q] # <<>>
  PROVE  AfterDel(l, c, q)
<1>1. /\ DelQueue(l, q).item = Head(c[q])
      /\ Holds(DelQueue(l, q).lists, WithoutFirst(c, q))
  BY SameOthers, SameAssumptions, Links!HoldsDel DEF Holds, WithoutFirst
<1>2. /\ Linked(DelQueue(l, q).lists) = Linked(l)
      /\ \A x \in Item : x \notin Range(c[q]) \/ x = Head(c[q]) =>
           DelQueue(l, q).lists.next[x] = l.next[x]
      /\ Tail(c[q]) # <<>> => l.next[Head(c[q])] = Head(Tail(c[q]))
  BY SameOthers, SameAssumptions, Links!StaleAfterDel DEF Holds
<1> QED BY <1>1, <1>2 DEF AfterDel
-----------------------------------------------------------------------------
(***************************************************************************)
(* The items in the queues when one goes in or out.                        *)
(***************************************************************************)
LEMMA QueuedMembers ==
  ASSUME NEW c
  PROVE  \A x : x \in QueuedIn(c) <=> \E q \in Queues : x \in Range(c[q])
BY DEF QueuedIn

LEMMA QueuedItems ==
  ASSUME NEW c \in [Queues -> Seq(Item)]
  PROVE  QueuedIn(c) \subseteq Item
<1> SUFFICES ASSUME NEW x \in QueuedIn(c) PROVE x \in Item
  OBVIOUS
<1>1. PICK q \in Queues : x \in Range(c[q])
  BY QueuedMembers
<1> QED BY <1>1, RangeOfSeq

LEMMA QueuedWithLast ==
  ASSUME NEW c \in [Queues -> Seq(Item)], NEW q \in Queues, NEW i \in Item
  PROVE  /\ WithLast(c, q, i) \in [Queues -> Seq(Item)]
         /\ WithLast(c, q, i)[q] = Append(c[q], i)
         /\ \A r \in Queues : r # q => WithLast(c, q, i)[r] = c[r]
         /\ QueuedIn(WithLast(c, q, i)) = QueuedIn(c) \cup {i}
<1> DEFINE d == WithLast(c, q, i)
<1>1. /\ d \in [Queues -> Seq(Item)] /\ d[q] = Append(c[q], i)
      /\ \A r \in Queues : r # q => d[r] = c[r]
  BY AppendFacts DEF WithLast
<1>2. Range(d[q]) = Range(c[q]) \cup {i}
  BY <1>1, AppendFacts
<1> HIDE DEF d
<1>3. ASSUME NEW x \in QueuedIn(d) PROVE x \in QueuedIn(c) \cup {i}
  <2>1. PICK r \in Queues : x \in Range(d[r])
    BY <1>3, QueuedMembers
  <2>2. x = i \/ x \in Range(c[r])
    BY <1>1, <1>2, <2>1
  <2> QED BY <2>2, QueuedMembers
<1>4. ASSUME NEW x \in QueuedIn(c) PROVE x \in QueuedIn(d)
  <2>1. PICK r \in Queues : x \in Range(c[r])
    BY <1>4, QueuedMembers
  <2>2. x \in Range(d[r])
    BY <1>1, <1>2, <2>1
  <2> QED BY <2>2, QueuedMembers
<1>5. i \in QueuedIn(d)
  BY <1>2, QueuedMembers
<1>6. QueuedIn(d) = QueuedIn(c) \cup {i}
  BY <1>3, <1>4, <1>5
<1> QED BY <1>1, <1>6 DEF d

LEMMA QueuedWithoutFirst ==
  ASSUME NEW c \in [Queues -> Seq(Item)], NEW q \in Queues, c[q] # <<>>
  PROVE  /\ WithoutFirst(c, q) \in [Queues -> Seq(Item)]
         /\ WithoutFirst(c, q)[q] = Tail(c[q])
         /\ \A r \in Queues : r # q => WithoutFirst(c, q)[r] = c[r]
         /\ QueuedIn(c) = QueuedIn(WithoutFirst(c, q)) \cup {Head(c[q])}
<1> DEFINE d == WithoutFirst(c, q)
<1>1. /\ d \in [Queues -> Seq(Item)] /\ d[q] = Tail(c[q])
      /\ \A r \in Queues : r # q => d[r] = c[r]
  BY TailFacts DEF WithoutFirst
<1>2. PICK h : h = Head(c[q])
  OBVIOUS
<1>3. Range(c[q]) = Range(d[q]) \cup {h}
  BY <1>1, <1>2, TailFacts
<1> HIDE DEF d
<1>4. ASSUME NEW x \in QueuedIn(c) PROVE x \in QueuedIn(d) \cup {h}
  <2>1. PICK r \in Queues : x \in Range(c[r])
    BY <1>4, QueuedMembers
  <2>2. x = h \/ x \in Range(d[r])
    BY <1>1, <1>3, <2>1
  <2> QED BY <2>2, QueuedMembers
<1>5. ASSUME NEW x \in QueuedIn(d) PROVE x \in QueuedIn(c)
  <2>1. PICK r \in Queues : x \in Range(d[r])
    BY <1>5, QueuedMembers
  <2>2. x \in Range(c[r])
    BY <1>1, <1>3, <2>1
  <2> QED BY <2>2, QueuedMembers
<1>6. h \in QueuedIn(c)
  BY <1>3, QueuedMembers
<1>7. QueuedIn(c) = QueuedIn(d) \cup {h}
  BY <1>4, <1>5, <1>6
<1> QED BY <1>1, <1>2, <1>7 DEF d

\* What lists' hold is what Held becomes.
LEMMA HeldNext ==
  ASSUME NEW c, Holds(lists', c)
  PROVE  Held' = c /\ Holds(lists, Held)'
<1>1. c \in [Queues -> Seq(Item)] /\ \A q \in Queues : Contents(lists', q) = c[q]
  BY HoldsType
<1>2. Held' = c
  BY <1>1 DEF Held
<1> QED BY <1>2 DEF Holds

\* What is known in every state.
LEMMA Known ==
  ASSUME IInv
  PROVE  /\ Holds(lists, Held) /\ Held \in [Queues -> Seq(Item)]
         /\ Ready \in Queues /\ \A s \in Semaphore : s \in Queues /\ s # Ready
         /\ \A q \in Queues : Curr_Thread \notin Range(Held[q]) /\ Held[q] = Contents(lists, q)
         /\ NULL \notin Item /\ Thread \subseteq Item /\ Parent \subseteq Item
         /\ Thread \cap Parent = {}
         /\ Curr_Thread \in Item => Curr_Thread \in Linked(lists)
<1>1. Holds(lists, Held) /\ SomebodyRuns /\ Placed
  BY DEF IInv
<1>2. Held \in [Queues -> Seq(Item)]
  BY <1>1, HoldsType
<1>3. Ready \in Queues /\ \A s \in Semaphore : s \in Queues /\ s # Ready
  BY EnhancedAssumption DEF Queues
<1>4. \A q \in Queues : Curr_Thread \notin Range(Held[q]) /\ Held[q] = Contents(lists, q)
  BY <1>1 DEF Placed, Held
<1>5. /\ NULL \notin Item /\ Thread \subseteq Item /\ Parent \subseteq Item
      /\ Thread \cap Parent = {}
  BY ItemAssumption, EnhancedAssumption
<1>6. Curr_Thread \in Item => Curr_Thread \in Linked(lists)
  BY <1>1, <1>5 DEF SomebodyRuns, Placed, LiveIn
<1> QED BY <1>1, <1>2, <1>3, <1>4, <1>5, <1>6

(***************************************************************************)
(* A switch.  Lists l, which hold c, can be dispatched from when all the   *)
(* live threads are in queues, r being those that have returned, and       *)
(* main() is ready: then the ready queue is not empty, and when a thread   *)
(* is taken out of it main() is still there, so that the link of the       *)
(* thread leads to the next one.                                           *)
(***************************************************************************)
CanSwitch(l, c, r) ==
  /\ Holds(l, c)
  /\ Parent_Thread \in Parent /\ Parent_Thread \in Range(c[Ready])
  /\ QueuedIn(c) = LiveIn(l, r) \cup {Parent_Thread}

LEMMA Switch ==
  ASSUME NEW l, NEW c, CanSwitch(l, c, returned'), Dispatch(l),
         Parent_Thread' = Parent_Thread
  PROVE  /\ Holds(lists, Held)' /\ Held' = WithoutFirst(c, Ready)
         /\ Linked(lists') = Linked(l)
         /\ SomebodyRuns' /\ Placed' /\ LinkToNext'
<1> DEFINE d == WithoutFirst(c, Ready)
<1>1. /\ Holds(l, c) /\ c \in [Queues -> Seq(Item)] /\ Ready \in Queues
      /\ IsInjective(c[Ready])
      /\ \A q \in Queues : q # Ready => Range(c[Ready]) \cap Range(c[q]) = {}
      /\ Range(c[Ready]) \subseteq Linked(l)
  BY HoldsType DEF CanSwitch, Queues
<1>2. c[Ready] # <<>>
  BY DEF CanSwitch, Range
<1>3. AfterDel(l, c, Ready)
  BY <1>1, <1>2, DelFacts
<1>4. lists' = DelQueue(l, Ready).lists /\ Curr_Thread' = Head(c[Ready])
  BY <1>3 DEF Dispatch, AfterDel
<1>5. Holds(lists', d) /\ Linked(lists') = Linked(l)
  BY <1>4, <1>3 DEF AfterDel
<1>6. Held' = d /\ Holds(lists, Held)'
  BY <1>5, HeldNext
<1>7. /\ Head(c[Ready]) \in Item /\ Head(c[Ready]) \in Range(c[Ready])
      /\ Range(c[Ready]) = Range(Tail(c[Ready])) \cup {Head(c[Ready])}
      /\ Head(c[Ready]) \notin Range(Tail(c[Ready]))
  BY <1>1, <1>2, TailFacts
<1>8. d[Ready] = Tail(c[Ready]) /\ \A q \in Queues : q # Ready => d[q] = c[q]
  BY <1>1, <1>2, QueuedWithoutFirst
<1>9. QueuedIn(c) = QueuedIn(d) \cup {Curr_Thread'}
  BY <1>1, <1>2, <1>4, QueuedWithoutFirst
<1>10. Curr_Thread' # NULL /\ Parent_Thread # NULL
  BY <1>4, <1>7, ItemAssumption, EnhancedAssumption DEF CanSwitch
<1>11. Curr_Thread' \in Thread \cup {Parent_Thread}
  BY <1>9 DEF CanSwitch, LiveIn
<1>12. ASSUME Curr_Thread' \in Thread PROVE Parent_Thread \in Range(d[Ready])
  <2>1. Parent_Thread # Curr_Thread'
    BY <1>12, EnhancedAssumption DEF CanSwitch
  <2> QED BY <1>4, <1>7, <1>8, <2>1 DEF CanSwitch
<1> HIDE DEF d
<1>13. SomebodyRuns'
  BY <1>1, <1>5, <1>10, <1>11 DEF SomebodyRuns, CanSwitch
<1>14. Placed'
  <2>1. \A q \in Queues : Curr_Thread' \notin Range(Held'[q])
    BY <1>1, <1>4, <1>6, <1>7, <1>8
  <2>2. QueuedIn(Held') \cup ({Curr_Thread'} \ {NULL})
          = LiveIn(lists', returned') \cup ({Parent_Thread'} \ {NULL})
    BY <1>5, <1>6, <1>9, <1>10 DEF CanSwitch, LiveIn
  <2>3. Curr_Thread' \in Thread => Parent_Thread' \in Range(Held'[Ready])
    BY <1>6, <1>12
  <2> QED BY <2>1, <2>2, <2>3 DEF Placed, QueuedIn, LiveIn, Linked, Held
<1>15. LinkToNext'
  <2> SUFFICES ASSUME Curr_Thread' \in Thread
               PROVE  lists'.next[Curr_Thread'] = Head(Held'[Ready])
    BY DEF LinkToNext
  <2>1. Tail(c[Ready]) # <<>>
    BY <1>8, <1>12 DEF Range
  <2>2. l.next[Head(c[Ready])] = Head(Tail(c[Ready]))
    BY <1>3, <2>1 DEF AfterDel
  <2>3. DelQueue(l, Ready).lists.next[Head(c[Ready])] = l.next[Head(c[Ready])]
    BY <1>7, <1>3 DEF AfterDel
  <2> QED BY <1>4, <1>6, <1>8, <2>2, <2>3
<1> QED BY <1>5, <1>6, <1>13, <1>14, <1>15 DEF d

\* The live threads are finitely many: counting one more, or one less.
LEMMA LiveCount ==
  ASSUME NEW l, NEW r
  PROVE  /\ Cardinality(LiveIn(l, r)) \in Nat
         /\ \A x : x \notin LiveIn(l, r) =>
              Cardinality(LiveIn(l, r) \cup {x}) = Cardinality(LiveIn(l, r)) + 1
         /\ \A x : x \in LiveIn(l, r) =>
              Cardinality(LiveIn(l, r) \ {x}) = Cardinality(LiveIn(l, r)) - 1
<1>1. IsFiniteSet(LiveIn(l, r))
  <2>1. LiveIn(l, r) \in SUBSET Item
    BY EnhancedAssumption DEF LiveIn
  <2> QED BY <2>1, ItemAssumption, FS_Subset
<1> QED BY <1>1, FS_CardinalityType, FS_AddElement, FS_RemoveElement

(***************************************************************************)
(* One action after the other.                                             *)
(***************************************************************************)
LEMMA StartInv ==
  ASSUME IInv, NEW t \in Thread, start_thread(t)
  PROVE  IInv'
<1> DEFINE d == WithLast(Held, Ready, t)
<1>1. /\ lists' = AddQueue(lists, Ready, t) /\ t \notin Linked(lists)
      /\ Curr_Thread' = Curr_Thread /\ Parent_Thread' = Parent_Thread
      /\ count' = count /\ returned' = returned /\ thread_count' = thread_count + 1
      /\ t \in Item
  BY Known DEF start_thread, Fresh, Linked
<1>2. \A q \in Queues : t \notin Range(Held[q])
  BY <1>1, Known, HoldsType
<1>3. AfterAdd(lists, Held, Ready, t)
  BY <1>1, <1>2, Known, AddFacts
<1>4. Holds(lists', d) /\ Linked(lists') = Linked(lists) \cup {t}
  BY <1>1, <1>3 DEF AfterAdd
<1>5. Held' = d /\ Holds(lists, Held)'
  BY <1>4, HeldNext
<1>6. QueuedIn(d) = QueuedIn(Held) \cup {t}
  BY <1>1, Known, QueuedWithLast
<1>7. /\ d[Ready] = Append(Held[Ready], t) /\ \A q \in Queues : q # Ready => d[q] = Held[q]
      /\ Range(d[Ready]) = Range(Held[Ready]) \cup {t}
      /\ Held[Ready] # <<>> => Head(d[Ready]) = Head(Held[Ready])
  <2>1. Held[Ready] \in Seq(Item)
    BY Known
  <2>2. /\ Range(Append(Held[Ready], t)) = Range(Held[Ready]) \cup {t}
        /\ Held[Ready] # <<>> => Head(Append(Held[Ready], t)) = Head(Held[Ready])
    BY <1>1, <2>1, AppendFacts, AppendProperties
  <2>3. d[Ready] = Append(Held[Ready], t) /\ \A q \in Queues : q # Ready => d[q] = Held[q]
    BY <1>1, Known, QueuedWithLast
  <2> HIDE DEF d
  <2> QED BY <2>2, <2>3
<1> HIDE DEF d
<1>8. CountsMatch(d, count)
  BY <1>7, Known DEF IInv, CountsMatch
<1>9. LiveIn(lists', returned') = LiveIn(lists, returned) \cup {t} /\ t \notin LiveIn(lists, returned)
  BY <1>1, <1>4 DEF IInv, Counted, LiveIn
<1>10. SomebodyRuns'
  BY <1>1, <1>4 DEF IInv, SomebodyRuns
<1>11. Placed'
  <2>1. Placed /\ Curr_Thread # t
    BY <1>1, Known DEF IInv
  <2>2. \A q \in Queues : Curr_Thread \notin Range(d[q])
    BY <1>7, <2>1, Known
  <2>3. QueuedIn(d) \cup ({Curr_Thread} \ {NULL})
          = LiveIn(lists', returned') \cup ({Parent_Thread} \ {NULL})
    BY <1>6, <1>9, <2>1 DEF Placed
  <2>4. Curr_Thread \in Thread => Parent_Thread \in Range(d[Ready])
    BY <1>7, <2>1 DEF Placed
  <2> QED BY <1>1, <1>5, <2>2, <2>3, <2>4 DEF Placed, QueuedIn, LiveIn, Linked, Held
<1>12. LinkToNext'
  <2> SUFFICES ASSUME Curr_Thread \in Thread
               PROVE  lists'.next[Curr_Thread] = Head(d[Ready])
    BY <1>1, <1>5 DEF LinkToNext
  <2>1. Held[Ready] # <<>> /\ lists.next[Curr_Thread] = Head(Held[Ready])
    BY DEF IInv, Placed, LinkToNext, Range
  <2>2. Curr_Thread \in Item /\ Curr_Thread # t /\ Curr_Thread \notin Range(Held[Ready])
    BY <1>1, Known
  <2>3. AddQueue(lists, Ready, t).next[Curr_Thread] = lists.next[Curr_Thread]
    BY <1>3, <2>2 DEF AfterAdd
  <2> QED BY <1>1, <1>7, <2>1, <2>3
<1>13. Counted'
  BY <1>1, <1>4, <1>9, LiveCount DEF IInv, Counted
<1> QED BY <1>1, <1>5, <1>8, <1>10, <1>11, <1>12, <1>13 DEF IInv

LEMMA RunInv ==
  ASSUME IInv, MinReady >= 2, NEW p \in Parent, run(p)
  PROVE  IInv'
<1> DEFINE l == DelQueue(lists, Ready).lists
           c == WithoutFirst(Held, Ready)
           d == WithLast(c, Ready, p)
<1>1. /\ Curr_Thread = Parent_Thread /\ p \notin Linked(lists) /\ p \in Item
      /\ Curr_Thread' = DelQueue(lists, Ready).item /\ Parent_Thread' = p
      /\ lists' = AddQueue(l, Ready, p)
      /\ thread_count' = thread_count /\ count' = count /\ returned' = returned
      /\ Len(Held[Ready]) >= MinReady
  BY Known DEF run, InMain, Fresh, Linked
<1>2. Held[Ready] \in Seq(Item) /\ Held[Ready] # <<>> /\ Tail(Held[Ready]) # <<>>
  <2>1. Held[Ready] \in Seq(Item) /\ Len(Held[Ready]) >= 2 /\ Len(Held[Ready]) \in Nat
    BY <1>1, Known, LenProperties, EnhancedAssumption
  <2>2. Held[Ready] # <<>>
    BY <2>1
  <2>3. Len(Tail(Held[Ready])) = Len(Held[Ready]) - 1
    BY <2>1, <2>2, TailFacts
  <2>4. Tail(Held[Ready]) # <<>>
    <3>1. PICK u : u = Tail(Held[Ready])
      OBVIOUS
    <3>2. Len(u) # 0
      BY <2>1, <2>3, <3>1
    <3>3. u # <<>>
      BY <3>2, EmptySeq
    <3> QED BY <3>1, <3>3
  <2> QED BY <2>1, <2>2, <2>4
<1>3. AfterDel(lists, Held, Ready)
  BY <1>2, Known, DelFacts
<1>4. /\ c \in [Queues -> Seq(Item)] /\ c[Ready] = Tail(Held[Ready])
      /\ \A q \in Queues : q # Ready => c[q] = Held[q]
      /\ QueuedIn(Held) = QueuedIn(c) \cup {Head(Held[Ready])}
  BY <1>2, Known, QueuedWithoutFirst
<1>5. Holds(l, c) /\ Linked(l) = Linked(lists) /\ Curr_Thread' = Head(Held[Ready])
  BY <1>1, <1>3 DEF AfterDel
<1>6. \A q \in Queues : p \notin Range(c[q])
  BY <1>1, <1>5, HoldsType
<1>7. /\ Head(Held[Ready]) \in Item /\ Head(Held[Ready]) \notin Range(Tail(Held[Ready]))
      /\ Head(Held[Ready]) \in Range(Held[Ready])
      /\ \A q \in Queues : q # Ready => Head(Held[Ready]) \notin Range(Held[q])
  <2>1. /\ Head(Held[Ready]) \in Item /\ Head(Held[Ready]) \in Range(Held[Ready])
        /\ IsInjective(Held[Ready]) => Head(Held[Ready]) \notin Range(Tail(Held[Ready]))
    BY <1>2, TailFacts
  <2>2. /\ IsInjective(Held[Ready])
        /\ \A q \in Queues : q # Ready => Range(Held[Ready]) \cap Range(Held[q]) = {}
    BY Known, HoldsType
  <2> QED BY <2>1, <2>2
<1>8. \A q \in Queues : Head(Held[Ready]) \notin Range(c[q])
  BY <1>4, <1>7
<1> HIDE DEF c, l
<1>9. AfterAdd(l, c, Ready, p)
  BY <1>1, <1>5, <1>6, Known, AddFacts
<1>10. Holds(lists', d) /\ Linked(lists') = Linked(lists) \cup {p}
  BY <1>1, <1>5, <1>9 DEF AfterAdd
<1>11. Held' = d /\ Holds(lists, Held)'
  BY <1>10, HeldNext
<1>12. /\ d[Ready] = Append(c[Ready], p) /\ \A q \in Queues : q # Ready => d[q] = c[q]
       /\ QueuedIn(d) = QueuedIn(c) \cup {p}
  <2>1. c \in [Queues -> Seq(Item)] /\ Ready \in Queues /\ p \in Item
    BY <1>1, <1>4, Known
  <2> QED BY <2>1, QueuedWithLast
<1> HIDE DEF d
<1>13. /\ Range(d[Ready]) = Range(c[Ready]) \cup {p}
       /\ Head(d[Ready]) = Head(Tail(Held[Ready]))
  <2>1. c[Ready] \in Seq(Item) /\ c[Ready] # <<>>
    BY <1>2, <1>4, Known
  <2>2. /\ Range(Append(c[Ready], p)) = Range(c[Ready]) \cup {p}
        /\ Head(Append(c[Ready], p)) = Head(c[Ready])
    BY <1>1, <2>1, AppendFacts, AppendProperties
  <2> QED BY <1>4, <1>12, <2>2
\* main() runs: nobody else does, and the queues hold the live threads.
<1>14. QueuedIn(Held) = LiveIn(lists, returned)
  <2>1. Placed /\ Curr_Thread = Parent_Thread
    BY <1>1 DEF IInv
  <2>2. Curr_Thread \notin QueuedIn(Held)
    BY <2>1, QueuedMembers DEF Placed
  <2>3. NULL \notin QueuedIn(Held)
    <3>1. QueuedIn(Held) \subseteq Item
      BY Known, QueuedItems
    <3> QED BY <3>1, Known
  <2>4. Parent_Thread \notin LiveIn(lists, returned) /\ NULL \notin LiveIn(lists, returned)
    BY Known, EnhancedAssumption DEF IInv, SomebodyRuns, LiveIn
  <2> QED BY <2>1, <2>2, <2>3, <2>4 DEF Placed
<1>15. Head(Held[Ready]) \in Thread
  BY <1>7, <1>14, Known, QueuedMembers DEF LiveIn
<1>16. LiveIn(lists', returned') = LiveIn(lists, returned)
  BY <1>1, <1>10, Known DEF LiveIn
<1>17. CountsMatch(d, count)
  BY <1>4, <1>12, Known DEF IInv, CountsMatch
<1>18. SomebodyRuns'
  BY <1>1, <1>5, <1>10, <1>15, Known DEF SomebodyRuns
<1>19. Placed'
  <2>1. \A q \in Queues : Head(Held[Ready]) \notin Range(d[q])
    BY <1>8, <1>12, <1>13, <1>15, Known
  <2>2. QueuedIn(d) \cup ({Head(Held[Ready])} \ {NULL})
          = LiveIn(lists', returned') \cup ({p} \ {NULL})
    BY <1>1, <1>4, <1>7, <1>12, <1>14, <1>16, Known
  <2>3. \A q \in Queues : Curr_Thread' \notin Range(Held'[q])
    BY <1>5, <1>11, <2>1
  <2>4. QueuedIn(Held') \cup ({Curr_Thread'} \ {NULL})
          = LiveIn(lists', returned') \cup ({Parent_Thread'} \ {NULL})
    BY <1>1, <1>5, <1>11, <2>2
  <2>5. Parent_Thread' \in Range(Held'[Ready])
    BY <1>1, <1>11, <1>13
  <2> QED BY <2>3, <2>4, <2>5 DEF Placed, QueuedIn, LiveIn, Linked, Held
<1>20. LinkToNext'
  <2>1. lists.next[Head(Held[Ready])] = Head(Tail(Held[Ready]))
    BY <1>2, <1>3 DEF AfterDel
  <2>2. l.next[Head(Held[Ready])] = lists.next[Head(Held[Ready])]
    BY <1>3, <1>7 DEF AfterDel, l
  <2>3. Head(Held[Ready]) # p /\ Head(Held[Ready]) \notin Range(c[Ready])
    BY <1>8, <1>15, Known
  <2>4. AddQueue(l, Ready, p).next[Head(Held[Ready])] = l.next[Head(Held[Ready])]
    BY <1>7, <1>9, <2>3 DEF AfterAdd
  <2> QED BY <1>1, <1>5, <1>11, <1>13, <2>1, <2>2, <2>4 DEF LinkToNext
<1>21. Counted'
  BY <1>1, <1>10, <1>16 DEF IInv, Counted
<1> QED BY <1>1, <1>11, <1>17, <1>18, <1>19, <1>20, <1>21 DEF IInv

\* While a thread or main() runs, after the first run().
LEMMA Running ==
  ASSUME IInv, Scheduled
  PROVE  /\ Curr_Thread \in Item /\ Curr_Thread \in Linked(lists)
         /\ Curr_Thread \in Thread \cup {Parent_Thread}
         /\ Parent_Thread \in Parent /\ Parent_Thread # NULL
         /\ QueuedIn(Held) \cup {Curr_Thread} = LiveIn(lists, returned) \cup {Parent_Thread}
         /\ Curr_Thread \in Thread => Parent_Thread \in Range(Held[Ready])
<1>1. Curr_Thread \in Item /\ Curr_Thread \in Linked(lists) /\ Curr_Thread # NULL
  BY Known DEF Scheduled
<1>2. Parent_Thread # NULL /\ Parent_Thread \in Parent
  BY <1>1 DEF IInv, SomebodyRuns
<1> QED BY <1>1, <1>2 DEF IInv, SomebodyRuns, Placed

\* Lists on which the others, that is all but the running one, are in c.
LEMMA YieldFacts ==
  ASSUME IInv, yield, Parent_Thread' = Parent_Thread, returned' = returned
  PROVE  /\ Holds(lists, Held)' /\ Linked(lists') = Linked(lists)
         /\ SomebodyRuns' /\ Placed' /\ LinkToNext'
         /\ \A s \in Semaphore : Held'[s] = Held[s]
<1> DEFINE l == AddQueue(lists, Ready, Curr_Thread)
           c == WithLast(Held, Ready, Curr_Thread)
<1>1. Scheduled /\ Dispatch(l)
  BY DEF yield
<1>2. AfterAdd(lists, Held, Ready, Curr_Thread)
  BY <1>1, Known, Running, AddFacts
<1>3. /\ c \in [Queues -> Seq(Item)] /\ c[Ready] = Append(Held[Ready], Curr_Thread)
      /\ \A q \in Queues : q # Ready => c[q] = Held[q]
      /\ QueuedIn(c) = QueuedIn(Held) \cup {Curr_Thread}
  BY <1>1, Known, Running, QueuedWithLast
<1>4. Holds(l, c) /\ Linked(l) = Linked(lists)
  BY <1>1, <1>2, Running DEF AfterAdd
<1> HIDE DEF l, c
<1>5. Range(c[Ready]) = Range(Held[Ready]) \cup {Curr_Thread}
  <2>1. Held[Ready] \in Seq(Item) /\ Curr_Thread \in Item
    BY <1>1, Known, Running
  <2> QED BY <1>3, <2>1, AppendFacts
<1>6. CanSwitch(l, c, returned')
  BY <1>1, <1>3, <1>4, <1>5, Running DEF CanSwitch, LiveIn
<1>7. /\ Holds(lists, Held)' /\ Held' = WithoutFirst(c, Ready)
      /\ Linked(lists') = Linked(l)
      /\ SomebodyRuns' /\ Placed' /\ LinkToNext'
  BY <1>1, <1>6, Switch
<1>8. \A s \in Semaphore : Held'[s] = Held[s]
  BY <1>3, <1>7, Known DEF WithoutFirst
<1> QED BY <1>4, <1>7, <1>8

\* The counters of threads when nobody starts and nobody returns.
LEMMA StillCounted ==
  ASSUME IInv, Linked(lists') = Linked(lists), returned' = returned,
         thread_count' = thread_count
  PROVE  Counted'
BY DEF IInv, Counted, LiveIn

LEMMA YieldInv ==
  ASSUME IInv, yield, UNCHANGED <<Parent_Thread, thread_count, count, returned>>
  PROVE  IInv'
<1>1. /\ Holds(lists, Held)' /\ Linked(lists') = Linked(lists)
      /\ SomebodyRuns' /\ Placed' /\ LinkToNext'
      /\ \A s \in Semaphore : Held'[s] = Held[s]
  BY YieldFacts
<1>2. Counted'
  BY <1>1, StillCounted
<1>3. CountsMatch(Held', count)
  BY <1>1 DEF IInv, CountsMatch
<1> QED BY <1>1, <1>2, <1>3 DEF IInv

(***************************************************************************)
(* cleanup(): the thread that returns is in no queue, so that the others   *)
(* can be dispatched from the queues as they are; and the link it follows  *)
(* is what DelQueue of the ready queue gives.                              *)
(***************************************************************************)
LEMMA CleanupFacts ==
  ASSUME IInv, cleanup
  PROVE  /\ CanSwitch(lists, Held, returned') /\ Dispatch(lists)
         /\ Held[Ready] # <<>> /\ Curr_Thread' = Head(Held[Ready])
         /\ Curr_Thread \in LiveIn(lists, returned)
<1>1. /\ Curr_Thread \in Thread /\ Curr_Thread' = lists.next[Curr_Thread]
      /\ lists' = DelQueue(lists, Ready).lists
      /\ returned' = returned \cup {Curr_Thread}
  BY DEF cleanup
<1>2. Scheduled
  BY <1>1, Known DEF Scheduled
<1>3. /\ Parent_Thread \in Parent /\ Parent_Thread \in Range(Held[Ready])
      /\ Parent_Thread # Curr_Thread
      /\ QueuedIn(Held) \cup {Curr_Thread} = LiveIn(lists, returned) \cup {Parent_Thread}
  BY <1>1, <1>2, Running, Known
<1>4. Curr_Thread \notin QueuedIn(Held)
  BY Known, QueuedMembers
<1>5. CanSwitch(lists, Held, returned')
  BY <1>1, <1>3, <1>4, Known DEF CanSwitch, LiveIn
<1>6. Held[Ready] # <<>>
  BY <1>3 DEF Range
<1>7. Curr_Thread' = Head(Held[Ready])
  BY <1>1 DEF IInv, LinkToNext
<1>8. DelQueue(lists, Ready).item = Head(Held[Ready])
  BY <1>6, Known, DelFacts DEF AfterDel
<1>9. Dispatch(lists)
  BY <1>1, <1>7, <1>8 DEF Dispatch
<1> QED BY <1>3, <1>5, <1>6, <1>7, <1>9

LEMMA CleanupInv ==
  ASSUME IInv, cleanup
  PROVE  IInv'
<1>1. /\ CanSwitch(lists, Held, returned') /\ Dispatch(lists)
      /\ Curr_Thread \in LiveIn(lists, returned)
  BY CleanupFacts
<1>2. /\ Parent_Thread' = Parent_Thread /\ count' = count
      /\ thread_count' = thread_count - 1 /\ returned' = returned \cup {Curr_Thread}
  BY DEF cleanup
<1>3. /\ Holds(lists, Held)' /\ Held' = WithoutFirst(Held, Ready)
      /\ Linked(lists') = Linked(lists)
      /\ SomebodyRuns' /\ Placed' /\ LinkToNext'
  BY <1>1, <1>2, Switch
<1>4. LiveIn(lists', returned') = LiveIn(lists, returned) \ {Curr_Thread}
  BY <1>2, <1>3 DEF LiveIn
<1>5. Counted'
  <2>1. Curr_Thread \in Thread \cap Linked(lists)
    BY <1>1 DEF LiveIn
  <2> QED BY <1>1, <1>2, <1>3, <1>4, <2>1, LiveCount DEF IInv, Counted
<1>6. CountsMatch(Held', count)
  BY <1>3, Known DEF IInv, CountsMatch, WithoutFirst
<1> QED BY <1>2, <1>3, <1>5, <1>6 DEF IInv

LEMMA PInv ==
  ASSUME IInv, ~MainBlocks, NEW s \in Semaphore, P(s)
  PROVE  IInv'
<1>1. /\ Scheduled /\ Curr_Thread # Parent_Thread
      /\ count' = [count EXCEPT ![s] = count[s] - 1]
      /\ Parent_Thread' = Parent_Thread /\ thread_count' = thread_count
      /\ returned' = returned
  BY DEF P, InMain
<1>2. count \in [Semaphore -> Int] /\ count' \in [Semaphore -> Int] /\ CountsMatch(Held, count)
  BY <1>1 DEF IInv
<1>3. CASE count'[s] < 0 /\ Dispatch(AddQueue(lists, s, Curr_Thread))
  <2> DEFINE l == AddQueue(lists, s, Curr_Thread)
             c == WithLast(Held, s, Curr_Thread)
  <2>1. s \in Queues /\ s # Ready /\ Ready \in Queues
    BY Known
  <2>2. AfterAdd(lists, Held, s, Curr_Thread)
    BY <1>1, <2>1, Known, Running, AddFacts
  <2>3. /\ c \in [Queues -> Seq(Item)] /\ c[s] = Append(Held[s], Curr_Thread)
        /\ \A q \in Queues : q # s => c[q] = Held[q]
        /\ QueuedIn(c) = QueuedIn(Held) \cup {Curr_Thread}
    <3>1. Held \in [Queues -> Seq(Item)] /\ Curr_Thread \in Item
      BY <1>1, Known, Running
    <3> QED BY <2>1, <3>1, QueuedWithLast
  <2>4. Holds(l, c) /\ Linked(l) = Linked(lists)
    BY <1>1, <2>2, Running DEF AfterAdd
  <2>5. Len(c[s]) = Len(Held[s]) + 1 /\ Len(Held[s]) \in Nat
    <3>1. Held[s] \in Seq(Item) /\ Curr_Thread \in Item
      BY <1>1, <2>1, Known, Running
    <3> QED BY <2>3, <3>1, AppendFacts, LenProperties
  <2> HIDE DEF l, c
  <2>6. CanSwitch(l, c, returned')
    BY <1>1, <2>1, <2>3, <2>4, Running DEF CanSwitch, LiveIn
  <2>7. /\ Holds(lists, Held)' /\ Held' = WithoutFirst(c, Ready)
        /\ Linked(lists') = Linked(l)
        /\ SomebodyRuns' /\ Placed' /\ LinkToNext'
    BY <1>1, <1>3, <2>6, Switch DEF l
  <2>8. \A r \in Semaphore : Held'[r] = c[r]
    BY <2>3, <2>7, Known DEF WithoutFirst
  <2>9. CountsMatch(Held', count')
    <3>1. Len(Held'[s]) = -(count[s] - 1) /\ count'[s] = count[s] - 1
      BY <1>1, <1>2, <1>3, <2>5, <2>8 DEF CountsMatch
    <3>2. ASSUME NEW r \in Semaphore, r # s PROVE Held'[r] = Held[r] /\ count'[r] = count[r]
      BY <1>1, <1>2, <2>3, <2>8, <3>2, Known
    <3> QED BY <1>2, <1>3, <3>1, <3>2 DEF CountsMatch
  <2>10. Counted'
    BY <1>1, <2>4, <2>7, StillCounted
  <2> QED BY <1>2, <2>7, <2>9, <2>10 DEF IInv
<1>4. CASE count'[s] >= 0 /\ UNCHANGED <<lists, Curr_Thread>>
  <2>1. Held' = Held
    BY <1>4 DEF Held
  <2>2. CountsMatch(Held', count')
    <3>1. count'[s] = count[s] - 1 /\ \A r \in Semaphore : r # s => count'[r] = count[r]
      BY <1>1, <1>2
    <3> QED BY <1>2, <1>4, <2>1, <3>1 DEF CountsMatch
  <2>3. Counted'
    BY <1>1, <1>4, StillCounted
  <2>4. Holds(lists, Held)' /\ SomebodyRuns' /\ Placed' /\ LinkToNext'
    BY <1>1, <1>4, <2>1 DEF IInv, SomebodyRuns, Placed, LinkToNext, Holds
  <2> QED BY <1>2, <2>2, <2>3, <2>4 DEF IInv
<1> QED BY <1>3, <1>4 DEF P

\* V that wakes: the caller and the thread that waits longest become ready.
LEMMA WakeFacts ==
  ASSUME IInv, Scheduled, NEW s \in Semaphore, Held[s] # <<>>,
         Parent_Thread' = Parent_Thread, returned' = returned,
         Dispatch(AddQueue(AddQueue(DelQueue(lists, s).lists, Ready, DelQueue(lists, s).item),
                           Ready, Curr_Thread))
  PROVE  /\ Holds(lists, Held)' /\ Linked(lists') = Linked(lists)
         /\ SomebodyRuns' /\ Placed' /\ LinkToNext'
         /\ Held'[s] = Tail(Held[s])
         /\ \A r \in Semaphore : r # s => Held'[r] = Held[r]
<1> DEFINE h == Head(Held[s])
           l1 == DelQueue(lists, s).lists
           l2 == AddQueue(l1, Ready, h)
           l3 == AddQueue(l2, Ready, Curr_Thread)
           c1 == WithoutFirst(Held, s)
           c2 == WithLast(c1, Ready, h)
           c3 == WithLast(c2, Ready, Curr_Thread)
<1>1. s \in Queues /\ s # Ready /\ Ready \in Queues /\ Held[s] \in Seq(Item)
  BY Known
<1>2. AfterDel(lists, Held, s)
  BY <1>1, Known, DelFacts
<1>3. /\ c1 \in [Queues -> Seq(Item)] /\ c1[s] = Tail(Held[s])
      /\ \A q \in Queues : q # s => c1[q] = Held[q]
      /\ QueuedIn(Held) = QueuedIn(c1) \cup {h}
  BY <1>1, Known, QueuedWithoutFirst
<1>4. Holds(l1, c1) /\ Linked(l1) = Linked(lists) /\ DelQueue(lists, s).item = h
  BY <1>2 DEF AfterDel
<1>5. /\ h \in Item /\ h \in Range(Held[s]) /\ Range(Held[s]) = Range(Tail(Held[s])) \cup {h}
      /\ IsInjective(Held[s]) => h \notin Range(Tail(Held[s]))
  BY <1>1, TailFacts
<1>6. /\ IsInjective(Held[s]) /\ h \in Linked(lists)
      /\ \A q \in Queues : q # s => Range(Held[s]) \cap Range(Held[q]) = {}
  <2>1. /\ IsInjective(Held[s]) /\ Range(Held[s]) \subseteq Linked(lists)
        /\ \A q \in Queues : q # s => Range(Held[s]) \cap Range(Held[q]) = {}
    BY <1>1, Known, HoldsType
  <2> QED BY <1>5, <2>1
<1>7. Curr_Thread \in Item /\ Curr_Thread # h /\ \A q \in Queues : Curr_Thread \notin Range(Held[q])
  BY <1>1, <1>5, Known, Running
<1> HIDE DEF h, c1, l1
<1>8. \A q \in Queues : h \notin Range(c1[q]) /\ Curr_Thread \notin Range(c1[q])
  BY <1>3, <1>5, <1>6, <1>7
<1>9. AfterAdd(l1, c1, Ready, h)
  BY <1>1, <1>4, <1>5, <1>8, AddFacts
<1>10. /\ c2 \in [Queues -> Seq(Item)] /\ c2[Ready] = Append(c1[Ready], h)
       /\ \A q \in Queues : q # Ready => c2[q] = c1[q]
       /\ QueuedIn(c2) = QueuedIn(c1) \cup {h}
  <2>1. c1 \in [Queues -> Seq(Item)] /\ Ready \in Queues /\ h \in Item
    BY <1>1, <1>3, <1>5
  <2> QED BY <2>1, QueuedWithLast
<1>11. Range(c2[Ready]) = Range(c1[Ready]) \cup {h}
  <2>1. c1[Ready] \in Seq(Item)
    BY <1>1, <1>3
  <2> QED BY <1>5, <1>10, <2>1, AppendFacts
<1>12. Holds(l2, c2) /\ Linked(l2) = Linked(lists)
  BY <1>4, <1>6, <1>9 DEF AfterAdd
<1> HIDE DEF c2, l2
<1>13. \A q \in Queues : Curr_Thread \notin Range(c2[q])
  BY <1>7, <1>8, <1>10, <1>11
<1>14. AfterAdd(l2, c2, Ready, Curr_Thread)
  BY <1>1, <1>7, <1>12, <1>13, AddFacts
<1>15. /\ c3 \in [Queues -> Seq(Item)] /\ c3[Ready] = Append(c2[Ready], Curr_Thread)
       /\ \A q \in Queues : q # Ready => c3[q] = c2[q]
       /\ QueuedIn(c3) = QueuedIn(c2) \cup {Curr_Thread}
  <2>1. c2 \in [Queues -> Seq(Item)] /\ Ready \in Queues /\ Curr_Thread \in Item
    BY <1>1, <1>7, <1>10
  <2> QED BY <2>1, QueuedWithLast
<1>16. Range(c3[Ready]) = Range(c2[Ready]) \cup {Curr_Thread}
  <2>1. c2[Ready] \in Seq(Item)
    BY <1>1, <1>10
  <2> QED BY <1>7, <1>15, <2>1, AppendFacts
<1>17. Holds(l3, c3) /\ Linked(l3) = Linked(lists)
  BY <1>12, <1>14, Running DEF AfterAdd
<1>18. Dispatch(l3)
  BY <1>4 DEF l2, l1
<1> HIDE DEF c3, l3
<1>19. CanSwitch(l3, c3, returned')
  <2>1. QueuedIn(c3) = LiveIn(l3, returned') \cup {Parent_Thread}
    BY <1>3, <1>10, <1>15, <1>17, Running DEF LiveIn
  <2>2. Parent_Thread \in Range(c3[Ready])
    BY <1>1, <1>3, <1>11, <1>16, Running
  <2> QED BY <1>17, <2>1, <2>2, Running DEF CanSwitch
<1>20. /\ Holds(lists, Held)' /\ Held' = WithoutFirst(c3, Ready)
       /\ Linked(lists') = Linked(l3)
       /\ SomebodyRuns' /\ Placed' /\ LinkToNext'
  BY <1>18, <1>19, Switch
<1>21. \A r \in Semaphore : Held'[r] = c1[r]
  BY <1>10, <1>15, <1>20, Known DEF WithoutFirst
<1> QED BY <1>1, <1>3, <1>17, <1>20, <1>21, Known

LEMMA VInv ==
  ASSUME IInv, NEW s \in Semaphore, V(s)
  PROVE  IInv'
<1>1. /\ Scheduled
      /\ count' = [count EXCEPT ![s] = count[s] + 1]
      /\ Parent_Thread' = Parent_Thread /\ thread_count' = thread_count
      /\ returned' = returned
  BY DEF V
<1>2. count \in [Semaphore -> Int] /\ count' \in [Semaphore -> Int] /\ CountsMatch(Held, count)
  BY <1>1 DEF IInv
<1>3. count'[s] = count[s] + 1 /\ \A r \in Semaphore : r # s => count'[r] = count[r]
  BY <1>1, <1>2
<1>4. CASE count'[s] <= 0 /\ Dispatch(AddQueue(AddQueue(DelQueue(lists, s).lists, Ready,
                                               DelQueue(lists, s).item), Ready, Curr_Thread))
  <2>1. Held[s] \in Seq(Item) /\ Len(Held[s]) = -count[s] /\ Len(Held[s]) > 0
    BY <1>2, <1>3, <1>4, Known DEF CountsMatch
  <2>2. Held[s] # <<>>
    BY <2>1
  <2>3. /\ Holds(lists, Held)' /\ Linked(lists') = Linked(lists)
        /\ SomebodyRuns' /\ Placed' /\ LinkToNext'
        /\ Held'[s] = Tail(Held[s])
        /\ \A r \in Semaphore : r # s => Held'[r] = Held[r]
    BY <1>1, <1>4, <2>2, WakeFacts
  <2>4. Len(Held'[s]) = Len(Held[s]) - 1
    BY <2>1, <2>2, <2>3, TailFacts
  <2>5. CountsMatch(Held', count')
    <3>1. Len(Held'[s]) = IF count'[s] < 0 THEN -count'[s] ELSE 0
      <4>1. count[s] \in Int
        BY <1>2
      <4>2. PICK n : n = Len(Held'[s])
        OBVIOUS
      <4>3. n = -count[s] - 1
        BY <2>1, <2>4, <4>2
      <4> QED BY <1>3, <1>4, <4>1, <4>2, <4>3
    <3>2. ASSUME NEW r \in Semaphore, r # s PROVE Held'[r] = Held[r] /\ count'[r] = count[r]
      BY <1>3, <2>3, <3>2
    <3> QED BY <1>2, <3>1, <3>2 DEF CountsMatch
  <2>6. Counted'
    BY <1>1, <2>3, StillCounted
  <2> QED BY <1>2, <2>3, <2>5, <2>6 DEF IInv
<1>5. CASE count'[s] > 0 /\ yield
  <2>1. /\ Holds(lists, Held)' /\ Linked(lists') = Linked(lists)
        /\ SomebodyRuns' /\ Placed' /\ LinkToNext'
        /\ \A r \in Semaphore : Held'[r] = Held[r]
    BY <1>1, <1>5, YieldFacts
  <2>2. Counted'
    BY <1>1, <2>1, StillCounted
  <2>3. CountsMatch(Held', count')
    BY <1>2, <1>3, <1>5, <2>1 DEF CountsMatch
  <2> QED BY <1>2, <2>1, <2>2, <2>3 DEF IInv
<1> QED BY <1>4, <1>5 DEF V
-----------------------------------------------------------------------------
(***************************************************************************)
(* The invariant holds.                                                    *)
(***************************************************************************)
LEMMA InitIInv == initThreads => IInv
<1> SUFFICES ASSUME initThreads PROVE IInv
  OBVIOUS
<1> DEFINE c == [q \in Queues |-> <<>>]
<1>1. /\ lists = NewQueue(Queues) /\ Curr_Thread = NULL /\ Parent_Thread = NULL
      /\ thread_count = 0 /\ count = InputValue /\ returned = {}
  BY DEF initThreads
<1>2. Range(<<>>) = {} /\ IsInjective(<<>>) /\ Len(<<>>) = 0 /\ <<>> \in Seq(Item)
  BY DEF Range, IsInjective
<1>3. /\ lists \in Lists(Queues) /\ \A q \in Queues : lists.head[q] = NULL
      /\ Linked(lists) = {}
  BY <1>1 DEF NewQueue, Lists, Linked
<1>4. Holds(lists, c)
  <2>1. \A q \in Queues : Links!Ring(lists, q, <<>>)
    BY <1>2, <1>3 DEF Links!Ring, IsInjective, Links!IsInjective
  <2>2. c \in [Queues -> Seq(Item)] /\ \A q \in Queues : Links!Range(c[q]) = {}
    BY <1>2, SameOthers
  <2> QED BY <1>3, <2>1, <2>2, SameOthers DEF Holds, Links!Holds
<1>5. \A q \in Queues : Contents(lists, q) = <<>>
  BY <1>4, HoldsType
<1>6. Held = c
  BY <1>5 DEF Held
<1>7. LiveIn(lists, returned) = {} /\ QueuedIn(Held) = {}
  BY <1>2, <1>3, <1>6 DEF LiveIn, QueuedIn
<1>8. CountsMatch(Held, count) /\ count \in [Semaphore -> Int]
  BY <1>1, <1>2, <1>6, EnhancedAssumption DEF CountsMatch, Queues
<1>9. NULL \notin Thread
  BY ItemAssumption, EnhancedAssumption
<1>10. SomebodyRuns /\ Placed /\ LinkToNext
  BY <1>1, <1>2, <1>6, <1>7, <1>9 DEF SomebodyRuns, Placed, LinkToNext
<1>11. Counted
  BY <1>1, <1>3, <1>7, FS_EmptySet DEF Counted
<1> QED BY <1>4, <1>6, <1>8, <1>10, <1>11 DEF IInv

LEMMA StutterInv ==
  ASSUME IInv, UNCHANGED vars
  PROVE  IInv'
<1>1. /\ lists' = lists /\ Curr_Thread' = Curr_Thread /\ Parent_Thread' = Parent_Thread
      /\ thread_count' = thread_count /\ count' = count /\ returned' = returned
  BY DEF vars
<1>2. Held' = Held
  BY <1>1 DEF Held
<1>3. /\ Holds(lists, Held)' /\ count' \in [Semaphore -> Int] /\ CountsMatch(Held', count')
      /\ SomebodyRuns' /\ Placed' /\ LinkToNext' /\ Counted'
  BY <1>1, <1>2 DEF IInv, Holds, SomebodyRuns, Placed, LinkToNext, Counted
<1> QED BY <1>3 DEF IInv

(***************************************************************************)
(* A program as thread_test.c is one: main() starts two threads before it  *)
(* calls run(), and it never waits for a semaphore, so that it is ready    *)
(* whenever a thread runs.                                                 *)
(***************************************************************************)
MainStaysReady == MinReady >= 2 /\ ~MainBlocks

LEMMA NextInv ==
  ASSUME MainStaysReady, IInv, [Next]_vars
  PROVE  IInv'
<1>1. ASSUME NEW t \in Thread, start_thread(t) PROVE IInv'
  BY <1>1, StartInv
<1>2. ASSUME NEW p \in Parent, run(p) PROVE IInv'
  BY <1>2, RunInv DEF MainStaysReady
<1>3. CASE yield /\ UNCHANGED <<Parent_Thread, thread_count, count, returned>>
  BY <1>3, YieldInv
<1>4. CASE cleanup
  BY <1>4, CleanupInv
<1>5. ASSUME NEW s \in Semaphore, P(s) PROVE IInv'
  BY <1>5, PInv DEF MainStaysReady
<1>6. ASSUME NEW s \in Semaphore, V(s) PROVE IInv'
  BY <1>6, VInv
<1>7. CASE UNCHANGED vars
  BY <1>7, StutterInv
<1> QED BY <1>1, <1>2, <1>3, <1>4, <1>5, <1>6, <1>7 DEF Next

LEMMA SpecInv ==
  ASSUME MainStaysReady
  PROVE  Spec => []IInv
<1>1. IInv /\ [Next]_vars => IInv'
  BY NextInv
<1> QED BY <1>1, InitIInv, PTL DEF Spec
-----------------------------------------------------------------------------
(***************************************************************************)
(* main() may wait for its threads: getThreadCount() is the number of      *)
(* threads that were started and did not return.                           *)
(***************************************************************************)
THEOREM EnhancedCountsLiveThreads ==
  ASSUME MainStaysReady
  PROVE  Spec => []CountsLiveThreads
<1>1. IInv => CountsLiveThreads
  <2> SUFFICES ASSUME IInv PROVE CountsLiveThreads
    OBVIOUS
  <2>1. Live = LiveIn(lists, returned)
    BY EnhancedAssumption DEF Live, LiveIn, Linked, Fresh
  <2> QED BY <2>1 DEF IInv, Counted, CountsLiveThreads
<1> QED BY <1>1, SpecInv, PTL

(***************************************************************************)
(* Nobody is lost and nobody comes back: the items in the queues and the   *)
(* one that runs are the live threads and main(), each of them once.       *)
(***************************************************************************)
THEOREM EnhancedEveryoneAccounted ==
  ASSUME MainStaysReady
  PROVE  Spec => []EveryoneAccounted
<1>1. IInv => EveryoneAccounted
  <2> SUFFICES ASSUME IInv, Parent_Thread # NULL, Curr_Thread # NULL
               PROVE  /\ (UNION {Queued(q) : q \in Queues}) \cup {Curr_Thread}
                           = Live \cup {Parent_Thread}
                      /\ \A q \in Queues :
                           /\ Cardinality(Queued(q)) = Len(Contents(lists, q))
                           /\ Curr_Thread \notin Queued(q)
    BY DEF EveryoneAccounted
  <2>1. Live = LiveIn(lists, returned)
    BY EnhancedAssumption DEF Live, LiveIn, Linked, Fresh
  <2>2. \A q \in Queues : Queued(q) = Range(Held[q])
    BY DEF Queued, Held, Range
  <2>3. UNION {Queued(q) : q \in Queues} = QueuedIn(Held)
    BY <2>2 DEF QueuedIn
  <2>4. QueuedIn(Held) \cup {Curr_Thread} = Live \cup {Parent_Thread}
    BY <2>1 DEF IInv, Placed
  <2>5. \A q \in Queues : Cardinality(Queued(q)) = Len(Contents(lists, q))
    <3> SUFFICES ASSUME NEW q \in Queues
                 PROVE  Cardinality(Queued(q)) = Len(Contents(lists, q))
      OBVIOUS
    <3>1. Held[q] \in Seq(Item) /\ IsInjective(Held[q]) /\ Contents(lists, q) = Held[q]
      BY Known, HoldsType
    <3> QED BY <2>2, <3>1, InjectiveLength
  <2>6. \A q \in Queues : Curr_Thread \notin Queued(q)
    BY <2>2, Known
  <2>7. (UNION {Queued(q) : q \in Queues}) \cup {Curr_Thread} = Live \cup {Parent_Thread}
    BY ONLY <2>3, <2>4
  <2> QED BY ONLY <2>5, <2>6, <2>7
<1> QED BY <1>1, SpecInv, PTL

(***************************************************************************)
(* When a thread returns, the next one of the ready queue runs, and leaves *)
(* the queue: the stale link that cleanup() follows leads there.           *)
(***************************************************************************)
THEOREM EnhancedCleanupRunsNext ==
  ASSUME MainStaysReady
  PROVE  Spec => CleanupRunsNext
<1> DEFINE Step == returned' # returned =>
                     /\ Contents(lists, Ready) # <<>>
                     /\ Curr_Thread' = Head(Contents(lists, Ready))
                     /\ Contents(lists, Ready)' = Tail(Contents(lists, Ready))
<1>1. IInv /\ [Next]_vars => [Step]_vars
  <2> SUFFICES ASSUME IInv, Next, returned' # returned PROVE Step
    OBVIOUS
  <2>1. cleanup
    BY DEF Next, start_thread, run, P, V
  <2>2. /\ CanSwitch(lists, Held, returned') /\ Dispatch(lists)
        /\ Held[Ready] # <<>> /\ Curr_Thread' = Head(Held[Ready])
    BY <2>1, CleanupFacts
  <2>3. Parent_Thread' = Parent_Thread
    BY <2>1 DEF cleanup
  <2>4. Held' = WithoutFirst(Held, Ready)
    BY <2>2, <2>3, Switch
  <2>5. /\ Held[Ready] = Contents(lists, Ready) /\ Held'[Ready] = Contents(lists', Ready)
        /\ WithoutFirst(Held, Ready)[Ready] = Tail(Held[Ready])
    BY Known DEF Held, WithoutFirst
  <2> QED BY <2>2, <2>4, <2>5
<1> QED BY <1>1, SpecInv, PTL DEF Spec, CleanupRunsNext
=============================================================================
