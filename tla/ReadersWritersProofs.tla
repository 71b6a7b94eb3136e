------------------------ MODULE ReadersWritersProofs ------------------------
(***************************************************************************)
(* Proofs about the readers and writers, for every finite set of readers   *)
(* and of writers, and for the semaphores of both projects.                *)
(***************************************************************************)
EXTENDS ReadersWriters, DataFacts

(***************************************************************************)
(* The inductive invariant.  The baton is a token of a semaphore or a      *)
(* thread in a section of code, and it is with the semaphore that the      *)
(* token belongs to, or through which the section was entered.             *)
(***************************************************************************)
Section(s) ==
  CASE s = "mutex" -> {"id", "reader entry", "reader exit", "writer entry", "writer exit"}
    [] s = "r_sem" -> {"reader woken"}
    [] s = "w_sem" -> {"writer woken"}

Sections == {"id", "reader entry", "reader woken", "reader exit",
             "writer entry", "writer woken", "writer exit"}
Points == {"start", "outside", "reader blocks", "reading", "writer blocks", "writing"}
            \cup Sections

Tokens == {s \in Semaphore : available[s] = 1}
Holders == {t \in Thread : Holds(t)}

Baton == \/ Holders = {} /\ \E s \in Semaphore : Tokens = {s}
         \/ Tokens = {} /\ \E t \in Thread : Holders = {t}

With(s) == s \in Tokens \/ \E t \in Holders : pc[t] \in Section(s)

WellFormed == /\ project \in {1, 3}
              /\ available \in [Semaphore -> {0, 1}]
              /\ waiting \in [Semaphore -> Seq(Thread)]
              /\ pc \in [Thread -> Points]

\* A thread waits once, for the semaphore of the section it is going to be in.
Places == \A s \in Semaphore :
            /\ IsInjective(waiting[s])
            /\ \A t \in Range(waiting[s]) : pc[t] \in Section(s)

(***************************************************************************)
(* What the baton is passed for: the counters that whoever takes it from   *)
(* the semaphore relies on.                                                *)
(***************************************************************************)
MutexDoor == /\ rwc > 0 => wc > 0 \/ wwc > 0
             /\ wwc > 0 => rc > 0 \/ wc > 0
ReaderDoor == wc = 0
WriterDoor == wc = 0 /\ rc = 0

Door(s) == /\ s = "mutex" => MutexDoor
           /\ s = "r_sem" => ReaderDoor
           /\ s = "w_sem" => WriterDoor
Alone == wc = 0 \/ (wc = 1 /\ rc = 0)
Doors == Alone /\ \A s \in Semaphore : With(s) => Door(s)

IInv == WellFormed /\ Places /\ Baton /\ CountersExact /\ Doors
-----------------------------------------------------------------------------
(***************************************************************************)
(* Counting threads: what a step of one of them changes.                   *)
(***************************************************************************)
LEMMA AtFinite ==
  ASSUME NEW points
  PROVE  IsFiniteSet(At(points)) /\ Cardinality(At(points)) \in Nat
<1>1. At(points) \in SUBSET Thread /\ IsFiniteSet(Thread)
  BY ThreadAssumption DEF At, Thread
<1> QED BY <1>1, FS_Subset, FS_CardinalityType

LEMMA MoveCounts ==
  ASSUME WellFormed, NEW t \in Thread, NEW to,
         pc' = [pc EXCEPT ![t] = to],
         NEW points
  PROVE  /\ pc[t] \in points /\ to \notin points =>
              Cardinality(At(points)') = Cardinality(At(points)) - 1
         /\ pc[t] \notin points /\ to \in points =>
              Cardinality(At(points)') = Cardinality(At(points)) + 1
         /\ (pc[t] \in points <=> to \in points) =>
              Cardinality(At(points)') = Cardinality(At(points))
<1>0. /\ pc'[t] = to
      /\ \A u \in Thread \ {t} : pc'[u] = pc[u]
  BY DEF WellFormed
<1>1. At(points) \ {t} = At(points)' \ {t}
  BY <1>0 DEF At
<1>2. /\ t \in At(points) <=> pc[t] \in points
      /\ t \in At(points)' <=> to \in points
  BY <1>0 DEF At
<1> QED BY <1>1, <1>2, AtFinite, OneMoves

(***************************************************************************)
(* Where the threads are: a section belongs to one semaphore, and a thread *)
(* is in one queue at most.                                                *)
(***************************************************************************)
LEMMA SectionsAre ==
  /\ Section("mutex") = {"id", "reader entry", "reader exit",
                         "writer entry", "writer exit"}
  /\ Section("r_sem") = {"reader woken"}
  /\ Section("w_sem") = {"writer woken"}
BY DEF Section

LEMMA SectionProperties ==
  /\ \A s \in Semaphore : Section(s) \subseteq Sections
  /\ \A r, s \in Semaphore : r # s => Section(r) \cap Section(s) = {}
  /\ \A point \in Sections : \E s \in Semaphore : point \in Section(s)
BY SectionsAre DEF Sections, Semaphore

LEMMA WaitersAre ==
  \A t : t \in Counting!Waiters <=> \E s \in Semaphore : t \in Range(waiting[s])
BY DEF Counting!Waiters, Counting!Range, Range

LEMMA WaitersAreNext ==
  \A t : t \in Counting!Waiters' <=> \E s \in Semaphore : t \in Range(waiting'[s])
BY DEF Counting!Waiters, Counting!Range, Range

LEMMA HoldersAre ==
  Holders = {t \in Thread : t \notin Counting!Waiters /\ pc[t] \in Sections}
BY DEF Holders, Holds, Sections

LEMMA HoldersAreNext ==
  Holders' = {t \in Thread : t \notin Counting!Waiters' /\ pc'[t] \in Sections}
BY DEF Holders, Holds, Sections

(***************************************************************************)
(* What V does, whichever project's: a token more, or a thread less.       *)
(***************************************************************************)
LEMMA Waking ==
  ASSUME WellFormed, Places, NEW s \in Semaphore, V(s)
  PROVE  \/ /\ waiting' = waiting
            /\ available' = [available EXCEPT ![s] = @ + 1]
         \/ /\ available' = available
            /\ \E u \in Range(waiting[s]), q \in Seq(Thread) :
                 /\ waiting' = [waiting EXCEPT ![s] = q]
                 /\ IsInjective(q)
                 /\ Range(q) = Range(waiting[s]) \ {u}
<1>0. waiting[s] \in Seq(Thread) /\ IsInjective(waiting[s])
  BY DEF WellFormed, Places
<1>1. CASE Counting!Release(s)
  BY <1>1 DEF Counting!Release
<1>2. CASE Counting!Grant(s)
  <2>1. /\ waiting[s] # <<>>
        /\ waiting' = [waiting EXCEPT ![s] = Tail(waiting[s])]
        /\ available' = available
    BY <1>2 DEF Counting!Grant
  <2>2. /\ Head(waiting[s]) \in Range(waiting[s])
        /\ Tail(waiting[s]) \in Seq(Thread)
        /\ IsInjective(Tail(waiting[s]))
        /\ Range(Tail(waiting[s])) = Range(waiting[s]) \ {Head(waiting[s])}
    BY <1>0, <2>1, TailFacts
  <2> QED BY <2>1, <2>2
<1>3. CASE GrantAny(s)
  <2>1. PICK i \in DOMAIN waiting[s] :
             waiting' = [waiting EXCEPT ![s] = RemoveAt(waiting[s], i)]
    BY <1>3 DEF GrantAny
  <2>2. available' = available
    BY <1>3 DEF GrantAny
  <2>3. i \in 1..Len(waiting[s])
    BY <1>0, LenProperties
  <2>4. /\ RemoveAt(waiting[s], i) \in Seq(Thread)
        /\ IsInjective(RemoveAt(waiting[s], i))
        /\ Range(RemoveAt(waiting[s], i)) = Range(waiting[s]) \ {waiting[s][i]}
    BY <1>0, <2>3, RemoveAtFacts
  <2>5. waiting[s][i] \in Range(waiting[s])
    BY DEF Range
  <2> QED BY <2>1, <2>2, <2>4, <2>5
<1> QED BY <1>1, <1>2, <1>3 DEF V

(***************************************************************************)
(* P at the door of a section: the baton is taken, or goes on being where  *)
(* it was while the thread waits.                                          *)
(***************************************************************************)
LEMMA PStep ==
  ASSUME WellFormed, Places, Baton,
         NEW t \in Thread, NEW from, NEW s \in Semaphore, NEW to \in Section(s),
         from \notin Sections, Goto(t, from, to), P(t, s)
  PROVE  /\ WellFormed' /\ Places' /\ Baton'
         /\ \A r \in Semaphore : With(r)' => With(r)
<1>0. /\ t \notin Counting!Waiters /\ pc[t] = from
      /\ pc' = [pc EXCEPT ![t] = to] /\ project' = project
  BY DEF Goto
<1>1. /\ pc' \in [Thread -> Points] /\ pc'[t] = to
      /\ \A u \in Thread \ {t} : pc'[u] = pc[u]
  BY <1>0, SectionProperties DEF WellFormed, Points
<1>2. t \notin Holders /\ to \in Sections
  BY <1>0, HoldersAre, SectionProperties
<1>3. \A r \in Semaphore : /\ waiting[r] \in Seq(Thread)
                           /\ Range(waiting[r]) \subseteq Thread
                           /\ t \notin Range(waiting[r])
  BY <1>0, RangeOfSeq, WaitersAre DEF WellFormed
<1>4. CASE Counting!Acquire(s)
  <2>1. /\ available[s] > 0
        /\ available' = [available EXCEPT ![s] = available[s] - 1]
        /\ waiting' = waiting
    BY <1>4 DEF Counting!Acquire
  <2>2. available[s] = 1 /\ s \in Tokens /\ available' = [available EXCEPT ![s] = 0]
    <3>1. available[s] = 1 /\ available[s] - 1 = 0
      BY <2>1 DEF WellFormed
    <3> QED BY <2>1, <3>1 DEF Tokens
  <2>3. Holders = {} /\ Tokens = {s}
    BY <2>2 DEF Baton
  <2>4. Tokens' = {}
    BY <2>2, <2>3 DEF Tokens, WellFormed
  <2>5. \A u : u \in Counting!Waiters' <=> u \in Counting!Waiters
    BY <2>1, WaitersAre, WaitersAreNext
  <2>6. Holders' = {t}
    BY <1>0, <1>1, <1>2, <2>3, <2>5, HoldersAre, HoldersAreNext
  <2>7. WellFormed'
    BY <1>0, <1>1, <2>1, <2>2 DEF WellFormed
  <2>8. Places'
    BY <1>1, <1>3, <2>1 DEF Places
  <2>9. \A r \in Semaphore : With(r)' => With(r)
    BY <1>1, <2>2, <2>4, <2>6, SectionProperties DEF With
  <2> QED BY <2>4, <2>6, <2>7, <2>8, <2>9 DEF Baton
<1>5. CASE Counting!Wait(t, s)
  <2>1. /\ waiting' = [waiting EXCEPT ![s] = Append(waiting[s], t)]
        /\ available' = available
    BY <1>5 DEF Counting!Wait
  <2>2. waiting[s] \in Seq(Thread) /\ IsInjective(waiting[s]) /\ t \notin Range(waiting[s])
    BY <1>3 DEF Places
  <2>3. /\ Append(waiting[s], t) \in Seq(Thread)
        /\ Range(Append(waiting[s], t)) = Range(waiting[s]) \cup {t}
        /\ IsInjective(Append(waiting[s], t))
    BY <2>2, AppendFacts
  <2>4. /\ waiting' \in [Semaphore -> Seq(Thread)]
        /\ waiting'[s] = Append(waiting[s], t)
        /\ \A r \in Semaphore \ {s} : waiting'[r] = waiting[r]
    BY <2>1, <2>3 DEF WellFormed
  <2>5. \A u : u \in Counting!Waiters' <=> u \in Counting!Waiters \/ u = t
    BY <2>3, <2>4, WaitersAre, WaitersAreNext
  <2>6. Tokens' = Tokens
    BY <2>1 DEF Tokens
  <2>7. Holders' = Holders
    BY <1>1, <1>2, <2>5, HoldersAre, HoldersAreNext
  <2>8. WellFormed'
    BY <1>0, <1>1, <2>1, <2>4 DEF WellFormed
  <2>9. Places'
    <3> SUFFICES ASSUME NEW r \in Semaphore
                 PROVE  /\ IsInjective(waiting'[r])
                        /\ \A u \in Range(waiting'[r]) : pc'[u] \in Section(r)
      BY DEF Places
    <3>1. CASE r = s
      BY <1>1, <1>3, <2>2, <2>3, <2>4, <3>1 DEF Places
    <3>2. CASE r # s
      BY <1>1, <1>3, <2>4, <3>2 DEF Places
    <3> QED BY <3>1, <3>2
  <2>10. \A r \in Semaphore : With(r)' => With(r)
    BY <1>1, <1>2, <2>6, <2>7 DEF With, Holders
  <2> QED BY <2>6, <2>7, <2>8, <2>9, <2>10 DEF Baton
<1> QED BY <1>4, <1>5 DEF P

(***************************************************************************)
(* V at the end of a section: the baton is given up, to the semaphore or   *)
(* to a thread that waits for it.                                          *)
(***************************************************************************)
LEMMA VStep ==
  ASSUME WellFormed, Places, Baton,
         NEW t \in Thread, NEW from \in Sections, NEW to \in Points, to \notin Sections,
         NEW s \in Semaphore, Goto(t, from, to), V(s)
  PROVE  /\ WellFormed' /\ Places' /\ Baton'
         /\ \A r \in Semaphore : With(r)' => r = s
<1>0. /\ t \notin Counting!Waiters /\ pc[t] = from
      /\ pc' = [pc EXCEPT ![t] = to] /\ project' = project
  BY DEF Goto
<1>1. /\ pc' \in [Thread -> Points] /\ pc'[t] = to
      /\ \A u \in Thread \ {t} : pc'[u] = pc[u]
  BY <1>0 DEF WellFormed
<1>2. t \in Holders
  BY <1>0, HoldersAre
<1>3. Tokens = {} /\ Holders = {t}
  BY <1>2 DEF Baton
<1>4. \A r \in Semaphore : /\ available[r] = 0
                           /\ Range(waiting[r]) \subseteq Thread
                           /\ t \notin Range(waiting[r])
  <2>1. \A r \in Semaphore : available[r] = 0
    BY <1>3 DEF WellFormed, Tokens
  <2>2. \A r \in Semaphore : Range(waiting[r]) \subseteq Thread
    BY RangeOfSeq DEF WellFormed
  <2> QED BY <1>0, <2>1, <2>2, WaitersAre
<1>5. CASE /\ waiting' = waiting
           /\ available' = [available EXCEPT ![s] = @ + 1]
  <2>0. available[s] + 1 = 1
    BY <1>4
  <2>1. available' = [available EXCEPT ![s] = 1]
    BY <1>5, <2>0
  <2>2. Tokens' = {s}
    BY <1>4, <2>1 DEF Tokens, WellFormed
  <2>3. \A u : u \in Counting!Waiters' <=> u \in Counting!Waiters
    BY <1>5, WaitersAre, WaitersAreNext
  <2>4. Holders' = {}
    BY <1>1, <1>3, <2>3, HoldersAre, HoldersAreNext
  <2>5. WellFormed'
    BY <1>0, <1>1, <1>5, <2>1 DEF WellFormed
  <2>6. Places'
    BY <1>1, <1>4, <1>5 DEF Places
  <2> QED BY <2>2, <2>4, <2>5, <2>6 DEF Baton, With
<1>6. ASSUME available' = available,
             NEW u \in Range(waiting[s]), NEW q \in Seq(Thread),
             waiting' = [waiting EXCEPT ![s] = q], IsInjective(q),
             Range(q) = Range(waiting[s]) \ {u}
      PROVE  /\ WellFormed' /\ Places' /\ Baton'
             /\ \A r \in Semaphore : With(r)' => r = s
  <2>1. u \in Thread /\ u # t /\ pc[u] \in Section(s) /\ pc'[u] = pc[u]
    BY <1>1, <1>4 DEF Places
  <2>2. \A r \in Semaphore \ {s} : u \notin Range(waiting[r])
    BY <2>1, SectionProperties DEF Places
  <2>3. /\ waiting' \in [Semaphore -> Seq(Thread)]
        /\ waiting'[s] = q
        /\ \A r \in Semaphore \ {s} : waiting'[r] = waiting[r]
    BY <1>6 DEF WellFormed
  <2>4. \A v : v \in Counting!Waiters' <=> v \in Counting!Waiters /\ v # u
    BY <1>6, <2>2, <2>3, WaitersAre, WaitersAreNext
  <2>5. Tokens' = {}
    BY <1>3, <1>6 DEF Tokens
  <2>6. Holders' = {u}
    <3>1. u \in Holders'
      BY <2>1, <2>4, HoldersAreNext, SectionProperties
    <3>2. ASSUME NEW v \in Holders', v # u PROVE FALSE
      <4>1. v \in Thread /\ v \notin Counting!Waiters /\ pc'[v] \in Sections
        BY <2>4, <3>2, HoldersAreNext
      <4>2. v # t /\ pc'[v] = pc[v]
        BY <1>1, <4>1
      <4> QED BY <1>3, <4>1, <4>2, HoldersAre
    <3> QED BY <3>1, <3>2
  <2>7. WellFormed'
    BY <1>0, <1>1, <1>6, <2>3 DEF WellFormed
  <2>8. Places'
    <3> SUFFICES ASSUME NEW r \in Semaphore
                 PROVE  /\ IsInjective(waiting'[r])
                        /\ \A v \in Range(waiting'[r]) : pc'[v] \in Section(r)
      BY DEF Places
    <3>1. Range(waiting'[r]) \subseteq Range(waiting[r]) /\ IsInjective(waiting'[r])
      BY <1>6, <2>3 DEF Places
    <3> QED BY <1>1, <1>4, <3>1 DEF Places
  <2>9. \A r \in Semaphore : With(r)' => r = s
    BY <2>1, <2>5, <2>6, SectionProperties DEF With
  <2> QED BY <2>1, <2>5, <2>6, <2>7, <2>8, <2>9 DEF Baton
<1> QED BY <1>5, <1>6, Waking

(***************************************************************************)
(* What the counters have to do when a thread goes from a point of its     *)
(* program to another.                                                     *)
(***************************************************************************)
Tells(n, m, from, to, points) ==
  /\ from \in points /\ to \notin points => m = n - 1
  /\ from \notin points /\ to \in points => m = n + 1
  /\ (from \in points <=> to \in points) => m = n

Counted(from, to) ==
  /\ Tells(rwc, rwc', from, to, {"reader blocks", "reader woken"})
  /\ Tells(wwc, wwc', from, to, {"writer blocks", "writer woken"})
  /\ Tells(rc, rc', from, to, {"reading", "reader exit"})
  /\ Tells(wc, wc', from, to, {"writing", "writer exit"})

LEMMA Recount ==
  ASSUME WellFormed, CountersExact, NEW t \in Thread, NEW from, NEW to,
         Goto(t, from, to), Counted(from, to)
  PROVE  CountersExact'
<1>1. /\ pc[t] = from
      /\ pc' = [pc EXCEPT ![t] = to]
  BY DEF Goto
<1>2. ASSUME NEW points
      PROVE  Tells(Cardinality(At(points)), Cardinality(At(points)'), from, to, points)
  BY <1>1, MoveCounts DEF Tells
<1>3. ASSUME NEW n, NEW m, NEW points, n = Cardinality(At(points)),
             Tells(n, m, from, to, points)
      PROVE  m = Cardinality(At(points)')
  BY <1>2, <1>3 DEF Tells
<1> QED BY <1>3 DEF CountersExact, Counted

LEMMA CountersNat ==
  ASSUME CountersExact
  PROVE  rwc \in Nat /\ wwc \in Nat /\ rc \in Nat /\ wc \in Nat
BY AtFinite DEF CountersExact

\* A thread that is somewhere is counted there.
LEMMA OneIsCounted ==
  ASSUME NEW t \in Thread, NEW points, pc[t] \in points
  PROVE  Cardinality(At(points)) >= 1
<1>1. t \in At(points) /\ IsFiniteSet(At(points)) /\ Cardinality(At(points)) \in Nat
  BY AtFinite DEF At
<1>2. Cardinality(At(points)) # 0
  BY <1>1, FS_EmptySet
<1> QED BY <1>1, <1>2

\* A thread that goes on from a section has the baton that leads into it.
LEMMA GoesOn ==
  ASSUME NEW t \in Thread, NEW s \in Semaphore, NEW from \in Section(s), NEW to,
         Goto(t, from, to)
  PROVE  With(s)
<1>1. t \in Holders
  BY HoldersAre, SectionProperties DEF Goto
<1> QED BY <1>1 DEF With, Goto

(***************************************************************************)
(* Every step that ends in a P keeps the invariant: it moves the thread    *)
(* between two points that are counted alike.                              *)
(***************************************************************************)
LEMMA PKeeps ==
  ASSUME IInv, NEW t \in Thread, NEW from, NEW s \in Semaphore, NEW to \in Section(s),
         from \notin Sections, Goto(t, from, to), P(t, s), UNCHANGED counters, Counted(from, to)
  PROVE  IInv'
<1>1. /\ WellFormed' /\ Places' /\ Baton'
      /\ \A r \in Semaphore : With(r)' => With(r)
  BY PStep DEF IInv
<1>2. rwc' = rwc /\ wwc' = wwc /\ rc' = rc /\ wc' = wc
  BY DEF counters
<1>3. CountersExact'
  BY Recount DEF IInv
<1>4. Doors'
  BY <1>1, <1>2 DEF IInv, Doors, Door, Alone, MutexDoor, ReaderDoor, WriterDoor
<1> QED BY <1>1, <1>3, <1>4 DEF IInv

(***************************************************************************)
(* Every step that ends in a V keeps the invariant if it counts right, and *)
(* if what the baton is passed for is so.                                  *)
(***************************************************************************)
LEMMA VKeeps ==
  ASSUME IInv, NEW t \in Thread,
         NEW from \in Sections, NEW to \in Points, to \notin Sections,
         NEW s \in Semaphore, Goto(t, from, to), V(s),
         Counted(from, to), Door(s)', Alone'
  PROVE  IInv'
<1>1. /\ WellFormed' /\ Places' /\ Baton'
      /\ \A r \in Semaphore : With(r)' => r = s
  BY VStep DEF IInv
<1>2. CountersExact'
  BY Recount DEF IInv
<1>3. Doors'
  BY <1>1 DEF Doors
<1> QED BY <1>1, <1>2, <1>3 DEF IInv

(***************************************************************************)
(* One lemma for each procedure of the program.                            *)
(***************************************************************************)
LEMMA Labels ==
  /\ "id" \in Section("mutex") /\ "reader entry" \in Section("mutex")
  /\ "reader exit" \in Section("mutex") /\ "writer entry" \in Section("mutex")
  /\ "writer exit" \in Section("mutex")
  /\ "reader woken" \in Section("r_sem") /\ "writer woken" \in Section("w_sem")
  /\ "mutex" \in Semaphore /\ "r_sem" \in Semaphore /\ "w_sem" \in Semaphore
  /\ "id" \in Sections /\ "reader entry" \in Sections /\ "reader exit" \in Sections
  /\ "writer entry" \in Sections /\ "writer exit" \in Sections
  /\ "reader woken" \in Sections /\ "writer woken" \in Sections
  /\ "start" \in Points \ Sections /\ "outside" \in Points \ Sections
  /\ "reader blocks" \in Points \ Sections /\ "reading" \in Points \ Sections
  /\ "writer blocks" \in Points \ Sections /\ "writing" \in Points \ Sections
BY SectionsAre DEF Points, Sections, Semaphore

LEMMA DoorsAre ==
  /\ Door("mutex") <=> MutexDoor
  /\ Door("r_sem") <=> ReaderDoor
  /\ Door("w_sem") <=> WriterDoor
BY DEF Door

LEMMA DoorsAreNext ==
  /\ Door("mutex")' <=> MutexDoor'
  /\ Door("r_sem")' <=> ReaderDoor'
  /\ Door("w_sem")' <=> WriterDoor'
BY DEF Door

LEMMA TakeIdKeeps ==
  ASSUME IInv, NEW t \in Thread, TakeId(t)
  PROVE  IInv'
<1>1. CASE Goto(t, "start", "id") /\ P(t, "mutex") /\ UNCHANGED counters
  <2>1. Counted("start", "id")
    BY <1>1 DEF Counted, Tells, counters
  <2> QED BY <1>1, <2>1, PKeeps, Labels
<1>2. CASE Goto(t, "id", "outside") /\ V("mutex") /\ UNCHANGED counters
  <2>1. MutexDoor /\ Alone
    BY <1>2, GoesOn, Labels, DoorsAre DEF IInv, Doors
  <2>2. Counted("id", "outside")
    BY <1>2 DEF Counted, Tells, counters
  <2>3. rwc' = rwc /\ wwc' = wwc /\ rc' = rc /\ wc' = wc
    BY <1>2 DEF counters
  <2>4. MutexDoor' /\ Alone'
    BY <2>1, <2>3 DEF MutexDoor, Alone
  <2> QED BY <1>2, <2>2, <2>4, VKeeps, Labels, DoorsAreNext
<1> QED BY <1>1, <1>2 DEF TakeId

LEMMA GetInDoors ==
  ASSUME CountersExact, NEW n \in Int, GetIn(n), wc = 0
  PROVE  Alone' /\ ReaderDoor' /\ (n <= 0 => MutexDoor')
<1>1. rwc' = n /\ rc' = rc + 1 /\ wc' = 0
  BY DEF GetIn
<1>2. rc \in Nat
  BY CountersNat
<1> QED BY <1>1, <1>2 DEF Alone, MutexDoor, ReaderDoor

LEMMA GetInKeeps ==
  ASSUME IInv, NEW t \in Thread, NEW from \in Sections, NEW to, to = "reading",
         Goto(t, from, to), NEW n \in Int, GetIn(n), wc = 0,
         \/ from = "reader entry" /\ n = rwc
         \/ from = "reader woken" /\ n = rwc - 1
  PROVE  IInv'
<1>1. Alone' /\ ReaderDoor' /\ (n <= 0 => MutexDoor')
  BY GetInDoors DEF IInv
<1>2. Counted(from, to)
  BY DEF GetIn, Counted, Tells
<1>3. CASE n > 0 /\ V("r_sem")
  BY <1>1, <1>2, <1>3, VKeeps, Labels, DoorsAreNext
<1>4. CASE n <= 0 /\ V("mutex")
  BY <1>1, <1>2, <1>4, VKeeps, Labels, DoorsAreNext
<1> QED BY <1>3, <1>4 DEF GetIn

LEMMA ReaderEntryKeeps ==
  ASSUME IInv, NEW t \in Thread, reader_entry(t)
  PROVE  IInv'
<1>0. rwc \in Nat /\ wwc \in Nat /\ rc \in Nat /\ wc \in Nat
  BY CountersNat DEF IInv
<1>1. CASE Goto(t, "outside", "reader entry") /\ P(t, "mutex") /\ UNCHANGED counters
  <2>1. Counted("outside", "reader entry")
    BY <1>1 DEF Counted, Tells, counters
  <2> QED BY <1>1, <2>1, PKeeps, Labels
<1>2. CASE /\ wwc > 0 \/ wc > 0
           /\ Goto(t, "reader entry", "reader blocks")
           /\ rwc' = rwc + 1
           /\ V("mutex")
           /\ UNCHANGED <<wwc, rc, wc>>
  <2>1. MutexDoor /\ Alone
    BY <1>2, GoesOn, Labels, DoorsAre DEF IInv, Doors
  <2>2. Counted("reader entry", "reader blocks")
    BY <1>0, <1>2 DEF Counted, Tells
  <2>3. /\ wwc > 0 \/ wc > 0
        /\ wwc' = wwc /\ rc' = rc /\ wc' = wc
    BY <1>2
  <2>4. MutexDoor' /\ Alone'
    BY <2>1, <2>3 DEF MutexDoor, Alone
  <2> QED BY <1>2, <2>2, <2>4, VKeeps, Labels, DoorsAreNext
<1>3. CASE /\ wwc = 0 /\ wc = 0
           /\ Goto(t, "reader entry", "reading")
           /\ GetIn(rwc)
  <2>1. rwc \in Int
    BY <1>0
  <2> QED BY <1>3, <2>1, GetInKeeps, Labels
<1>4. CASE Goto(t, "reader blocks", "reader woken") /\ P(t, "r_sem") /\ UNCHANGED counters
  <2>1. Counted("reader blocks", "reader woken")
    BY <1>4 DEF Counted, Tells, counters
  <2> QED BY <1>4, <2>1, PKeeps, Labels
<1>5. CASE Goto(t, "reader woken", "reading") /\ GetIn(rwc - 1)
  <2>1. wc = 0
    BY <1>5, GoesOn, Labels, DoorsAre DEF IInv, Doors, ReaderDoor
  <2>2. rwc - 1 \in Int
    BY <1>0
  <2> QED BY <1>5, <2>1, <2>2, GetInKeeps, Labels
<1> QED BY <1>1, <1>2, <1>3, <1>4, <1>5 DEF reader_entry

LEMMA ReaderExitKeeps ==
  ASSUME IInv, NEW t \in Thread, reader_exit(t)
  PROVE  IInv'
<1>0. rwc \in Nat /\ wwc \in Nat /\ rc \in Nat /\ wc \in Nat
  BY CountersNat DEF IInv
<1>1. CASE Goto(t, "reading", "reader exit") /\ P(t, "mutex") /\ UNCHANGED counters
  <2>1. Counted("reading", "reader exit")
    BY <1>1 DEF Counted, Tells, counters
  <2> QED BY <1>1, <2>1, PKeeps, Labels
<1>2. CASE /\ Goto(t, "reader exit", "outside")
           /\ rc' = rc - 1
           /\ \/ rc' = 0 /\ wwc > 0 /\ V("w_sem")
              \/ (rc' > 0 \/ wwc = 0) /\ V("mutex")
           /\ UNCHANGED <<rwc, wwc, wc>>
  <2>0. rwc' = rwc /\ wwc' = wwc /\ rc' = rc - 1 /\ wc' = wc
    BY <1>2
  <2>1. MutexDoor
    BY <1>2, GoesOn, Labels, DoorsAre DEF IInv, Doors
  <2>2. rc >= 1
    BY <1>2, OneIsCounted DEF IInv, CountersExact, Goto
  <2>3. wc = 0
    BY <1>0, <2>2 DEF IInv, Doors, Alone
  <2>4. Counted("reader exit", "outside")
    BY <1>0, <1>2 DEF Counted, Tells
  <2>5. CASE rc' = 0 /\ wwc > 0 /\ V("w_sem")
    <3>1. WriterDoor' /\ Alone'
      BY <2>0, <2>3, <2>5 DEF WriterDoor, Alone
    <3> QED BY <1>2, <2>4, <2>5, <3>1, VKeeps, Labels, DoorsAreNext
  <2>6. CASE (rc' > 0 \/ wwc = 0) /\ V("mutex")
    <3>1. rc' > 0 \/ wwc = 0
      BY <2>6
    <3>2. MutexDoor' /\ Alone'
      BY <1>0, <2>0, <2>1, <2>3, <3>1 DEF MutexDoor, Alone
    <3> QED BY <1>2, <2>4, <2>6, <3>2, VKeeps, Labels, DoorsAreNext
  <2> QED BY <1>2, <2>5, <2>6
<1> QED BY <1>1, <1>2 DEF reader_exit

LEMMA WriterEntryKeeps ==
  ASSUME IInv, NEW t \in Thread, writer_entry(t)
  PROVE  IInv'
<1>0. rwc \in Nat /\ wwc \in Nat /\ rc \in Nat /\ wc \in Nat
  BY CountersNat DEF IInv
<1>1. CASE Goto(t, "outside", "writer entry") /\ P(t, "mutex") /\ UNCHANGED counters
  <2>1. Counted("outside", "writer entry")
    BY <1>1 DEF Counted, Tells, counters
  <2> QED BY <1>1, <2>1, PKeeps, Labels
<1>2. CASE /\ rc > 0 \/ wc > 0
           /\ Goto(t, "writer entry", "writer blocks")
           /\ wwc' = wwc + 1
           /\ V("mutex")
           /\ UNCHANGED <<rwc, rc, wc>>
  <2>1. Counted("writer entry", "writer blocks")
    BY <1>0, <1>2 DEF Counted, Tells
  <2>2. /\ rc > 0 \/ wc > 0
        /\ rwc' = rwc /\ wwc' = wwc + 1 /\ rc' = rc /\ wc' = wc
    BY <1>2
  <2>3. MutexDoor' /\ Alone'
    BY <1>0, <2>2 DEF IInv, Doors, MutexDoor, Alone
  <2> QED BY <1>2, <2>1, <2>3, VKeeps, Labels, DoorsAreNext
<1>3. CASE /\ rc = 0 /\ wc = 0
           /\ Goto(t, "writer entry", "writing")
           /\ wc' = wc + 1
           /\ V("mutex")
           /\ UNCHANGED <<rwc, wwc, rc>>
  <2>1. Counted("writer entry", "writing")
    BY <1>0, <1>3 DEF Counted, Tells
  <2>2. rc = 0 /\ wc = 0 /\ wc' = wc + 1 /\ rc' = rc
    BY <1>3
  <2>3. MutexDoor' /\ Alone'
    BY <2>2 DEF MutexDoor, Alone
  <2> QED BY <1>3, <2>1, <2>3, VKeeps, Labels, DoorsAreNext
<1>4. CASE Goto(t, "writer blocks", "writer woken") /\ P(t, "w_sem") /\ UNCHANGED counters
  <2>1. Counted("writer blocks", "writer woken")
    BY <1>4 DEF Counted, Tells, counters
  <2> QED BY <1>4, <2>1, PKeeps, Labels
<1>5. CASE /\ Goto(t, "writer woken", "writing")
           /\ wwc' = wwc - 1
           /\ wc' = wc + 1
           /\ V("mutex")
           /\ UNCHANGED <<rwc, rc>>
  <2>1. wc = 0 /\ rc = 0
    BY <1>5, GoesOn, Labels, DoorsAre DEF IInv, Doors, WriterDoor
  <2>2. wc' = wc + 1 /\ rc' = rc
    BY <1>5
  <2>3. Counted("writer woken", "writing")
    BY <1>0, <1>5 DEF Counted, Tells
  <2>4. MutexDoor' /\ Alone'
    BY <2>1, <2>2 DEF MutexDoor, Alone
  <2> QED BY <1>5, <2>3, <2>4, VKeeps, Labels, DoorsAreNext
<1> QED BY <1>1, <1>2, <1>3, <1>4, <1>5 DEF writer_entry

LEMMA WriterExitKeeps ==
  ASSUME IInv, NEW t \in Thread, writer_exit(t)
  PROVE  IInv'
<1>0. rwc \in Nat /\ wwc \in Nat /\ rc \in Nat /\ wc \in Nat
  BY CountersNat DEF IInv
<1>1. CASE Goto(t, "writing", "writer exit") /\ P(t, "mutex") /\ UNCHANGED counters
  <2>1. Counted("writing", "writer exit")
    BY <1>1 DEF Counted, Tells, counters
  <2> QED BY <1>1, <2>1, PKeeps, Labels
<1>2. CASE /\ Goto(t, "writer exit", "outside")
           /\ wc' = wc - 1
           /\ \/ rwc > 0 /\ V("r_sem")
              \/ rwc = 0 /\ wwc > 0 /\ V("w_sem")
              \/ rwc = 0 /\ wwc = 0 /\ V("mutex")
           /\ UNCHANGED <<rwc, wwc, rc>>
  <2>0. rwc' = rwc /\ wwc' = wwc /\ rc' = rc /\ wc' = wc - 1
    BY <1>2
  <2>1. wc >= 1
    BY <1>2, OneIsCounted DEF IInv, CountersExact, Goto
  <2>2. wc = 1 /\ rc = 0
    BY <1>0, <2>1 DEF IInv, Doors, Alone
  <2>3. Counted("writer exit", "outside")
    BY <1>0, <1>2 DEF Counted, Tells
  <2>4. wc' = 0 /\ rc' = 0
    BY <2>0, <2>2
  <2>5. /\ ReaderDoor' /\ WriterDoor' /\ Alone'
        /\ rwc = 0 /\ wwc = 0 => MutexDoor'
    BY <2>0, <2>4 DEF Alone, MutexDoor, ReaderDoor, WriterDoor
  <2>6. CASE rwc > 0 /\ V("r_sem")
    BY <1>2, <2>3, <2>5, <2>6, VKeeps, Labels, DoorsAreNext
  <2>7. CASE rwc = 0 /\ wwc > 0 /\ V("w_sem")
    BY <1>2, <2>3, <2>5, <2>7, VKeeps, Labels, DoorsAreNext
  <2>8. CASE rwc = 0 /\ wwc = 0 /\ V("mutex")
    BY <1>2, <2>3, <2>5, <2>8, VKeeps, Labels, DoorsAreNext
  <2> QED BY <1>2, <2>6, <2>7, <2>8
<1> QED BY <1>1, <1>2 DEF writer_exit

-----------------------------------------------------------------------------
LEMMA InitInv == Init => IInv
<1> SUFFICES ASSUME Init PROVE IInv
  OBVIOUS
<1>1. /\ project \in {1, 3}
      /\ available = InputValue
      /\ waiting = [s \in Semaphore |-> <<>>]
      /\ pc = [t \in Thread |-> "start"]
      /\ rwc = 0 /\ wwc = 0 /\ rc = 0 /\ wc = 0
  BY DEF Init, Counting!Init
<1>2. "start" \in Points /\ "start" \notin Sections
  BY Labels
<1>3. \A s \in Semaphore : Range(waiting[s]) = {} /\ IsInjective(waiting[s])
  BY <1>1 DEF Range, IsInjective
<1>4. Holders = {}
  BY <1>1, <1>2, HoldersAre
<1>5. available["mutex"] = 1 /\ available["r_sem"] = 0 /\ available["w_sem"] = 0
  BY <1>1 DEF InputValue, Semaphore
<1>6. Tokens = {"mutex"}
  BY <1>5 DEF Tokens, Semaphore
<1>7. WellFormed
  <2>1. available \in [Semaphore -> {0, 1}]
    BY <1>1 DEF InputValue
  <2>2. waiting \in [Semaphore -> Seq(Thread)]
    BY <1>1
  <2>3. pc \in [Thread -> Points]
    BY <1>1, <1>2
  <2> QED BY <1>1, <2>1, <2>2, <2>3 DEF WellFormed
<1>8. Places
  BY <1>3 DEF Places
<1>9. Baton
  BY <1>4, <1>6 DEF Baton, Semaphore
<1>10. CountersExact
  <2>1. /\ At({"reader blocks", "reader woken"}) = {}
        /\ At({"writer blocks", "writer woken"}) = {}
        /\ At({"reading", "reader exit"}) = {}
        /\ At({"writing", "writer exit"}) = {}
    BY <1>1 DEF At
  <2>2. Cardinality({}) = 0
    BY FS_EmptySet
  <2> QED BY <1>1, <2>1, <2>2 DEF CountersExact
<1>11. Doors
  BY <1>1, <1>4, <1>6 DEF Doors, Door, With, Alone, MutexDoor, ReaderDoor, WriterDoor
<1> QED BY <1>7, <1>8, <1>9, <1>10, <1>11 DEF IInv

LEMMA NextInv == IInv /\ [Next]_vars => IInv'
<1> SUFFICES ASSUME IInv, [Next]_vars PROVE IInv'
  OBVIOUS
<1>1. ASSUME NEW t \in Reader, ReaderStep(t) PROVE IInv'
  BY <1>1, TakeIdKeeps, ReaderEntryKeeps, ReaderExitKeeps DEF ReaderStep, Thread
<1>2. ASSUME NEW t \in Writer, WriterStep(t) PROVE IInv'
  BY <1>2, TakeIdKeeps, WriterEntryKeeps, WriterExitKeeps DEF WriterStep, Thread
<1>3. CASE UNCHANGED vars
  <2>1. /\ project' = project /\ available' = available /\ waiting' = waiting /\ pc' = pc
        /\ rwc' = rwc /\ wwc' = wwc /\ rc' = rc /\ wc' = wc
    BY <1>3 DEF vars, counters
  <2>2. Tokens' = Tokens
    BY <2>1 DEF Tokens
  <2>3. Holders' = Holders
    BY <2>1, WaitersAre, WaitersAreNext, HoldersAre, HoldersAreNext
  <2>4. WellFormed' /\ Places' /\ Baton'
    BY <2>1, <2>2, <2>3 DEF IInv, WellFormed, Places, Baton
  <2>5. CountersExact'
    BY <2>1 DEF IInv, CountersExact, At
  <2>6. Doors'
    BY <2>1, <2>2, <2>3 DEF IInv, Doors, Door, With, Alone, MutexDoor, ReaderDoor, WriterDoor
  <2> QED BY <2>4, <2>5, <2>6 DEF IInv
<1> QED BY <1>1, <1>2, <1>3 DEF Next

LEMMA SpecInv == Spec => []IInv
BY InitInv, NextInv, PTL DEF Spec

(***************************************************************************)
(* The theorems.                                                           *)
(***************************************************************************)
\* The counters of read_write_s.c are the numbers of the threads they count.
THEOREM ReadersWritersCountersExact == Spec => []CountersExact
<1>1. IInv => CountersExact
  BY DEF IInv
<1> QED BY <1>1, SpecInv, PTL

\* A writer is alone in the room: no reader and no other writer is in with it.
THEOREM ReadersWritersExclusion == Spec => []Exclusion
<1>1. IInv => Exclusion
  <2> SUFFICES ASSUME IInv PROVE Exclusion
    OBVIOUS
  <2> DEFINE readers == At({"reading", "reader exit"})
             writers == At({"writing", "writer exit"})
  <2>1. /\ IsFiniteSet(readers) /\ rc = Cardinality(readers)
        /\ IsFiniteSet(writers) /\ wc = Cardinality(writers)
    BY AtFinite DEF IInv, CountersExact
  <2>2. Alone
    BY DEF IInv, Doors
  <2> HIDE DEF readers, writers
  <2>3. writers = {} \/ (Cardinality(writers) = 1 /\ readers = {})
    BY <2>1, <2>2, FS_EmptySet DEF Alone
  <2> QED BY <2>3 DEF Exclusion, readers, writers
<1> QED BY <1>1, SpecInv, PTL

\* There is one baton: one token, or one thread in a section of code.
THEOREM ReadersWritersOneBaton == Spec => []OneBaton
<1>1. IInv => OneBaton
  <2> SUFFICES ASSUME IInv PROVE OneBaton
    OBVIOUS
  <2>1. /\ Cardinality({}) = 0
        /\ \A t : Cardinality({t}) = 1
    BY FS_EmptySet, FS_Singleton
  <2>2. \A s \in Semaphore : available[s] = IF s \in Tokens THEN 1 ELSE 0
    BY DEF IInv, WellFormed, Tokens
  <2>3. CASE Holders = {} /\ \E s \in Semaphore : Tokens = {s}
    <3>1. Cardinality(Holders) = 0
      BY <2>1, <2>3
    <3>2. available["mutex"] + available["r_sem"] + available["w_sem"] = 1
      BY <2>2, <2>3 DEF Semaphore
    <3> QED BY <3>1, <3>2 DEF OneBaton, Holders
  <2>4. CASE Tokens = {} /\ \E t \in Thread : Holders = {t}
    <3>1. Cardinality(Holders) = 1
      BY <2>1, <2>4
    <3>2. available["mutex"] + available["r_sem"] + available["w_sem"] = 0
      BY <2>2, <2>4 DEF Semaphore
    <3> QED BY <3>1, <3>2 DEF OneBaton, Holders
  <2> QED BY <2>3, <2>4 DEF IInv, Baton
<1> QED BY <1>1, SpecInv, PTL

\* While the baton is free, whoever waits has somebody in front of it.
THEOREM ReadersWritersNobodyForgotten == Spec => []NobodyForgotten
<1>1. IInv => NobodyForgotten
  <2> SUFFICES ASSUME IInv, available["mutex"] = 1 PROVE MutexDoor
    BY DEF NobodyForgotten, MutexDoor
  <2>1. With("mutex")
    BY Labels DEF With, Tokens
  <2> QED BY <2>1, Labels, DoorsAre DEF IInv, Doors
<1> QED BY <1>1, SpecInv, PTL
=============================================================================
