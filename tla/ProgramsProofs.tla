--------------------------- MODULE ProgramsProofs ---------------------------
(***************************************************************************)
(* Proofs about the example programs, for every finite set of threads and  *)
(* every size, order and number of increments.  Only one of the programs   *)
(* runs: its threads stay at its own points.                               *)
(***************************************************************************)
EXTENDS Programs, DataFacts

BarrierPoints == {"arrive", "test", "wait", "last", "passed"}
ProdConsPoints == {"prod", "in_prod", "insert", "inserted", "tell",
                   "cons", "in_cons", "delete", "deleted", "free", "delays"}
MonitorPoints == {"produces", "has_room", "consumes", "has_item", "sets_delays"}
RoundsPoints == {"main", "check", "print",
                 "child", "look", "update", "updated", "report"}
Project3Points == {"producer", "produce", "put", "consumer", "consume", "take"}
Project2Points == {"filler", "fill", "drainer", "drain"}
RacePoints == {"not_made", "load", "store", "looped", "printed"}

Points == BarrierPoints \cup ProdConsPoints \cup MonitorPoints \cup RoundsPoints
            \cup Project3Points \cup Project2Points \cup RacePoints \cup {"none"}

PcType == pc \in [Thread -> Points]
NoneAt(points) == \A t \in Thread : pc[t] \notin points

\* A thread goes from one of these points to another, and nobody else does.
Moves(t, points) == /\ pc[t] \in points /\ pc'[t] \in points
                    /\ ~Blocked(t)
                    /\ \A u \in Thread : u # t => pc'[u] = pc[u]

LEMMA GotoMoves ==
  ASSUME PcType, NEW t \in Thread, NEW points \in SUBSET Points,
         \E from, to \in points : Goto(t, from, to) \/ M!Inside(t, from, to)
  PROVE  PcType' /\ Moves(t, points)
<1>1. PICK from \in points, to \in points : Goto(t, from, to) \/ M!Inside(t, from, to)
  OBVIOUS
<1>2. pc[t] = from /\ ~Blocked(t) /\ pc' = [pc EXCEPT ![t] = to]
  BY <1>1 DEF Goto, M!Inside, M!Waits, Blocked
<1>3. from \in Points /\ to \in Points
  OBVIOUS
<1> QED BY <1>2, <1>3 DEF PcType, Moves

(***************************************************************************)
(* Every step is one of these.                                             *)
(***************************************************************************)
LEMMA BarrierMoves ==
  ASSUME PcType, NEW t \in Thread, barrier(t)
  PROVE  PcType' /\ Moves(t, BarrierPoints)
<1>1. BarrierPoints \in SUBSET Points
  BY DEF Points
<1>2. \E from, to \in BarrierPoints : Goto(t, from, to)
  BY DEF barrier, BarrierPoints
<1> QED BY <1>1, <1>2, GotoMoves

LEMMA ProdConsMoves ==
  ASSUME PcType, NEW t \in Thread, prod(t) \/ cons(t)
  PROVE  PcType' /\ Moves(t, ProdConsPoints)
<1>1. CASE prod(t)
  <2>1. ProdConsPoints \in SUBSET Points
    BY DEF Points
  <2>2. \E from, to \in ProdConsPoints : Goto(t, from, to)
    BY <1>1 DEF prod, ProdConsPoints
  <2> QED BY <2>1, <2>2, GotoMoves
<1>2. CASE cons(t)
  <2>1. ProdConsPoints \in SUBSET Points
    BY DEF Points
  <2>2. \E from, to \in ProdConsPoints : Goto(t, from, to)
    BY <1>2 DEF cons, ProdConsPoints
  <2> QED BY <2>1, <2>2, GotoMoves
<1> QED BY <1>1, <1>2

LEMMA MonitorMoves ==
  ASSUME PcType, NEW t \in Thread, monitor_prod(t) \/ monitor_cons(t)
  PROVE  PcType' /\ Moves(t, MonitorPoints)
<1>1. CASE monitor_prod(t)
  <2>1. MonitorPoints \in SUBSET Points
    BY DEF Points
  <2>2. \E from, to \in MonitorPoints : M!Inside(t, from, to)
    BY <1>1 DEF monitor_prod, WaitFor, InsertItem, MonitorPoints
  <2> QED BY <2>1, <2>2, GotoMoves
<1>2. CASE monitor_cons(t)
  <2>1. MonitorPoints \in SUBSET Points
    BY DEF Points
  <2>2. \E from, to \in MonitorPoints : M!Inside(t, from, to)
    BY <1>2 DEF monitor_cons, WaitFor, DeleteItem, MonitorPoints
  <2> QED BY <2>1, <2>2, GotoMoves
<1> QED BY <1>1, <1>2

LEMMA RoundsMoves ==
  ASSUME PcType, NEW t \in Thread, child(t) \/ (t = Main /\ main)
  PROVE  PcType' /\ Moves(t, RoundsPoints)
<1>1. CASE child(t)
  <2>1. RoundsPoints \in SUBSET Points
    BY DEF Points
  <2>2. \E from, to \in RoundsPoints : Goto(t, from, to)
    BY <1>1 DEF child, RoundsPoints
  <2> QED BY <2>1, <2>2, GotoMoves
<1>2. CASE t = Main /\ main
  <2>1. RoundsPoints \in SUBSET Points
    BY DEF Points
  <2>2. \E from, to \in RoundsPoints : Goto(t, from, to)
    BY <1>2 DEF main, RoundsPoints
  <2> QED BY <2>1, <2>2, GotoMoves
<1> QED BY <1>1, <1>2

LEMMA Project3Moves ==
  ASSUME PcType, NEW t \in Thread, producer(t) \/ consumer(t)
  PROVE  PcType' /\ Moves(t, Project3Points)
<1>1. CASE producer(t)
  <2>1. Project3Points \in SUBSET Points
    BY DEF Points
  <2>2. \E from, to \in Project3Points : Goto(t, from, to)
    BY <1>1 DEF producer, Project3Points
  <2> QED BY <2>1, <2>2, GotoMoves
<1>2. CASE consumer(t)
  <2>1. Project3Points \in SUBSET Points
    BY DEF Points
  <2>2. \E from, to \in Project3Points : Goto(t, from, to)
    BY <1>2 DEF consumer, Project3Points
  <2> QED BY <2>1, <2>2, GotoMoves
<1> QED BY <1>1, <1>2

LEMMA Project2Moves ==
  ASSUME PcType, NEW t \in Thread, filler(t) \/ drainer(t)
  PROVE  PcType' /\ Moves(t, Project2Points)
<1>1. CASE filler(t)
  <2>1. Project2Points \in SUBSET Points
    BY DEF Points
  <2>2. \E from, to \in Project2Points : Goto(t, from, to)
    BY <1>1 DEF filler, Project2Points
  <2> QED BY <2>1, <2>2, GotoMoves
<1>2. CASE drainer(t)
  <2>1. Project2Points \in SUBSET Points
    BY DEF Points
  <2>2. \E from, to \in Project2Points : Goto(t, from, to)
    BY <1>2 DEF drainer, Project2Points
  <2> QED BY <2>1, <2>2, GotoMoves
<1> QED BY <1>1, <1>2

LEMMA RaceMoves ==
  ASSUME PcType, NEW t \in Thread, func(t) \/ (t = Main /\ PrintFinal)
  PROVE  PcType' /\ Moves(t, RacePoints)
<1>1. CASE func(t)
  <2>1. RacePoints \in SUBSET Points
    BY DEF Points
  <2>2. \E from, to \in RacePoints : Goto(t, from, to)
    BY <1>1 DEF func, RacePoints
  <2> QED BY <2>1, <2>2, GotoMoves
<1>2. CASE t = Main /\ PrintFinal
  <2>1. RacePoints \in SUBSET Points
    BY DEF Points
  <2>2. \E from, to \in RacePoints : Goto(t, from, to)
    BY <1>2 DEF PrintFinal, RacePoints
  <2> QED BY <2>1, <2>2, GotoMoves
<1> QED BY <1>1, <1>2

\* A step is that of a program whose points the thread is at.
Steps(t) ==
  \/ /\ barrier(t) /\ Moves(t, BarrierPoints)
     /\ UNCHANGED <<prodConsVars, items, roundsVars, bufferVars, raceVars>>
  \/ /\ prod(t) \/ cons(t)
     /\ Moves(t, ProdConsPoints)
     /\ UNCHANGED items
     /\ UNCHANGED <<barrierVars, roundsVars, bufferVars, raceVars>>
  \/ /\ monitor_prod(t) \/ monitor_cons(t)
     /\ Moves(t, MonitorPoints)
     /\ UNCHANGED <<barrierVars, roundsVars, bufferVars, raceVars>>
  \/ /\ producer(t) \/ consumer(t)
     /\ Moves(t, Project3Points)
     /\ UNCHANGED <<barrierVars, prodConsVars, items, roundsVars, raceVars>>
  \/ /\ filler(t) \/ drainer(t)
     /\ Moves(t, Project2Points)
     /\ UNCHANGED <<barrierVars, prodConsVars, items, roundsVars, raceVars>>
  \/ /\ (t \in Child /\ child(t)) \/ (t = Main /\ main)
     /\ Moves(t, RoundsPoints)
     /\ UNCHANGED <<barrierVars, prodConsVars, items, bufferVars, raceVars>>
  \/ /\ func(t) \/ (t = Main /\ PrintFinal)
     /\ Moves(t, RacePoints)
     /\ UNCHANGED <<barrierVars, prodConsVars, items, roundsVars, bufferVars>>

LEMMA StepMoves ==
  ASSUME PcType, NEW t \in Thread, Step(t)
  PROVE  PcType' /\ Steps(t)
<1>1. CASE barrier(t) /\ UNCHANGED <<prodConsVars, items, roundsVars, bufferVars, raceVars>>
  BY <1>1, BarrierMoves DEF Steps
<1>2. CASE (prod(t) \/ cons(t)) /\ UNCHANGED items /\ UNCHANGED <<barrierVars, roundsVars, bufferVars, raceVars>>
  BY <1>2, ProdConsMoves DEF Steps
<1>3. CASE (monitor_prod(t) \/ monitor_cons(t)) /\ UNCHANGED <<barrierVars, roundsVars, bufferVars, raceVars>>
  BY <1>3, MonitorMoves DEF Steps
<1>4. CASE (producer(t) \/ consumer(t)) /\ UNCHANGED <<barrierVars, prodConsVars, items, roundsVars, raceVars>>
  BY <1>4, Project3Moves DEF Steps
<1>5. CASE (filler(t) \/ drainer(t)) /\ UNCHANGED <<barrierVars, prodConsVars, items, roundsVars, raceVars>>
  BY <1>5, Project2Moves DEF Steps
<1>6. CASE ((t \in Child /\ child(t)) \/ (t = Main /\ main)) /\ UNCHANGED <<barrierVars, prodConsVars, items, bufferVars, raceVars>>
  BY <1>6, RoundsMoves DEF Steps
<1>7. CASE (func(t) \/ (t = Main /\ PrintFinal)) /\ UNCHANGED <<barrierVars, prodConsVars, items, roundsVars, bufferVars>>
  BY <1>7, RaceMoves DEF Steps
<1> QED BY <1>1, <1>2, <1>3, <1>4, <1>5, <1>6, <1>7 DEF Step

LEMMA NobodyComes ==
  ASSUME NEW t \in Thread, NEW points, NEW others, points \cap others = {},
         Moves(t, others), NoneAt(points)
  PROVE  NoneAt(points)'
BY DEF Moves, NoneAt

LEMMA Elsewhere ==
  ASSUME NEW t \in Thread, NEW points, Moves(t, points)
  PROVE  ~NoneAt(points)
BY DEF Moves, NoneAt

LEMMA FiniteThreads == IsFiniteSet(Thread) /\ Main \in Thread /\ Child \subseteq Thread
BY MainAssumption, FS_AddElement DEF Thread

At(points) == {t \in Thread : pc[t] \in points}

\* The number of threads at some points, as one of them comes or goes.
LEMMA AtSteps ==
  ASSUME NEW t \in Thread, NEW points, \A u \in Thread : u # t => pc'[u] = pc[u]
  PROVE  /\ Cardinality(At(points)) \in Nat
         /\ pc[t] \notin points /\ pc'[t] \in points =>
              Cardinality(At(points)') = Cardinality(At(points)) + 1
         /\ pc[t] \in points /\ pc'[t] \notin points =>
              Cardinality(At(points)') = Cardinality(At(points)) - 1
         /\ (pc[t] \in points <=> pc'[t] \in points) => At(points)' = At(points)
<1>1. IsFiniteSet(At(points)) /\ At(points) \in SUBSET Thread
  BY FiniteThreads, FS_Subset DEF At
<1>2. ASSUME pc[t] \notin points, pc'[t] \in points
      PROVE  Cardinality(At(points)') = Cardinality(At(points)) + 1
  <2>1. At(points)' = At(points) \cup {t} /\ t \notin At(points)
    BY <1>2 DEF At
  <2> QED BY <1>1, <2>1, FS_AddElement
<1>3. ASSUME pc[t] \in points, pc'[t] \notin points
      PROVE  Cardinality(At(points)') = Cardinality(At(points)) - 1
  <2>1. At(points)' = At(points) \ {t} /\ t \in At(points)
    BY <1>3 DEF At
  <2> QED BY <1>1, <2>1, FS_RemoveElement
<1>4. ASSUME pc[t] \in points <=> pc'[t] \in points PROVE At(points)' = At(points)
  BY <1>4 DEF At
<1> QED BY <1>1, <1>2, <1>3, <1>4, FS_CardinalityType
-----------------------------------------------------------------------------
(***************************************************************************)
(* The barrier.  As long as nobody has been released, actual_count is the  *)
(* number of threads that have been in, and those that have called P wait. *)
(* The thread that finds all the others there is the last one.             *)
(***************************************************************************)
Closed == /\ released = 0
          /\ actual_count = Cardinality(At({"wait", "passed"}))
          /\ At({"last"}) = {}
          /\ count["barrier"] <= 0
          /\ At({"passed"}) \subseteq waiting["barrier"]

Opened == /\ released > 0
          /\ At({"wait", "last", "passed"}) = Thread

BarrierInv == /\ At(BarrierPoints) = Thread
              /\ count \in [{"lock", "barrier"} -> Int]
              /\ waiting \in [{"lock", "barrier"} -> SUBSET Thread]
              /\ actual_count \in Int /\ released \in Nat
              /\ Closed \/ Opened

LEMMA CallP ==
  ASSUME NEW Sems, count \in [Sems -> Int], waiting \in [Sems -> SUBSET Thread],
         NEW s \in Sems, NEW t \in Thread, P(t, s)
  PROVE  /\ count' \in [Sems -> Int] /\ waiting' \in [Sems -> SUBSET Thread]
         /\ \A r \in Sems : r # s => count'[r] = count[r] /\ waiting'[r] = waiting[r]
         /\ count'[s] = count[s] - 1
         /\ waiting'[s] = IF count[s] <= 0 THEN waiting[s] \cup {t} ELSE waiting[s]
<1>1. /\ count' = [count EXCEPT ![s] = count[s] - 1]
      /\ waiting' = IF count'[s] < 0 THEN [waiting EXCEPT ![s] = waiting[s] \cup {t}]
                                     ELSE waiting
  BY DEF P
<1>2. /\ count' \in [Sems -> Int] /\ count'[s] = count[s] - 1
      /\ \A r \in Sems : r # s => count'[r] = count[r]
  BY <1>1
<1>3. count'[s] < 0 <=> count[s] <= 0
  BY <1>2
<1>4. /\ waiting' \in [Sems -> SUBSET Thread]
      /\ \A r \in Sems : r # s => waiting'[r] = waiting[r]
      /\ waiting'[s] = IF count'[s] < 0 THEN waiting[s] \cup {t} ELSE waiting[s]
  BY <1>1
<1> QED BY <1>2, <1>3, <1>4

\* Who is let go by V: one of those that wait, if the count says there are any.
Wakes(s) ==
  \/ count[s] < 0 /\ \E u \in waiting[s] : waiting'[s] = waiting[s] \ {u}
  \/ (count[s] >= 0 \/ waiting[s] = {}) /\ waiting' = waiting

LEMMA CallV ==
  ASSUME NEW Sems, count \in [Sems -> Int], waiting \in [Sems -> SUBSET Thread],
         NEW s \in Sems, V(s)
  PROVE  /\ count' \in [Sems -> Int] /\ waiting' \in [Sems -> SUBSET Thread]
         /\ \A r \in Sems : r # s => count'[r] = count[r] /\ waiting'[r] = waiting[r]
         /\ count'[s] = count[s] + 1
         /\ Wakes(s)
<1>1. /\ count' = [count EXCEPT ![s] = count[s] + 1]
      /\ \/ count'[s] <= 0 /\ \E u \in waiting[s] : waiting' = [waiting EXCEPT ![s] = waiting[s] \ {u}]
         \/ (count'[s] > 0 \/ waiting[s] = {}) /\ waiting' = waiting
  BY DEF V
<1>2. /\ count' \in [Sems -> Int] /\ count'[s] = count[s] + 1
      /\ \A r \in Sems : r # s => count'[r] = count[r]
  BY <1>1
<1>3. (count'[s] <= 0 <=> count[s] < 0) /\ (count'[s] > 0 <=> count[s] >= 0)
  BY <1>2
<1>4. CASE count'[s] <= 0 /\ \E u \in waiting[s] : waiting' = [waiting EXCEPT ![s] = waiting[s] \ {u}]
  <2>1. PICK u \in waiting[s] : waiting' = [waiting EXCEPT ![s] = waiting[s] \ {u}]
    BY <1>4
  <2>2. /\ waiting' \in [Sems -> SUBSET Thread] /\ waiting'[s] = waiting[s] \ {u}
        /\ \A r \in Sems : r # s => waiting'[r] = waiting[r]
    BY <2>1
  <2> QED BY <1>2, <1>3, <1>4, <2>1, <2>2 DEF Wakes
<1>5. CASE (count'[s] > 0 \/ waiting[s] = {}) /\ waiting' = waiting
  BY <1>2, <1>3, <1>5 DEF Wakes
<1> QED BY <1>1, <1>4, <1>5

LEMMA BarrierStep ==
  ASSUME PcType, NEW t \in Thread, barrier(t), BarrierInv
  PROVE  BarrierInv'
<1> DEFINE Sems == {"lock", "barrier"}
           Here == {"wait", "passed"}
<1>1. /\ PcType' /\ pc[t] \in BarrierPoints /\ pc'[t] \in BarrierPoints /\ ~Blocked(t)
      /\ \A u \in Thread : u # t => pc'[u] = pc[u]
  BY BarrierMoves DEF Moves
<1>2. /\ count \in [Sems -> Int] /\ waiting \in [Sems -> SUBSET Thread]
      /\ actual_count \in Int /\ released \in Nat
      /\ At(BarrierPoints) = Thread
  BY DEF BarrierInv
<1>3. At(BarrierPoints)' = Thread
  BY <1>1, <1>2 DEF At
<1>4. \A s \in Sems : t \notin waiting[s]
  BY <1>1, <1>2 DEF Blocked
<1>5. CASE Goto(t, "arrive", "test") /\ P(t, "lock") /\ UNCHANGED barrierVars
  <2>1. pc[t] = "arrive" /\ pc'[t] = "test"
    BY <1>1, <1>5 DEF Goto, PcType
  <2>2. /\ count' \in [Sems -> Int] /\ waiting' \in [Sems -> SUBSET Thread]
        /\ count'["barrier"] = count["barrier"] /\ waiting'["barrier"] = waiting["barrier"]
    BY <1>2, <1>5, CallP
  <2>3. At(Here)' = At(Here) /\ At({"last"})' = At({"last"}) /\ At({"passed"})' = At({"passed"})
    BY <1>1, <2>1, AtSteps
  <2>4. CASE Closed
    BY <1>2, <1>3, <1>5, <2>2, <2>3, <2>4 DEF Closed, BarrierInv, barrierVars
  <2>5. CASE Opened
    BY <2>1, <2>5 DEF Opened, At
  <2> QED BY <2>4, <2>5 DEF BarrierInv
<1>6. CASE /\ actual_count # Parties - 1
           /\ Goto(t, "test", "wait")
           /\ actual_count' = actual_count + 1
           /\ V("lock")
           /\ UNCHANGED released
  <2>1. pc[t] = "test" /\ pc'[t] = "wait"
    BY <1>1, <1>6 DEF Goto, PcType
  <2>2. /\ count' \in [Sems -> Int] /\ waiting' \in [Sems -> SUBSET Thread]
        /\ count'["barrier"] = count["barrier"] /\ waiting'["barrier"] = waiting["barrier"]
    BY <1>2, <1>6, CallV
  <2>3. /\ Cardinality(At(Here)') = Cardinality(At(Here)) + 1
        /\ At({"last"})' = At({"last"}) /\ At({"passed"})' = At({"passed"})
    BY <1>1, <2>1, AtSteps
  <2>4. CASE Closed
    BY <1>2, <1>3, <1>6, <2>2, <2>3, <2>4 DEF Closed, BarrierInv
  <2>5. CASE Opened
    BY <2>1, <2>5 DEF Opened, At
  <2> QED BY <2>4, <2>5 DEF BarrierInv
<1>7. CASE Goto(t, "wait", "passed") /\ P(t, "barrier") /\ UNCHANGED barrierVars
  <2>1. pc[t] = "wait" /\ pc'[t] = "passed"
    BY <1>1, <1>7 DEF Goto, PcType
  <2>2. /\ count' \in [Sems -> Int] /\ waiting' \in [Sems -> SUBSET Thread]
        /\ count'["barrier"] = count["barrier"] - 1
        /\ count["barrier"] <= 0 => waiting'["barrier"] = waiting["barrier"] \cup {t}
    BY <1>2, <1>7, CallP
  <2>3. At(Here)' = At(Here) /\ At({"last"})' = At({"last"})
    BY <1>1, <2>1, AtSteps
  <2>4. At({"passed"})' = At({"passed"}) \cup {t}
    BY <1>1, <2>1 DEF At
  <2>5. CASE Closed
    <3>1. Closed'
      BY <1>2, <1>7, <2>2, <2>3, <2>4, <2>5 DEF Closed, barrierVars
    <3> QED BY <1>2, <1>3, <1>7, <2>2, <3>1 DEF BarrierInv, barrierVars
  <2>6. CASE Opened
    BY <1>1, <1>2, <1>3, <1>7, <2>1, <2>2, <2>6 DEF Opened, At, BarrierInv, barrierVars
  <2> QED BY <2>5, <2>6 DEF BarrierInv
<1>8. CASE actual_count = Parties - 1 /\ Goto(t, "test", "last") /\ Release
  <2>1. pc[t] = "test" /\ pc'[t] = "last"
    BY <1>1, <1>8 DEF Goto, PcType
  <2>2. /\ count' \in [Sems -> Int] /\ waiting' \in [Sems -> SUBSET Thread]
        /\ released' = released + 1 /\ actual_count' = actual_count - 1
    BY <1>2, <1>8, CallV DEF Release
  <2>3. Closed
    BY <2>1 DEF BarrierInv, Opened, At
  \* The others have all come: only t is neither waiting nor past its P.
  <2>4. At(Here) = Thread \ {t}
    <3>1. Cardinality(At(Here)) = Cardinality(Thread) - 1
      BY <1>8, <2>3 DEF Closed, Parties
    <3>2. At(Here) \subseteq Thread \ {t}
      BY <2>1 DEF At
    <3>3. IsFiniteSet(Thread \ {t}) /\ Cardinality(Thread \ {t}) = Cardinality(Thread) - 1
      BY FiniteThreads, FS_RemoveElement
    <3> QED BY <3>1, <3>2, <3>3, FS_Subset
  <2>5. At({"wait", "last", "passed"})' = Thread
    BY <1>1, <2>1, <2>4 DEF At
  <2> QED BY <1>2, <1>3, <2>2, <2>5 DEF BarrierInv, Opened
<1>9. CASE released < Parties /\ Goto(t, "last", "last") /\ Release
  <2>1. pc[t] = "last" /\ pc'[t] = "last"
    BY <1>1, <1>9 DEF Goto, PcType
  <2>2. /\ count' \in [Sems -> Int] /\ waiting' \in [Sems -> SUBSET Thread]
        /\ released' = released + 1 /\ actual_count' = actual_count - 1
    BY <1>2, <1>9, CallV DEF Release
  <2>3. Opened
    BY <2>1 DEF BarrierInv, Closed, At
  <2>4. At({"wait", "last", "passed"})' = Thread
    BY <1>1, <2>1, <2>3 DEF At, Opened
  <2> QED BY <1>2, <1>3, <2>2, <2>4 DEF BarrierInv, Opened
<1>10. CASE released = Parties /\ Goto(t, "last", "passed") /\ V("lock") /\ UNCHANGED barrierVars
  <2>1. pc[t] = "last" /\ pc'[t] = "passed"
    BY <1>1, <1>10 DEF Goto, PcType
  <2>2. /\ count' \in [Sems -> Int] /\ waiting' \in [Sems -> SUBSET Thread]
    BY <1>2, <1>10, CallV
  <2>3. Opened
    BY <2>1 DEF BarrierInv, Closed, At
  <2>4. At({"wait", "last", "passed"})' = Thread
    BY <1>1, <2>1, <2>3 DEF At, Opened
  <2> QED BY <1>2, <1>3, <1>10, <2>2, <2>3, <2>4 DEF BarrierInv, Opened, barrierVars
<1> QED BY <1>5, <1>6, <1>7, <1>8, <1>9, <1>10 DEF barrier
-----------------------------------------------------------------------------
(***************************************************************************)
(* Where the threads of each program start.                                *)
(***************************************************************************)
AllAt(points) == \A t \in Thread : pc[t] \in points

Starts ==
  \/ BarrierMain /\ AllAt(BarrierPoints)
  \/ ProdConsMain /\ AllAt(ProdConsPoints)
  \/ MonitorBufferMain /\ AllAt(MonitorPoints)
  \/ RoundsMain /\ AllAt(RoundsPoints)
  \/ Project3Main /\ AllAt(Project3Points \cup {"none"})
  \/ Project2Main /\ AllAt(Project2Points \cup {"none"})
  \/ RaceMain /\ AllAt(RacePoints)

LEMMA InitStarts == Init => PcType /\ Starts
<1> SUFFICES ASSUME Init PROVE PcType /\ Starts
  OBVIOUS
<1>1. CASE BarrierMain
  <2>1. PcType /\ AllAt(BarrierPoints)
    BY <1>1 DEF BarrierMain, PcType, AllAt, Points, BarrierPoints
  <2> QED BY <1>1, <2>1 DEF Starts
<1>2. CASE ProdConsMain
  <2>1. PICK producers \in (SUBSET Child) \ {{}, Child} :
          pc = [t \in Thread |-> CASE t \in producers -> "prod"
                                   [] t \in Child \ producers -> "cons"
                                   [] t = Main -> "delays"]
    BY <1>2 DEF ProdConsMain
  <2>2. \A t \in Thread : pc[t] \in {"prod", "cons", "delays"}
    BY <2>1, MainAssumption DEF Thread
  <2>3. PcType /\ AllAt(ProdConsPoints)
    BY <2>1, <2>2 DEF PcType, AllAt, Points, ProdConsPoints
  <2> QED BY <1>2, <2>3 DEF Starts
<1>3. CASE MonitorBufferMain
  <2>1. PICK producers \in (SUBSET Child) \ {{}, Child} :
          pc = [t \in Thread |-> CASE t \in producers -> "produces"
                                   [] t \in Child \ producers -> "consumes"
                                   [] t = Main -> "sets_delays"]
    BY <1>3 DEF MonitorBufferMain, M!MonitorInit
  <2>2. \A t \in Thread : pc[t] \in {"produces", "consumes", "sets_delays"}
    BY <2>1, MainAssumption DEF Thread
  <2>3. PcType /\ AllAt(MonitorPoints)
    BY <2>1, <2>2 DEF PcType, AllAt, Points, MonitorPoints
  <2> QED BY <1>3, <2>3 DEF Starts
<1>4. CASE RoundsMain
  <2>1. PcType /\ AllAt(RoundsPoints)
    BY <1>4 DEF RoundsMain, PcType, AllAt, Points, RoundsPoints
  <2> QED BY <1>4, <2>1 DEF Starts
<1>5. CASE Project3Main
  <2>1. PICK t \in Child : pc = [u \in Thread |-> CASE u = t -> "producer"
                                                    [] u = Main -> "consumer"
                                                    [] OTHER -> "none"]
    BY <1>5 DEF Project3Main
  <2>2. \A u \in Thread : pc[u] \in {"producer", "consumer", "none"}
    BY <2>1, MainAssumption DEF Thread
  <2>3. PcType /\ AllAt(Project3Points \cup {"none"})
    BY <2>1, <2>2 DEF PcType, AllAt, Points, Project3Points
  <2> QED BY <1>5, <2>3 DEF Starts
<1>6. CASE Project2Main
  <2>1. PICK t \in Child : pc = [u \in Thread |-> CASE u = t -> "filler"
                                                    [] u = Main -> "drainer"
                                                    [] OTHER -> "none"]
    BY <1>6 DEF Project2Main
  <2>2. \A u \in Thread : pc[u] \in {"filler", "drainer", "none"}
    BY <2>1, MainAssumption DEF Thread
  <2>3. PcType /\ AllAt(Project2Points \cup {"none"})
    BY <2>1, <2>2 DEF PcType, AllAt, Points, Project2Points
  <2> QED BY <1>6, <2>3 DEF Starts
<1>7. CASE RaceMain
  <2>1. PICK t \in Child : pc = [u \in Thread |-> IF u \in {t, Main} THEN "load"
                                                                   ELSE "not_made"]
    BY <1>7 DEF RaceMain
  <2>2. PcType /\ AllAt(RacePoints)
    BY <2>1 DEF PcType, AllAt, Points, RacePoints
  <2> QED BY <1>7, <2>2 DEF Starts
<1> QED BY <1>1, <1>2, <1>3, <1>4, <1>5, <1>6, <1>7 DEF Init

LEMMA InitBarrier == Init => PcType /\ (NoneAt(BarrierPoints) \/ BarrierInv)
<1> SUFFICES ASSUME Init PROVE NoneAt(BarrierPoints) \/ BarrierInv
  BY InitStarts
<1>1. CASE BarrierMain /\ AllAt(BarrierPoints)
  <2>1. /\ count = [lock |-> 1, barrier |-> 0]
        /\ waiting = [s \in DOMAIN count |-> {}]
        /\ pc = [t \in Thread |-> "arrive"]
        /\ actual_count = 0 /\ released = 0
    BY <1>1 DEF BarrierMain, SemInit, BarrierInit, Init
  <2>2. /\ count \in [{"lock", "barrier"} -> Int]
        /\ waiting \in [{"lock", "barrier"} -> SUBSET Thread]
        /\ count["barrier"] = 0
    BY <2>1
  <2>3. /\ At({"wait", "passed"}) = {} /\ At({"last"}) = {} /\ At({"passed"}) = {}
        /\ At(BarrierPoints) = Thread
    BY <2>1 DEF At, BarrierPoints
  <2> QED BY <2>1, <2>2, <2>3, FS_EmptySet DEF BarrierInv, Closed
<1>2. ASSUME NEW points, points \cap BarrierPoints = {}, AllAt(points)
      PROVE  NoneAt(BarrierPoints)
  BY <1>2 DEF AllAt, NoneAt
<1> QED BY <1>1, <1>2, InitStarts DEF Starts, BarrierPoints, ProdConsPoints, MonitorPoints,
           RoundsPoints, Project3Points, Project2Points, RacePoints

LEMMA NextBarrier ==
  ASSUME PcType, NoneAt(BarrierPoints) \/ BarrierInv, [Next]_vars
  PROVE  PcType' /\ (NoneAt(BarrierPoints) \/ BarrierInv)'
<1>1. ASSUME UNCHANGED vars PROVE PcType' /\ (NoneAt(BarrierPoints) \/ BarrierInv)'
  BY <1>1 DEF vars, threads, barrierVars, PcType, NoneAt, BarrierInv, Closed, Opened, At
<1>2. ASSUME NEW t \in Thread, Step(t) PROVE PcType' /\ (NoneAt(BarrierPoints) \/ BarrierInv)'
  <2>1. PcType' /\ Steps(t)
    BY <1>2, StepMoves
  <2>2. CASE NoneAt(BarrierPoints)
    <3>1. PICK others \in {ProdConsPoints, MonitorPoints, RoundsPoints, Project3Points,
                           Project2Points, RacePoints} : Moves(t, others)
      BY <2>1, <2>2, Elsewhere DEF Steps
    <3>2. BarrierPoints \cap others = {}
      BY DEF BarrierPoints, ProdConsPoints, MonitorPoints, RoundsPoints, Project3Points,
             Project2Points, RacePoints
    <3> QED BY <2>1, <2>2, <3>1, <3>2, NobodyComes
  <2>3. CASE BarrierInv
    <3>1. pc[t] \in BarrierPoints
      BY <2>3 DEF BarrierInv, At
    <3>2. barrier(t)
      BY <2>1, <3>1 DEF Steps, Moves, BarrierPoints, ProdConsPoints, MonitorPoints,
             RoundsPoints, Project3Points, Project2Points, RacePoints
    <3> QED BY <2>1, <2>3, <3>2, BarrierStep
  <2> QED BY <2>2, <2>3
<1> QED BY <1>1, <1>2 DEF Next, Rest

(***************************************************************************)
(* A thread leaves the barrier only when all of them have come to it.      *)
(***************************************************************************)
THEOREM BarrierNobodyPassesEarly == Spec => []NobodyPassesEarly
<1>1. PcType /\ (NoneAt(BarrierPoints) \/ BarrierInv) => NobodyPassesEarly
  <2> SUFFICES ASSUME NoneAt(BarrierPoints) \/ BarrierInv, NEW t \in Thread, Passed(t)
               PROVE  \A u \in Thread : pc[u] \in {"wait", "last", "passed"}
    BY DEF NobodyPassesEarly
  <2>1. BarrierInv
    BY DEF NoneAt, Passed, BarrierPoints
  <2>2. ~Closed
    BY <2>1 DEF BarrierInv, Closed, At, Passed, Blocked
  <2> QED BY <2>1, <2>2 DEF BarrierInv, Opened, At
<1> QED BY <1>1, InitBarrier, NextBarrier, PTL DEF Spec
-----------------------------------------------------------------------------
(***************************************************************************)
(* The race.  x is at most the number of stores, and a value that has been *)
(* loaded at most that of the stores before.  And a thread that has stored *)
(* once loads at least 1 from then on, so that x is 1 only because of a    *)
(* thread's first store, and behind every store 2 or more.                 *)
(***************************************************************************)
Stores(t, u) == rounds[t] + rounds[u]

RaceThread(t) ==
  /\ pc[t] \in {"load", "store", "looped", "printed"}
  /\ rounds[t] <= Increments
  /\ pc[t] = "store" => rounds[t] < Increments
  /\ pc[t] \in {"looped", "printed"} => rounds[t] = Increments
  /\ pc[t] = "store" /\ rounds[t] > 0 => loaded[t] > 0

RaceTypes == /\ x \in Nat
             /\ rounds \in [Thread -> Nat] /\ loaded \in [Thread -> Nat]

\* Two threads race, whichever of them is called t.
Racing(t, u) ==
  /\ RaceThread(t) /\ RaceThread(u)
  /\ x <= Stores(t, u)
  /\ pc[t] = "store" => loaded[t] <= Stores(t, u)
  /\ pc[u] = "store" => loaded[u] <= Stores(t, u)
  /\ x = 0 => rounds[t] = 0 /\ rounds[u] = 0
  /\ x = 1 => rounds[t] = 1 \/ rounds[u] = 1

RaceInv == \E t \in Child :
             /\ \A u \in Thread : u \notin {t, Main} => pc[u] = "not_made"
             /\ pc[t] # "printed"
             /\ RaceTypes /\ Racing(t, Main)

LEMMA RaceIsSymmetric ==
  ASSUME RaceTypes, NEW t \in Thread, NEW u \in Thread, Racing(t, u)
  PROVE  Racing(u, t)
<1>1. Stores(t, u) = Stores(u, t)
  BY DEF Stores, RaceTypes
<1> QED BY <1>1 DEF Racing

LEMMA InitRace == Init => PcType /\ (NoneAt(RacePoints) \/ RaceInv)
<1> SUFFICES ASSUME Init PROVE NoneAt(RacePoints) \/ RaceInv
  BY InitStarts
<1>1. CASE RaceMain /\ AllAt(RacePoints)
  <2>1. PICK t \in Child : pc = [u \in Thread |-> IF u \in {t, Main} THEN "load"
                                                                   ELSE "not_made"]
    BY <1>1 DEF RaceMain
  <2>2. /\ x = 0 /\ rounds = [u \in Thread |-> 0] /\ loaded = [u \in Thread |-> 0]
    BY DEF Init, RaceInit
  <2>3. /\ t \in Thread /\ Main \in Thread /\ pc[t] = "load" /\ pc[Main] = "load"
        /\ \A u \in Thread : u \notin {t, Main} => pc[u] = "not_made"
        /\ rounds[t] = 0 /\ rounds[Main] = 0
    BY <2>1, <2>2, FiniteThreads
  <2>4. RaceTypes
    BY <2>2 DEF RaceTypes
  <2>5. RaceThread(t) /\ RaceThread(Main)
    <3>1. Increments \in Nat /\ Increments > 1
      BY IncrementsAssumption
    <3>2. ASSUME NEW u \in Thread, pc[u] = "load", rounds[u] = 0 PROVE RaceThread(u)
      <4>1. rounds[u] <= Increments
        BY <3>1, <3>2
      <4> QED BY <3>2, <4>1 DEF RaceThread
    <3> QED BY <2>3, <3>2
  <2>6. Racing(t, Main)
    BY <2>2, <2>3, <2>5 DEF Racing, Stores
  <2> QED BY <2>3, <2>4, <2>6 DEF RaceInv
<1>2. ASSUME NEW points, points \cap RacePoints = {}, AllAt(points)
      PROVE  NoneAt(RacePoints)
  BY <1>2 DEF AllAt, NoneAt
<1> QED BY <1>1, <1>2, InitStarts DEF Starts, BarrierPoints, ProdConsPoints, MonitorPoints,
           RoundsPoints, Project3Points, Project2Points, RacePoints

\* A step of the thread u, while w is the other.
LEMMA RaceStep ==
  ASSUME PcType, RaceTypes, NEW u \in Thread, NEW w \in Thread \ {u}, Racing(u, w),
         func(u) \/ (u = Main /\ PrintFinal)
  PROVE  /\ RaceTypes' /\ Racing(u, w)'
         /\ pc'[u] = "printed" => u = Main
<1>1. pc[u] \in RacePoints /\ \A v \in Thread : v # u => pc'[v] = pc[v]
  BY RaceMoves DEF Moves
<1>2. pc'[w] = pc[w]
  BY <1>1
<1>3. /\ rounds[u] \in Nat /\ rounds[w] \in Nat /\ loaded[u] \in Nat /\ loaded[w] \in Nat
      /\ x \in Nat /\ Increments \in Nat /\ Increments > 1
  BY IncrementsAssumption DEF RaceTypes
<1>4. CASE /\ rounds[u] < Increments
           /\ Goto(u, "load", "store")
           /\ loaded' = [loaded EXCEPT ![u] = x]
           /\ UNCHANGED <<x, rounds>>
  <2>1. pc[u] = "load" /\ pc'[u] = "store"
    BY <1>4 DEF Goto, PcType
  <2>2. loaded' \in [Thread -> Nat] /\ loaded'[u] = x /\ loaded'[w] = loaded[w]
    BY <1>3, <1>4 DEF RaceTypes
  <2>3. x' = x /\ rounds' = rounds
    BY <1>4
  <2>4. RaceThread(u)' /\ RaceThread(w)'
    BY <1>2, <1>3, <1>4, <2>1, <2>2, <2>3 DEF RaceThread, Racing
  <2> QED BY <1>2, <1>3, <2>1, <2>2, <2>3, <2>4 DEF RaceTypes, Racing, Stores
<1>5. CASE /\ Goto(u, "store", "load")
           /\ x' = loaded[u] + 1
           /\ rounds' = [rounds EXCEPT ![u] = rounds[u] + 1]
           /\ UNCHANGED loaded
  <2>1. pc[u] = "store" /\ pc'[u] = "load"
    BY <1>5 DEF Goto, PcType
  <2>2. rounds' \in [Thread -> Nat] /\ rounds'[u] = rounds[u] + 1 /\ rounds'[w] = rounds[w]
    BY <1>3, <1>5 DEF RaceTypes
  <2>3. x' = loaded[u] + 1 /\ loaded' = loaded
    BY <1>5
  <2>4. RaceThread(u)' /\ RaceThread(w)'
    BY <1>2, <1>3, <2>1, <2>2, <2>3 DEF RaceThread, Racing
  <2>5. RaceTypes'
    BY <1>3, <2>2, <2>3 DEF RaceTypes
  <2>6. /\ Stores(u, w) = rounds[u] + rounds[w]
        /\ Stores(u, w)' = rounds[u] + rounds[w] + 1
    BY <1>3, <2>2 DEF Stores
  <2>7. loaded[u] <= rounds[u] + rounds[w]
    BY <2>1, <2>6 DEF Racing
  <2>8. x' = 1 => rounds'[u] = 1
    BY <1>3, <2>1, <2>2, <2>3 DEF Racing, RaceThread
  <2> QED BY <1>2, <1>3, <2>1, <2>3, <2>4, <2>5, <2>6, <2>7, <2>8 DEF Racing
<1>6. CASE \/ rounds[u] = Increments /\ Goto(u, "load", "looped") /\ UNCHANGED raceVars
           \/ u = Main /\ PrintFinal
  <2>1. /\ x' = x /\ rounds' = rounds /\ loaded' = loaded
        /\ \/ pc'[u] = "looped" /\ rounds[u] = Increments
           \/ u = Main /\ pc'[u] = "printed" /\ pc[u] = "looped"
    BY <1>6 DEF Goto, PcType, PrintFinal, raceVars
  <2>2. RaceThread(u)' /\ RaceThread(w)'
    BY <1>2, <1>3, <2>1 DEF RaceThread, Racing
  <2> QED BY <1>2, <2>1, <2>2 DEF RaceTypes, Racing, Stores
<1> QED BY <1>4, <1>5, <1>6 DEF func

LEMMA RaceGoesOn ==
  ASSUME PcType, RaceInv, NEW u \in Thread, func(u) \/ (u = Main /\ PrintFinal)
  PROVE  RaceInv'
<1>1. PICK t \in Child : /\ \A v \in Thread : v \notin {t, Main} => pc[v] = "not_made"
                        /\ pc[t] # "printed"
                        /\ RaceTypes /\ Racing(t, Main)
  BY DEF RaceInv
<1>2. t \in Thread /\ Main \in Thread /\ t # Main
  BY FiniteThreads, MainAssumption
<1>3. \A v \in Thread : v # u => pc'[v] = pc[v]
  BY RaceMoves DEF Moves
<1>4. u \in {t, Main}
  <2>1. pc[u] # "not_made"
    BY DEF func, PrintFinal, Goto
  <2> QED BY <1>1, <2>1
<1>5. CASE u = t
  <2>1. RaceTypes' /\ Racing(t, Main)' /\ pc'[t] # "printed"
    BY <1>1, <1>2, <1>5, RaceStep
  <2> QED BY <1>1, <1>3, <1>5, <2>1 DEF RaceInv
<1>6. CASE u = Main
  <2>1. Racing(Main, t)
    BY <1>1, <1>2, RaceIsSymmetric
  <2>2. RaceTypes' /\ Racing(Main, t)'
    BY <1>1, <1>2, <1>6, <2>1, RaceStep
  <2>3. Racing(t, Main)'
    <3>1. Stores(t, Main)' = Stores(Main, t)'
      BY <1>2, <2>2 DEF Stores, RaceTypes
    <3> QED BY <2>2, <3>1 DEF Racing
  <2> QED BY <1>1, <1>2, <1>3, <1>6, <2>2, <2>3 DEF RaceInv
<1> QED BY <1>4, <1>5, <1>6

LEMMA NextRace ==
  ASSUME PcType, NoneAt(RacePoints) \/ RaceInv, [Next]_vars
  PROVE  PcType' /\ (NoneAt(RacePoints) \/ RaceInv)'
<1>1. ASSUME UNCHANGED vars PROVE PcType' /\ (NoneAt(RacePoints) \/ RaceInv)'
  <2>1. pc' = pc /\ x' = x /\ rounds' = rounds /\ loaded' = loaded
    BY <1>1 DEF vars, threads, raceVars
  <2>2. RaceInv => RaceInv'
    BY <2>1 DEF RaceInv, RaceThread, RaceTypes, Stores, Racing
  <2> QED BY <2>1, <2>2 DEF PcType, NoneAt
<1>2. ASSUME NEW t \in Thread, Step(t) PROVE PcType' /\ (NoneAt(RacePoints) \/ RaceInv)'
  <2>1. PcType' /\ Steps(t)
    BY <1>2, StepMoves
  <2>2. CASE NoneAt(RacePoints)
    <3>1. PICK others \in {BarrierPoints, ProdConsPoints, MonitorPoints, RoundsPoints,
                           Project3Points, Project2Points} : Moves(t, others)
      BY <2>1, <2>2, Elsewhere DEF Steps
    <3>2. RacePoints \cap others = {}
      BY DEF BarrierPoints, ProdConsPoints, MonitorPoints, RoundsPoints, Project3Points,
             Project2Points, RacePoints
    <3> QED BY <2>1, <2>2, <3>1, <3>2, NobodyComes
  <2>3. CASE RaceInv
    <3>1. pc[t] \in RacePoints
      BY <2>3, FiniteThreads DEF RaceInv, Racing, RaceThread, RacePoints
    <3>2. func(t) \/ (t = Main /\ PrintFinal)
      BY <2>1, <3>1 DEF Steps, Moves, BarrierPoints, ProdConsPoints, MonitorPoints,
             RoundsPoints, Project3Points, Project2Points, RacePoints
    <3> QED BY <2>1, <2>3, <3>2, RaceGoesOn
  <2> QED BY <2>2, <2>3
<1> QED BY <1>1, <1>2 DEF Next, Rest

(***************************************************************************)
(* Lost updates: however long the loops are, the final value is at most    *)
(* the number of increments and at least 2, if both threads have come to   *)
(* their ends.                                                             *)
(***************************************************************************)
THEOREM RaceFinalValue == Spec => []FinalValue
<1>1. PcType /\ (NoneAt(RacePoints) \/ RaceInv) => FinalValue
  <2> SUFFICES ASSUME NoneAt(RacePoints) \/ RaceInv, Over
               PROVE  x \in (IF \E t \in Child : pc[t] = "looped" THEN 2 ELSE 1)
                              .. 2 * Increments
    BY DEF FinalValue
  <2>1. RaceInv
    BY FiniteThreads DEF NoneAt, Over, RacePoints
  <2>2. PICK t \in Child :
          /\ \A u \in Thread : u \notin {t, Main} => pc[u] = "not_made"
          /\ RaceTypes /\ Racing(t, Main)
    BY <2>1 DEF RaceInv
  <2>3. /\ rounds[Main] = Increments /\ rounds[t] \in Nat /\ x \in Nat
        /\ Increments \in Nat /\ Increments > 1
        /\ rounds[t] <= Increments
        /\ pc[t] = "looped" => rounds[t] = Increments
    BY <2>2, FiniteThreads, IncrementsAssumption DEF Racing, RaceThread, RaceTypes, Over
  <2>4. (\E u \in Child : pc[u] = "looped") => pc[t] = "looped"
    BY <2>2, FiniteThreads, MainAssumption
  <2>5. x <= rounds[t] + rounds[Main]
    BY <2>2 DEF Racing, Stores
  <2>6. x # 0 /\ (x = 1 => rounds[t] = 1)
    BY <2>2, <2>3 DEF Racing
  <2>7. x >= 1 /\ (pc[t] = "looped" => x >= 2) /\ x <= 2 * Increments
    BY <2>3, <2>5, <2>6
  <2> QED BY <2>3, <2>4, <2>7
<1> QED BY <1>1, InitRace, NextRace, PTL DEF Spec
-----------------------------------------------------------------------------
(***************************************************************************)
(* The monitor.  A producer that was signalled, but has not come back into *)
(* the monitor yet, is going to insert an item without looking: those      *)
(* items count as if they were in the buffer.  Only one that looks adds to *)
(* the sum, and it is not among those that were signalled.                 *)
(***************************************************************************)
Producers == At({"produces", "has_room"})
Consumers == At({"consumes", "has_item"})
Called(point, condition) == At({point}) \ waiting[condition]

MonitorTypes ==
  /\ At(MonitorPoints) = Thread /\ At({"sets_delays"}) = {Main}
  /\ waiting \in [{"empty", "full"} -> SUBSET Thread]
  /\ items \in Int
  /\ waiting["empty"] \subseteq At({"has_room"})
  /\ waiting["full"] \subseteq At({"has_item"})

NotTooMany == items + Cardinality(Called("has_room", "empty"))
                <= N + Cardinality(Producers) - 1
NotTooFew == items - Cardinality(Called("has_item", "full"))
               >= 1 - Cardinality(Consumers)

MonitorInv == MonitorTypes /\ NotTooMany /\ NotTooFew

LEMMA CalledFacts ==
  ASSUME NEW point, NEW condition, NEW other
  PROVE  /\ IsFiniteSet(Called(point, condition))
         /\ Cardinality(Called(point, condition)) \in Nat
         /\ Cardinality(At({other, point})) \in Nat
         /\ \A t \in Thread : pc[t] = other /\ other # point =>
              Cardinality(Called(point, condition)) <= Cardinality(At({other, point})) - 1
<1>1. IsFiniteSet(Called(point, condition)) /\ IsFiniteSet(At({other, point}))
  BY FiniteThreads, FS_Subset DEF Called, At
<1>2. ASSUME NEW t \in Thread, pc[t] = other, other # point
      PROVE  Cardinality(Called(point, condition)) <= Cardinality(At({other, point})) - 1
  <2>1. t \in At({other, point}) /\ Called(point, condition) \subseteq At({other, point}) \ {t}
    BY <1>2 DEF Called, At
  <2>2. /\ IsFiniteSet(At({other, point}) \ {t})
        /\ Cardinality(At({other, point}) \ {t}) = Cardinality(At({other, point})) - 1
    BY <1>1, <2>1, FS_RemoveElement
  <2> QED BY <2>1, <2>2, FS_Subset
<1> QED BY <1>1, <1>2, FS_CardinalityType

\* What a signal does to those that have been called.
LEMMA Signal ==
  ASSUME MonitorTypes, NEW c \in {"empty", "full"}, M!monitor_signal(c)
  PROVE  /\ waiting' \in [{"empty", "full"} -> SUBSET Thread]
         /\ \A d \in {"empty", "full"} : d # c => waiting'[d] = waiting[d]
         /\ \/ waiting'[c] = waiting[c]
            \/ \E u \in waiting[c] : waiting'[c] = waiting[c] \ {u}
BY DEF MonitorTypes, M!monitor_signal

LEMMA CalledBySignal ==
  ASSUME NEW t \in Thread, NEW point, NEW c,
         \A u \in Thread : u # t => pc'[u] = pc[u],
         pc[t] # point, pc'[t] # point, waiting[c] \subseteq At({point}),
         waiting'[c] = waiting[c] \/ \E u \in waiting[c] : waiting'[c] = waiting[c] \ {u}
  PROVE  /\ Cardinality(Called(point, c)') <= Cardinality(Called(point, c)) + 1
         /\ waiting'[c] \subseteq At({point})'
<1>1. At({point})' = At({point})
  BY DEF At
<1>2. IsFiniteSet(Called(point, c)) /\ Cardinality(Called(point, c)) \in Nat
  BY CalledFacts
\* Both numbers have a name of their own here.
<1> DEFINE before == Cardinality(Called(point, c))
           after == Cardinality(Called(point, c)')
<1>3. CASE waiting'[c] = waiting[c]
  <2>1. Called(point, c)' = Called(point, c)
    BY <1>1, <1>3 DEF Called
  <2>2. waiting'[c] \subseteq At({point})'
    BY <1>1, <1>3
  <2>3. before \in Nat /\ after = before
    BY <1>2, <2>1
  <2> HIDE DEF before, after
  <2>4. after <= before + 1
    BY <2>3
  <2> QED BY <2>2, <2>4 DEF before, after
<1>4. CASE \E u \in waiting[c] : waiting'[c] = waiting[c] \ {u}
  <2>1. PICK u \in waiting[c] : waiting'[c] = waiting[c] \ {u}
    BY <1>4
  <2>2. Called(point, c)' = Called(point, c) \cup {u} /\ u \notin Called(point, c)
    BY <1>1, <2>1 DEF Called
  <2>3. Cardinality(Called(point, c)') = Cardinality(Called(point, c)) + 1
    BY <1>2, <2>2, FS_AddElement
  <2>4. waiting'[c] \subseteq At({point})'
    BY <1>1, <2>1
  <2>5. before \in Nat /\ after = before + 1
    BY <1>2, <2>3
  <2> HIDE DEF before, after
  <2>6. after <= before + 1
    BY <2>5
  <2> QED BY <2>4, <2>6 DEF before, after
<1> QED BY <1>3, <1>4

\* A thread that goes on, while those that wait stay.
LEMMA CalledGoesOn ==
  ASSUME NEW t \in Thread, NEW point, NEW c,
         \A u \in Thread : u # t => pc'[u] = pc[u],
         t \notin waiting[c], pc'[t] # point, waiting'[c] = waiting[c],
         waiting[c] \subseteq At({point})
  PROVE  /\ pc[t] = point => Cardinality(Called(point, c)') = Cardinality(Called(point, c)) - 1
         /\ pc[t] # point => Called(point, c)' = Called(point, c)
         /\ waiting'[c] \subseteq At({point})'
<1>1. At({point})' = At({point}) \ {t}
  BY DEF At
<1>2. IsFiniteSet(Called(point, c))
  BY CalledFacts
<1>3. ASSUME pc[t] = point
      PROVE  Cardinality(Called(point, c)') = Cardinality(Called(point, c)) - 1
  <2>1. Called(point, c)' = Called(point, c) \ {t} /\ t \in Called(point, c)
    BY <1>1, <1>3 DEF Called, At
  <2> QED BY <1>2, <2>1, FS_RemoveElement
<1>4. ASSUME pc[t] # point PROVE Called(point, c)' = Called(point, c)
  BY <1>1, <1>4 DEF Called, At
<1> QED BY <1>1, <1>3, <1>4

\* The types, and who produces and who consumes, after a step to "to".
LEMMA MonitorTypesStep ==
  ASSUME MonitorTypes, NEW t \in Thread, NEW to,
         pc'[t] = to, \A u \in Thread : u # t => pc'[u] = pc[u],
         \/ pc[t] \in {"produces", "has_room"} /\ to \in {"produces", "has_room"}
         \/ pc[t] \in {"consumes", "has_item"} /\ to \in {"consumes", "has_item"}
  PROVE  /\ At(MonitorPoints)' = Thread /\ At({"sets_delays"})' = {Main}
         /\ Producers' = Producers /\ Consumers' = Consumers
<1>1. At(MonitorPoints)' = Thread
  BY DEF MonitorTypes, At, MonitorPoints
<1>2. At({"sets_delays"})' = At({"sets_delays"})
  BY DEF At
<1>3. Producers' = Producers
  BY DEF Producers, At
<1>4. Consumers' = Consumers
  BY DEF Consumers, At
<1> QED BY <1>1, <1>2, <1>3, <1>4 DEF MonitorTypes

LEMMA InsertStep ==
  ASSUME PcType, MonitorInv, NEW t \in Thread, NEW from \in {"produces", "has_room"},
         InsertItem(t, from), from = "produces" => items < N
  PROVE  MonitorInv'
<1>1. /\ pc[t] = from /\ pc'[t] = "produces" /\ ~Blocked(t)
      /\ \A u \in Thread : u # t => pc'[u] = pc[u]
      /\ items' = items + 1 /\ M!monitor_signal("full")
  BY DEF InsertItem, M!Inside, M!Waits, Blocked, PcType
<1>2. /\ waiting \in [{"empty", "full"} -> SUBSET Thread] /\ items \in Int
      /\ waiting["empty"] \subseteq At({"has_room"})
      /\ waiting["full"] \subseteq At({"has_item"})
  BY DEF MonitorInv, MonitorTypes
<1>3. /\ waiting' \in [{"empty", "full"} -> SUBSET Thread]
      /\ waiting'["empty"] = waiting["empty"]
      /\ \/ waiting'["full"] = waiting["full"]
         \/ \E u \in waiting["full"] : waiting'["full"] = waiting["full"] \ {u}
  BY <1>1, Signal DEF MonitorInv
<1>4. t \notin waiting["empty"]
  BY <1>1, <1>2 DEF Blocked
<1>5. /\ At(MonitorPoints)' = Thread /\ At({"sets_delays"})' = {Main}
      /\ Producers' = Producers /\ Consumers' = Consumers
  BY <1>1, MonitorTypesStep DEF MonitorInv
<1>6. /\ from = "has_room" => Cardinality(Called("has_room", "empty")')
                                = Cardinality(Called("has_room", "empty")) - 1
      /\ from = "produces" => Called("has_room", "empty")' = Called("has_room", "empty")
      /\ waiting'["empty"] \subseteq At({"has_room"})'
  BY <1>1, <1>2, <1>3, <1>4, CalledGoesOn
<1>7. /\ Cardinality(Called("has_item", "full")') <= Cardinality(Called("has_item", "full")) + 1
      /\ waiting'["full"] \subseteq At({"has_item"})'
  BY <1>1, <1>2, <1>3, CalledBySignal
<1>8. /\ Cardinality(Called("has_room", "empty")) \in Nat /\ Cardinality(Producers) \in Nat
      /\ Cardinality(Called("has_item", "full")) \in Nat /\ Cardinality(Consumers) \in Nat
      /\ Cardinality(Called("has_item", "full")') \in Nat
      /\ from = "produces" => Cardinality(Called("has_room", "empty")) <= Cardinality(Producers) - 1
  <2>1. /\ Cardinality(Called("has_room", "empty")) \in Nat /\ Cardinality(Producers) \in Nat
        /\ from = "produces" => Cardinality(Called("has_room", "empty")) <= Cardinality(Producers) - 1
    BY <1>1, CalledFacts DEF Producers
  <2>2. Cardinality(Called("has_item", "full")) \in Nat /\ Cardinality(Consumers) \in Nat
    BY CalledFacts DEF Consumers
  <2>3. IsFiniteSet(Called("has_item", "full")')
    BY FiniteThreads, FS_Subset DEF Called, At
  <2> QED BY <2>1, <2>2, <2>3, FS_CardinalityType
<1>9. N \in Nat
  BY RingAssumption
<1>10. NotTooMany'
  <2>1. CASE from = "produces"
    BY <1>1, <1>2, <1>5, <1>6, <1>8, <1>9, <2>1 DEF NotTooMany
  <2>2. CASE from = "has_room"
    BY <1>1, <1>2, <1>5, <1>6, <1>8, <1>9, <2>2 DEF NotTooMany, MonitorInv
  <2> QED BY <2>1, <2>2
<1>11. NotTooFew'
  BY <1>1, <1>2, <1>5, <1>7, <1>8 DEF NotTooFew, MonitorInv
<1> QED BY <1>1, <1>2, <1>3, <1>5, <1>6, <1>7, <1>10, <1>11 DEF MonitorInv, MonitorTypes

LEMMA DeleteStep ==
  ASSUME PcType, MonitorInv, NEW t \in Thread, NEW from \in {"consumes", "has_item"},
         DeleteItem(t, from), from = "consumes" => items > 0
  PROVE  MonitorInv'
<1>1. /\ pc[t] = from /\ pc'[t] = "consumes" /\ ~Blocked(t)
      /\ \A u \in Thread : u # t => pc'[u] = pc[u]
      /\ items' = items - 1 /\ M!monitor_signal("empty")
  BY DEF DeleteItem, M!Inside, M!Waits, Blocked, PcType
<1>2. /\ waiting \in [{"empty", "full"} -> SUBSET Thread] /\ items \in Int
      /\ waiting["empty"] \subseteq At({"has_room"})
      /\ waiting["full"] \subseteq At({"has_item"})
  BY DEF MonitorInv, MonitorTypes
<1>3. /\ waiting' \in [{"empty", "full"} -> SUBSET Thread]
      /\ waiting'["full"] = waiting["full"]
      /\ \/ waiting'["empty"] = waiting["empty"]
         \/ \E u \in waiting["empty"] : waiting'["empty"] = waiting["empty"] \ {u}
  BY <1>1, Signal DEF MonitorInv
<1>4. t \notin waiting["full"]
  BY <1>1, <1>2 DEF Blocked
<1>5. /\ At(MonitorPoints)' = Thread /\ At({"sets_delays"})' = {Main}
      /\ Producers' = Producers /\ Consumers' = Consumers
  BY <1>1, MonitorTypesStep DEF MonitorInv
<1>6. /\ from = "has_item" => Cardinality(Called("has_item", "full")')
                                = Cardinality(Called("has_item", "full")) - 1
      /\ from = "consumes" => Called("has_item", "full")' = Called("has_item", "full")
      /\ waiting'["full"] \subseteq At({"has_item"})'
  BY <1>1, <1>2, <1>3, <1>4, CalledGoesOn
<1>7. /\ Cardinality(Called("has_room", "empty")') <= Cardinality(Called("has_room", "empty")) + 1
      /\ waiting'["empty"] \subseteq At({"has_room"})'
  BY <1>1, <1>2, <1>3, CalledBySignal
<1>8. /\ Cardinality(Called("has_item", "full")) \in Nat /\ Cardinality(Consumers) \in Nat
      /\ Cardinality(Called("has_room", "empty")) \in Nat /\ Cardinality(Producers) \in Nat
      /\ Cardinality(Called("has_room", "empty")') \in Nat
      /\ from = "consumes" => Cardinality(Called("has_item", "full")) <= Cardinality(Consumers) - 1
  <2>1. /\ Cardinality(Called("has_item", "full")) \in Nat /\ Cardinality(Consumers) \in Nat
        /\ from = "consumes" => Cardinality(Called("has_item", "full")) <= Cardinality(Consumers) - 1
    BY <1>1, CalledFacts DEF Consumers
  <2>2. Cardinality(Called("has_room", "empty")) \in Nat /\ Cardinality(Producers) \in Nat
    BY CalledFacts DEF Producers
  <2>3. IsFiniteSet(Called("has_room", "empty")')
    BY FiniteThreads, FS_Subset DEF Called, At
  <2> QED BY <2>1, <2>2, <2>3, FS_CardinalityType
<1>9. N \in Nat
  BY RingAssumption
<1>10. NotTooFew'
  <2>1. CASE from = "consumes"
    BY <1>1, <1>2, <1>5, <1>6, <1>8, <2>1 DEF NotTooFew
  <2>2. CASE from = "has_item"
    BY <1>1, <1>2, <1>5, <1>6, <1>8, <2>2 DEF NotTooFew, MonitorInv
  <2> QED BY <2>1, <2>2
<1>11. NotTooMany'
  BY <1>1, <1>2, <1>5, <1>7, <1>8, <1>9 DEF NotTooMany, MonitorInv
<1> QED BY <1>1, <1>2, <1>3, <1>5, <1>6, <1>7, <1>10, <1>11 DEF MonitorInv, MonitorTypes

LEMMA WaitStep ==
  ASSUME PcType, MonitorInv, NEW t \in Thread,
         NEW c \in {"empty", "full"}, NEW from, NEW to, WaitFor(t, c, from, to),
         \/ c = "empty" /\ from = "produces" /\ to = "has_room"
         \/ c = "full" /\ from = "consumes" /\ to = "has_item"
  PROVE  MonitorInv'
<1>1. /\ pc[t] = from /\ pc'[t] = to
      /\ \A u \in Thread : u # t => pc'[u] = pc[u]
      /\ items' = items /\ waiting' = [waiting EXCEPT ![c] = waiting[c] \cup {t}]
  BY DEF WaitFor, M!Inside, M!monitor_wait, PcType
<1>2. /\ waiting \in [{"empty", "full"} -> SUBSET Thread] /\ items \in Int
      /\ waiting["empty"] \subseteq At({"has_room"})
      /\ waiting["full"] \subseteq At({"has_item"})
  BY DEF MonitorInv, MonitorTypes
<1>3. /\ waiting' \in [{"empty", "full"} -> SUBSET Thread]
      /\ waiting'[c] = waiting[c] \cup {t}
      /\ \A d \in {"empty", "full"} : d # c => waiting'[d] = waiting[d]
  BY <1>1, <1>2
<1>4. /\ At(MonitorPoints)' = Thread /\ At({"sets_delays"})' = {Main}
      /\ Producers' = Producers /\ Consumers' = Consumers
  BY <1>1, MonitorTypesStep DEF MonitorInv
<1>5. /\ Called("has_room", "empty")' = Called("has_room", "empty")
      /\ waiting'["empty"] \subseteq At({"has_room"})'
  <2>1. CASE c = "empty" /\ from = "produces" /\ to = "has_room"
    <3>1. At({"has_room"})' = At({"has_room"}) \cup {t} /\ t \notin At({"has_room"})
      BY <1>1, <2>1 DEF At
    <3> QED BY <1>2, <1>3, <2>1, <3>1 DEF Called
  <2>2. CASE c = "full" /\ from = "consumes" /\ to = "has_item"
    <3>1. At({"has_room"})' = At({"has_room"})
      BY <1>1, <2>2 DEF At
    <3> QED BY <1>2, <1>3, <2>2, <3>1 DEF Called
  <2> QED BY <2>1, <2>2
<1>6. /\ Called("has_item", "full")' = Called("has_item", "full")
      /\ waiting'["full"] \subseteq At({"has_item"})'
  <2>1. CASE c = "full" /\ from = "consumes" /\ to = "has_item"
    <3>1. At({"has_item"})' = At({"has_item"}) \cup {t} /\ t \notin At({"has_item"})
      BY <1>1, <2>1 DEF At
    <3> QED BY <1>2, <1>3, <2>1, <3>1 DEF Called
  <2>2. CASE c = "empty" /\ from = "produces" /\ to = "has_room"
    <3>1. At({"has_item"})' = At({"has_item"})
      BY <1>1, <2>2 DEF At
    <3> QED BY <1>2, <1>3, <2>2, <3>1 DEF Called
  <2> QED BY <2>1, <2>2
<1>7. NotTooMany' /\ NotTooFew'
  BY <1>1, <1>4, <1>5, <1>6 DEF NotTooMany, NotTooFew, MonitorInv
<1> QED BY <1>1, <1>2, <1>3, <1>4, <1>5, <1>6, <1>7 DEF MonitorInv, MonitorTypes

LEMMA InitMonitor == Init => PcType /\ (NoneAt(MonitorPoints) \/ MonitorInv)
<1> SUFFICES ASSUME Init PROVE NoneAt(MonitorPoints) \/ MonitorInv
  BY InitStarts
<1>1. CASE MonitorBufferMain /\ AllAt(MonitorPoints)
  <2>1. PICK producers \in (SUBSET Child) \ {{}, Child} :
          M!MonitorInit([t \in Thread |-> CASE t \in producers -> "produces"
                                            [] t \in Child \ producers -> "consumes"
                                            [] t = Main -> "sets_delays"])
    BY <1>1 DEF MonitorBufferMain
  <2>2. waiting = [c \in {"empty", "full"} |-> {}] /\ items = 0
    BY <2>1 DEF M!MonitorInit, Init, MonitorBufferInit
  <2>3. \A t \in Thread : /\ t \in producers => pc[t] = "produces"
                          /\ t \in Child \ producers => pc[t] = "consumes"
                          /\ t = Main => pc[t] = "sets_delays"
    BY <2>1, FiniteThreads, MainAssumption DEF M!MonitorInit, Thread
  <2>4. /\ At({"has_room"}) = {} /\ At({"has_item"}) = {} /\ At({"sets_delays"}) = {Main}
        /\ At(MonitorPoints) = Thread
    BY <2>3, FiniteThreads DEF At, MonitorPoints, Thread
  <2>5. MonitorTypes
    BY <2>2, <2>4 DEF MonitorTypes
  <2>6. Called("has_room", "empty") = {} /\ Called("has_item", "full") = {}
    BY <2>4 DEF Called
  <2>7. Cardinality(Producers) >= 1 /\ Cardinality(Consumers) >= 1
    <3>1. PICK p \in producers, c \in Child \ producers : TRUE
      BY <2>1
    <3>2. p \in Producers /\ c \in Consumers
      BY <2>3, <3>1, FiniteThreads DEF Producers, Consumers, At
    <3>3. IsFiniteSet(Producers) /\ IsFiniteSet(Consumers)
      BY FiniteThreads, FS_Subset DEF Producers, Consumers, At
    <3>4. /\ Cardinality(Producers) \in Nat /\ Cardinality(Producers) # 0
          /\ Cardinality(Consumers) \in Nat /\ Cardinality(Consumers) # 0
      BY <3>2, <3>3, FS_CardinalityType, FS_EmptySet
    <3> QED BY <3>4
  <2>8. Cardinality(Producers) \in Nat /\ Cardinality(Consumers) \in Nat /\ N \in Nat
    BY CalledFacts, RingAssumption DEF Producers, Consumers
  <2>9. NotTooMany /\ NotTooFew
    <3>1. Cardinality(Called("has_room", "empty")) = 0 /\ Cardinality(Called("has_item", "full")) = 0
      BY <2>6, FS_EmptySet
    <3> QED BY <2>2, <2>7, <2>8, <3>1 DEF NotTooMany, NotTooFew
  <2> QED BY <2>5, <2>9 DEF MonitorInv
<1>2. ASSUME NEW points, points \cap MonitorPoints = {}, AllAt(points)
      PROVE  NoneAt(MonitorPoints)
  BY <1>2 DEF AllAt, NoneAt
<1> QED BY <1>1, <1>2, InitStarts DEF Starts, BarrierPoints, ProdConsPoints, MonitorPoints,
           RoundsPoints, Project3Points, Project2Points, RacePoints

LEMMA NextMonitor ==
  ASSUME PcType, NoneAt(MonitorPoints) \/ MonitorInv, [Next]_vars
  PROVE  PcType' /\ (NoneAt(MonitorPoints) \/ MonitorInv)'
<1>1. ASSUME UNCHANGED vars PROVE PcType' /\ (NoneAt(MonitorPoints) \/ MonitorInv)'
  <2>1. pc' = pc /\ waiting' = waiting /\ items' = items
    BY <1>1 DEF vars, threads
  <2> QED BY <2>1 DEF PcType, NoneAt, MonitorInv, MonitorTypes, NotTooMany, NotTooFew,
                      Called, Producers, Consumers, At
<1>2. ASSUME NEW t \in Thread, Step(t) PROVE PcType' /\ (NoneAt(MonitorPoints) \/ MonitorInv)'
  <2>1. PcType' /\ Steps(t)
    BY <1>2, StepMoves
  <2>2. CASE NoneAt(MonitorPoints)
    <3>1. PICK others \in {BarrierPoints, ProdConsPoints, RoundsPoints, Project3Points,
                           Project2Points, RacePoints} : Moves(t, others)
      BY <2>1, <2>2, Elsewhere DEF Steps
    <3>2. MonitorPoints \cap others = {}
      BY DEF BarrierPoints, ProdConsPoints, MonitorPoints, RoundsPoints, Project3Points,
             Project2Points, RacePoints
    <3> QED BY <2>1, <2>2, <3>1, <3>2, NobodyComes
  <2>3. CASE MonitorInv
    <3>1. pc[t] \in MonitorPoints
      BY <2>3 DEF MonitorInv, MonitorTypes, At
    <3>2. monitor_prod(t) \/ monitor_cons(t)
      BY <2>1, <3>1 DEF Steps, Moves, BarrierPoints, ProdConsPoints, MonitorPoints,
             RoundsPoints, Project3Points, Project2Points, RacePoints
    <3>3. ASSUME monitor_prod(t) PROVE MonitorInv'
      BY <2>3, <3>3, InsertStep, WaitStep DEF monitor_prod
    <3>4. ASSUME monitor_cons(t) PROVE MonitorInv'
      BY <2>3, <3>4, DeleteStep, WaitStep DEF monitor_cons
    <3> QED BY <2>1, <3>2, <3>3, <3>4
  <2> QED BY <2>2, <2>3
<1> QED BY <1>1, <1>2 DEF Next, Rest

(***************************************************************************)
(* How far the missing loop around the waits of prod_cons_m.c goes: each   *)
(* producer but one may insert an item too many, each consumer but one may *)
(* delete one too many.                                                    *)
(***************************************************************************)
THEOREM MonitorDamageBounded == Spec => []DamageBounded
<1>1. PcType /\ (NoneAt(MonitorPoints) \/ MonitorInv) => DamageBounded
  <2> DEFINE Number(points) == Cardinality({t \in Child : pc[t] \in points})
             p == Number({"produces", "has_room"})
             c == Number({"consumes", "has_item"})
  <2> SUFFICES ASSUME NoneAt(MonitorPoints) \/ MonitorInv, p > 0
               PROVE  items \in 1 - c .. N + p - 1
    BY DEF DamageBounded
  <2>1. MonitorInv
    <3>1. SUFFICES ASSUME NoneAt(MonitorPoints) PROVE FALSE
      OBVIOUS
    <3>2. {t \in Child : pc[t] \in {"produces", "has_room"}} = {}
      BY <3>1, FiniteThreads DEF NoneAt, MonitorPoints
    <3> QED BY <3>2, FS_EmptySet
  <2>2. \A t \in Thread : t \in Child <=> pc[t] # "sets_delays"
    BY <2>1, MainAssumption DEF MonitorInv, MonitorTypes, At, Thread
  <2>3. p = Cardinality(Producers) /\ c = Cardinality(Consumers)
    <3>1. /\ {t \in Child : pc[t] \in {"produces", "has_room"}} = Producers
          /\ {t \in Child : pc[t] \in {"consumes", "has_item"}} = Consumers
      BY <2>2, FiniteThreads DEF Producers, Consumers, At
    <3> QED BY <3>1
  <2>4. /\ Cardinality(Called("has_room", "empty")) \in Nat /\ Cardinality(Producers) \in Nat
        /\ Cardinality(Called("has_item", "full")) \in Nat /\ Cardinality(Consumers) \in Nat
    BY CalledFacts DEF Producers, Consumers
  <2>5. items \in Int /\ N \in Nat
    BY <2>1, RingAssumption DEF MonitorInv, MonitorTypes
  <2>6. items <= N + Cardinality(Producers) - 1 /\ items >= 1 - Cardinality(Consumers)
    BY <2>1, <2>4, <2>5 DEF MonitorInv, NotTooMany, NotTooFew
  <2> HIDE DEF p, c
  <2> QED BY <2>3, <2>4, <2>5, <2>6
<1> QED BY <1>1, InitMonitor, NextMonitor, PTL DEF Spec
-----------------------------------------------------------------------------
(***************************************************************************)
(* The producer and the consumer on a buffer that is filled like a stack.  *)
(***************************************************************************)
LEMMA FillFacts ==
  ASSUME NEW t \in Thread, FilledToPointer, order \in [Thread -> Int],
         NEW n \in 0 .. BUFFER_LEN - 1 - buffer_pointer, Fill(t, n)
  PROVE  FilledToPointer' /\ order' \in [Thread -> Int] /\ buffer_pointer' = buffer_pointer + n
<1>1. /\ BUFFER_LEN \in Nat /\ buffer_pointer \in -1 .. BUFFER_LEN - 1
      /\ buffer = [i \in 0..BUFFER_LEN-1 |-> IF i <= buffer_pointer THEN i + 1 ELSE 0]
  BY BufferAssumption DEF FilledToPointer
<1>2. /\ buffer_pointer' = buffer_pointer + n
      /\ order' = [order EXCEPT ![t] = Less(order[t], n)]
      /\ buffer' = [i \in 0..BUFFER_LEN-1 |->
                      IF i \in buffer_pointer+1 .. buffer_pointer' THEN i + 1 ELSE buffer[i]]
  BY <1>1 DEF Fill
<1>3. order' \in [Thread -> Int]
  <2>1. Less(order[t], n) \in Int
    BY DEF Less
  <2> QED BY <1>2, <2>1
<1>4. buffer_pointer' \in -1 .. BUFFER_LEN - 1
  BY <1>1, <1>2
<1>5. ASSUME NEW i \in 0..BUFFER_LEN-1
      PROVE  buffer'[i] = IF i <= buffer_pointer' THEN i + 1 ELSE 0
  BY <1>1, <1>2
<1>6. buffer' = [i \in 0..BUFFER_LEN-1 |-> IF i <= buffer_pointer' THEN i + 1 ELSE 0]
  BY <1>2, <1>5
<1> QED BY <1>2, <1>3, <1>4, <1>6 DEF FilledToPointer

LEMMA DrainFacts ==
  ASSUME NEW t \in Thread, FilledToPointer, order \in [Thread -> Int],
         NEW n \in 0 .. buffer_pointer + 1, Drain(t, n)
  PROVE  FilledToPointer' /\ order' \in [Thread -> Int] /\ buffer_pointer' = buffer_pointer - n
<1>1. /\ BUFFER_LEN \in Nat /\ buffer_pointer \in -1 .. BUFFER_LEN - 1
      /\ buffer = [i \in 0..BUFFER_LEN-1 |-> IF i <= buffer_pointer THEN i + 1 ELSE 0]
  BY BufferAssumption DEF FilledToPointer
<1>2. /\ buffer_pointer' = buffer_pointer - n
      /\ order' = [order EXCEPT ![t] = Less(order[t], n)]
      /\ buffer' = [i \in 0..BUFFER_LEN-1 |->
                      IF i \in buffer_pointer'+1 .. buffer_pointer THEN 0 ELSE buffer[i]]
  BY <1>1 DEF Drain
<1>3. order' \in [Thread -> Int]
  <2>1. Less(order[t], n) \in Int
    BY DEF Less
  <2> QED BY <1>2, <2>1
<1>4. buffer_pointer' \in -1 .. BUFFER_LEN - 1
  BY <1>1, <1>2
<1>5. ASSUME NEW i \in 0..BUFFER_LEN-1
      PROVE  buffer'[i] = IF i <= buffer_pointer' THEN i + 1 ELSE 0
  BY <1>1, <1>2
<1>6. buffer' = [i \in 0..BUFFER_LEN-1 |-> IF i <= buffer_pointer' THEN i + 1 ELSE 0]
  BY <1>2, <1>5
<1> QED BY <1>2, <1>3, <1>4, <1>6 DEF FilledToPointer

(***************************************************************************)
(* Project 3: the producer and the consumer, each alone at its semaphore.  *)
(* A thread waits exactly as long as the count is negative.                *)
(***************************************************************************)
Alone(s, t, point) ==
  /\ waiting[s] \subseteq {t}
  /\ IF waiting[s] = {} THEN count[s] >= 0 ELSE count[s] = -1 /\ pc[t] = point

TokensExact(p) ==
  /\ count["prod"] = BUFFER_LEN - 2 - buffer_pointer - (IF pc[p] = "put" THEN 1 ELSE 0)
  /\ count["cons"] = buffer_pointer + 1 - (IF pc[Main] = "take" THEN 1 ELSE 0)

Project3(p) ==
  /\ pc[p] \in {"producer", "produce", "put"}
  /\ pc[Main] \in {"consumer", "consume", "take"}
  /\ \A u \in Thread : u \notin {p, Main} => pc[u] = "none"
  /\ count \in [{"prod", "cons"} -> Int] /\ waiting \in [{"prod", "cons"} -> SUBSET Thread]
  /\ Alone("prod", p, "put") /\ Alone("cons", Main, "take")
  /\ TokensExact(p)

BufferInv == /\ FilledToPointer /\ order \in [Thread -> Int]
             /\ NoneAt(Project3Points) \/ \E p \in Child : Project3(p)

LEMMA InitBufferInv == Init => PcType /\ BufferInv
<1> SUFFICES ASSUME Init PROVE BufferInv
  BY InitStarts
<1>1. FilledToPointer /\ order \in [Thread -> Int] /\ buffer_pointer = -1
  BY BufferAssumption DEF Init, BufferInit, FilledToPointer
<1>2. CASE Project3Main
  <2>1. /\ count = [prod |-> BUFFER_LEN - 1, cons |-> 0]
        /\ waiting = [s \in DOMAIN count |-> {}]
    BY <1>2 DEF Project3Main, SemInit
  <2>2. PICK p \in Child : pc = [u \in Thread |-> CASE u = p -> "producer"
                                                    [] u = Main -> "consumer"
                                                    [] OTHER -> "none"]
    BY <1>2 DEF Project3Main
  <2>3. /\ pc[p] = "producer" /\ pc[Main] = "consumer"
        /\ \A u \in Thread : u \notin {p, Main} => pc[u] = "none"
    BY <2>2, FiniteThreads, MainAssumption
  <2>4. BUFFER_LEN \in Nat /\ BUFFER_LEN > 1
    BY BufferAssumption
  <2>5. /\ count \in [{"prod", "cons"} -> Int] /\ waiting \in [{"prod", "cons"} -> SUBSET Thread]
        /\ count["prod"] = BUFFER_LEN - 1 /\ count["cons"] = 0
        /\ waiting["prod"] = {} /\ waiting["cons"] = {}
    BY <2>1, <2>4
  <2>6. Alone("prod", p, "put") /\ Alone("cons", Main, "take") /\ TokensExact(p)
    BY <1>1, <2>3, <2>4, <2>5 DEF Alone, TokensExact
  <2> QED BY <1>1, <2>3, <2>5, <2>6 DEF BufferInv, Project3
<1>3. ASSUME NEW points, points \cap Project3Points = {}, AllAt(points)
      PROVE  NoneAt(Project3Points)
  BY <1>3 DEF AllAt, NoneAt
<1>4. NoneAt(Project3Points) \/ Project3Main
  BY <1>3, InitStarts DEF Starts, BarrierPoints, ProdConsPoints, MonitorPoints,
     RoundsPoints, Project3Points, Project2Points, RacePoints
<1> QED BY <1>1, <1>2, <1>4 DEF BufferInv

\* Calls of P and V in Project 3: t calls, the other thread waits elsewhere.
LEMMA AloneP ==
  ASSUME NEW Sems, NEW t \in Thread, NEW s \in Sems, NEW point,
         count \in [Sems -> Int], waiting \in [Sems -> SUBSET Thread],
         ~Blocked(t), Alone(s, t, point), P(t, s), pc'[t] = point
  PROVE  /\ count' \in [Sems -> Int] /\ waiting' \in [Sems -> SUBSET Thread]
         /\ count'[s] = count[s] - 1
         /\ Alone(s, t, point)'
         /\ \A r \in Sems : r # s => count'[r] = count[r] /\ waiting'[r] = waiting[r]
<1>1. waiting[s] = {} /\ count[s] >= 0
  BY DEF Alone, Blocked
<1>2. /\ count' \in [Sems -> Int] /\ waiting' \in [Sems -> SUBSET Thread]
      /\ \A r \in Sems : r # s => count'[r] = count[r] /\ waiting'[r] = waiting[r]
      /\ count'[s] = count[s] - 1
      /\ waiting'[s] = IF count[s] <= 0 THEN waiting[s] \cup {t} ELSE waiting[s]
  BY CallP
<1>3. Alone(s, t, point)'
  BY <1>1, <1>2 DEF Alone
<1> QED BY <1>2, <1>3

LEMMA AloneV ==
  ASSUME NEW Sems, NEW u \in Thread, NEW s \in Sems, NEW point,
         count \in [Sems -> Int], waiting \in [Sems -> SUBSET Thread],
         Alone(s, u, point), V(s)
  PROVE  /\ count' \in [Sems -> Int] /\ waiting' \in [Sems -> SUBSET Thread]
         /\ count'[s] = count[s] + 1
         /\ Alone(s, u, point)'
         /\ \A r \in Sems : r # s => count'[r] = count[r] /\ waiting'[r] = waiting[r]
<1>1. /\ count' \in [Sems -> Int] /\ waiting' \in [Sems -> SUBSET Thread]
      /\ \A r \in Sems : r # s => count'[r] = count[r] /\ waiting'[r] = waiting[r]
      /\ count'[s] = count[s] + 1
      /\ Wakes(s)
  BY CallV
<1>2. waiting'[s] = {} /\ count'[s] >= 0
  BY <1>1 DEF Alone, Wakes
<1> QED BY <1>1, <1>2 DEF Alone

LEMMA ProducerStep ==
  ASSUME PcType, FilledToPointer, order \in [Thread -> Int],
         NEW p \in Child, Project3(p), producer(p)
  PROVE  FilledToPointer' /\ order' \in [Thread -> Int] /\ Project3(p)'
<1> DEFINE Sems == {"prod", "cons"}
<1>1. /\ p \in Thread /\ Main \in Thread /\ p # Main
      /\ "prod" \in Sems /\ "cons" \in Sems /\ \A s \in Sems : s \in {"prod", "cons"}
  BY FiniteThreads, MainAssumption
<1>2. /\ count \in [Sems -> Int] /\ waiting \in [Sems -> SUBSET Thread]
      /\ Alone("prod", p, "put") /\ Alone("cons", Main, "take") /\ TokensExact(p)
  BY DEF Project3
<1>3. /\ pc[p] \in Project3Points /\ pc'[p] \in Project3Points /\ ~Blocked(p)
      /\ \A u \in Thread : u # p => pc'[u] = pc[u]
  BY <1>1, Project3Moves DEF Moves
<1>4. waiting["prod"] = {} /\ count["prod"] >= 0
  BY <1>1, <1>2, <1>3 DEF Alone, Blocked
<1>5. ASSUME pc'[p] \in {"producer", "produce", "put"},
             count' \in [Sems -> Int], waiting' \in [Sems -> SUBSET Thread],
             Alone("prod", p, "put")', Alone("cons", Main, "take")', TokensExact(p)'
      PROVE  Project3(p)'
  BY <1>1, <1>3, <1>5 DEF Project3
<1> HIDE DEF Sems
<1>6. CASE /\ order' = order /\ buffer = buffer' /\ buffer_pointer' = buffer_pointer
           /\ pc[p] # "put" /\ pc'[p] = "put" /\ P(p, "prod")
  <2>a. /\ p \in Thread /\ "prod" \in Sems /\ ~Blocked(p) /\ pc'[p] = "put"
        /\ Alone("prod", p, "put") /\ P(p, "prod")
    BY <1>1, <1>2, <1>3, <1>6
  <2>b. /\ count' \in [Sems -> Int] /\ waiting' \in [Sems -> SUBSET Thread]
        /\ count'["prod"] = count["prod"] - 1
        /\ Alone("prod", p, "put")'
        /\ \A r \in Sems : r # "prod" => count'[r] = count[r] /\ waiting'[r] = waiting[r]
    BY <1>2, <2>a, AloneP
  <2>1. /\ count' \in [Sems -> Int] /\ waiting' \in [Sems -> SUBSET Thread]
        /\ count'["prod"] = count["prod"] - 1
        /\ Alone("prod", p, "put")'
        /\ count'["cons"] = count["cons"] /\ waiting'["cons"] = waiting["cons"]
    BY <1>1, <2>b
  <2>2. Alone("cons", Main, "take")'
    BY <1>1, <1>2, <1>3, <2>1 DEF Alone
  <2>c. /\ BUFFER_LEN \in Int /\ buffer_pointer \in Int
        /\ count["prod"] \in Int /\ count["cons"] \in Int
    BY <1>1, <1>2, BufferAssumption DEF FilledToPointer
  <2>d. pc'[Main] = pc[Main]
    BY <1>1, <1>3
  <2>3. TokensExact(p)'
    BY <1>2, <1>6, <2>1, <2>c, <2>d DEF TokensExact
  <2> QED BY <1>5, <1>6, <2>1, <2>2, <2>3 DEF FilledToPointer
<1>7. CASE pc[p] = "put" /\ pc'[p] = "produce" /\ Fill(p, 1) /\ V("cons")
  <2>1. BUFFER_LEN \in Nat /\ buffer_pointer \in Int /\ count["prod"] \in Int
    BY <1>1, <1>2, BufferAssumption DEF FilledToPointer
  <2>2. count["prod"] = BUFFER_LEN - 3 - buffer_pointer
    BY <1>2, <1>7, <2>1 DEF TokensExact
  <2>3. 1 \in 0 .. BUFFER_LEN - 1 - buffer_pointer
    BY <1>4, <2>1, <2>2
  <2>4. /\ FilledToPointer' /\ order' \in [Thread -> Int]
        /\ buffer_pointer' = buffer_pointer + 1
    BY <1>1, <1>7, <2>3, FillFacts
  <2>a. /\ Main \in Thread /\ "cons" \in Sems
        /\ Alone("cons", Main, "take") /\ V("cons")
    BY <1>1, <1>2, <1>7
  <2>b. /\ count' \in [Sems -> Int] /\ waiting' \in [Sems -> SUBSET Thread]
        /\ count'["cons"] = count["cons"] + 1
        /\ Alone("cons", Main, "take")'
        /\ \A r \in Sems : r # "cons" => count'[r] = count[r] /\ waiting'[r] = waiting[r]
    BY <1>2, <2>a, AloneV
  <2>5. /\ count' \in [Sems -> Int] /\ waiting' \in [Sems -> SUBSET Thread]
        /\ count'["cons"] = count["cons"] + 1
        /\ Alone("cons", Main, "take")'
        /\ count'["prod"] = count["prod"] /\ waiting'["prod"] = waiting["prod"]
    BY <1>1, <2>b
  <2>6. Alone("prod", p, "put")'
    BY <1>4, <2>5 DEF Alone
  <2>7. TokensExact(p)'
    BY <1>1, <1>2, <1>3, <1>7, <2>1, <2>2, <2>4, <2>5 DEF TokensExact
  <2> QED BY <1>5, <1>7, <2>4, <2>5, <2>6, <2>7
<1>8. CASE /\ pc[p] # "put" /\ pc'[p] \in {"producer", "produce"} /\ NoCall
           /\ order' \in [Thread -> Int] /\ buffer = buffer' /\ buffer_pointer' = buffer_pointer
  <2>1. count' = count /\ waiting' = waiting
    BY <1>8 DEF NoCall
  <2>2. /\ Alone("prod", p, "put")' /\ Alone("cons", Main, "take")' /\ TokensExact(p)'
    BY <1>1, <1>2, <1>3, <1>4, <1>8, <2>1 DEF Alone, TokensExact
  <2> QED BY <1>2, <1>5, <1>8, <2>1, <2>2 DEF FilledToPointer
<1>9. \A t \in Thread : TakeOrder(t) => /\ order' \in [Thread -> Int] /\ NoCall
                                      /\ buffer' = buffer /\ buffer_pointer' = buffer_pointer
  BY BufferAssumption DEF TakeOrder
<1>10. CASE Goto(p, "producer", "produce") /\ TakeOrder(p)
  BY <1>1, <1>8, <1>9, <1>10 DEF Goto, PcType
<1>11. CASE order[p] = 0 /\ Goto(p, "produce", "producer") /\ NoCall /\ UNCHANGED bufferVars
  BY <1>1, <1>8, <1>11 DEF Goto, PcType, bufferVars
<1>12. CASE order[p] # 0 /\ Goto(p, "produce", "put") /\ P(p, "prod") /\ UNCHANGED bufferVars
  BY <1>1, <1>6, <1>12 DEF Goto, PcType, bufferVars
<1>13. CASE Goto(p, "put", "produce") /\ Fill(p, 1) /\ V("cons")
  BY <1>1, <1>7, <1>13 DEF Goto, PcType
<1> QED BY <1>10, <1>11, <1>12, <1>13 DEF producer

LEMMA ConsumerStep ==
  ASSUME PcType, FilledToPointer, order \in [Thread -> Int],
         NEW p \in Child, Project3(p), consumer(Main)
  PROVE  FilledToPointer' /\ order' \in [Thread -> Int] /\ Project3(p)'
<1> DEFINE Sems == {"prod", "cons"}
<1>1. /\ p \in Thread /\ Main \in Thread /\ p # Main
      /\ "prod" \in Sems /\ "cons" \in Sems /\ \A s \in Sems : s \in {"prod", "cons"}
  BY FiniteThreads, MainAssumption
<1>2. /\ count \in [Sems -> Int] /\ waiting \in [Sems -> SUBSET Thread]
      /\ Alone("prod", p, "put") /\ Alone("cons", Main, "take") /\ TokensExact(p)
  BY DEF Project3
<1>3. /\ pc[Main] \in Project3Points /\ pc'[Main] \in Project3Points /\ ~Blocked(Main)
      /\ \A u \in Thread : u # Main => pc'[u] = pc[u]
  BY <1>1, Project3Moves DEF Moves
<1>4. waiting["cons"] = {} /\ count["cons"] >= 0
  BY <1>1, <1>2, <1>3 DEF Alone, Blocked
<1>5. ASSUME pc'[Main] \in {"consumer", "consume", "take"},
             count' \in [Sems -> Int], waiting' \in [Sems -> SUBSET Thread],
             Alone("prod", p, "put")', Alone("cons", Main, "take")', TokensExact(p)'
      PROVE  Project3(p)'
  BY <1>1, <1>3, <1>5 DEF Project3
<1> HIDE DEF Sems
<1>6. CASE /\ order' = order /\ buffer = buffer' /\ buffer_pointer' = buffer_pointer
           /\ pc[Main] # "take" /\ pc'[Main] = "take" /\ P(Main, "cons")
  <2>a. /\ Main \in Thread /\ "cons" \in Sems /\ ~Blocked(Main) /\ pc'[Main] = "take"
        /\ Alone("cons", Main, "take") /\ P(Main, "cons")
    BY <1>1, <1>2, <1>3, <1>6
  <2>b. /\ count' \in [Sems -> Int] /\ waiting' \in [Sems -> SUBSET Thread]
        /\ count'["cons"] = count["cons"] - 1
        /\ Alone("cons", Main, "take")'
        /\ \A r \in Sems : r # "cons" => count'[r] = count[r] /\ waiting'[r] = waiting[r]
    BY <1>2, <2>a, AloneP
  <2>1. /\ count' \in [Sems -> Int] /\ waiting' \in [Sems -> SUBSET Thread]
        /\ count'["cons"] = count["cons"] - 1
        /\ Alone("cons", Main, "take")'
        /\ count'["prod"] = count["prod"] /\ waiting'["prod"] = waiting["prod"]
    BY <1>1, <2>b
  <2>2. Alone("prod", p, "put")'
    BY <1>1, <1>2, <1>3, <2>1 DEF Alone
  <2>c. /\ BUFFER_LEN \in Int /\ buffer_pointer \in Int
        /\ count["prod"] \in Int /\ count["cons"] \in Int
    BY <1>1, <1>2, BufferAssumption DEF FilledToPointer
  <2>d. pc'[p] = pc[p]
    BY <1>1, <1>3
  <2>3. TokensExact(p)'
    BY <1>2, <1>6, <2>1, <2>c, <2>d DEF TokensExact
  <2> QED BY <1>5, <1>6, <2>1, <2>2, <2>3 DEF FilledToPointer
<1>7. CASE pc[Main] = "take" /\ pc'[Main] = "consume" /\ Drain(Main, 1) /\ V("prod")
  <2>1. BUFFER_LEN \in Nat /\ buffer_pointer \in Int /\ count["cons"] \in Int
    BY <1>1, <1>2, BufferAssumption DEF FilledToPointer
  <2>2. count["cons"] = buffer_pointer
    BY <1>2, <1>7, <2>1 DEF TokensExact
  <2>3. 1 \in 0 .. buffer_pointer + 1
    BY <1>4, <2>1, <2>2
  <2>4. /\ FilledToPointer' /\ order' \in [Thread -> Int]
        /\ buffer_pointer' = buffer_pointer - 1
    BY <1>1, <1>7, <2>3, DrainFacts
  <2>a. /\ p \in Thread /\ "prod" \in Sems
        /\ Alone("prod", p, "put") /\ V("prod")
    BY <1>1, <1>2, <1>7
  <2>b. /\ count' \in [Sems -> Int] /\ waiting' \in [Sems -> SUBSET Thread]
        /\ count'["prod"] = count["prod"] + 1
        /\ Alone("prod", p, "put")'
        /\ \A r \in Sems : r # "prod" => count'[r] = count[r] /\ waiting'[r] = waiting[r]
    BY <1>2, <2>a, AloneV
  <2>5. /\ count' \in [Sems -> Int] /\ waiting' \in [Sems -> SUBSET Thread]
        /\ count'["prod"] = count["prod"] + 1
        /\ Alone("prod", p, "put")'
        /\ count'["cons"] = count["cons"] /\ waiting'["cons"] = waiting["cons"]
    BY <1>1, <2>b
  <2>6. Alone("cons", Main, "take")'
    BY <1>4, <2>5 DEF Alone
  <2>7. TokensExact(p)'
    BY <1>1, <1>2, <1>3, <1>7, <2>1, <2>2, <2>4, <2>5 DEF TokensExact
  <2> QED BY <1>5, <1>7, <2>4, <2>5, <2>6, <2>7
<1>8. CASE /\ pc[Main] # "take" /\ pc'[Main] \in {"consumer", "consume"} /\ NoCall
           /\ order' \in [Thread -> Int] /\ buffer = buffer' /\ buffer_pointer' = buffer_pointer
  <2>1. count' = count /\ waiting' = waiting
    BY <1>8 DEF NoCall
  <2>2. /\ Alone("prod", p, "put")' /\ Alone("cons", Main, "take")' /\ TokensExact(p)'
    BY <1>1, <1>2, <1>3, <1>4, <1>8, <2>1 DEF Alone, TokensExact
  <2> QED BY <1>2, <1>5, <1>8, <2>1, <2>2 DEF FilledToPointer
<1>9. TakeOrder(Main) => /\ order' \in [Thread -> Int] /\ NoCall
                         /\ buffer' = buffer /\ buffer_pointer' = buffer_pointer
  BY BufferAssumption DEF TakeOrder
<1>10. CASE Goto(Main, "consumer", "consume") /\ TakeOrder(Main)
  BY <1>1, <1>8, <1>9, <1>10 DEF Goto, PcType
<1>11. CASE order[Main] = 0 /\ Goto(Main, "consume", "consumer") /\ NoCall /\ UNCHANGED bufferVars
  BY <1>1, <1>8, <1>11 DEF Goto, PcType, bufferVars
<1>12. CASE order[Main] # 0 /\ Goto(Main, "consume", "take") /\ P(Main, "cons") /\ UNCHANGED bufferVars
  BY <1>1, <1>6, <1>12 DEF Goto, PcType, bufferVars
<1>13. CASE Goto(Main, "take", "consume") /\ Drain(Main, 1) /\ V("prod")
  BY <1>1, <1>7, <1>13 DEF Goto, PcType
<1> QED BY <1>10, <1>11, <1>12, <1>13 DEF consumer

LEMMA PartInRange ==
  ASSUME NEW left \in Int, NEW room \in Nat
  PROVE  Part(left, room) \in 0 .. room
BY DEF Part

LEMMA FillerStep ==
  ASSUME NEW t \in Thread, FilledToPointer, order \in [Thread -> Int], filler(t) \/ drainer(t)
  PROVE  FilledToPointer' /\ order' \in [Thread -> Int]
<1>1. /\ BUFFER_LEN \in Nat /\ buffer_pointer \in -1 .. BUFFER_LEN - 1
      /\ order[t] \in Int
      /\ BUFFER_LEN - 1 - buffer_pointer \in Nat /\ buffer_pointer + 1 \in Nat
  BY BufferAssumption DEF FilledToPointer
<1>2. CASE TakeOrder(t)
  BY <1>2, BufferAssumption DEF TakeOrder, FilledToPointer
<1>3. CASE Fill(t, Part(order[t], BUFFER_LEN - 1 - buffer_pointer))
  <2>1. Part(order[t], BUFFER_LEN - 1 - buffer_pointer) \in 0 .. BUFFER_LEN - 1 - buffer_pointer
    BY <1>1, PartInRange
  <2> QED BY <1>3, <2>1, FillFacts
<1>4. CASE Drain(t, Part(order[t], buffer_pointer + 1))
  <2>1. Part(order[t], buffer_pointer + 1) \in 0 .. buffer_pointer + 1
    BY <1>1, PartInRange
  <2> QED BY <1>4, <2>1, DrainFacts
<1> QED BY <1>2, <1>3, <1>4 DEF filler, drainer

LEMMA NextBuffer ==
  ASSUME PcType, BufferInv, [Next]_vars
  PROVE  PcType' /\ BufferInv'
<1>1. ASSUME UNCHANGED vars PROVE PcType' /\ BufferInv'
  <2>1. /\ pc' = pc /\ waiting' = waiting /\ count' = count
        /\ buffer' = buffer /\ buffer_pointer' = buffer_pointer /\ order' = order
    BY <1>1 DEF vars, threads, bufferVars
  <2>2. FilledToPointer' /\ order' \in [Thread -> Int]
    BY <2>1 DEF BufferInv, FilledToPointer
  <2>3. ASSUME NEW p \in Child, Project3(p) PROVE Project3(p)'
    BY <2>1, <2>3 DEF Project3, Alone, TokensExact
  <2> QED BY <2>1, <2>2, <2>3 DEF PcType, NoneAt, BufferInv
<1>2. ASSUME NEW t \in Thread, Step(t) PROVE PcType' /\ BufferInv'
  <2>1. PcType' /\ Steps(t)
    BY <1>2, StepMoves
  <2>2. FilledToPointer /\ order \in [Thread -> Int]
    BY DEF BufferInv
  <2>3. CASE NoneAt(Project3Points)
    <3>1. PICK others \in {BarrierPoints, ProdConsPoints, MonitorPoints, RoundsPoints,
                           Project2Points, RacePoints} : Moves(t, others)
      BY <2>1, <2>3, Elsewhere DEF Steps
    <3>2. Project3Points \cap others = {}
      BY DEF BarrierPoints, ProdConsPoints, MonitorPoints, RoundsPoints, Project3Points,
             Project2Points, RacePoints
    <3>3. NoneAt(Project3Points)'
      BY <2>3, <3>1, <3>2, NobodyComes
    <3>4. ~(producer(t) \/ consumer(t))
      BY <1>2, <2>3, Project3Moves, Elsewhere
    <3>5. UNCHANGED bufferVars \/ filler(t) \/ drainer(t)
      BY <2>1, <3>4 DEF Steps
    <3>6. FilledToPointer' /\ order' \in [Thread -> Int]
      BY <2>2, <3>5, FillerStep DEF bufferVars, FilledToPointer
    <3> QED BY <2>1, <3>3, <3>6 DEF BufferInv
  <2>4. ASSUME NEW p \in Child, Project3(p) PROVE BufferInv'
    <3>1. t \in {p, Main} \/ pc[t] = "none"
      BY <2>4 DEF Project3
    <3>2. pc[t] \in Project3Points /\ (producer(t) \/ consumer(t))
      <4>1. pc[t] \in Project3Points \cup {"none"}
        BY <2>4, <3>1 DEF Project3, Project3Points
      <4> QED BY <2>1, <4>1 DEF Steps, Moves, BarrierPoints, ProdConsPoints, MonitorPoints,
                RoundsPoints, Project3Points, Project2Points, RacePoints
    <3>3. p # Main /\ p \in Thread
      BY FiniteThreads, MainAssumption
    <3>4. pc[t] = "none" => FALSE
      BY <3>2 DEF Project3Points
    <3>5. CASE t = p
      <4>1. pc[p] \in {"producer", "produce", "put"}
        BY <2>4 DEF Project3
      <4>2. producer(p)
        BY <3>2, <3>5, <4>1 DEF consumer, Goto
      <4> QED BY <2>2, <2>4, <4>2, ProducerStep DEF BufferInv
    <3>6. CASE t = Main
      <4>1. pc[Main] \in {"consumer", "consume", "take"}
        BY <2>4 DEF Project3
      <4>2. consumer(Main)
        BY <3>2, <3>6, <4>1 DEF producer, Goto
      <4> QED BY <2>2, <2>4, <4>2, ConsumerStep DEF BufferInv
    <3> QED BY <3>1, <3>4, <3>5, <3>6
  <2> QED BY <2>1, <2>3, <2>4 DEF BufferInv
<1> QED BY <1>1, <1>2 DEF Next, Rest

(***************************************************************************)
(* The buffer of Projects 2 and 3 holds what its pointer says, however     *)
(* long it is and whatever is ordered, and in Project 3 the counts of the  *)
(* semaphores tell what is in it.                                          *)
(***************************************************************************)
THEOREM ProducerConsumerBufferExact == Spec => []BufferExact
<1>1. ASSUME PcType, BufferInv PROVE BufferExact
  <2>1. FilledToPointer
    BY <1>1 DEF BufferInv
  <2>2. ASSUME \E t \in Thread : pc[t] \in {"producer", "produce", "put"}
        PROVE  /\ count["prod"] = BUFFER_LEN - 1 - (buffer_pointer + 1) - ThreadsAt("put")
               /\ count["cons"] = buffer_pointer + 1 - ThreadsAt("take")
    <3>1. ~NoneAt(Project3Points)
      BY <2>2 DEF NoneAt, Project3Points
    <3>2. PICK p \in Child : Project3(p)
      BY <1>1, <3>1 DEF BufferInv
    <3>3. p \in Thread /\ Main \in Thread /\ p # Main
      BY FiniteThreads, MainAssumption
    <3>4. /\ pc[p] \in {"producer", "produce", "put"} /\ pc[Main] \in {"consumer", "consume", "take"}
          /\ \A u \in Thread : u \notin {p, Main} => pc[u] = "none"
          /\ TokensExact(p)
      BY <3>2 DEF Project3
    <3>5. {t \in Thread : pc[t] = "put"} = IF pc[p] = "put" THEN {p} ELSE {}
      BY <3>3, <3>4
    <3>6. {t \in Thread : pc[t] = "take"} = IF pc[Main] = "take" THEN {Main} ELSE {}
      BY <3>3, <3>4
    <3>7. /\ ThreadsAt("put") = IF pc[p] = "put" THEN 1 ELSE 0
          /\ ThreadsAt("take") = IF pc[Main] = "take" THEN 1 ELSE 0
      BY <3>5, <3>6, FS_Singleton, FS_EmptySet DEF ThreadsAt
    <3>8. BUFFER_LEN \in Int /\ buffer_pointer \in Int
      BY <2>1, BufferAssumption DEF FilledToPointer
    <3> QED BY <3>4, <3>7, <3>8 DEF TokensExact
  <2>3. TokensCountItems
    BY <2>2 DEF TokensCountItems
  <2> QED BY <2>1, <2>3 DEF BufferExact
<1> QED BY <1>1, InitBufferInv, NextBuffer, PTL DEF Spec
-----------------------------------------------------------------------------
(***************************************************************************)
(* The threads that wait for a semaphore are as many as the count says,    *)
(* and all of them at points that follow a call of P.                      *)
(***************************************************************************)
QueueOf(s, points) ==
  /\ waiting[s] \subseteq At(points)
  /\ Cardinality(waiting[s]) = IF count[s] < 0 THEN -count[s] ELSE 0

LEMMA QueueP ==
  ASSUME NEW Sems, count \in [Sems -> Int], waiting \in [Sems -> SUBSET Thread],
         NEW s \in Sems, NEW t \in Thread, NEW points, QueueOf(s, points), P(t, s),
         ~Blocked(t), pc'[t] \in points, \A u \in Thread : u # t => pc'[u] = pc[u]
  PROVE  QueueOf(s, points)'
<1>1. /\ count'[s] = count[s] - 1
      /\ waiting'[s] = IF count[s] <= 0 THEN waiting[s] \cup {t} ELSE waiting[s]
  BY CallP
<1>2. count[s] \in Int /\ waiting[s] \in SUBSET Thread
  OBVIOUS
<1>3. IsFiniteSet(waiting[s]) /\ t \notin waiting[s]
  BY <1>2, FiniteThreads, FS_Subset DEF Blocked
<1>4. waiting'[s] \subseteq At(points)'
  BY <1>1, <1>2 DEF QueueOf, At
<1>5. Cardinality(waiting[s] \cup {t}) = Cardinality(waiting[s]) + 1
  BY <1>3, FS_AddElement
<1>6. Cardinality(waiting'[s]) = IF count'[s] < 0 THEN -count'[s] ELSE 0
  BY <1>1, <1>2, <1>5 DEF QueueOf
<1> QED BY <1>4, <1>6 DEF QueueOf

LEMMA QueueV ==
  ASSUME NEW Sems, count \in [Sems -> Int], waiting \in [Sems -> SUBSET Thread],
         NEW s \in Sems, NEW t \in Thread, NEW points, QueueOf(s, points), V(s),
         ~Blocked(t), \A u \in Thread : u # t => pc'[u] = pc[u]
  PROVE  QueueOf(s, points)'
<1>1. count'[s] = count[s] + 1 /\ Wakes(s)
  BY CallV
<1>2. count[s] \in Int /\ waiting[s] \in SUBSET Thread
  OBVIOUS
<1>3. IsFiniteSet(waiting[s]) /\ t \notin waiting[s]
  BY <1>2, FiniteThreads, FS_Subset DEF Blocked
<1>4. CASE count[s] < 0
  <2>1. Cardinality(waiting[s]) = -count[s]
    BY <1>4 DEF QueueOf
  <2>2. waiting[s] # {}
    BY <1>2, <1>4, <2>1, FS_EmptySet
  <2>3. PICK u \in waiting[s] : waiting'[s] = waiting[s] \ {u}
    BY <1>1, <1>2, <1>4, <2>2 DEF Wakes
  <2>4. Cardinality(waiting'[s]) = Cardinality(waiting[s]) - 1
    BY <1>3, <2>3, FS_RemoveElement
  <2>5. Cardinality(waiting'[s]) = IF count'[s] < 0 THEN -count'[s] ELSE 0
    BY <1>1, <1>2, <1>4, <2>1, <2>4
  <2>6. waiting'[s] \subseteq At(points)'
    BY <1>2, <1>3, <2>3 DEF QueueOf, At
  <2> QED BY <2>5, <2>6 DEF QueueOf
<1>5. CASE count[s] >= 0
  <2>1. waiting' = waiting
    BY <1>1, <1>2, <1>5 DEF Wakes
  <2>2. Cardinality(waiting'[s]) = IF count'[s] < 0 THEN -count'[s] ELSE 0
    BY <1>1, <1>2, <1>5, <2>1 DEF QueueOf
  <2>3. waiting'[s] \subseteq At(points)'
    BY <1>2, <1>3, <2>1 DEF QueueOf, At
  <2> QED BY <2>2, <2>3 DEF QueueOf
<1> QED BY <1>2, <1>4, <1>5

LEMMA QueueStays ==
  ASSUME NEW Sems, count \in [Sems -> Int], waiting \in [Sems -> SUBSET Thread],
         NEW s \in Sems, NEW t \in Thread, NEW points, QueueOf(s, points),
         count'[s] = count[s], waiting'[s] = waiting[s],
         ~Blocked(t), \A u \in Thread : u # t => pc'[u] = pc[u]
  PROVE  QueueOf(s, points)'
<1>1. t \notin waiting[s] /\ waiting[s] \in SUBSET Thread
  BY DEF Blocked
<1>2. waiting'[s] \subseteq At(points)'
  BY <1>1 DEF QueueOf, At
<1> QED BY <1>2 DEF QueueOf

\* A thread has a token of s, or is owed one if it waits, at the points inside.
HasToken(s, initial, inside, points) ==
  /\ QueueOf(s, points)
  /\ points \subseteq inside
  /\ count[s] = initial - Cardinality(At(inside))

\* One token: of the threads inside, one at most does not wait.
LEMMA Exclusion ==
  ASSUME NEW Sems, count \in [Sems -> Int], waiting \in [Sems -> SUBSET Thread],
         NEW s \in Sems, NEW inside, NEW points, HasToken(s, 1, inside, points),
         NEW t \in Thread, pc[t] \in inside, t \notin waiting[s],
         NEW u \in Thread, pc[u] \in inside, u \notin waiting[s]
  PROVE  t = u
<1> SUFFICES ASSUME t # u PROVE FALSE
  OBVIOUS
<1>1. /\ IsFiniteSet(At(inside)) /\ waiting[s] \in SUBSET Thread /\ count[s] \in Int
      /\ waiting[s] \subseteq At(inside)
  BY FiniteThreads, FS_Subset DEF At, HasToken, QueueOf
<1>2. IsFiniteSet(waiting[s]) /\ Cardinality(waiting[s]) \in Nat
  BY <1>1, FS_Subset, FS_CardinalityType
<1>3. /\ IsFiniteSet(waiting[s] \cup {t})
      /\ Cardinality(waiting[s] \cup {t}) = Cardinality(waiting[s]) + 1
  BY <1>2, FS_AddElement
<1>4. /\ IsFiniteSet((waiting[s] \cup {t}) \cup {u})
      /\ Cardinality((waiting[s] \cup {t}) \cup {u}) = Cardinality(waiting[s]) + 2
  <2>1. u \notin waiting[s] \cup {t}
    OBVIOUS
  <2> DEFINE W == waiting[s] \cup {t}
  <2>2. Cardinality(W \cup {u}) = Cardinality(W) + 1 /\ IsFiniteSet(W \cup {u})
    BY <1>3, <2>1, FS_AddElement
  <2> QED BY <1>2, <1>3, <2>2
<1>5. (waiting[s] \cup {t}) \cup {u} \subseteq At(inside)
  BY <1>1 DEF At
<1>6. Cardinality(waiting[s]) + 2 <= Cardinality(At(inside)) /\ Cardinality(At(inside)) \in Nat
  BY <1>1, <1>4, <1>5, FS_Subset, FS_CardinalityType
<1>7. /\ Cardinality(waiting[s]) = IF count[s] < 0 THEN -count[s] ELSE 0
      /\ count[s] = 1 - Cardinality(At(inside))
  BY DEF HasToken, QueueOf
<1> HIDE DEF HasToken
<1> QED BY <1>1, <1>2, <1>6, <1>7

\* A thread takes a token, gives one back, or does neither.
LEMMA TakesToken ==
  ASSUME NEW Sems, count \in [Sems -> Int], waiting \in [Sems -> SUBSET Thread],
         NEW s \in Sems, NEW t \in Thread, NEW inside, NEW points, NEW initial \in Int,
         HasToken(s, initial, inside, points), P(t, s), ~Blocked(t),
         pc[t] \notin inside, pc'[t] \in points,
         \A u \in Thread : u # t => pc'[u] = pc[u]
  PROVE  HasToken(s, initial, inside, points)'
<1>1. QueueOf(s, points)'
  BY QueueP DEF HasToken
<1>2. count'[s] = count[s] - 1
  BY CallP
<1>3. Cardinality(At(inside)') = Cardinality(At(inside)) + 1 /\ Cardinality(At(inside)) \in Nat
  BY AtSteps DEF HasToken
<1>4. count'[s] = initial - Cardinality(At(inside)')
  BY <1>2, <1>3 DEF HasToken
<1> QED BY <1>1, <1>4 DEF HasToken

LEMMA GivesToken ==
  ASSUME NEW Sems, count \in [Sems -> Int], waiting \in [Sems -> SUBSET Thread],
         NEW s \in Sems, NEW t \in Thread, NEW inside, NEW points, NEW initial \in Int,
         HasToken(s, initial, inside, points), V(s), ~Blocked(t),
         pc[t] \in inside, pc'[t] \notin inside,
         \A u \in Thread : u # t => pc'[u] = pc[u]
  PROVE  HasToken(s, initial, inside, points)'
<1>1. QueueOf(s, points)'
  BY QueueV DEF HasToken
<1>2. count'[s] = count[s] + 1
  BY CallV
<1>3. Cardinality(At(inside)') = Cardinality(At(inside)) - 1 /\ Cardinality(At(inside)) \in Nat
  BY AtSteps
<1>4. count'[s] = initial - Cardinality(At(inside)')
  BY <1>2, <1>3 DEF HasToken
<1> QED BY <1>1, <1>4 DEF HasToken

LEMMA KeepsTokens ==
  ASSUME NEW Sems, count \in [Sems -> Int], waiting \in [Sems -> SUBSET Thread],
         NEW s \in Sems, NEW t \in Thread, NEW inside, NEW points, NEW initial \in Int,
         HasToken(s, initial, inside, points), count'[s] = count[s], waiting'[s] = waiting[s],
         ~Blocked(t), pc[t] \in inside <=> pc'[t] \in inside,
         \A u \in Thread : u # t => pc'[u] = pc[u]
  PROVE  HasToken(s, initial, inside, points)'
<1>1. QueueOf(s, points)'
  BY QueueStays DEF HasToken
<1>2. At(inside)' = At(inside)
  BY AtSteps
<1>3. Cardinality(At(inside)') = Cardinality(At(inside))
  BY <1>2
<1>4. count'[s] = initial - Cardinality(At(inside)')
  BY <1>3 DEF HasToken
<1> QED BY <1>1, <1>4 DEF HasToken
-----------------------------------------------------------------------------
(***************************************************************************)
(* The rounds of proj-1.c.  A child's element is one ahead of the printed  *)
(* one from its increment to the next printing.  When updating is not set, *)
(* either all children are done or none has begun; main() looks at it      *)
(* under the mutex, and a child sets it before it leaves the mutex.        *)
(***************************************************************************)
RoundsInside == {"look", "report", "check", "print"}
RoundsWaits == {"look", "report", "check"}
Beginning == {"child", "look"}
Updating == {"update", "updated", "report"}
AtMain == {"main", "check", "print"}

RoundsTypes ==
  /\ \A t \in Child : pc[t] \in Beginning \cup Updating
  /\ pc[Main] \in AtMain
  /\ count \in [{"mutex"} -> Int] /\ waiting \in [{"mutex"} -> SUBSET Thread]
  /\ HasToken("mutex", 1, RoundsInside, RoundsWaits)
  /\ array \in [Child -> Int] /\ printed \in [Child -> Int]
  /\ done \in [Child -> BOOLEAN] /\ updating \in BOOLEAN

NoneBegun == \A t \in Child : ~done[t] /\ pc[t] \in Beginning
AllDone == \A t \in Child : done[t]
NotDone(t) == pc[t] \in Updating => ~done[t]

Ahead(t) == done[t] \/ pc[t] \in {"updated", "report"}
Element(t) == array[t] = IF Ahead(t) THEN (printed[t] + 1) % Wrap ELSE printed[t]

RoundsInv ==
  /\ RoundsTypes
  /\ \A t \in Child : NotDone(t)
  /\ ~updating => AllDone \/ NoneBegun
  /\ pc[Main] # "print" => \A t \in Child : Element(t)
  /\ pc[Main] = "print" => ~updating /\ array = printed

\* What a thread that takes or gives back the mutex leaves of the types.
LEMMA RoundsMutex ==
  ASSUME PcType, RoundsTypes, NEW t \in Thread, ~Blocked(t),
         \A u \in Thread : u # t => pc'[u] = pc[u],
         \/ pc[t] \notin RoundsInside /\ pc'[t] \in RoundsWaits /\ P(t, "mutex")
         \/ pc[t] \in RoundsInside /\ pc'[t] \notin RoundsInside /\ V("mutex")
         \/ (pc[t] \in RoundsInside <=> pc'[t] \in RoundsInside) /\ NoCall
  PROVE  /\ count' \in [{"mutex"} -> Int] /\ waiting' \in [{"mutex"} -> SUBSET Thread]
         /\ HasToken("mutex", 1, RoundsInside, RoundsWaits)'
<1> DEFINE Sems == {"mutex"}
<1>1. /\ "mutex" \in Sems /\ 1 \in Int
      /\ count \in [Sems -> Int] /\ waiting \in [Sems -> SUBSET Thread]
      /\ HasToken("mutex", 1, RoundsInside, RoundsWaits)
  BY DEF RoundsTypes
<1>a. SUFFICES /\ count' \in [Sems -> Int] /\ waiting' \in [Sems -> SUBSET Thread]
               /\ HasToken("mutex", 1, RoundsInside, RoundsWaits)'
  OBVIOUS
<1> HIDE DEF Sems
<1>2. CASE pc[t] \notin RoundsInside /\ pc'[t] \in RoundsWaits /\ P(t, "mutex")
  BY <1>1, <1>2, CallP, TakesToken
<1>3. CASE pc[t] \in RoundsInside /\ pc'[t] \notin RoundsInside /\ V("mutex")
  BY <1>1, <1>3, CallV, GivesToken
<1>4. CASE (pc[t] \in RoundsInside <=> pc'[t] \in RoundsInside) /\ NoCall
  <2>1. count' = count /\ waiting' = waiting
    BY <1>4 DEF NoCall
  <2> QED BY <1>1, <1>4, <2>1, KeepsTokens
<1> QED BY <1>2, <1>3, <1>4

\* Two threads that do not wait are never both under the mutex.
LEMMA RoundsExclusion ==
  ASSUME RoundsTypes, NEW t \in Thread, ~Blocked(t), pc[t] \in RoundsInside,
         NEW u \in Thread, pc[u] \in RoundsInside \ RoundsWaits
  PROVE  t = u
<1> DEFINE Sems == {"mutex"}
<1>1. /\ "mutex" \in Sems /\ count \in [Sems -> Int] /\ waiting \in [Sems -> SUBSET Thread]
      /\ HasToken("mutex", 1, RoundsInside, RoundsWaits)
  BY DEF RoundsTypes
<1>2. t \notin waiting["mutex"] /\ u \notin waiting["mutex"]
  BY <1>1 DEF Blocked, HasToken, QueueOf, At
<1> HIDE DEF Sems
<1> QED BY <1>1, <1>2, Exclusion

LEMMA RoundsPointsDiffer ==
  /\ Beginning \cap Updating = {} /\ "print" \notin RoundsWaits
  /\ {"child", "look", "update", "updated", "report"} = Beginning \cup Updating
  /\ "child" \notin RoundsInside /\ "update" \notin RoundsInside /\ "updated" \notin RoundsInside
  /\ "main" \notin RoundsInside /\ "print" \in RoundsInside /\ "check" \in RoundsInside
  /\ "look" \in RoundsWaits /\ "report" \in RoundsWaits /\ "check" \in RoundsWaits
  /\ "look" \in RoundsInside /\ "report" \in RoundsInside
BY DEF Beginning, Updating, RoundsWaits, RoundsInside

\* The steps of a child change its own element, flag and point only.
LEMMA OtherChildren ==
  ASSUME NEW t \in Child, NEW u \in Child, u # t,
         RoundsTypes, NotDone(u), pc[Main] # "print" => Element(u),
         pc'[u] = pc[u], pc'[Main] = pc[Main],
         done'[u] = done[u], array'[u] = array[u], printed' = printed
  PROVE  NotDone(u)' /\ (pc[Main] # "print" => Element(u))'
BY DEF NotDone, Element, Ahead

LEMMA ChildRound ==
  ASSUME PcType, RoundsInv, NEW t \in Child, child(t)
  PROVE  RoundsInv'
<1>1. /\ t \in Thread /\ Main \in Thread /\ t # Main /\ Child \subseteq Thread
      /\ Wrap \in Nat \ {0, 1}
  BY FiniteThreads, MainAssumption, WrapAssumption
<1>2. PcType' /\ ~Blocked(t) /\ \A u \in Thread : u # t => pc'[u] = pc[u]
  BY <1>1, RoundsMoves DEF Moves
<1>3. /\ RoundsTypes /\ NotDone(t) /\ (~updating => AllDone \/ NoneBegun)
      /\ (pc[Main] # "print" => Element(t))
      /\ pc[Main] = "print" => ~updating /\ array = printed
      /\ array[t] \in Int /\ done[t] \in BOOLEAN /\ updating \in BOOLEAN
  BY DEF RoundsInv, RoundsTypes
<1>4. pc[t] \in {"look", "report"} => pc[Main] # "print"
  BY <1>1, <1>2, <1>3, RoundsExclusion, RoundsPointsDiffer
<1>5. pc[t] \in Updating => updating /\ pc[Main] # "print"
  BY <1>3, RoundsPointsDiffer DEF NotDone, AllDone, NoneBegun
<1>6. ASSUME \A u \in Child : u # t => done'[u] = done[u] /\ array'[u] = array[u],
             printed' = printed,
             array' \in [Child -> Int], done' \in [Child -> BOOLEAN], updating' \in BOOLEAN,
             pc'[t] \in Beginning \cup Updating,
             \/ pc[t] \notin RoundsInside /\ pc'[t] \in RoundsWaits /\ P(t, "mutex")
             \/ pc[t] \in RoundsInside /\ pc'[t] \notin RoundsInside /\ V("mutex")
             \/ (pc[t] \in RoundsInside <=> pc'[t] \in RoundsInside) /\ NoCall,
             NotDone(t)', pc[Main] # "print" => Element(t)',
             ~updating' => AllDone' \/ NoneBegun',
             pc[Main] = "print" => ~updating' /\ array' = array
      PROVE  RoundsInv'
  <2>1. /\ count' \in [{"mutex"} -> Int] /\ waiting' \in [{"mutex"} -> SUBSET Thread]
        /\ HasToken("mutex", 1, RoundsInside, RoundsWaits)'
    BY <1>1, <1>2, <1>3, <1>6, RoundsMutex
  <2>2. pc'[Main] = pc[Main] /\ \A u \in Child : u # t => pc'[u] = pc[u]
    BY <1>1, <1>2
  <2>3. RoundsTypes'
    BY <1>3, <1>6, <2>1, <2>2 DEF RoundsTypes
  <2>4. ASSUME NEW u \in Child, u # t
        PROVE  NotDone(u)' /\ (pc[Main] # "print" => Element(u))'
    <3>1. NotDone(u) /\ (pc[Main] # "print" => Element(u))
      BY DEF RoundsInv
    <3> QED BY <1>3, <1>6, <2>2, <2>4, <3>1, OtherChildren
  <2>5. \A u \in Child : NotDone(u)' /\ (pc[Main] # "print" => Element(u))'
    BY <1>6, <2>2, <2>4
  <2>6. (pc[Main] = "print" => ~updating /\ array = printed)'
    BY <1>3, <1>6, <2>2
  <2> QED BY <1>6, <2>2, <2>3, <2>5, <2>6 DEF RoundsInv
<1>7. CASE Goto(t, "child", "look") /\ P(t, "mutex") /\ UNCHANGED roundsVars
  <2>1. /\ pc[t] = "child" /\ pc'[t] = "look" /\ array' = array /\ done' = done
        /\ printed' = printed /\ updating' = updating
    BY <1>1, <1>7 DEF Goto, PcType, roundsVars
  <2>2. NotDone(t)' /\ (pc[Main] # "print" => Element(t)')
    BY <1>3, <2>1, RoundsPointsDiffer DEF NotDone, Element, Ahead, Beginning, Updating
  <2>3. ~updating' => AllDone' \/ NoneBegun'
    <3>1. AllDone => AllDone'
      BY <2>1 DEF AllDone
    <3>2. NoneBegun => NoneBegun'
      BY <1>1, <1>2, <2>1 DEF NoneBegun, Beginning
    <3> QED BY <1>3, <2>1, <3>1, <3>2
  <2> QED BY <1>3, <1>6, <1>7, <2>1, <2>2, <2>3, RoundsPointsDiffer DEF RoundsTypes
<1>8. CASE /\ ~done[t] /\ Goto(t, "look", "update") /\ updating' = TRUE
           /\ V("mutex") /\ UNCHANGED <<array, done, printed>>
  <2>1. /\ pc[t] = "look" /\ pc'[t] = "update" /\ array' = array /\ done' = done
        /\ printed' = printed /\ updating' = TRUE
    BY <1>1, <1>8 DEF Goto, PcType
  <2>2. NotDone(t)' /\ Element(t)'
    BY <1>3, <1>4, <1>8, <2>1 DEF NotDone, Element, Ahead
  <2> QED BY <1>3, <1>4, <1>6, <1>8, <2>1, <2>2, RoundsPointsDiffer DEF RoundsTypes
<1>9. CASE /\ Goto(t, "update", "updated") /\ array' = [array EXCEPT ![t] = (@ + 1) % Wrap]
           /\ NoCall /\ UNCHANGED <<done, updating, printed>>
  <2>1. /\ pc[t] = "update" /\ pc'[t] = "updated" /\ done' = done
        /\ printed' = printed /\ updating' = updating
        /\ array' \in [Child -> Int] /\ array'[t] = (array[t] + 1) % Wrap
        /\ \A u \in Child : u # t => array'[u] = array[u]
    BY <1>1, <1>3, <1>9 DEF Goto, PcType, RoundsTypes
  <2>2. ~done[t] /\ updating /\ pc[Main] # "print"
    BY <1>3, <1>5, <2>1 DEF NotDone, Updating
  <2>3. NotDone(t)' /\ Element(t)'
    BY <1>3, <2>1, <2>2 DEF NotDone, Element, Ahead
  <2> QED BY <1>3, <1>6, <1>9, <2>1, <2>2, <2>3, RoundsPointsDiffer DEF RoundsTypes, Updating
<1>10. CASE Goto(t, "updated", "report") /\ P(t, "mutex") /\ UNCHANGED roundsVars
  <2>1. /\ pc[t] = "updated" /\ pc'[t] = "report" /\ array' = array /\ done' = done
        /\ printed' = printed /\ updating' = updating
    BY <1>1, <1>10 DEF Goto, PcType, roundsVars
  <2>2. ~done[t] /\ updating /\ pc[Main] # "print"
    BY <1>3, <1>5, <2>1 DEF NotDone, Updating
  <2>3. NotDone(t)' /\ Element(t)'
    BY <1>3, <2>1, <2>2 DEF NotDone, Element, Ahead
  <2> QED BY <1>3, <1>6, <1>10, <2>1, <2>2, <2>3, RoundsPointsDiffer DEF RoundsTypes, Updating
<1>11. ASSUME NEW isUpdating, Report(t, isUpdating), isUpdating = TRUE,
              pc[t] \in {"look", "report"}, pc'[t] = "child", Ahead(t)
       PROVE  RoundsInv'
  <2>1. /\ done' \in [Child -> BOOLEAN] /\ done'[t] = TRUE
        /\ \A u \in Child : u # t => done'[u] = done[u]
        /\ array' = array /\ printed' = printed /\ V("mutex")
    BY <1>3, <1>11 DEF Report, RoundsTypes
  <2>2. updating' \in BOOLEAN /\ (~updating' => \A other \in Child \ {t} : done[other])
    BY <1>11 DEF Report
  <2>3. ~updating' => AllDone'
    BY <2>1, <2>2 DEF AllDone
  <2>4. NotDone(t)' /\ Element(t)'
    BY <1>3, <1>4, <1>11, <2>1 DEF NotDone, Element, Ahead, Updating
  <2>5. pc[t] \in RoundsInside /\ pc'[t] \notin RoundsInside /\ pc'[t] \in Beginning \cup Updating
    BY <1>11 DEF RoundsInside, Beginning
  <2> QED BY <1>3, <1>4, <1>6, <1>11, <2>1, <2>2, <2>3, <2>4, <2>5 DEF RoundsTypes
<1>12. CASE Goto(t, "report", "child") /\ Report(t, updating)
  BY <1>1, <1>3, <1>5, <1>11, <1>12 DEF Goto, PcType, Ahead, Updating
<1>13. CASE done[t] /\ Goto(t, "look", "child") /\ Report(t, TRUE)
  BY <1>1, <1>3, <1>11, <1>13 DEF Goto, PcType, Ahead
<1> QED BY <1>7, <1>8, <1>9, <1>10, <1>12, <1>13 DEF child

\* What main() prints: the array as it was, or every element one ahead.
Printing == printed' # printed => \A t \in Child : printed'[t] = (printed[t] + 1) % Wrap

LEMMA MainRound ==
  ASSUME PcType, RoundsInv, main
  PROVE  RoundsInv' /\ Printing
<1>1. Main \in Thread /\ Child \subseteq Thread /\ Main \notin Child
  BY FiniteThreads, MainAssumption
<1>2. PcType' /\ ~Blocked(Main) /\ \A u \in Thread : u # Main => pc'[u] = pc[u]
  BY <1>1, RoundsMoves DEF Moves
<1>3. /\ RoundsTypes /\ (~updating => AllDone \/ NoneBegun)
      /\ \A t \in Child : NotDone(t) /\ (pc[Main] # "print" => Element(t))
      /\ pc[Main] = "print" => ~updating /\ array = printed
      /\ array \in [Child -> Int] /\ printed \in [Child -> Int]
  BY DEF RoundsInv, RoundsTypes
<1>4. \A u \in Child : pc'[u] = pc[u]
  BY <1>1, <1>2
<1>5. ASSUME pc'[Main] \in AtMain, printed' \in [Child -> Int], array' = array,
             done' \in [Child -> BOOLEAN], updating' = updating,
             \/ pc[Main] \notin RoundsInside /\ pc'[Main] \in RoundsWaits /\ P(Main, "mutex")
             \/ pc[Main] \in RoundsInside /\ pc'[Main] \notin RoundsInside /\ V("mutex")
             \/ (pc[Main] \in RoundsInside <=> pc'[Main] \in RoundsInside) /\ NoCall
      PROVE  RoundsTypes'
  <2>1. /\ count' \in [{"mutex"} -> Int] /\ waiting' \in [{"mutex"} -> SUBSET Thread]
        /\ HasToken("mutex", 1, RoundsInside, RoundsWaits)'
    BY <1>1, <1>2, <1>3, <1>5, RoundsMutex
  <2> QED BY <1>3, <1>4, <1>5, <2>1 DEF RoundsTypes
<1>6. ASSUME printed' = printed, array' = array, done' = done, updating' = updating,
             pc[Main] # "print", pc'[Main] # "print", RoundsTypes'
      PROVE  RoundsInv' /\ Printing
  <2>1. \A t \in Child : NotDone(t)' /\ Element(t)'
    BY <1>3, <1>4, <1>6 DEF NotDone, Element, Ahead
  <2>2. ~updating' => AllDone' \/ NoneBegun'
    BY <1>3, <1>4, <1>6 DEF AllDone, NoneBegun
  <2> QED BY <1>6, <2>1, <2>2 DEF RoundsInv, Printing
<1>7. CASE Goto(Main, "main", "check") /\ P(Main, "mutex") /\ UNCHANGED roundsVars
  <2>1. /\ pc[Main] = "main" /\ pc'[Main] = "check"
        /\ array' = array /\ done' = done /\ printed' = printed /\ updating' = updating
    BY <1>1, <1>7 DEF Goto, PcType, roundsVars
  <2>2. RoundsTypes'
    BY <1>3, <1>5, <1>7, <2>1, RoundsPointsDiffer DEF RoundsTypes, AtMain
  <2> QED BY <1>6, <2>1, <2>2
<1>8. CASE updating /\ Goto(Main, "check", "main") /\ V("mutex") /\ UNCHANGED roundsVars
  <2>1. /\ pc[Main] = "check" /\ pc'[Main] = "main"
        /\ array' = array /\ done' = done /\ printed' = printed /\ updating' = updating
    BY <1>1, <1>8 DEF Goto, PcType, roundsVars
  <2>2. RoundsTypes'
    BY <1>3, <1>5, <1>8, <2>1, RoundsPointsDiffer DEF RoundsTypes, AtMain
  <2> QED BY <1>6, <2>1, <2>2
<1>9. CASE /\ ~updating /\ Goto(Main, "check", "print") /\ printed' = array /\ NoCall
           /\ UNCHANGED <<array, done, updating>>
  <2>1. /\ pc[Main] = "check" /\ pc'[Main] = "print"
        /\ array' = array /\ done' = done /\ printed' = array /\ updating' = updating
    BY <1>1, <1>9 DEF Goto, PcType
  <2>2. RoundsTypes'
    BY <1>3, <1>5, <1>9, <2>1, RoundsPointsDiffer DEF RoundsTypes, AtMain
  <2>3. \A t \in Child : NotDone(t)'
    BY <1>3, <1>4, <2>1 DEF NotDone
  <2>4. ~updating' => AllDone' \/ NoneBegun'
    BY <1>3, <1>4, <2>1 DEF AllDone, NoneBegun
  <2>5. RoundsInv'
    BY <1>9, <2>1, <2>2, <2>3, <2>4 DEF RoundsInv
  <2>6. CASE AllDone
    <3>1. \A t \in Child : array[t] = (printed[t] + 1) % Wrap
      BY <1>3, <2>1, <2>6 DEF AllDone, Element, Ahead
    <3> QED BY <2>1, <2>5, <3>1 DEF Printing
  <2>7. CASE NoneBegun
    <3>1. ASSUME NEW t \in Child PROVE array[t] = printed[t]
      <4>1. ~Ahead(t)
        BY <2>7 DEF NoneBegun, Ahead, Beginning
      <4> QED BY <1>3, <2>1, <4>1 DEF Element
    <3>2. array = printed
      BY <1>3, <3>1
    <3> QED BY <2>1, <2>5, <3>2 DEF Printing
  <2> QED BY <1>3, <1>9, <2>6, <2>7
<1>10. CASE /\ Goto(Main, "print", "main") /\ done' = [t \in Child |-> FALSE]
            /\ V("mutex") /\ UNCHANGED <<array, updating, printed>>
  <2>1. /\ pc[Main] = "print" /\ pc'[Main] = "main"
        /\ array' = array /\ printed' = printed /\ updating' = updating
        /\ done' \in [Child -> BOOLEAN] /\ \A t \in Child : ~done'[t]
    BY <1>1, <1>10 DEF Goto, PcType
  <2>2. RoundsTypes'
    BY <1>3, <1>5, <1>10, <2>1, RoundsPointsDiffer DEF RoundsTypes, AtMain
  <2>3. \A t \in Child : pc[t] \in Beginning
    BY <1>3, <2>1 DEF RoundsTypes, AllDone, NoneBegun, NotDone
  <2>4. NoneBegun' /\ \A t \in Child : NotDone(t)'
    BY <1>4, <2>1, <2>3 DEF NoneBegun, NotDone
  <2>5. \A t \in Child : Element(t)'
    BY <1>3, <1>4, <2>1, <2>3 DEF Element, Ahead, Beginning
  <2> QED BY <2>1, <2>2, <2>4, <2>5 DEF RoundsInv, Printing
<1> QED BY <1>7, <1>8, <1>9, <1>10 DEF main

LEMMA InitRounds == Init => PcType /\ (NoneAt(RoundsPoints) \/ RoundsInv)
<1> SUFFICES ASSUME Init PROVE NoneAt(RoundsPoints) \/ RoundsInv
  BY InitStarts
<1>1. CASE RoundsMain
  <2>1. /\ count = [mutex |-> 1] /\ waiting = [s \in DOMAIN count |-> {}]
        /\ pc = [t \in Thread |-> IF t = Main THEN "main" ELSE "child"]
    BY <1>1 DEF RoundsMain, SemInit
  <2>2. pc[Main] = "main" /\ \A t \in Child : pc[t] = "child"
    BY <2>1, FiniteThreads, MainAssumption
  <2>3. /\ array = [t \in Child |-> 0] /\ done = [t \in Child |-> FALSE]
        /\ updating = FALSE /\ printed = array
    BY DEF Init, RoundsInit
  <2>4. /\ count \in [{"mutex"} -> Int] /\ waiting \in [{"mutex"} -> SUBSET Thread]
        /\ count["mutex"] = 1 /\ waiting["mutex"] = {}
    BY <2>1
  <2>5. At(RoundsInside) = {}
    BY <2>2 DEF At, RoundsInside, Thread
  <2>6. HasToken("mutex", 1, RoundsInside, RoundsWaits)
    BY <2>4, <2>5, FS_EmptySet DEF HasToken, QueueOf, RoundsInside, RoundsWaits
  <2>c. array \in [Child -> Int]
    BY <2>3
  <2>d. done \in [Child -> BOOLEAN]
    BY <2>3
  <2>a. /\ array \in [Child -> Int] /\ printed \in [Child -> Int]
        /\ done \in [Child -> BOOLEAN] /\ updating \in BOOLEAN
    BY <2>3, <2>c, <2>d
  <2>b. pc[Main] \in AtMain /\ \A t \in Child : pc[t] \in Beginning \cup Updating
    BY <2>2 DEF Beginning, AtMain
  <2>7. RoundsTypes
    BY <2>4, <2>6, <2>a, <2>b DEF RoundsTypes
  <2>8. NoneBegun /\ \A t \in Child : NotDone(t) /\ Element(t)
    BY <2>2, <2>3 DEF NoneBegun, NotDone, Element, Ahead, Beginning
  <2> QED BY <2>2, <2>7, <2>8 DEF RoundsInv
<1>2. ASSUME NEW points, points \cap RoundsPoints = {}, AllAt(points)
      PROVE  NoneAt(RoundsPoints)
  BY <1>2 DEF AllAt, NoneAt
<1> QED BY <1>1, <1>2, InitStarts DEF Starts, BarrierPoints, ProdConsPoints, MonitorPoints,
           RoundsPoints, Project3Points, Project2Points, RacePoints

LEMMA NextRounds ==
  ASSUME PcType, NoneAt(RoundsPoints) \/ RoundsInv, [Next]_vars
  PROVE  PcType' /\ (NoneAt(RoundsPoints) \/ RoundsInv)' /\ Printing
<1>1. ASSUME UNCHANGED vars
      PROVE  PcType' /\ (NoneAt(RoundsPoints) \/ RoundsInv)' /\ Printing
  <2>1. /\ pc' = pc /\ waiting' = waiting /\ count' = count
        /\ array' = array /\ done' = done /\ printed' = printed /\ updating' = updating
    BY <1>1 DEF vars, threads, roundsVars
  <2>2. RoundsTypes => RoundsTypes'
    BY <2>1 DEF RoundsTypes, HasToken, QueueOf, At
  <2>3. RoundsInv => RoundsInv'
    BY <2>1, <2>2 DEF RoundsInv, NotDone, Element, Ahead, AllDone, NoneBegun
  <2> QED BY <2>1, <2>3 DEF PcType, NoneAt, Printing
<1>2. ASSUME NEW t \in Thread, Step(t)
      PROVE  PcType' /\ (NoneAt(RoundsPoints) \/ RoundsInv)' /\ Printing
  <2>1. PcType' /\ Steps(t)
    BY <1>2, StepMoves
  <2>2. CASE NoneAt(RoundsPoints)
    <3>1. PICK others \in {BarrierPoints, ProdConsPoints, MonitorPoints, Project3Points,
                           Project2Points, RacePoints} : Moves(t, others)
      BY <2>1, <2>2, Elsewhere DEF Steps
    <3>2. RoundsPoints \cap others = {}
      BY DEF BarrierPoints, ProdConsPoints, MonitorPoints, RoundsPoints, Project3Points,
             Project2Points, RacePoints
    <3>3. ~Moves(t, RoundsPoints)
      BY <2>2, Elsewhere
    <3>4. printed' = printed
      BY <2>1, <3>3 DEF Steps, roundsVars
    <3> QED BY <2>1, <2>2, <3>1, <3>2, <3>4, NobodyComes DEF Printing
  <2>3. CASE RoundsInv
    <3>1. pc[t] \in RoundsPoints
      BY <2>3 DEF RoundsInv, RoundsTypes, Thread, Beginning, Updating, AtMain, RoundsPoints
    <3>2. (t \in Child /\ child(t)) \/ (t = Main /\ main)
      BY <2>1, <3>1 DEF Steps, Moves, BarrierPoints, ProdConsPoints, MonitorPoints,
             RoundsPoints, Project3Points, Project2Points, RacePoints
    <3>3. ASSUME t \in Child, child(t) PROVE RoundsInv' /\ Printing
      <4>1. printed' = printed
        BY <3>3 DEF child, Report, roundsVars
      <4> QED BY <2>3, <3>3, <4>1, ChildRound DEF Printing
    <3> QED BY <2>1, <2>3, <3>2, <3>3, MainRound
  <2> QED BY <2>2, <2>3
<1> QED BY <1>1, <1>2 DEF Next, Rest

(***************************************************************************)
(* The array that main() prints is that of a whole round, for any number   *)
(* of children and however they are interleaved.                           *)
(***************************************************************************)
THEOREM RoundsOncePerRound == Spec => OncePerRound
<1>1. ASSUME PcType, NoneAt(RoundsPoints) \/ RoundsInv, [Next]_vars
      PROVE  [Printing]_printed
  BY <1>1, NextRounds
<1> QED BY <1>1, InitRounds, NextRounds, PTL DEF Spec, OncePerRound, Printing
-----------------------------------------------------------------------------
(***************************************************************************)
(* The ring of prod_cons_s.c.  A producer has a token of empty until its   *)
(* item is in and a consumer one of full until its item is out; behind     *)
(* that a token is on its way to the other semaphore.                      *)
(***************************************************************************)
RingSems == {"full", "empty", "mutex"}
Putting == {"in_prod", "insert", "inserted"}
Telling == {"tell"}
Getting == {"in_cons", "delete", "deleted"}
Freeing == {"free"}
RingInside == {"insert", "inserted", "delete", "deleted"}
RingWaits == {"insert", "delete"}
ItemNumber == 0..(Wrap - 1)

RingTypes ==
  /\ At(ProdConsPoints) = Thread
  /\ count \in [RingSems -> Int] /\ waiting \in [RingSems -> SUBSET Thread]
  /\ ring \in [0..(N - 1) -> ItemNumber] /\ in \in 0..(N - 1) /\ out \in 0..(N - 1)
  /\ item_num \in ItemNumber /\ deleted \in ItemNumber

Number(points) == Cardinality(At(points))

\* With k items in the ring.
RingTokens(k) ==
  /\ HasToken("mutex", 1, RingInside, RingWaits)
  /\ QueueOf("full", {"in_cons"}) /\ QueueOf("empty", {"in_prod"})
  /\ count["full"] = k - Number(Telling) - Number(Getting)
  /\ count["empty"] = N - k - Number(Freeing) - Number(Putting)

LEMMA NumberSteps ==
  ASSUME NEW t \in Thread, \A u \in Thread : u # t => pc'[u] = pc[u], NEW points
  PROVE  /\ Number(points) \in Nat
         /\ Number(points)' = Number(points) + (IF pc'[t] \in points THEN 1 ELSE 0)
                                             - (IF pc[t] \in points THEN 1 ELSE 0)
<1>1. /\ Cardinality(At(points)) \in Nat
      /\ pc[t] \notin points /\ pc'[t] \in points =>
           Cardinality(At(points)') = Cardinality(At(points)) + 1
      /\ pc[t] \in points /\ pc'[t] \notin points =>
           Cardinality(At(points)') = Cardinality(At(points)) - 1
      /\ (pc[t] \in points <=> pc'[t] \in points) => At(points)' = At(points)
  BY AtSteps
<1> QED BY <1>1 DEF Number

\* The steps of the ten points, as far as the semaphores see them.
Puts(t, k, k1) ==
  \/ pc[t] = "prod" /\ pc'[t] = "in_prod" /\ P(t, "empty") /\ k1 = k
  \/ pc[t] = "in_prod" /\ pc'[t] = "insert" /\ P(t, "mutex") /\ k1 = k
  \/ pc[t] = "insert" /\ pc'[t] = "inserted" /\ NoCall /\ k1 = k
  \/ pc[t] = "inserted" /\ pc'[t] = "tell" /\ V("mutex") /\ k1 = k + 1
  \/ pc[t] = "tell" /\ pc'[t] = "prod" /\ V("full") /\ k1 = k
Gets(t, k, k1) ==
  \/ pc[t] = "cons" /\ pc'[t] = "in_cons" /\ P(t, "full") /\ k1 = k
  \/ pc[t] = "in_cons" /\ pc'[t] = "delete" /\ P(t, "mutex") /\ k1 = k
  \/ pc[t] = "delete" /\ pc'[t] = "deleted" /\ NoCall /\ k1 = k
  \/ pc[t] = "deleted" /\ pc'[t] = "free" /\ V("mutex") /\ k1 = k - 1
  \/ pc[t] = "free" /\ pc'[t] = "cons" /\ V("empty") /\ k1 = k

\* What P and V make of the counts and of the threads that wait.
Calls(t, s) ==
  /\ P(t, s) => count'[s] = count[s] - 1
  /\ V(s) => count'[s] = count[s] + 1
  /\ \A r \in RingSems : r # s => count'[r] = count[r] /\ waiting'[r] = waiting[r]

LEMMA RingCall ==
  ASSUME count \in [RingSems -> Int], waiting \in [RingSems -> SUBSET Thread],
         NEW t \in Thread, NEW s \in RingSems, P(t, s) \/ V(s)
  PROVE  /\ count' \in [RingSems -> Int] /\ waiting' \in [RingSems -> SUBSET Thread]
         /\ Calls(t, s)
<1>1. ASSUME P(t, s)
      PROVE  /\ count' \in [RingSems -> Int] /\ waiting' \in [RingSems -> SUBSET Thread]
             /\ \A r \in RingSems : r # s => count'[r] = count[r] /\ waiting'[r] = waiting[r]
             /\ count'[s] = count[s] - 1
             /\ waiting'[s] = IF count[s] <= 0 THEN waiting[s] \cup {t} ELSE waiting[s]
  BY <1>1, CallP
<1>2. ASSUME V(s)
      PROVE  /\ count' \in [RingSems -> Int] /\ waiting' \in [RingSems -> SUBSET Thread]
             /\ \A r \in RingSems : r # s => count'[r] = count[r] /\ waiting'[r] = waiting[r]
             /\ count'[s] = count[s] + 1
  BY <1>2, CallV
<1> QED BY <1>1, <1>2 DEF Calls

\* A queue that the step does not concern, and the mutex if it is not called.
LEMMA RingRest ==
  ASSUME count \in [RingSems -> Int], waiting \in [RingSems -> SUBSET Thread],
         NEW t \in Thread, ~Blocked(t), \A u \in Thread : u # t => pc'[u] = pc[u],
         NEW s \in RingSems, count'[s] = count[s], waiting'[s] = waiting[s]
  PROVE  /\ \A points : QueueOf(s, points) => QueueOf(s, points)'
         /\ \A inside, points :
              /\ pc[t] \in inside <=> pc'[t] \in inside
              /\ HasToken(s, 1, inside, points)
              => HasToken(s, 1, inside, points)'
<1>1. ASSUME NEW points, QueueOf(s, points) PROVE QueueOf(s, points)'
  BY <1>1, QueueStays
<1>2. ASSUME NEW inside, NEW points, pc[t] \in inside <=> pc'[t] \in inside,
             HasToken(s, 1, inside, points)
      PROVE  HasToken(s, 1, inside, points)'
  <2>1. 1 \in Int
    OBVIOUS
  <2> QED BY <1>2, <2>1, KeepsTokens
<1> QED BY <1>1, <1>2

\* The semaphore that is called, after the call.
LEMMA RingCalled ==
  ASSUME count \in [RingSems -> Int], waiting \in [RingSems -> SUBSET Thread],
         NEW t \in Thread, ~Blocked(t), \A u \in Thread : u # t => pc'[u] = pc[u],
         NEW s \in RingSems
  PROVE  /\ \A points : QueueOf(s, points) /\ P(t, s) /\ pc'[t] \in points => QueueOf(s, points)'
         /\ \A points : QueueOf(s, points) /\ V(s) => QueueOf(s, points)'
         /\ \A inside, points :
              /\ HasToken(s, 1, inside, points)
              /\ \/ P(t, s) /\ pc[t] \notin inside /\ pc'[t] \in points
                 \/ V(s) /\ pc[t] \in inside /\ pc'[t] \notin inside
              => HasToken(s, 1, inside, points)'
<1>1. ASSUME NEW points, QueueOf(s, points), P(t, s), pc'[t] \in points
      PROVE  QueueOf(s, points)'
  BY <1>1, QueueP
<1>2. ASSUME NEW points, QueueOf(s, points), V(s) PROVE QueueOf(s, points)'
  BY <1>2, QueueV
<1>3. ASSUME NEW inside, NEW points, HasToken(s, 1, inside, points),
             \/ P(t, s) /\ pc[t] \notin inside /\ pc'[t] \in points
             \/ V(s) /\ pc[t] \in inside /\ pc'[t] \notin inside
      PROVE  HasToken(s, 1, inside, points)'
  <2>1. 1 \in Int
    OBVIOUS
  <2>2. CASE P(t, s) /\ pc[t] \notin inside /\ pc'[t] \in points
    BY <1>3, <2>1, <2>2, TakesToken
  <2>3. CASE V(s) /\ pc[t] \in inside /\ pc'[t] \notin inside
    BY <1>3, <2>1, <2>3, GivesToken
  <2> QED BY <1>3, <2>2, <2>3
<1> QED BY <1>1, <1>2, <1>3

LEMMA RingTokensKept ==
  ASSUME count \in [RingSems -> Int], waiting \in [RingSems -> SUBSET Thread],
         NEW t \in Thread, ~Blocked(t), \A u \in Thread : u # t => pc'[u] = pc[u],
         NEW k \in Int, NEW k1 \in Int, RingTokens(k), Puts(t, k, k1) \/ Gets(t, k, k1)
  PROVE  /\ count' \in [RingSems -> Int] /\ waiting' \in [RingSems -> SUBSET Thread]
         /\ RingTokens(k1)'
<1>1. /\ "full" \in RingSems /\ "empty" \in RingSems /\ "mutex" \in RingSems
      /\ N \in Int /\ count["full"] \in Int /\ count["empty"] \in Int
  BY RingAssumption DEF RingSems
<1>2. /\ HasToken("mutex", 1, RingInside, RingWaits)
      /\ QueueOf("full", {"in_cons"}) /\ QueueOf("empty", {"in_prod"})
      /\ count["full"] = k - Number(Telling) - Number(Getting)
      /\ count["empty"] = N - k - Number(Freeing) - Number(Putting)
  BY DEF RingTokens
<1>3. ASSUME NEW points
      PROVE  /\ Number(points) \in Nat
             /\ Number(points)' = Number(points) + (IF pc'[t] \in points THEN 1 ELSE 0)
                                                 - (IF pc[t] \in points THEN 1 ELSE 0)
  BY NumberSteps
<1> DEFINE full == count["full"]
           empty == count["empty"]
<1>4. ASSUME count' \in [RingSems -> Int], waiting' \in [RingSems -> SUBSET Thread],
             HasToken("mutex", 1, RingInside, RingWaits)',
             QueueOf("full", {"in_cons"})', QueueOf("empty", {"in_prod"})',
             full' = k1 - Number(Telling)' - Number(Getting)',
             empty' = N - k1 - Number(Freeing)' - Number(Putting)'
      PROVE  /\ count' \in [RingSems -> Int] /\ waiting' \in [RingSems -> SUBSET Thread]
             /\ RingTokens(k1)'
  BY <1>4 DEF RingTokens
<1>5. ASSUME NEW s \in RingSems, P(t, s) \/ V(s)
      PROVE  /\ count' \in [RingSems -> Int] /\ waiting' \in [RingSems -> SUBSET Thread]
             /\ Calls(t, s)
  BY <1>5, RingCall
<1>6. CASE pc[t] = "prod" /\ pc'[t] = "in_prod" /\ P(t, "empty") /\ k1 = k
  <2>1. /\ count' \in [RingSems -> Int] /\ waiting' \in [RingSems -> SUBSET Thread]
        /\ Calls(t, "empty")
    BY <1>1, <1>5, <1>6
  <2>2. /\ empty' = empty - 1
        /\ count'["full"] = count["full"] /\ waiting'["full"] = waiting["full"]
        /\ count'["mutex"] = count["mutex"] /\ waiting'["mutex"] = waiting["mutex"]
    BY <1>1, <1>6, <2>1 DEF Calls, RingSems
  <2>3. QueueOf("full", {"in_cons"})' /\ QueueOf("empty", {"in_prod"})'
    BY <1>1, <1>2, <1>6, <2>1, <2>2, RingRest, RingCalled
  <2>4. HasToken("mutex", 1, RingInside, RingWaits)'
    BY <1>1, <1>2, <1>6, <2>1, <2>2, RingRest DEF RingInside, RingWaits
  <2>5. /\ full' = k1 - Number(Telling)' - Number(Getting)'
        /\ empty' = N - k1 - Number(Freeing)' - Number(Putting)'
    BY <1>1, <1>2, <1>3, <1>6, <2>1, <2>2 DEF Telling, Getting, Freeing, Putting
  <2> QED BY <1>1, <1>2, <1>4, <2>1, <2>3, <2>4, <2>5
<1>7. CASE pc[t] = "in_prod" /\ pc'[t] = "insert" /\ P(t, "mutex") /\ k1 = k
  <2>1. /\ count' \in [RingSems -> Int] /\ waiting' \in [RingSems -> SUBSET Thread]
        /\ Calls(t, "mutex")
    BY <1>1, <1>5, <1>7
  <2>2. /\ count'["full"] = count["full"] /\ waiting'["full"] = waiting["full"]
        /\ count'["empty"] = count["empty"] /\ waiting'["empty"] = waiting["empty"]
    BY <1>1, <1>7, <2>1 DEF Calls, RingSems
  <2>3. QueueOf("full", {"in_cons"})' /\ QueueOf("empty", {"in_prod"})'
    BY <1>1, <1>2, <1>7, <2>1, <2>2, RingRest
  <2>4. HasToken("mutex", 1, RingInside, RingWaits)'
    BY <1>1, <1>2, <1>7, <2>1, <2>2, RingCalled DEF RingInside, RingWaits
  <2>5. /\ full' = k1 - Number(Telling)' - Number(Getting)'
        /\ empty' = N - k1 - Number(Freeing)' - Number(Putting)'
    BY <1>1, <1>2, <1>3, <1>7, <2>1, <2>2 DEF Telling, Getting, Freeing, Putting
  <2> QED BY <1>1, <1>2, <1>4, <2>1, <2>3, <2>4, <2>5
<1>8. CASE pc[t] = "insert" /\ pc'[t] = "inserted" /\ NoCall /\ k1 = k
  <2>1. count' = count /\ waiting' = waiting
    BY <1>8 DEF NoCall
  <2>3. QueueOf("full", {"in_cons"})' /\ QueueOf("empty", {"in_prod"})'
    BY <1>1, <1>2, <1>8, <2>1, RingRest
  <2>4. HasToken("mutex", 1, RingInside, RingWaits)'
    BY <1>1, <1>2, <1>8, <2>1, RingRest DEF RingInside, RingWaits
  <2>5. /\ full' = k1 - Number(Telling)' - Number(Getting)'
        /\ empty' = N - k1 - Number(Freeing)' - Number(Putting)'
    BY <1>1, <1>2, <1>3, <1>8, <2>1 DEF Telling, Getting, Freeing, Putting
  <2> QED BY <1>1, <1>2, <1>4, <2>1, <2>3, <2>4, <2>5
<1>9. CASE pc[t] = "inserted" /\ pc'[t] = "tell" /\ V("mutex") /\ k1 = k + 1
  <2>1. /\ count' \in [RingSems -> Int] /\ waiting' \in [RingSems -> SUBSET Thread]
        /\ Calls(t, "mutex")
    BY <1>1, <1>5, <1>9
  <2>2. /\ count'["full"] = count["full"] /\ waiting'["full"] = waiting["full"]
        /\ count'["empty"] = count["empty"] /\ waiting'["empty"] = waiting["empty"]
    BY <1>1, <1>9, <2>1 DEF Calls, RingSems
  <2>3. QueueOf("full", {"in_cons"})' /\ QueueOf("empty", {"in_prod"})'
    BY <1>1, <1>2, <1>9, <2>1, <2>2, RingRest
  <2>4. HasToken("mutex", 1, RingInside, RingWaits)'
    BY <1>1, <1>2, <1>9, <2>1, <2>2, RingCalled DEF RingInside, RingWaits
  <2>5. /\ full' = k1 - Number(Telling)' - Number(Getting)'
        /\ empty' = N - k1 - Number(Freeing)' - Number(Putting)'
    BY <1>1, <1>2, <1>3, <1>9, <2>1, <2>2 DEF Telling, Getting, Freeing, Putting
  <2> QED BY <1>1, <1>2, <1>4, <2>1, <2>3, <2>4, <2>5
<1>10. CASE pc[t] = "tell" /\ pc'[t] = "prod" /\ V("full") /\ k1 = k
  <2>1. /\ count' \in [RingSems -> Int] /\ waiting' \in [RingSems -> SUBSET Thread]
        /\ Calls(t, "full")
    BY <1>1, <1>5, <1>10
  <2>2. /\ full' = full + 1
        /\ count'["empty"] = count["empty"] /\ waiting'["empty"] = waiting["empty"]
        /\ count'["mutex"] = count["mutex"] /\ waiting'["mutex"] = waiting["mutex"]
    BY <1>1, <1>10, <2>1 DEF Calls, RingSems
  <2>3. QueueOf("full", {"in_cons"})' /\ QueueOf("empty", {"in_prod"})'
    BY <1>1, <1>2, <1>10, <2>1, <2>2, RingRest, RingCalled
  <2>4. HasToken("mutex", 1, RingInside, RingWaits)'
    BY <1>1, <1>2, <1>10, <2>1, <2>2, RingRest DEF RingInside, RingWaits
  <2>5. /\ full' = k1 - Number(Telling)' - Number(Getting)'
        /\ empty' = N - k1 - Number(Freeing)' - Number(Putting)'
    BY <1>1, <1>2, <1>3, <1>10, <2>1, <2>2 DEF Telling, Getting, Freeing, Putting
  <2> QED BY <1>1, <1>2, <1>4, <2>1, <2>3, <2>4, <2>5
<1>11. CASE pc[t] = "cons" /\ pc'[t] = "in_cons" /\ P(t, "full") /\ k1 = k
  <2>1. /\ count' \in [RingSems -> Int] /\ waiting' \in [RingSems -> SUBSET Thread]
        /\ Calls(t, "full")
    BY <1>1, <1>5, <1>11
  <2>2. /\ full' = full - 1
        /\ count'["empty"] = count["empty"] /\ waiting'["empty"] = waiting["empty"]
        /\ count'["mutex"] = count["mutex"] /\ waiting'["mutex"] = waiting["mutex"]
    BY <1>1, <1>11, <2>1 DEF Calls, RingSems
  <2>3. QueueOf("full", {"in_cons"})' /\ QueueOf("empty", {"in_prod"})'
    BY <1>1, <1>2, <1>11, <2>1, <2>2, RingRest, RingCalled
  <2>4. HasToken("mutex", 1, RingInside, RingWaits)'
    BY <1>1, <1>2, <1>11, <2>1, <2>2, RingRest DEF RingInside, RingWaits
  <2>5. /\ full' = k1 - Number(Telling)' - Number(Getting)'
        /\ empty' = N - k1 - Number(Freeing)' - Number(Putting)'
    BY <1>1, <1>2, <1>3, <1>11, <2>1, <2>2 DEF Telling, Getting, Freeing, Putting
  <2> QED BY <1>1, <1>2, <1>4, <2>1, <2>3, <2>4, <2>5
<1>12. CASE pc[t] = "in_cons" /\ pc'[t] = "delete" /\ P(t, "mutex") /\ k1 = k
  <2>1. /\ count' \in [RingSems -> Int] /\ waiting' \in [RingSems -> SUBSET Thread]
        /\ Calls(t, "mutex")
    BY <1>1, <1>5, <1>12
  <2>2. /\ count'["full"] = count["full"] /\ waiting'["full"] = waiting["full"]
        /\ count'["empty"] = count["empty"] /\ waiting'["empty"] = waiting["empty"]
    BY <1>1, <1>12, <2>1 DEF Calls, RingSems
  <2>3. QueueOf("full", {"in_cons"})' /\ QueueOf("empty", {"in_prod"})'
    BY <1>1, <1>2, <1>12, <2>1, <2>2, RingRest
  <2>4. HasToken("mutex", 1, RingInside, RingWaits)'
    BY <1>1, <1>2, <1>12, <2>1, <2>2, RingCalled DEF RingInside, RingWaits
  <2>5. /\ full' = k1 - Number(Telling)' - Number(Getting)'
        /\ empty' = N - k1 - Number(Freeing)' - Number(Putting)'
    BY <1>1, <1>2, <1>3, <1>12, <2>1, <2>2 DEF Telling, Getting, Freeing, Putting
  <2> QED BY <1>1, <1>2, <1>4, <2>1, <2>3, <2>4, <2>5
<1>13. CASE pc[t] = "delete" /\ pc'[t] = "deleted" /\ NoCall /\ k1 = k
  <2>1. count' = count /\ waiting' = waiting
    BY <1>13 DEF NoCall
  <2>3. QueueOf("full", {"in_cons"})' /\ QueueOf("empty", {"in_prod"})'
    BY <1>1, <1>2, <1>13, <2>1, RingRest
  <2>4. HasToken("mutex", 1, RingInside, RingWaits)'
    BY <1>1, <1>2, <1>13, <2>1, RingRest DEF RingInside, RingWaits
  <2>5. /\ full' = k1 - Number(Telling)' - Number(Getting)'
        /\ empty' = N - k1 - Number(Freeing)' - Number(Putting)'
    BY <1>1, <1>2, <1>3, <1>13, <2>1 DEF Telling, Getting, Freeing, Putting
  <2> QED BY <1>1, <1>2, <1>4, <2>1, <2>3, <2>4, <2>5
<1>14. CASE pc[t] = "deleted" /\ pc'[t] = "free" /\ V("mutex") /\ k1 = k - 1
  <2>1. /\ count' \in [RingSems -> Int] /\ waiting' \in [RingSems -> SUBSET Thread]
        /\ Calls(t, "mutex")
    BY <1>1, <1>5, <1>14
  <2>2. /\ count'["full"] = count["full"] /\ waiting'["full"] = waiting["full"]
        /\ count'["empty"] = count["empty"] /\ waiting'["empty"] = waiting["empty"]
    BY <1>1, <1>14, <2>1 DEF Calls, RingSems
  <2>3. QueueOf("full", {"in_cons"})' /\ QueueOf("empty", {"in_prod"})'
    BY <1>1, <1>2, <1>14, <2>1, <2>2, RingRest
  <2>4. HasToken("mutex", 1, RingInside, RingWaits)'
    BY <1>1, <1>2, <1>14, <2>1, <2>2, RingCalled DEF RingInside, RingWaits
  <2>5. /\ full' = k1 - Number(Telling)' - Number(Getting)'
        /\ empty' = N - k1 - Number(Freeing)' - Number(Putting)'
    BY <1>1, <1>2, <1>3, <1>14, <2>1, <2>2 DEF Telling, Getting, Freeing, Putting
  <2> QED BY <1>1, <1>2, <1>4, <2>1, <2>3, <2>4, <2>5
<1>15. CASE pc[t] = "free" /\ pc'[t] = "cons" /\ V("empty") /\ k1 = k
  <2>1. /\ count' \in [RingSems -> Int] /\ waiting' \in [RingSems -> SUBSET Thread]
        /\ Calls(t, "empty")
    BY <1>1, <1>5, <1>15
  <2>2. /\ empty' = empty + 1
        /\ count'["full"] = count["full"] /\ waiting'["full"] = waiting["full"]
        /\ count'["mutex"] = count["mutex"] /\ waiting'["mutex"] = waiting["mutex"]
    BY <1>1, <1>15, <2>1 DEF Calls, RingSems
  <2>3. QueueOf("full", {"in_cons"})' /\ QueueOf("empty", {"in_prod"})'
    BY <1>1, <1>2, <1>15, <2>1, <2>2, RingRest, RingCalled
  <2>4. HasToken("mutex", 1, RingInside, RingWaits)'
    BY <1>1, <1>2, <1>15, <2>1, <2>2, RingRest DEF RingInside, RingWaits
  <2>5. /\ full' = k1 - Number(Telling)' - Number(Getting)'
        /\ empty' = N - k1 - Number(Freeing)' - Number(Putting)'
    BY <1>1, <1>2, <1>3, <1>15, <2>1, <2>2 DEF Telling, Getting, Freeing, Putting
  <2> QED BY <1>1, <1>2, <1>4, <2>1, <2>3, <2>4, <2>5
<1> QED BY <1>6, <1>7, <1>8, <1>9, <1>10, <1>11, <1>12, <1>13, <1>14, <1>15 DEF Puts, Gets

\* A producer that is about to insert has room, a consumer has an item.
LEMMA Holder ==
  ASSUME NEW s \in RingSems, count \in [RingSems -> Int], waiting \in [RingSems -> SUBSET Thread],
         NEW points, NEW inside, points \subseteq inside, QueueOf(s, points),
         NEW t \in Thread, pc[t] \in inside, pc[t] \notin points
  PROVE  count[s] + Number(inside) >= 1
<1>1. /\ waiting[s] \in SUBSET Thread /\ count[s] \in Int
      /\ waiting[s] \subseteq At(points)
      /\ Cardinality(waiting[s]) = IF count[s] < 0 THEN -count[s] ELSE 0
  BY DEF QueueOf
<1>2. IsFiniteSet(waiting[s]) /\ IsFiniteSet(At(inside))
  BY <1>1, FiniteThreads, FS_Subset DEF At
<1>3. /\ IsFiniteSet(waiting[s] \cup {t})
      /\ Cardinality(waiting[s] \cup {t}) = Cardinality(waiting[s]) + 1
  BY <1>1, <1>2, FS_AddElement DEF At
<1>4. waiting[s] \cup {t} \subseteq At(inside)
  BY <1>1 DEF At
<1>5. /\ Cardinality(waiting[s]) + 1 <= Number(inside)
      /\ Number(inside) \in Nat /\ Cardinality(waiting[s]) \in Nat
  BY <1>2, <1>3, <1>4, FS_Subset, FS_CardinalityType DEF Number
<1> QED BY <1>1, <1>5

LEMMA RoomAndItems ==
  ASSUME RingTypes, NEW k \in Int, RingTokens(k), NEW t \in Thread
  PROVE  /\ pc[t] \in {"insert", "inserted"} => k < N
         /\ pc[t] \in {"delete", "deleted"} => k >= 1
<1>1. /\ "full" \in RingSems /\ "empty" \in RingSems /\ N \in Int
      /\ count \in [RingSems -> Int] /\ waiting \in [RingSems -> SUBSET Thread]
      /\ count["full"] \in Int /\ count["empty"] \in Int
  BY RingAssumption DEF RingSems, RingTypes
<1>2. /\ QueueOf("full", {"in_cons"}) /\ QueueOf("empty", {"in_prod"})
      /\ count["full"] = k - Number(Telling) - Number(Getting)
      /\ count["empty"] = N - k - Number(Freeing) - Number(Putting)
  BY DEF RingTokens
<1>3. /\ Number(Telling) \in Nat /\ Number(Getting) \in Nat
      /\ Number(Freeing) \in Nat /\ Number(Putting) \in Nat
  BY AtSteps, FiniteThreads, FS_Subset, FS_CardinalityType DEF Number, At
<1>4. ASSUME pc[t] \in {"insert", "inserted"} PROVE k < N
  <2>1. {"in_prod"} \subseteq Putting /\ pc[t] \in Putting /\ pc[t] \notin {"in_prod"}
    BY <1>4 DEF Putting
  <2>2. count["empty"] + Number(Putting) >= 1
    BY <1>1, <1>2, <2>1, Holder
  <2> QED BY <1>1, <1>2, <1>3, <2>2
<1>5. ASSUME pc[t] \in {"delete", "deleted"} PROVE k >= 1
  <2>1. {"in_cons"} \subseteq Getting /\ pc[t] \in Getting /\ pc[t] \notin {"in_cons"}
    BY <1>5 DEF Getting
  <2>2. count["full"] + Number(Getting) >= 1
    BY <1>1, <1>2, <2>1, Holder
  <2> QED BY <1>1, <1>2, <1>3, <2>2
<1> QED BY <1>4, <1>5

\* Under the mutex a thread is alone.
LEMMA RingExclusion ==
  ASSUME RingTypes, NEW k, RingTokens(k), NEW t \in Thread, ~Blocked(t), pc[t] \in RingInside,
         NEW u \in Thread, pc[u] \in {"inserted", "deleted"}
  PROVE  t = u
<1>1. /\ "mutex" \in RingSems
      /\ count \in [RingSems -> Int] /\ waiting \in [RingSems -> SUBSET Thread]
      /\ HasToken("mutex", 1, RingInside, RingWaits)
  BY DEF RingTypes, RingTokens, RingSems
<1>2. t \notin waiting["mutex"] /\ u \notin waiting["mutex"]
  BY <1>1 DEF Blocked, HasToken, QueueOf, At, RingWaits
<1>3. pc[u] \in RingInside
  BY DEF RingInside
<1> QED BY <1>1, <1>2, <1>3, Exclusion
-----------------------------------------------------------------------------
(***************************************************************************)
(* What the ring holds: consecutive items, from the one that is to be      *)
(* deleted next.  Between Delete and AdvanceOut that is the one in deleted *)
(* already, between Insert and AdvanceIn the next one is behind the last.  *)
(***************************************************************************)
Nth(e, j) == (e + j) % Wrap

Expected == IF \E t \in Thread : pc[t] = "deleted" THEN deleted ELSE Nth(deleted, 1)

Consecutive(e, c) == /\ \A j \in 1..Len(c) : c[j] = Nth(e, j - 1)
                     /\ item_num = Nth(e, Len(c))

RingHolds(c) == InRing(c, ring, out, in, N) /\ Consecutive(Expected, c)

Inserted == (\E t \in Thread : pc[t] = "inserted") => ring[in] = item_num

RingInv == /\ RingTypes
           /\ \E c \in Seq(ItemNumber) : RingTokens(Len(c)) /\ RingHolds(c)
           /\ Inserted

LEMMA NthFacts ==
  ASSUME NEW e \in ItemNumber, NEW j \in 0..N
  PROVE  /\ Nth(e, j) \in ItemNumber /\ Nth(e, 0) = e /\ Nth(e, 1) \in ItemNumber
         /\ Nth(Nth(e, 1), j) = Nth(e, j + 1)
         /\ Nth(Nth(e, j), 1) = Nth(e, j + 1)
<1> DEFINE InOne(v) == IF v < Wrap THEN v ELSE v - Wrap
<1>1. Wrap \in Nat \ {0} /\ N \in Nat /\ Wrap > N + 1 /\ e \in 0..(Wrap - 1)
  BY RingAssumption, WrapAssumption DEF ItemNumber
<1>2. \A v \in 0..(2 * Wrap - 1) : v % Wrap = InOne(v)
  BY <1>1, RingIndex
<1>3. ASSUME NEW d \in ItemNumber, NEW i \in 0..(N + 1)
      PROVE  Nth(d, i) = InOne(d + i) /\ Nth(d, i) \in 0..(Wrap - 1)
  <2>1. d + i \in 0..(2 * Wrap - 1)
    BY <1>1 DEF ItemNumber
  <2>2. Nth(d, i) = InOne(d + i)
    BY <1>2, <2>1 DEF Nth
  <2> QED BY <1>1, <2>1, <2>2
<1>4. /\ Nth(e, 0) = InOne(e + 0) /\ Nth(e, 1) = InOne(e + 1) /\ Nth(e, j) = InOne(e + j)
      /\ Nth(e, j + 1) = InOne(e + (j + 1))
      /\ Nth(e, 1) \in ItemNumber /\ Nth(e, j) \in ItemNumber
  BY <1>1, <1>3 DEF ItemNumber
<1>5. Nth(Nth(e, 1), j) = InOne(Nth(e, 1) + j) /\ Nth(Nth(e, j), 1) = InOne(Nth(e, j) + 1)
  BY <1>1, <1>3, <1>4
<1>6. Nth(Nth(e, 1), j) = InOne(InOne(e + 1) + j) /\ Nth(Nth(e, j), 1) = InOne(InOne(e + j) + 1)
  BY <1>4, <1>5
<1>7. /\ InOne(InOne(e + 1) + j) = InOne(e + (j + 1))
      /\ InOne(InOne(e + j) + 1) = InOne(e + (j + 1))
  BY <1>1
<1>8. InOne(e + 0) = e
  BY <1>1
<1> QED BY <1>4, <1>6, <1>7, <1>8

RingData ==
  /\ ring \in [0..(N - 1) -> ItemNumber] /\ in \in 0..(N - 1) /\ out \in 0..(N - 1)
  /\ item_num \in ItemNumber /\ deleted \in ItemNumber

\* No thread but t is between the two steps of a critical section.
NobodyHalfway(t) == \A u \in Thread : u # t => pc[u] \notin {"inserted", "deleted"}

LEMMA RingQuiet ==
  ASSUME NEW t \in Thread, \A u \in Thread : u # t => pc'[u] = pc[u],
         pc[t] \notin {"inserted", "deleted"}, pc'[t] \notin {"inserted", "deleted"},
         UNCHANGED prodConsVars, NEW c, RingHolds(c), Inserted, RingData
  PROVE  RingHolds(c)' /\ Inserted' /\ RingData' /\ deleted' = deleted
<1>1. ring' = ring /\ in' = in /\ out' = out /\ item_num' = item_num /\ deleted' = deleted
  BY DEF prodConsVars
<1>2. /\ (\E u \in Thread : pc'[u] = "deleted") <=> (\E u \in Thread : pc[u] = "deleted")
      /\ (\E u \in Thread : pc'[u] = "inserted") <=> (\E u \in Thread : pc[u] = "inserted")
  OBVIOUS
<1>3. Expected' = Expected
  BY <1>1, <1>2 DEF Expected, Nth
<1>4. RingHolds(c)'
  BY <1>1, <1>3 DEF RingHolds, InRing, Consecutive, Nth
<1> QED BY <1>1, <1>2, <1>4 DEF Inserted, RingData

LEMMA InsertKeeps ==
  ASSUME NEW t \in Thread, \A u \in Thread : u # t => pc'[u] = pc[u],
         pc[t] = "insert", pc'[t] = "inserted", NobodyHalfway(t), Insert,
         NEW c \in Seq(ItemNumber), Len(c) < N, RingHolds(c), RingData
  PROVE  RingHolds(c)' /\ Inserted' /\ RingData' /\ deleted' = deleted
<1>1. /\ ring' = [ring EXCEPT ![in] = item_num]
      /\ in' = in /\ out' = out /\ item_num' = item_num /\ deleted' = deleted
  BY DEF Insert
<1>2. N \in Nat \ {0} /\ Len(c) \in Nat
  BY RingAssumption, LenProperties
<1>3. /\ ~\E u \in Thread : pc[u] = "deleted"
      /\ ~\E u \in Thread : pc'[u] = "deleted"
  BY DEF NobodyHalfway
<1>4. Expected' = Expected
  BY <1>1, <1>3 DEF Expected, Nth
<1>5. InRing(Append(c, item_num), [ring EXCEPT ![in] = item_num], out, (in + 1) % N, N)
  BY <1>2, RingAppend DEF RingHolds, RingData
<1>6. InRing(c, ring', out, in, N)
  <2>1. Len(c) <= N /\ in = (out + Len(c)) % N
    BY DEF RingHolds, InRing
  <2>2. \A j \in 1..Len(c) : Append(c, item_num)[j] = c[j]
    BY AppendProperties DEF RingData
  <2>3. Len(Append(c, item_num)) = Len(c) + 1
    BY AppendProperties DEF RingData
  <2>4. \A j \in 1..(Len(c) + 1) : Append(c, item_num)[j] = ring'[(out + j - 1) % N]
    BY <1>1, <1>5, <2>3 DEF InRing
  <2>5. \A j \in 1..Len(c) : c[j] = ring'[(out + j - 1) % N]
    BY <1>2, <2>2, <2>4
  <2> QED BY <2>1, <2>5 DEF InRing
<1>7. RingHolds(c)'
  BY <1>1, <1>4, <1>6 DEF RingHolds, InRing, Consecutive, Nth
<1>8. RingData' /\ ring'[in'] = item_num'
  BY <1>1 DEF RingData
<1> QED BY <1>1, <1>7, <1>8 DEF Inserted

LEMMA AdvanceInKeeps ==
  ASSUME NEW t \in Thread, \A u \in Thread : u # t => pc'[u] = pc[u],
         pc[t] = "inserted", pc'[t] = "tell", NobodyHalfway(t), AdvanceIn,
         NEW c \in Seq(ItemNumber), Len(c) < N, RingHolds(c), Inserted, RingData,
         NEW c1, c1 = Append(c, item_num)
  PROVE  /\ RingHolds(c1)' /\ Inserted' /\ RingData' /\ deleted' = deleted
         /\ c1 \in Seq(ItemNumber) /\ Len(c1) = Len(c) + 1
<1>1. /\ item_num' = (item_num + 1) % Wrap /\ in' = (in + 1) % N
      /\ ring' = ring /\ out' = out /\ deleted' = deleted
  BY DEF AdvanceIn
<1>2. N \in Nat \ {0} /\ Len(c) \in Nat /\ Wrap \in Nat \ {0}
  BY RingAssumption, WrapAssumption, LenProperties
<1>3. /\ c1 \in Seq(ItemNumber) /\ Len(c1) = Len(c) + 1
      /\ c1[Len(c) + 1] = item_num /\ \A j \in 1..Len(c) : c1[j] = c[j]
  BY AppendProperties DEF RingData
<1>4. /\ ~\E u \in Thread : pc[u] = "deleted"
      /\ ~\E u \in Thread : pc'[u] = "deleted"
      /\ ~\E u \in Thread : pc'[u] = "inserted"
  BY DEF NobodyHalfway
<1>5. Expected' = Expected /\ Expected = Nth(deleted, 1)
  BY <1>1, <1>4 DEF Expected, Nth
<1>6. Expected \in ItemNumber
  BY <1>2, <1>5, NthFacts, RingAssumption DEF RingData
<1>7. InRing(c1, ring', out', in', N)
  <2>1. InRing(Append(c, item_num), [ring EXCEPT ![in] = item_num], out, (in + 1) % N, N)
    BY <1>2, RingAppend DEF RingHolds, RingData
  <2>2. ring[in] = item_num
    BY DEF Inserted
  <2>3. [ring EXCEPT ![in] = item_num] = ring
    BY <2>2 DEF RingData
  <2> QED BY <1>1, <2>1, <2>3
<1>8. item_num' = Nth(Expected, Len(c) + 1)
  <2>1. item_num = Nth(Expected, Len(c)) /\ item_num' = Nth(item_num, 1)
    BY <1>1 DEF RingHolds, Consecutive, Nth
  <2>2. Len(c) \in 0..N
    BY <1>2
  <2> QED BY <1>6, <2>1, <2>2, NthFacts
<1>9. \A j \in 1..Len(c1) : c1[j] = Nth(Expected, j - 1)
  <2>1. \A j \in 1..Len(c) : c[j] = Nth(Expected, j - 1)
    BY DEF RingHolds, Consecutive
  <2>2. c1[Len(c) + 1] = Nth(Expected, Len(c) + 1 - 1)
    BY <1>2, <1>3 DEF RingHolds, Consecutive
  <2> QED BY <1>2, <1>3, <2>1, <2>2
<1>10. RingHolds(c1)'
  BY <1>3, <1>5, <1>7, <1>8, <1>9 DEF RingHolds, InRing, Consecutive, Nth
<1>11. RingData'
  <2>1. in' \in 0..(N - 1)
    BY <1>1, <1>2, RingIndex DEF RingData
  <2>2. item_num' \in ItemNumber
    <3>1. item_num \in ItemNumber /\ 0 \in 0..N /\ item_num' = Nth(item_num, 1)
      BY <1>1, <1>2 DEF RingData, Nth
    <3> QED BY <3>1, NthFacts
  <2> QED BY <1>1, <2>1, <2>2 DEF RingData
<1> QED BY <1>1, <1>3, <1>4, <1>10, <1>11 DEF Inserted

LEMMA DeleteKeeps ==
  ASSUME NEW t \in Thread, \A u \in Thread : u # t => pc'[u] = pc[u],
         pc[t] = "delete", pc'[t] = "deleted", NobodyHalfway(t), Delete,
         NEW c \in Seq(ItemNumber), Len(c) >= 1, RingHolds(c), RingData
  PROVE  RingHolds(c)' /\ Inserted' /\ RingData' /\ deleted' = (deleted + 1) % Wrap
<1>1. /\ deleted' = ring[out]
      /\ ring' = ring /\ in' = in /\ out' = out /\ item_num' = item_num
  BY DEF Delete
<1>2. N \in Nat \ {0} /\ Len(c) \in Nat \ {0} /\ c # <<>>
  BY RingAssumption, LenProperties, EmptySeq
<1>3. /\ ~\E u \in Thread : pc[u] = "deleted"
      /\ \E u \in Thread : pc'[u] = "deleted"
      /\ ~\E u \in Thread : pc'[u] = "inserted"
  BY DEF NobodyHalfway
<1>4. Expected = Nth(deleted, 1) /\ Expected' = deleted'
  BY <1>3 DEF Expected
<1>5. Expected \in ItemNumber
  BY <1>4, NthFacts, RingAssumption DEF RingData
<1>6. ring[out] = c[1]
  BY <1>2, RingTail, HeadTailProperties DEF RingHolds, RingData
<1>7. c[1] = Nth(Expected, 0) /\ Nth(Expected, 0) = Expected
  <2>1. c[1] = Nth(Expected, 1 - 1)
    BY <1>2 DEF RingHolds, Consecutive
  <2>2. 0 \in 0..N
    BY <1>2
  <2> QED BY <1>5, <2>1, <2>2, NthFacts
<1>8. Expected' = Expected /\ deleted' = Nth(deleted, 1)
  BY <1>1, <1>4, <1>6, <1>7
<1>9. RingHolds(c)'
  BY <1>1, <1>8 DEF RingHolds, InRing, Consecutive, Nth
<1>10. RingData' /\ Inserted'
  BY <1>1, <1>3, <1>4, <1>5, <1>8 DEF RingData, Inserted
<1> QED BY <1>8, <1>9, <1>10 DEF Nth

LEMMA AdvanceOutKeeps ==
  ASSUME NEW t \in Thread, \A u \in Thread : u # t => pc'[u] = pc[u],
         pc[t] = "deleted", pc'[t] = "free", NobodyHalfway(t), AdvanceOut,
         NEW c \in Seq(ItemNumber), Len(c) >= 1, Len(c) <= N, RingHolds(c), RingData,
         NEW c1, c1 = Tail(c)
  PROVE  /\ RingHolds(c1)' /\ Inserted' /\ RingData' /\ deleted' = deleted
         /\ c1 \in Seq(ItemNumber) /\ Len(c1) = Len(c) - 1
<1>1. /\ out' = (out + 1) % N
      /\ ring' = ring /\ in' = in /\ item_num' = item_num /\ deleted' = deleted
  BY DEF AdvanceOut
<1>2. N \in Nat \ {0} /\ Len(c) \in Nat \ {0} /\ c # <<>>
  BY RingAssumption, LenProperties, EmptySeq
<1>3. /\ \E u \in Thread : pc[u] = "deleted"
      /\ ~\E u \in Thread : pc'[u] = "deleted"
      /\ ~\E u \in Thread : pc'[u] = "inserted"
  BY DEF NobodyHalfway
<1>4. Expected = deleted /\ Expected' = Nth(Expected, 1) /\ Expected \in ItemNumber
  BY <1>1, <1>3 DEF Expected, Nth, RingData
<1>5. /\ c1 \in Seq(ItemNumber) /\ Len(c1) = Len(c) - 1
      /\ \A j \in 1..(Len(c) - 1) : c1[j] = c[j + 1]
  BY <1>2, HeadTailProperties
<1>6. /\ (out + 1) % N \in 0..(N - 1)
      /\ InRing(c1, ring, (out + 1) % N, in, N)
  BY <1>2, RingTail DEF RingHolds, RingData
<1>7. ASSUME NEW j \in 1..Len(c1) PROVE c1[j] = Nth(Expected', j - 1)
  <2>1. c1[j] = c[j + 1] /\ j + 1 \in 1..Len(c)
    BY <1>2, <1>5
  <2>2. c[j + 1] = Nth(Expected, (j + 1) - 1) /\ (j + 1) - 1 = (j - 1) + 1
    BY <2>1 DEF RingHolds, Consecutive
  <2>3. j - 1 \in 0..N
    BY <1>2, <1>5
  <2>4. Nth(Nth(Expected, 1), j - 1) = Nth(Expected, (j - 1) + 1)
    BY <1>4, <2>3, NthFacts
  <2> QED BY <1>4, <2>1, <2>2, <2>4
<1>8. item_num' = Nth(Expected', Len(c1))
  <2>1. item_num = Nth(Expected, Len(c)) /\ Len(c) = (Len(c) - 1) + 1 /\ Len(c) - 1 \in 0..N
    BY <1>2 DEF RingHolds, Consecutive
  <2>2. Nth(Nth(Expected, 1), Len(c) - 1) = Nth(Expected, (Len(c) - 1) + 1)
    BY <1>4, <2>1, NthFacts
  <2> QED BY <1>1, <1>4, <1>5, <2>1, <2>2
<1>9. RingHolds(c1)'
  BY <1>1, <1>6, <1>7, <1>8 DEF RingHolds, InRing, Consecutive, Nth
<1>10. RingData' /\ Inserted'
  BY <1>1, <1>3, <1>6 DEF RingData, Inserted
<1> QED BY <1>1, <1>5, <1>9, <1>10

\* What prod_cons_s.c prints next.
Deleting == deleted' # deleted => deleted' = (deleted + 1) % Wrap

LEMMA RingStep ==
  ASSUME PcType, RingInv, NEW t \in Thread, prod(t) \/ cons(t)
  PROVE  RingInv' /\ Deleting
<1>1. /\ PcType' /\ pc[t] \in ProdConsPoints /\ pc'[t] \in ProdConsPoints /\ ~Blocked(t)
      /\ \A u \in Thread : u # t => pc'[u] = pc[u]
  BY ProdConsMoves DEF Moves
<1>2. PICK c \in Seq(ItemNumber) : RingTokens(Len(c)) /\ RingHolds(c)
  BY DEF RingInv
<1>3. /\ RingTypes /\ RingData /\ Inserted
      /\ count \in [RingSems -> Int] /\ waiting \in [RingSems -> SUBSET Thread]
      /\ Len(c) \in Int /\ Len(c) <= N
  BY <1>2, LenProperties DEF RingInv, RingTypes, RingData, RingHolds, InRing
<1>4. pc[t] \in RingInside => NobodyHalfway(t)
  BY <1>1, <1>2, <1>3, RingExclusion DEF NobodyHalfway
<1>5. ASSUME NEW c1 \in Seq(ItemNumber),
             Puts(t, Len(c), Len(c1)) \/ Gets(t, Len(c), Len(c1)),
             RingHolds(c1)', Inserted', RingData', Deleting
      PROVE  RingInv' /\ Deleting
  <2>1. Len(c1) \in Int
    BY LenProperties
  <2>2. /\ count' \in [RingSems -> Int] /\ waiting' \in [RingSems -> SUBSET Thread]
        /\ RingTokens(Len(c1))'
    BY <1>1, <1>2, <1>3, <1>5, <2>1, RingTokensKept
  <2>3. At(ProdConsPoints)' = Thread
    BY <1>1, <1>3 DEF At, RingTypes
  <2>4. RingTypes'
    BY <1>5, <2>2, <2>3 DEF RingTypes, RingData
  <2> QED BY <1>5, <2>2, <2>4 DEF RingInv
\* Steps that leave the ring alone.
<1>6. ASSUME UNCHANGED prodConsVars,
             pc[t] \notin {"inserted", "deleted"}, pc'[t] \notin {"inserted", "deleted"},
             Puts(t, Len(c), Len(c)) \/ Gets(t, Len(c), Len(c))
      PROVE  RingInv' /\ Deleting
  <2>1. RingHolds(c)' /\ Inserted' /\ RingData' /\ deleted' = deleted
    BY <1>1, <1>2, <1>3, <1>6, RingQuiet
  <2> QED BY <1>5, <1>6, <2>1 DEF Deleting
<1>7. CASE Goto(t, "prod", "in_prod") /\ P(t, "empty") /\ UNCHANGED prodConsVars
  BY <1>6, <1>7 DEF Goto, PcType, Puts
<1>8. CASE Goto(t, "in_prod", "insert") /\ P(t, "mutex") /\ UNCHANGED prodConsVars
  BY <1>6, <1>8 DEF Goto, PcType, Puts
<1>9. CASE Goto(t, "insert", "inserted") /\ Insert /\ NoCall
  <2>1. pc[t] = "insert" /\ pc'[t] = "inserted" /\ Puts(t, Len(c), Len(c))
    BY <1>9 DEF Goto, PcType, Puts
  <2>2. Len(c) < N /\ NobodyHalfway(t)
    BY <1>2, <1>3, <1>4, <2>1, RoomAndItems DEF RingInside
  <2>3. RingHolds(c)' /\ Inserted' /\ RingData' /\ deleted' = deleted
    BY <1>1, <1>2, <1>3, <1>9, <2>1, <2>2, InsertKeeps
  <2> QED BY <1>5, <2>1, <2>3 DEF Deleting
<1>10. CASE Goto(t, "inserted", "tell") /\ AdvanceIn /\ V("mutex")
  <2>1. pc[t] = "inserted" /\ pc'[t] = "tell" /\ Puts(t, Len(c), Len(c) + 1)
    BY <1>10 DEF Goto, PcType, Puts
  <2>2. Len(c) < N /\ NobodyHalfway(t)
    BY <1>2, <1>3, <1>4, <2>1, RoomAndItems DEF RingInside
  <2>3. PICK c1 : c1 = Append(c, item_num)
    OBVIOUS
  <2>4. /\ RingHolds(c1)' /\ Inserted' /\ RingData' /\ deleted' = deleted
        /\ c1 \in Seq(ItemNumber) /\ Len(c1) = Len(c) + 1
    BY <1>1, <1>2, <1>3, <1>10, <2>1, <2>2, <2>3, AdvanceInKeeps
  <2> QED BY <1>5, <2>1, <2>4 DEF Deleting
<1>11. CASE Goto(t, "tell", "prod") /\ V("full") /\ UNCHANGED prodConsVars
  BY <1>6, <1>11 DEF Goto, PcType, Puts
<1>12. CASE Goto(t, "cons", "in_cons") /\ P(t, "full") /\ UNCHANGED prodConsVars
  BY <1>6, <1>12 DEF Goto, PcType, Gets
<1>13. CASE Goto(t, "in_cons", "delete") /\ P(t, "mutex") /\ UNCHANGED prodConsVars
  BY <1>6, <1>13 DEF Goto, PcType, Gets
<1>14. CASE Goto(t, "delete", "deleted") /\ Delete /\ NoCall
  <2>1. pc[t] = "delete" /\ pc'[t] = "deleted" /\ Gets(t, Len(c), Len(c))
    BY <1>14 DEF Goto, PcType, Gets
  <2>2. Len(c) >= 1 /\ NobodyHalfway(t)
    BY <1>2, <1>3, <1>4, <2>1, RoomAndItems DEF RingInside
  <2>3. RingHolds(c)' /\ Inserted' /\ RingData' /\ deleted' = (deleted + 1) % Wrap
    BY <1>1, <1>2, <1>3, <1>14, <2>1, <2>2, DeleteKeeps
  <2> QED BY <1>5, <2>1, <2>3 DEF Deleting
<1>15. CASE Goto(t, "deleted", "free") /\ AdvanceOut /\ V("mutex")
  <2>1. pc[t] = "deleted" /\ pc'[t] = "free" /\ Gets(t, Len(c), Len(c) - 1)
    BY <1>15 DEF Goto, PcType, Gets
  <2>2. Len(c) >= 1 /\ NobodyHalfway(t)
    BY <1>2, <1>3, <1>4, <2>1, RoomAndItems DEF RingInside
  <2>3. PICK c1 : c1 = Tail(c)
    OBVIOUS
  <2>4. /\ RingHolds(c1)' /\ Inserted' /\ RingData' /\ deleted' = deleted
        /\ c1 \in Seq(ItemNumber) /\ Len(c1) = Len(c) - 1
    BY <1>1, <1>2, <1>3, <1>15, <2>1, <2>2, <2>3, AdvanceOutKeeps
  <2> QED BY <1>5, <2>1, <2>4 DEF Deleting
<1>16. CASE Goto(t, "free", "cons") /\ V("empty") /\ UNCHANGED prodConsVars
  BY <1>6, <1>16 DEF Goto, PcType, Gets
<1> QED BY <1>7, <1>8, <1>9, <1>10, <1>11, <1>12, <1>13, <1>14, <1>15, <1>16 DEF prod, cons

LEMMA InitRing == Init => PcType /\ (NoneAt(ProdConsPoints) \/ RingInv)
<1> SUFFICES ASSUME Init PROVE NoneAt(ProdConsPoints) \/ RingInv
  BY InitStarts
<1>1. CASE ProdConsMain /\ AllAt(ProdConsPoints)
  <2>1. /\ count = [full |-> 0, empty |-> N, mutex |-> 1]
        /\ waiting = [s \in DOMAIN count |-> {}]
    BY <1>1 DEF ProdConsMain, SemInit
  <2>2. PICK producers \in (SUBSET Child) \ {{}, Child} :
          pc = [t \in Thread |-> CASE t \in producers -> "prod"
                                   [] t \in Child \ producers -> "cons"
                                   [] t = Main -> "delays"]
    BY <1>1 DEF ProdConsMain
  <2>3. \A t \in Thread : pc[t] \in {"prod", "cons", "delays"}
    BY <2>2, MainAssumption DEF Thread
  <2>4. /\ ring = [i \in 0..(N - 1) |-> 0] /\ in = 0 /\ out = 0
        /\ item_num = 0 /\ deleted = Wrap - 1
    BY DEF Init, ProdConsInit
  <2>5. N \in Nat \ {0} /\ Wrap \in Nat \ {0} /\ 0 \in ItemNumber /\ Wrap - 1 \in ItemNumber
    BY RingAssumption, WrapAssumption DEF ItemNumber
  <2>6. /\ count \in [RingSems -> Int] /\ waiting \in [RingSems -> SUBSET Thread]
        /\ count["full"] = 0 /\ count["empty"] = N /\ count["mutex"] = 1
        /\ waiting["full"] = {} /\ waiting["empty"] = {} /\ waiting["mutex"] = {}
    BY <2>1, <2>5 DEF RingSems
  <2>7. RingData
    BY <2>4, <2>5 DEF RingData
  <2>8. RingTypes
    BY <1>1, <2>6, <2>7 DEF RingTypes, RingData, AllAt, At
  <2>9. /\ At(RingInside) = {} /\ At(Telling) = {} /\ At(Getting) = {}
        /\ At(Freeing) = {} /\ At(Putting) = {}
    BY <2>3 DEF At, RingInside, Telling, Getting, Freeing, Putting
  <2>10. HasToken("mutex", 1, RingInside, RingWaits)
    BY <2>6, <2>9, FS_EmptySet DEF HasToken, QueueOf, RingInside, RingWaits
  <2>11. QueueOf("full", {"in_cons"}) /\ QueueOf("empty", {"in_prod"})
    BY <2>5, <2>6, FS_EmptySet DEF QueueOf
  <2>12. /\ Number(Telling) = 0 /\ Number(Getting) = 0
         /\ Number(Freeing) = 0 /\ Number(Putting) = 0
    BY <2>9, FS_EmptySet DEF Number
  <2>13. RingTokens(0)
    BY <2>5, <2>6, <2>10, <2>11, <2>12 DEF RingTokens
  <2>14. /\ ~\E t \in Thread : pc[t] = "deleted"
         /\ ~\E t \in Thread : pc[t] = "inserted"
    BY <2>3
  <2>15. Expected = 0
    <3>1. (Wrap - 1) + 1 = Wrap /\ Wrap % Wrap = 0
      BY <2>5, RingIndex
    <3> QED BY <2>4, <2>14, <3>1 DEF Expected, Nth
  <2>16. RingHolds(<<>>)
    <3>1. Len(<<>>) = 0 /\ 0 % N = 0 /\ Nth(0, 0) = 0
      BY <2>5, NthFacts DEF ItemNumber
    <3> QED BY <2>4, <2>5, <2>15, <3>1 DEF RingHolds, InRing, Consecutive
  <2>17. <<>> \in Seq(ItemNumber) /\ Len(<<>>) = 0
    OBVIOUS
  <2> QED BY <2>8, <2>13, <2>14, <2>16, <2>17 DEF RingInv, Inserted
<1>2. ASSUME NEW points, points \cap ProdConsPoints = {}, AllAt(points)
      PROVE  NoneAt(ProdConsPoints)
  BY <1>2 DEF AllAt, NoneAt
<1> QED BY <1>1, <1>2, InitStarts DEF Starts, BarrierPoints, ProdConsPoints, MonitorPoints,
           RoundsPoints, Project3Points, Project2Points, RacePoints

LEMMA NextRing ==
  ASSUME PcType, NoneAt(ProdConsPoints) \/ RingInv, [Next]_vars
  PROVE  PcType' /\ (NoneAt(ProdConsPoints) \/ RingInv)' /\ Deleting
<1>1. ASSUME UNCHANGED vars
      PROVE  PcType' /\ (NoneAt(ProdConsPoints) \/ RingInv)' /\ Deleting
  <2>1. /\ pc' = pc /\ waiting' = waiting /\ count' = count
        /\ ring' = ring /\ in' = in /\ out' = out /\ item_num' = item_num /\ deleted' = deleted
    BY <1>1 DEF vars, threads, prodConsVars
  <2>2. RingTypes => RingTypes'
    BY <2>1 DEF RingTypes, At
  <2>3. ASSUME NEW k, RingTokens(k) PROVE RingTokens(k)'
    BY <2>1, <2>3 DEF RingTokens, HasToken, QueueOf, Number, At
  <2>4. ASSUME NEW c, RingHolds(c) PROVE RingHolds(c)'
    BY <2>1, <2>4 DEF RingHolds, InRing, Consecutive, Expected, Nth
  <2>5. ASSUME RingInv PROVE RingInv'
    <3>1. PICK c \in Seq(ItemNumber) : RingTokens(Len(c)) /\ RingHolds(c)
      BY <2>5 DEF RingInv
    <3>2. RingTokens(Len(c))' /\ RingHolds(c)'
      BY <2>3, <2>4, <3>1
    <3> QED BY <2>1, <2>2, <2>5, <3>2 DEF RingInv, Inserted
  <2> QED BY <2>1, <2>5 DEF PcType, NoneAt, Deleting
<1>2. ASSUME NEW t \in Thread, Step(t)
      PROVE  PcType' /\ (NoneAt(ProdConsPoints) \/ RingInv)' /\ Deleting
  <2>1. PcType' /\ Steps(t)
    BY <1>2, StepMoves
  <2>2. CASE NoneAt(ProdConsPoints)
    <3>1. ~Moves(t, ProdConsPoints)
      BY <2>2, Elsewhere
    <3>2. PICK others \in {BarrierPoints, MonitorPoints, RoundsPoints, Project3Points,
                           Project2Points, RacePoints} : Moves(t, others)
      BY <2>1, <3>1 DEF Steps
    <3>3. ProdConsPoints \cap others = {}
      BY DEF BarrierPoints, ProdConsPoints, MonitorPoints, RoundsPoints, Project3Points,
             Project2Points, RacePoints
    <3>4. deleted' = deleted
      <4>1. CASE UNCHANGED prodConsVars
        BY <4>1 DEF prodConsVars
      <4>2. CASE monitor_prod(t) \/ monitor_cons(t)
        BY <4>2 DEF monitor_prod, monitor_cons, InsertItem, DeleteItem, WaitFor, prodConsVars
      <4> QED BY <2>1, <3>1, <4>1, <4>2 DEF Steps
    <3> QED BY <2>1, <2>2, <3>2, <3>3, <3>4, NobodyComes DEF Deleting
  <2>3. CASE RingInv
    <3>1. pc[t] \in ProdConsPoints
      BY <2>3 DEF RingInv, RingTypes, At
    <3>2. prod(t) \/ cons(t)
      BY <2>1, <3>1 DEF Steps, Moves, BarrierPoints, ProdConsPoints, MonitorPoints,
             RoundsPoints, Project3Points, Project2Points, RacePoints
    <3> QED BY <2>1, <2>3, <3>2, RingStep
  <2> QED BY <2>2, <2>3
<1> QED BY <1>1, <1>2 DEF Next, Rest

(***************************************************************************)
(* The items of prod_cons_s.c are deleted once each and in the order in    *)
(* which they were inserted, for any number of producers and consumers and *)
(* any size of the ring.                                                   *)
(***************************************************************************)
THEOREM ProdConsItemsInOrder == Spec => ItemsInOrder
<1>1. ASSUME PcType, NoneAt(ProdConsPoints) \/ RingInv, [Next]_vars
      PROVE  [Deleting]_deleted
  BY <1>1, NextRing
<1> QED BY <1>1, InitRing, NextRing, PTL DEF Spec, ItemsInOrder, Deleting
=============================================================================
