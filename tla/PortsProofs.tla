----------------------------- MODULE PortsProofs -----------------------------
(***************************************************************************)
(* Proofs about the message ports of both strategies, for every capacity,  *)
(* every set of ports and of messages, and every finite set of threads.    *)
(* What is proved about the kernel is used for the semaphores under them.  *)
(***************************************************************************)
EXTENDS Ports, DataFacts

Sched == INSTANCE KernelProofs WITH MaxCount <- N

PutPoints == {"lock to put", "put"}
TakePoints == {"lock to take", "take"}
TellPoints == {"tell"}
FreePoints == {"free"}
InsidePoints == {"put", "take"}
Points == {"idle"} \cup PutPoints \cup TakePoints \cup TellPoints \cup FreePoints

PortTypes ==
  /\ strategy \in {1, 2}
  /\ pc \in [Thread -> Points]
  /\ at \in [Thread -> Port \cup {NULL}]
  /\ msg \in [Thread -> Msg \cup {NoMsg}]
  /\ chan \in [Port -> Seq(Msg)]
  /\ \A t \in Thread : /\ pc[t] # "idle" => at[t] \in Port
                       /\ pc[t] \in PutPoints => msg[t] \in Msg

(***************************************************************************)
(* Threads that wait for cs or ps have not got any further in their call.  *)
(***************************************************************************)
BlockedWhere ==
  \A p \in Port :
    /\ \A t \in Blocked(cs(p)) : at[t] = p /\ pc[t] \in TakePoints
    /\ \A t \in Blocked(ps(p)) : at[t] = p /\ pc[t] \in PutPoints

(***************************************************************************)
(* A mutex is worth one thread: inside, on its way in, or none.            *)
(***************************************************************************)
Inside(m) == {t \in Thread : pc[t] \in InsidePoints /\ mutex(at[t]) = m}
MutexAccounted == \A p \in Port : count[mutex(p)] + Cardinality(Inside(mutex(p))) = 1

(***************************************************************************)
(* The buffers: the ring of Strategy 2 and the shifted array of Strategy 1.*)
(***************************************************************************)
BufferTypes ==
  /\ buffer \in [Port -> [0..(N - 1) -> Msg \cup {NoMsg}]]
  /\ in \in [Port -> 0..(N - 1)]
  /\ out \in [Port -> 0..(N - 1)]
  /\ bufferCount \in [Port -> Int]

CallsInv == Sched!Inv /\ PortTypes /\ BlockedWhere /\ TokensAccounted /\ MutexAccounted
IInv == /\ CallsInv
        /\ BufferTypes /\ RingHoldsChannel /\ BufferHoldsChannel
-----------------------------------------------------------------------------
(***************************************************************************)
(* The semaphores of the ports are semaphores, and different ones.         *)
(***************************************************************************)
LEMMA PortSemaphores ==
  ASSUME NEW p \in Port, NEW q \in Port
  PROVE  /\ cs(p) \in Semaphore /\ ps(p) \in Semaphore /\ mutex(p) \in Semaphore
         /\ cs(p) # ps(q) /\ mutex(p) # cs(q) /\ mutex(p) # ps(q)
         /\ p # q => cs(p) # cs(q) /\ ps(p) # ps(q)
<1>1. /\ cs(p) \in Semaphore /\ ps(p) \in Semaphore /\ own(p) \in Semaphore
      /\ all \in Semaphore
  BY PortAssumption DEF cs, ps, own, all
<1>2. /\ cs(p) # ps(q) /\ own(p) # cs(q) /\ own(p) # ps(q)
      /\ p # q => cs(p) # cs(q) /\ ps(p) # ps(q)
  BY DEF cs, ps, own
<1>3. all # cs(q) /\ all # ps(q)
  BY DEF cs, ps, all
<1> QED BY <1>1, <1>2, <1>3 DEF mutex

(***************************************************************************)
(* Every step of a program is one of the kernel, or leaves it alone.       *)
(***************************************************************************)
LEMMA KernelCalls ==
  /\ \A t \in Thread : Start(t) => Sched!Start(t)
  /\ Run => Sched!Run
  /\ \A s \in Semaphore : P(s) => Sched!P(s)
  /\ \A s \in Semaphore : V(s) => Sched!V(s)
<1>1. ASSUME NEW t \in Thread, Start(t) PROVE Sched!Start(t)
  BY <1>1 DEF Start, Sched!Start, start_thread, Sched!start_thread, AddQueue, Sched!AddQueue,
              Started, Sched!Started, Blocked, Sched!Blocked, Range, Sched!Range
<1>2. ASSUME Run PROVE Sched!Run
  BY <1>2 DEF Run, Sched!Run, run, Sched!run, Dispatch, Sched!Dispatch, DelQueue, Sched!DelQueue
<1>3. ASSUME NEW s \in Semaphore, P(s) PROVE Sched!P(s)
  BY <1>3 DEF P, Sched!P, Block, Sched!Block, Dispatch, Sched!Dispatch, DelQueue, Sched!DelQueue,
              AddQueue, Sched!AddQueue, threadVars, Sched!threadVars
<1>4. ASSUME NEW s \in Semaphore, V(s) PROVE Sched!V(s)
  BY <1>4 DEF V, Sched!V, Wake, Sched!Wake, yield, Sched!yield, Dispatch, Sched!Dispatch,
              DelQueue, Sched!DelQueue, AddQueue, Sched!AddQueue
<1> QED BY <1>1, <1>2, <1>3, <1>4

\* What is known of the kernel, in the names of this module.
LEMMA KernelFacts ==
  ASSUME Sched!Inv
  PROVE  /\ count \in [Semaphore -> Int]
         /\ TCB_Q \in [Semaphore -> Seq(Thread)]
         /\ \A s \in Semaphore :
              /\ IsInjective(TCB_Q[s])
              /\ Curr_Thread \notin Blocked(s)
              /\ Blocked(s) \subseteq Thread
              /\ Len(TCB_Q[s]) = IF count[s] < 0 THEN -count[s] ELSE 0
<1>1. count \in [Semaphore -> Int] /\ TCB_Q \in [Semaphore -> Seq(Thread)]
  BY DEF Sched!Inv, Sched!TypeOK
<1>2. ASSUME NEW s \in Semaphore
      PROVE  IsInjective(TCB_Q[s]) /\ Curr_Thread \notin Blocked(s)
  BY DEF Sched!Inv, Sched!OnePlace, Sched!BlockedPlace, Sched!Blocked, Sched!Range,
         Sched!IsInjective, Blocked, Range, IsInjective
<1>3. \A s \in Semaphore : Blocked(s) \subseteq Thread
  BY <1>1, RangeOfSeq DEF Blocked
<1>4. \A s \in Semaphore : Len(TCB_Q[s]) = IF count[s] < 0 THEN -count[s] ELSE 0
  BY DEF Sched!Inv, Sched!CountMatchesWaiters
<1> QED BY <1>1, <1>2, <1>3, <1>4

(***************************************************************************)
(* What a call of P or V does to the counts and to the threads that wait.  *)
(***************************************************************************)
LEMMA PFacts ==
  ASSUME Sched!Inv, NEW s \in Semaphore, P(s)
  PROVE  /\ Sched!Inv'
         /\ Curr_Thread \in Thread
         /\ count'[s] = count[s] - 1
         /\ \A r \in Semaphore : r # s => count'[r] = count[r]
         /\ \A r \in Semaphore : Blocked(r)' \subseteq Blocked(r)
                                   \cup (IF r = s THEN {Curr_Thread} ELSE {})
<1>1. Sched!Inv'
  BY KernelCalls, Sched!PInv, SemAssumption, ThreadAssumption
<1>2. /\ Curr_Thread \in Thread
      /\ count' = [count EXCEPT ![s] = count[s] - 1]
  BY DEF P
<1>3. ASSUME NEW r \in Semaphore
      PROVE  Blocked(r)' \subseteq Blocked(r) \cup (IF r = s THEN {Curr_Thread} ELSE {})
  <2>1. CASE TCB_Q' = [TCB_Q EXCEPT ![s] = AddQueue(TCB_Q[s], Curr_Thread)]
    <3>1. Range(Append(TCB_Q[s], Curr_Thread)) = Blocked(s) \cup {Curr_Thread}
      BY <1>2, KernelFacts, AppendFacts DEF Blocked
    <3> QED BY <2>1, <3>1, KernelFacts DEF Blocked, AddQueue
  <2>2. CASE TCB_Q' = TCB_Q
    BY <2>2 DEF Blocked
  <2> QED BY <2>1, <2>2 DEF P, Block
<1> QED BY <1>1, <1>2, <1>3, KernelFacts

LEMMA VFacts ==
  ASSUME Sched!Inv, NEW s \in Semaphore, V(s)
  PROVE  /\ Sched!Inv'
         /\ Curr_Thread \in Thread
         /\ count'[s] = count[s] + 1
         /\ \A r \in Semaphore : r # s => count'[r] = count[r]
         /\ \A r \in Semaphore : Blocked(r)' \subseteq Blocked(r)
<1>1. Sched!Inv'
  BY KernelCalls, Sched!VInv, SemAssumption, ThreadAssumption
<1>2. /\ Curr_Thread \in Thread
      /\ count' = [count EXCEPT ![s] = count[s] + 1]
  BY DEF V
<1>3. ASSUME NEW r \in Semaphore
      PROVE  Blocked(r)' \subseteq Blocked(r)
  <2>1. CASE /\ TCB_Q' = [TCB_Q EXCEPT ![s] = DelQueue(TCB_Q[s]).rest]
             /\ TCB_Q[s] # <<>>
    <3>1. TCB_Q' = [TCB_Q EXCEPT ![s] = Tail(TCB_Q[s])]
      BY <2>1 DEF DelQueue
    <3>2. Range(Tail(TCB_Q[s])) \subseteq Blocked(s)
      BY <2>1, KernelFacts, TailFacts DEF Blocked
    <3> QED BY <3>1, <3>2, KernelFacts DEF Blocked
  <2>2. CASE TCB_Q' = TCB_Q
    BY <2>2 DEF Blocked
  <2>3. DelQueue(TCB_Q[s]).item # NULL => TCB_Q[s] # <<>>
    BY DEF DelQueue
  <2> QED BY <2>1, <2>2, <2>3 DEF V, Wake
<1> QED BY <1>1, <1>2, <1>3, KernelFacts

\* A step of main() or of another thread of the program that is no call.
LEMMA StartFacts ==
  ASSUME Sched!Inv, NEW t \in Thread, Start(t)
  PROVE  Sched!Inv' /\ UNCHANGED <<count, TCB_Q>>
BY KernelCalls, Sched!StartInv, SemAssumption, ThreadAssumption DEF Start

LEMMA RunFacts ==
  ASSUME Sched!Inv, Run
  PROVE  Sched!Inv' /\ UNCHANGED <<count, TCB_Q>>
BY KernelCalls, Sched!RunInv, SemAssumption, ThreadAssumption DEF Run

(***************************************************************************)
(* Tokens that are not there are owed to threads that wait: of the threads *)
(* X that took one, at least the one that does not wait has it.            *)
(***************************************************************************)
LEMMA Token ==
  ASSUME Sched!Inv, NEW s \in Semaphore, NEW X, IsFiniteSet(X), Blocked(s) \subseteq X
  PROVE  /\ count[s] \in Int /\ Cardinality(X) \in Nat
         /\ count[s] + Cardinality(X) >= 0
         /\ \A c \in X : c \notin Blocked(s) => count[s] + Cardinality(X) >= 1
<1>1. /\ count[s] \in Int
      /\ Cardinality(X) \in Nat
      /\ IsFiniteSet(Blocked(s)) /\ Cardinality(Blocked(s)) = Len(TCB_Q[s])
      /\ Len(TCB_Q[s]) = IF count[s] < 0 THEN -count[s] ELSE 0
  BY KernelFacts, FS_CardinalityType, InjectiveLength DEF Blocked
<1>2. Cardinality(Blocked(s)) <= Cardinality(X)
  BY FS_Subset
<1>3. ASSUME NEW c \in X, c \notin Blocked(s)
      PROVE  Cardinality(Blocked(s)) + 1 <= Cardinality(X)
  <2>1. Blocked(s) \cup {c} \in SUBSET X
    BY <1>3
  <2>2. Cardinality(Blocked(s) \cup {c}) = Cardinality(Blocked(s)) + 1
    BY <1>1, <1>3, FS_AddElement
  <2> QED BY <2>1, <2>2, FS_Subset
<1>4. count[s] + Cardinality(Blocked(s)) >= 0
  BY <1>1
<1>5. Cardinality(Blocked(s)) \in Nat
  BY <1>1, FS_CardinalityType
<1> QED BY <1>1, <1>2, <1>3, <1>4, <1>5
-----------------------------------------------------------------------------
(***************************************************************************)
(* The running thread moves in a call at port p: from a point of it, if it *)
(* is not idle, and to a point of it, unless it becomes idle.              *)
(***************************************************************************)
Moves(p, to, a) == /\ Curr_Thread \in Thread
                   /\ pc' = [pc EXCEPT ![Curr_Thread] = to]
                   /\ at' = [at EXCEPT ![Curr_Thread] = a]
                   /\ strategy' = strategy
                   /\ pc[Curr_Thread] # "idle" => at[Curr_Thread] = p
                   /\ to # "idle" => a = p

LEMMA PointsAre ==
  /\ "idle" \notin PutPoints /\ "idle" \notin TakePoints /\ "idle" \notin TellPoints
  /\ "idle" \notin FreePoints /\ "idle" \notin InsidePoints
  /\ "lock to put" \in PutPoints /\ "lock to put" \notin TakePoints
  /\ "lock to put" \notin TellPoints /\ "lock to put" \notin FreePoints
  /\ "lock to put" \notin InsidePoints
  /\ "put" \in PutPoints /\ "put" \notin TakePoints /\ "put" \notin TellPoints
  /\ "put" \notin FreePoints /\ "put" \in InsidePoints
  /\ "tell" \notin PutPoints /\ "tell" \notin TakePoints /\ "tell" \in TellPoints
  /\ "tell" \notin FreePoints /\ "tell" \notin InsidePoints
  /\ "lock to take" \notin PutPoints /\ "lock to take" \in TakePoints
  /\ "lock to take" \notin TellPoints /\ "lock to take" \notin FreePoints
  /\ "lock to take" \notin InsidePoints
  /\ "take" \notin PutPoints /\ "take" \in TakePoints /\ "take" \notin TellPoints
  /\ "take" \notin FreePoints /\ "take" \in InsidePoints
  /\ "free" \notin PutPoints /\ "free" \notin TakePoints /\ "free" \notin TellPoints
  /\ "free" \in FreePoints /\ "free" \notin InsidePoints
  /\ "idle" \in Points /\ "lock to put" \in Points /\ "put" \in Points /\ "tell" \in Points
  /\ "lock to take" \in Points /\ "take" \in Points /\ "free" \in Points
BY DEF Points, PutPoints, TakePoints, TellPoints, FreePoints, InsidePoints

LEMMA MovesAre ==
  ASSUME PortTypes, NEW p, NEW to, NEW a, Moves(p, to, a)
  PROVE  /\ pc'[Curr_Thread] = to /\ at'[Curr_Thread] = a
         /\ \A t \in Thread : t # Curr_Thread => pc'[t] = pc[t] /\ at'[t] = at[t]
BY DEF Moves, PortTypes

LEMMA DoingFinite ==
  ASSUME NEW p, NEW points
  PROVE  /\ IsFiniteSet({t \in Thread : at[t] = p /\ pc[t] \in points})
         /\ Doing(p, points) \in Nat
<1>1. {t \in Thread : at[t] = p /\ pc[t] \in points} \in SUBSET Thread
  OBVIOUS
<1> QED BY <1>1, PortAssumption, FS_Subset, FS_CardinalityType DEF Doing

LEMMA DoingChanges ==
  ASSUME PortTypes, NEW p, NEW to, NEW a, Moves(p, to, a),
         NEW points, "idle" \notin points
  PROVE  /\ \A q \in Port : q # p => Doing(q, points)' = Doing(q, points)
         /\ pc[Curr_Thread] \in points /\ to \notin points
              => Doing(p, points)' = Doing(p, points) - 1
         /\ pc[Curr_Thread] \notin points /\ to \in points
              => Doing(p, points)' = Doing(p, points) + 1
         /\ (pc[Curr_Thread] \in points <=> to \in points)
              => Doing(p, points)' = Doing(p, points)
<1> DEFINE A(q) == {t \in Thread : at[t] = q /\ pc[t] \in points}
           B(q) == {t \in Thread : at'[t] = q /\ pc'[t] \in points}
<1>0. Curr_Thread \in Thread
  BY DEF Moves
<1>1. \A q : Doing(q, points) = Cardinality(A(q)) /\ Doing(q, points)' = Cardinality(B(q))
  BY DEF Doing
<1>2. \A q : A(q) \ {Curr_Thread} = B(q) \ {Curr_Thread}
  BY MovesAre
<1>3. /\ Curr_Thread \in A(p) <=> pc[Curr_Thread] \in points
      /\ Curr_Thread \in B(p) <=> to \in points
      /\ \A q : q # p => Curr_Thread \notin A(q) /\ Curr_Thread \notin B(q)
  BY <1>0, MovesAre DEF Moves
<1>4. \A q : IsFiniteSet(A(q))
  BY DoingFinite
<1> HIDE DEF A, B
<1>5. ASSUME NEW q, q # p PROVE Doing(q, points)' = Doing(q, points)
  BY <1>1, <1>2, <1>3, <1>4, <1>5, OneMoves
<1> QED BY <1>1, <1>2, <1>3, <1>4, <1>5, OneMoves

LEMMA InsideChanges ==
  ASSUME PortTypes, NEW p, NEW to, NEW a, Moves(p, to, a), NEW m, m = mutex(p)
  PROVE  /\ Cardinality(Inside(m)) \in Nat
         /\ \A r : r # m => Inside(r)' = Inside(r)
         /\ pc[Curr_Thread] \in InsidePoints /\ to \notin InsidePoints
              => Cardinality(Inside(m)') = Cardinality(Inside(m)) - 1
         /\ pc[Curr_Thread] \notin InsidePoints /\ to \in InsidePoints
              => Cardinality(Inside(m)') = Cardinality(Inside(m)) + 1
         /\ (pc[Curr_Thread] \in InsidePoints <=> to \in InsidePoints)
              => Cardinality(Inside(m)') = Cardinality(Inside(m))
<1>0. Curr_Thread \in Thread /\ \A q : mutex(q)' = mutex(q)
  BY DEF Moves, mutex
<1>1. Inside(m) \in SUBSET Thread
  BY DEF Inside
<1>2. IsFiniteSet(Inside(m))
  BY <1>1, PortAssumption, FS_Subset
<1> DEFINE B(r) == {t \in Thread : pc'[t] \in InsidePoints /\ mutex(at'[t]) = r}
<1>3. \A r : Inside(r)' = B(r)
  BY DEF Inside, Moves, mutex
<1>4. \A r : Inside(r) \ {Curr_Thread} = B(r) \ {Curr_Thread}
  BY MovesAre DEF Inside
<1>5. /\ Curr_Thread \in Inside(m) <=> pc[Curr_Thread] \in InsidePoints
      /\ Curr_Thread \in B(m) <=> to \in InsidePoints
      /\ \A r : r # m => Curr_Thread \notin Inside(r) /\ Curr_Thread \notin B(r)
  BY <1>0, MovesAre, PointsAre DEF Moves, Inside
<1> HIDE DEF B
<1>6. \A r : r # m => Inside(r)' = Inside(r)
  <2> SUFFICES ASSUME NEW r, r # m PROVE B(r) = Inside(r)
    BY <1>3
  <2> QED BY <1>4, <1>5
<1>7. /\ Cardinality(Inside(m)) \in Nat
      /\ Curr_Thread \in Inside(m) /\ Curr_Thread \notin B(m)
           => Cardinality(B(m)) = Cardinality(Inside(m)) - 1
      /\ Curr_Thread \notin Inside(m) /\ Curr_Thread \in B(m)
           => Cardinality(B(m)) = Cardinality(Inside(m)) + 1
      /\ (Curr_Thread \in Inside(m) <=> Curr_Thread \in B(m))
           => Cardinality(B(m)) = Cardinality(Inside(m))
  BY <1>2, <1>4, OneMoves
<1>8. Inside(m)' = B(m)
  BY <1>3
<1> QED BY <1>5, <1>6, <1>7, <1>8
-----------------------------------------------------------------------------
(***************************************************************************)
(* The two accounts of a port, in the named points.                        *)
(***************************************************************************)
MessagesOf(p) == Len(chan[p]) = count[cs(p)] + Doing(p, TakePoints) + Doing(p, TellPoints)
RoomOf(p) == N - Len(chan[p]) = count[ps(p)] + Doing(p, PutPoints) + Doing(p, FreePoints)

LEMMA AccountsAre == TokensAccounted <=> \A p \in Port : MessagesOf(p) /\ RoomOf(p)
BY DEF TokensAccounted, MessagesOf, RoomOf, PutPoints, TakePoints, TellPoints, FreePoints

LEMMA AccountsAreNext ==
  TokensAccounted' <=> \A p \in Port : MessagesOf(p)' /\ RoomOf(p)'
BY DEF TokensAccounted, MessagesOf, RoomOf, PutPoints, TakePoints, TellPoints, FreePoints

(***************************************************************************)
(* A call of P or V in a call at port p, seen by the invariant: threads    *)
(* wait where they should and only one count has changed.                  *)
(***************************************************************************)
LEMMA PStep ==
  ASSUME CallsInv, NEW p \in Port, NEW to, NEW a, Moves(p, to, a),
         NEW s \in Semaphore, P(s),
         \/ s = cs(p) /\ to \in TakePoints /\ a = p
         \/ s = ps(p) /\ to \in PutPoints /\ a = p
         \/ s = mutex(p)
  PROVE  /\ Sched!Inv' /\ BlockedWhere'
         /\ count'[s] = count[s] - 1
         /\ \A r \in Semaphore : r # s => count'[r] = count[r]
<1>1. /\ Sched!Inv'
      /\ count'[s] = count[s] - 1
      /\ \A r \in Semaphore : r # s => count'[r] = count[r]
      /\ \A r \in Semaphore : Blocked(r)' \subseteq Blocked(r)
                                \cup (IF r = s THEN {Curr_Thread} ELSE {})
  BY PFacts DEF CallsInv
<1>2. ASSUME NEW q \in Port, NEW t \in Blocked(cs(q))'
      PROVE  at'[t] = q /\ pc'[t] \in TakePoints
  <2>1. CASE t = Curr_Thread /\ cs(q) = s
    <3>1. q = p /\ to \in TakePoints /\ a = p
      BY <2>1, PortSemaphores
    <3> QED BY <2>1, <3>1, MovesAre DEF CallsInv
  <2>2. CASE t \in Blocked(cs(q))
    <3>1. t \in Thread /\ t # Curr_Thread
      BY <2>2, KernelFacts, PortSemaphores DEF CallsInv
    <3> QED BY <2>2, <3>1, MovesAre DEF CallsInv, BlockedWhere
  <2> QED BY <1>1, <1>2, <2>1, <2>2, PortSemaphores
<1>3. ASSUME NEW q \in Port, NEW t \in Blocked(ps(q))'
      PROVE  at'[t] = q /\ pc'[t] \in PutPoints
  <2>1. CASE t = Curr_Thread /\ ps(q) = s
    <3>1. q = p /\ to \in PutPoints /\ a = p
      BY <2>1, PortSemaphores
    <3> QED BY <2>1, <3>1, MovesAre DEF CallsInv
  <2>2. CASE t \in Blocked(ps(q))
    <3>1. t \in Thread /\ t # Curr_Thread
      BY <2>2, KernelFacts, PortSemaphores DEF CallsInv
    <3> QED BY <2>2, <3>1, MovesAre DEF CallsInv, BlockedWhere
  <2> QED BY <1>1, <1>3, <2>1, <2>2, PortSemaphores
<1>4. BlockedWhere'
  BY <1>2, <1>3 DEF BlockedWhere, cs, ps
<1> QED BY <1>1, <1>4

LEMMA VStep ==
  ASSUME CallsInv, NEW p, NEW to, NEW a, Moves(p, to, a), NEW s \in Semaphore, V(s)
  PROVE  /\ Sched!Inv' /\ BlockedWhere'
         /\ count'[s] = count[s] + 1
         /\ \A r \in Semaphore : r # s => count'[r] = count[r]
<1>1. /\ Sched!Inv'
      /\ count'[s] = count[s] + 1
      /\ \A r \in Semaphore : r # s => count'[r] = count[r]
      /\ \A r \in Semaphore : Blocked(r)' \subseteq Blocked(r)
  BY VFacts DEF CallsInv
<1>2. ASSUME NEW r \in Semaphore, NEW t \in Blocked(r)'
      PROVE  t \in Blocked(r) /\ at'[t] = at[t] /\ pc'[t] = pc[t]
  <2>1. t \in Blocked(r)
    BY <1>1, <1>2
  <2>2. t \in Thread /\ t # Curr_Thread
    BY <2>1, KernelFacts DEF CallsInv
  <2> QED BY <2>1, <2>2, MovesAre DEF CallsInv
<1>3. BlockedWhere'
  BY <1>2, PortSemaphores DEF CallsInv, BlockedWhere, cs, ps
<1> QED BY <1>1, <1>3

(***************************************************************************)
(* A step of a call at port p keeps the invariant if it keeps the accounts *)
(* of p and of its mutex and leaves the other ports alone.                 *)
(***************************************************************************)
LEMMA CallStep ==
  ASSUME CallsInv, NEW p \in Port, NEW to, NEW a, Moves(p, to, a),
         Sched!Inv', PortTypes', BlockedWhere',
         \A q \in Port : q # p => /\ chan'[q] = chan[q]
                                  /\ count'[cs(q)] = count[cs(q)]
                                  /\ count'[ps(q)] = count[ps(q)],
         \A q \in Port : mutex(q) # mutex(p) => count'[mutex(q)] = count[mutex(q)],
         MessagesOf(p)', RoomOf(p)',
         count'[mutex(p)] + Cardinality(Inside(mutex(p))') = 1
  PROVE  CallsInv'
<1>1. ASSUME NEW q \in Port PROVE MessagesOf(q)' /\ RoomOf(q)'
  <2>1. CASE q = p
    BY <2>1
  <2>2. CASE q # p
    <3>1. MessagesOf(q) /\ RoomOf(q)
      BY AccountsAre DEF CallsInv
    <3>2. /\ Doing(q, TakePoints)' = Doing(q, TakePoints)
          /\ Doing(q, TellPoints)' = Doing(q, TellPoints)
          /\ Doing(q, PutPoints)' = Doing(q, PutPoints)
          /\ Doing(q, FreePoints)' = Doing(q, FreePoints)
      <4>1. ASSUME NEW points, "idle" \notin points
            PROVE  Doing(q, points)' = Doing(q, points)
        BY <2>2, <4>1, DoingChanges DEF CallsInv
      <4> QED BY <4>1, PointsAre
    <3> QED BY <2>2, <3>1, <3>2 DEF MessagesOf, RoomOf
  <2> QED BY <2>1, <2>2
<1>2. TokensAccounted'
  BY <1>1, AccountsAreNext
<1>3. \A q \in Port : mutex(q)' = mutex(q)
  BY DEF mutex, Moves
<1>4. ASSUME NEW q \in Port
      PROVE  count'[mutex(q)] + Cardinality(Inside(mutex(q))') = 1
  <2>1. CASE mutex(q) = mutex(p)
    BY <1>3, <2>1
  <2>2. CASE mutex(q) # mutex(p)
    <3>1. Inside(mutex(q))' = Inside(mutex(q))
      BY <1>3, <2>2, InsideChanges DEF CallsInv
    <3> QED BY <2>2, <3>1 DEF CallsInv, MutexAccounted
  <2> QED BY <2>1, <2>2
<1>5. MutexAccounted'
  BY <1>3, <1>4 DEF MutexAccounted
<1> QED BY <1>2, <1>5 DEF CallsInv

\* What a move adds to a number of threads that are at some points.
LEMMA DoingMoves ==
  ASSUME CallsInv, NEW p, NEW to, NEW a, Moves(p, to, a), NEW points, "idle" \notin points
  PROVE  /\ Doing(p, points) \in Nat
         /\ pc[Curr_Thread] \in points /\ to \notin points
              => Doing(p, points)' = Doing(p, points) - 1
         /\ pc[Curr_Thread] \notin points /\ to \in points
              => Doing(p, points)' = Doing(p, points) + 1
         /\ (pc[Curr_Thread] \in points <=> to \in points)
              => Doing(p, points)' = Doing(p, points)
BY DoingChanges, DoingFinite DEF CallsInv

\* The accounts of a port are sums of integers.
LEMMA AccountTypes ==
  ASSUME CallsInv, NEW p \in Port
  PROVE  /\ Len(chan[p]) \in Nat /\ chan[p] \in Seq(Msg) /\ N \in Nat \ {0}
         /\ count[cs(p)] \in Int /\ count[ps(p)] \in Int /\ count[mutex(p)] \in Int
         /\ MessagesOf(p) /\ RoomOf(p)
         /\ Doing(p, TakePoints) \in Nat /\ Doing(p, TellPoints) \in Nat
         /\ Doing(p, PutPoints) \in Nat /\ Doing(p, FreePoints) \in Nat
         /\ Cardinality(Inside(mutex(p))) \in Nat
         /\ count[mutex(p)] + Cardinality(Inside(mutex(p))) = 1
<1>1. chan[p] \in Seq(Msg) /\ Len(chan[p]) \in Nat
  BY LenProperties DEF CallsInv, PortTypes
<1>2. count[cs(p)] \in Int /\ count[ps(p)] \in Int /\ count[mutex(p)] \in Int
  BY KernelFacts, PortSemaphores DEF CallsInv
<1>3. MessagesOf(p) /\ RoomOf(p)
  BY AccountsAre DEF CallsInv
<1>4. IsFiniteSet(Inside(mutex(p))) /\ Cardinality(Inside(mutex(p))) \in Nat
  <2>1. Inside(mutex(p)) \in SUBSET Thread
    BY DEF Inside
  <2> QED BY <2>1, PortAssumption, FS_Subset, FS_CardinalityType
<1>5. \A points : Doing(p, points) \in Nat
  BY DoingFinite
<1> QED BY <1>1, <1>2, <1>3, <1>4, <1>5, PortAssumption DEF CallsInv, MutexAccounted

(***************************************************************************)
(* How a step may change an account: not at all, or by a P, by work on the *)
(* channel (at either end), or by a V.                                     *)
(***************************************************************************)
LEMMA MessagesMove ==
  ASSUME CallsInv, NEW p \in Port
  PROVE  (\/ /\ Len(chan'[p]) = Len(chan[p]) /\ count'[cs(p)] = count[cs(p)]
             /\ Doing(p, TakePoints)' = Doing(p, TakePoints) /\ Doing(p, TellPoints)' = Doing(p, TellPoints)
          \/ /\ Len(chan'[p]) = Len(chan[p]) /\ count'[cs(p)] = count[cs(p)] - 1
             /\ Doing(p, TakePoints)' = Doing(p, TakePoints) + 1 /\ Doing(p, TellPoints)' = Doing(p, TellPoints)
          \/ /\ Len(chan'[p]) = Len(chan[p]) + 1 /\ count'[cs(p)] = count[cs(p)]
             /\ Doing(p, TakePoints)' = Doing(p, TakePoints) /\ Doing(p, TellPoints)' = Doing(p, TellPoints) + 1
          \/ /\ Len(chan'[p]) = Len(chan[p]) - 1 /\ count'[cs(p)] = count[cs(p)]
             /\ Doing(p, TakePoints)' = Doing(p, TakePoints) - 1 /\ Doing(p, TellPoints)' = Doing(p, TellPoints)
          \/ /\ Len(chan'[p]) = Len(chan[p]) /\ count'[cs(p)] = count[cs(p)] + 1
             /\ Doing(p, TakePoints)' = Doing(p, TakePoints) /\ Doing(p, TellPoints)' = Doing(p, TellPoints) - 1)
         => MessagesOf(p)'
<1>1. Len(chan[p]) = count[cs(p)] + Doing(p, TakePoints) + Doing(p, TellPoints)
  BY AccountTypes DEF MessagesOf
<1>2. /\ N \in Nat /\ Len(chan[p]) \in Nat /\ count[cs(p)] \in Int
      /\ Doing(p, TakePoints) \in Nat /\ Doing(p, TellPoints) \in Nat
  BY AccountTypes
<1>3. ASSUME /\ Len(chan'[p]) = Len(chan[p]) /\ count'[cs(p)] = count[cs(p)]
              /\ Doing(p, TakePoints)' = Doing(p, TakePoints) /\ Doing(p, TellPoints)' = Doing(p, TellPoints)
      PROVE  MessagesOf(p)'
  BY <1>1, <1>2, <1>3 DEF MessagesOf
<1>4. ASSUME /\ Len(chan'[p]) = Len(chan[p]) /\ count'[cs(p)] = count[cs(p)] - 1
              /\ Doing(p, TakePoints)' = Doing(p, TakePoints) + 1 /\ Doing(p, TellPoints)' = Doing(p, TellPoints)
      PROVE  MessagesOf(p)'
  BY <1>1, <1>2, <1>4 DEF MessagesOf
<1>5. ASSUME /\ Len(chan'[p]) = Len(chan[p]) + 1 /\ count'[cs(p)] = count[cs(p)]
              /\ Doing(p, TakePoints)' = Doing(p, TakePoints) /\ Doing(p, TellPoints)' = Doing(p, TellPoints) + 1
      PROVE  MessagesOf(p)'
  BY <1>1, <1>2, <1>5 DEF MessagesOf
<1>6. ASSUME /\ Len(chan'[p]) = Len(chan[p]) - 1 /\ count'[cs(p)] = count[cs(p)]
              /\ Doing(p, TakePoints)' = Doing(p, TakePoints) - 1 /\ Doing(p, TellPoints)' = Doing(p, TellPoints)
      PROVE  MessagesOf(p)'
  BY <1>1, <1>2, <1>6 DEF MessagesOf
<1>7. ASSUME /\ Len(chan'[p]) = Len(chan[p]) /\ count'[cs(p)] = count[cs(p)] + 1
              /\ Doing(p, TakePoints)' = Doing(p, TakePoints) /\ Doing(p, TellPoints)' = Doing(p, TellPoints) - 1
      PROVE  MessagesOf(p)'
  BY <1>1, <1>2, <1>7 DEF MessagesOf
<1> QED BY <1>3, <1>4, <1>5, <1>6, <1>7

LEMMA RoomMove ==
  ASSUME CallsInv, NEW p \in Port
  PROVE  (\/ /\ Len(chan'[p]) = Len(chan[p]) /\ count'[ps(p)] = count[ps(p)]
             /\ Doing(p, PutPoints)' = Doing(p, PutPoints) /\ Doing(p, FreePoints)' = Doing(p, FreePoints)
          \/ /\ Len(chan'[p]) = Len(chan[p]) /\ count'[ps(p)] = count[ps(p)] - 1
             /\ Doing(p, PutPoints)' = Doing(p, PutPoints) + 1 /\ Doing(p, FreePoints)' = Doing(p, FreePoints)
          \/ /\ Len(chan'[p]) = Len(chan[p]) - 1 /\ count'[ps(p)] = count[ps(p)]
             /\ Doing(p, PutPoints)' = Doing(p, PutPoints) /\ Doing(p, FreePoints)' = Doing(p, FreePoints) + 1
          \/ /\ Len(chan'[p]) = Len(chan[p]) + 1 /\ count'[ps(p)] = count[ps(p)]
             /\ Doing(p, PutPoints)' = Doing(p, PutPoints) - 1 /\ Doing(p, FreePoints)' = Doing(p, FreePoints)
          \/ /\ Len(chan'[p]) = Len(chan[p]) /\ count'[ps(p)] = count[ps(p)] + 1
             /\ Doing(p, PutPoints)' = Doing(p, PutPoints) /\ Doing(p, FreePoints)' = Doing(p, FreePoints) - 1)
         => RoomOf(p)'
<1> DEFINE r == N - Len(chan[p])
           c == count[ps(p)]
           k == Doing(p, PutPoints)
           t == Doing(p, FreePoints)
<1>1. r \in Int /\ c \in Int /\ k \in Int /\ t \in Int /\ r = c + k + t
  BY AccountTypes DEF RoomOf
<1>2. N - (Len(chan[p]) - 1) = r + 1 /\ N - (Len(chan[p]) + 1) = r - 1
  <2>1. N \in Int /\ Len(chan[p]) \in Int
    BY AccountTypes
  <2> QED BY <2>1
<1>3. /\ r = (c - 1) + (k + 1) + t
      /\ r + 1 = c + k + (t + 1)
      /\ r - 1 = c + (k - 1) + t
      /\ r = (c + 1) + k + (t - 1)
  <2> HIDE DEF r, c, k, t
  <2> QED BY <1>1, SumSteps
<1> QED BY <1>1, <1>2, <1>3 DEF RoomOf

LEMMA MutexMove ==
  ASSUME CallsInv, NEW p \in Port,
         NEW c, NEW n,
         \/ c = count[mutex(p)] /\ n = Cardinality(Inside(mutex(p)))
         \/ c = count[mutex(p)] - 1 /\ n = Cardinality(Inside(mutex(p))) + 1
         \/ c = count[mutex(p)] + 1 /\ n = Cardinality(Inside(mutex(p))) - 1
  PROVE  c + n = 1
<1>1. /\ count[mutex(p)] \in Int /\ Cardinality(Inside(mutex(p))) \in Nat
      /\ count[mutex(p)] + Cardinality(Inside(mutex(p))) = 1
  BY AccountTypes
<1> QED BY <1>1

(***************************************************************************)
(* Send and Receive start with a P of ps and of cs.                        *)
(***************************************************************************)
LEMMA SendInv ==
  ASSUME CallsInv, NEW p \in Port, NEW m \in Msg, Send(p, m)
  PROVE  CallsInv'
<1> DEFINE to == "lock to put"
<1>1. /\ Curr_Thread \in Thread /\ pc[Curr_Thread] = "idle"
      /\ pc' = [pc EXCEPT ![Curr_Thread] = to]
      /\ at' = [at EXCEPT ![Curr_Thread] = p]
      /\ msg' = [msg EXCEPT ![Curr_Thread] = m]
      /\ P(ps(p)) /\ chan' = chan /\ strategy' = strategy
  BY DEF Send, Goto, NoWork
<1>2. Moves(p, to, p)
  BY <1>1 DEF Moves
<1>3. /\ to \in Points /\ to # "idle" /\ to \in PutPoints /\ to \notin TakePoints
      /\ to \notin TellPoints /\ to \notin FreePoints /\ to \notin InsidePoints
  BY PointsAre
<1> HIDE DEF to
<1>4. PortTypes'
  BY <1>1, <1>3 DEF CallsInv, PortTypes
<1>5. /\ Sched!Inv' /\ BlockedWhere'
      /\ count'[ps(p)] = count[ps(p)] - 1
      /\ \A r \in Semaphore : r # ps(p) => count'[r] = count[r]
  BY <1>1, <1>2, <1>3, PStep, PortSemaphores
<1>6. /\ Doing(p, TakePoints)' = Doing(p, TakePoints)
      /\ Doing(p, TellPoints)' = Doing(p, TellPoints)
      /\ Doing(p, FreePoints)' = Doing(p, FreePoints)
      /\ Doing(p, PutPoints)' = Doing(p, PutPoints) + 1
  BY <1>1, <1>2, <1>3, DoingMoves, PointsAre
<1>7. Cardinality(Inside(mutex(p))') = Cardinality(Inside(mutex(p))) /\ mutex(p)' = mutex(p)
  <2>1. mutex(p)' = mutex(p)
    BY <1>1 DEF mutex
  <2> QED BY <1>1, <1>2, <1>3, <2>1, InsideChanges, PointsAre DEF CallsInv
<1>8. \A q \in Port : count'[cs(q)] = count[cs(q)] /\ count'[mutex(q)] = count[mutex(q)]
  BY <1>5, PortSemaphores
<1>9. \A q \in Port : q # p => count'[ps(q)] = count[ps(q)]
  BY <1>5, PortSemaphores
<1>10. MessagesOf(p)' /\ RoomOf(p)'
  BY <1>1, <1>5, <1>6, <1>8, MessagesMove, RoomMove
<1>11. count'[mutex(p)] + Cardinality(Inside(mutex(p))') = 1
  BY <1>7, <1>8, AccountTypes
<1> QED BY <1>1, <1>2, <1>4, <1>5, <1>8, <1>9, <1>10, <1>11, CallStep

LEMMA ReceiveInv ==
  ASSUME CallsInv, NEW p \in Port, Receive(p)
  PROVE  CallsInv'
<1> DEFINE to == "lock to take"
<1>1. /\ Curr_Thread \in Thread /\ pc[Curr_Thread] = "idle"
      /\ pc' = [pc EXCEPT ![Curr_Thread] = to]
      /\ at' = [at EXCEPT ![Curr_Thread] = p]
      /\ msg' = msg
      /\ P(cs(p)) /\ chan' = chan /\ strategy' = strategy
  BY DEF Receive, Goto, NoWork
<1>2. Moves(p, to, p)
  BY <1>1 DEF Moves
<1>3. /\ to \in Points /\ to # "idle" /\ to \notin PutPoints /\ to \in TakePoints
      /\ to \notin TellPoints /\ to \notin FreePoints /\ to \notin InsidePoints
  BY PointsAre
<1> HIDE DEF to
<1>4. PortTypes'
  BY <1>1, <1>3 DEF CallsInv, PortTypes
<1>5. /\ Sched!Inv' /\ BlockedWhere'
      /\ count'[cs(p)] = count[cs(p)] - 1
      /\ \A r \in Semaphore : r # cs(p) => count'[r] = count[r]
  BY <1>1, <1>2, <1>3, PStep, PortSemaphores
<1>6. /\ Doing(p, TakePoints)' = Doing(p, TakePoints) + 1
      /\ Doing(p, TellPoints)' = Doing(p, TellPoints)
      /\ Doing(p, FreePoints)' = Doing(p, FreePoints)
      /\ Doing(p, PutPoints)' = Doing(p, PutPoints)
  BY <1>1, <1>2, <1>3, DoingMoves, PointsAre
<1>7. Cardinality(Inside(mutex(p))') = Cardinality(Inside(mutex(p))) /\ mutex(p)' = mutex(p)
  <2>1. mutex(p)' = mutex(p)
    BY <1>1 DEF mutex
  <2> QED BY <1>1, <1>2, <1>3, <2>1, InsideChanges, PointsAre DEF CallsInv
<1>8. \A q \in Port : count'[ps(q)] = count[ps(q)] /\ count'[mutex(q)] = count[mutex(q)]
  BY <1>5, PortSemaphores
<1>9. \A q \in Port : q # p => count'[cs(q)] = count[cs(q)]
  BY <1>5, PortSemaphores
<1>10. MessagesOf(p)' /\ RoomOf(p)'
  BY <1>1, <1>5, <1>6, <1>8, MessagesMove, RoomMove
<1>11. count'[mutex(p)] + Cardinality(Inside(mutex(p))') = 1
  BY <1>7, <1>8, AccountTypes
<1> QED BY <1>1, <1>2, <1>4, <1>5, <1>8, <1>9, <1>10, <1>11, CallStep

(***************************************************************************)
(* Either goes on with a P of the mutex, as a thread that may be inside.   *)
(***************************************************************************)
LEMMA LockInv ==
  ASSUME CallsInv, NEW from, NEW to, Goto(from, to), NEW p, p = at[Curr_Thread],
         \/ from = "lock to put" /\ to = "put"
         \/ from = "lock to take" /\ to = "take",
         P(mutex(p)), UNCHANGED <<at, msg, chan>>
  PROVE  CallsInv'
<1>1. /\ Curr_Thread \in Thread /\ pc[Curr_Thread] = from
      /\ pc' = [pc EXCEPT ![Curr_Thread] = to]
      /\ at' = at /\ msg' = msg /\ chan' = chan /\ strategy' = strategy
  BY DEF Goto
<1>2. /\ from # "idle" /\ to # "idle" /\ to \in Points
      /\ from \in PutPoints <=> to \in PutPoints
      /\ from \in TakePoints <=> to \in TakePoints
      /\ from \in TellPoints <=> to \in TellPoints
      /\ from \in FreePoints <=> to \in FreePoints
      /\ from \notin InsidePoints /\ to \in InsidePoints
  BY PointsAre
<1>3. p \in Port
  BY <1>1, <1>2 DEF CallsInv, PortTypes
<1>4. Moves(p, to, p)
  <2>1. at' = [at EXCEPT ![Curr_Thread] = p]
    BY <1>1 DEF CallsInv, PortTypes
  <2> QED BY <1>1, <2>1 DEF Moves
<1>5. PortTypes'
  BY <1>1, <1>2 DEF CallsInv, PortTypes
<1>6. /\ Sched!Inv' /\ BlockedWhere'
      /\ count'[mutex(p)] = count[mutex(p)] - 1
      /\ \A r \in Semaphore : r # mutex(p) => count'[r] = count[r]
  BY <1>3, <1>4, PStep, PortSemaphores
<1>7. /\ Doing(p, TakePoints)' = Doing(p, TakePoints)
      /\ Doing(p, TellPoints)' = Doing(p, TellPoints)
      /\ Doing(p, FreePoints)' = Doing(p, FreePoints)
      /\ Doing(p, PutPoints)' = Doing(p, PutPoints)
  BY <1>1, <1>2, <1>4, DoingMoves, PointsAre
<1>8. Cardinality(Inside(mutex(p))') = Cardinality(Inside(mutex(p))) + 1
  <2>1. mutex(p)' = mutex(p)
    BY <1>1 DEF mutex
  <2> QED BY <1>1, <1>2, <1>4, <2>1, InsideChanges DEF CallsInv
<1>9. \A q \in Port : count'[cs(q)] = count[cs(q)] /\ count'[ps(q)] = count[ps(q)]
  BY <1>3, <1>6, PortSemaphores
<1>10. \A q \in Port : mutex(q) # mutex(p) => count'[mutex(q)] = count[mutex(q)]
  BY <1>6, PortSemaphores
<1>11. MessagesOf(p)' /\ RoomOf(p)'
  BY <1>1, <1>3, <1>7, <1>9, MessagesMove, RoomMove
<1>12. count'[mutex(p)] + Cardinality(Inside(mutex(p))') = 1
  BY <1>3, <1>6, <1>8, MutexMove
<1> QED BY <1>1, <1>3, <1>4, <1>5, <1>6, <1>9, <1>10, <1>11, <1>12, CallStep

(***************************************************************************)
(* A receiver at its copy has a message before it, and a sender at its     *)
(* copy a slot: it does not wait, so that it has got the token it took.    *)
(***************************************************************************)
LEMMA TakerHasMessage ==
  ASSUME CallsInv, Curr_Thread \in Thread, pc[Curr_Thread] \in TakePoints,
         NEW p \in Port, at[Curr_Thread] = p
  PROVE  Len(chan[p]) >= 1
<1> DEFINE X == {t \in Thread : at[t] = p /\ pc[t] \in TakePoints}
<1>1. IsFiniteSet(X) /\ Doing(p, TakePoints) = Cardinality(X) /\ Curr_Thread \in X
  BY DoingFinite DEF Doing
<1>2. Blocked(cs(p)) \subseteq X /\ Curr_Thread \notin Blocked(cs(p))
  BY KernelFacts, PortSemaphores DEF CallsInv, BlockedWhere
<1> HIDE DEF X
<1>3. count[cs(p)] + Cardinality(X) >= 1
  BY <1>1, <1>2, Token, PortSemaphores DEF CallsInv
<1>4. count[cs(p)] + Doing(p, TakePoints) >= 1
  BY <1>1, <1>3
<1>5. /\ Len(chan[p]) = count[cs(p)] + Doing(p, TakePoints) + Doing(p, TellPoints)
      /\ count[cs(p)] \in Int /\ Doing(p, TakePoints) \in Nat /\ Doing(p, TellPoints) \in Nat
  BY AccountTypes DEF MessagesOf
<1> QED BY <1>4, <1>5

LEMMA PutterHasRoom ==
  ASSUME CallsInv, Curr_Thread \in Thread, pc[Curr_Thread] \in PutPoints,
         NEW p \in Port, at[Curr_Thread] = p
  PROVE  Len(chan[p]) < N
<1> DEFINE X == {t \in Thread : at[t] = p /\ pc[t] \in PutPoints}
<1>1. IsFiniteSet(X) /\ Doing(p, PutPoints) = Cardinality(X) /\ Curr_Thread \in X
  BY DoingFinite DEF Doing
<1>2. Blocked(ps(p)) \subseteq X /\ Curr_Thread \notin Blocked(ps(p))
  BY KernelFacts, PortSemaphores DEF CallsInv, BlockedWhere
<1> HIDE DEF X
<1>3. count[ps(p)] + Cardinality(X) >= 1
  BY <1>1, <1>2, Token, PortSemaphores DEF CallsInv
<1>4. count[ps(p)] + Doing(p, PutPoints) >= 1
  BY <1>1, <1>3
<1>5. /\ N - Len(chan[p]) = count[ps(p)] + Doing(p, PutPoints) + Doing(p, FreePoints)
      /\ count[ps(p)] \in Int /\ Doing(p, PutPoints) \in Nat /\ Doing(p, FreePoints) \in Nat
  BY AccountTypes DEF RoomOf
<1>6. N \in Nat /\ Len(chan[p]) \in Nat
  BY AccountTypes
<1>7. N - Len(chan[p]) >= 1
  BY <1>4, <1>5
<1> QED BY <1>6, <1>7

\* Whoever waits, no channel holds more than it has slots.
LEMMA ChannelFits ==
  ASSUME CallsInv, NEW p \in Port
  PROVE  Len(chan[p]) <= N
<1> DEFINE X == {t \in Thread : at[t] = p /\ pc[t] \in PutPoints}
<1>1. IsFiniteSet(X) /\ Doing(p, PutPoints) = Cardinality(X)
  BY DoingFinite DEF Doing
<1>2. Blocked(ps(p)) \subseteq X
  BY KernelFacts, PortSemaphores DEF CallsInv, BlockedWhere
<1> HIDE DEF X
<1>3. count[ps(p)] + Cardinality(X) >= 0
  BY <1>1, <1>2, Token, PortSemaphores DEF CallsInv
<1>4. count[ps(p)] + Doing(p, PutPoints) >= 0
  BY <1>1, <1>3
<1>5. /\ N - Len(chan[p]) = count[ps(p)] + Doing(p, PutPoints) + Doing(p, FreePoints)
      /\ count[ps(p)] \in Int /\ Doing(p, PutPoints) \in Nat /\ Doing(p, FreePoints) \in Nat
  BY AccountTypes DEF RoomOf
<1>6. N \in Nat /\ Len(chan[p]) \in Nat
  BY AccountTypes
<1>7. N - Len(chan[p]) >= 0
  BY <1>4, <1>5
<1> QED BY <1>6, <1>7

(***************************************************************************)
(* The work on the buffer ends with a V of the mutex.                      *)
(***************************************************************************)
LEMMA PutIntoInv ==
  ASSUME CallsInv, NEW p \in Port, NEW slots, PutInto(p, slots)
  PROVE  CallsInv'
<1> DEFINE to == "tell"
           from == "put"
<1>1. /\ Curr_Thread \in Thread /\ pc[Curr_Thread] = from /\ p = at[Curr_Thread]
      /\ pc' = [pc EXCEPT ![Curr_Thread] = to]
      /\ at' = at /\ msg' = msg /\ strategy' = strategy
      /\ chan' = [chan EXCEPT ![p] = Append(chan[p], msg[Curr_Thread])]
      /\ V(mutex(p))
  BY DEF PutInto, Goto
<1>2. /\ from # "idle" /\ from \in PutPoints /\ from \notin TakePoints
      /\ from \notin TellPoints /\ from \notin FreePoints /\ from \in InsidePoints
      /\ to # "idle" /\ to \in Points /\ to \notin PutPoints /\ to \notin TakePoints
      /\ to \in TellPoints /\ to \notin FreePoints /\ to \notin InsidePoints
  BY PointsAre
<1> HIDE DEF to, from
<1>3. /\ chan' = [chan EXCEPT ![p] = Append(chan[p], msg[Curr_Thread])]
      /\ chan \in [Port -> Seq(Msg)] /\ chan[p] \in Seq(Msg) /\ msg[Curr_Thread] \in Msg
  BY <1>1, <1>2 DEF CallsInv, PortTypes
<1>4. Moves(p, to, p)
  <2>1. at' = [at EXCEPT ![Curr_Thread] = p]
    BY <1>1 DEF CallsInv, PortTypes
  <2> QED BY <1>1, <2>1 DEF Moves
<1>5. /\ chan' \in [Port -> Seq(Msg)] /\ Len(chan'[p]) = Len(chan[p]) + 1
      /\ \A q \in Port : q # p => chan'[q] = chan[q]
  <2>1. /\ Append(chan[p], msg[Curr_Thread]) \in Seq(Msg)
        /\ Len(Append(chan[p], msg[Curr_Thread])) = Len(chan[p]) + 1
    BY <1>3, AppendFacts
  <2> QED BY <1>3, <2>1
<1>6. PortTypes'
  BY <1>1, <1>2, <1>5 DEF CallsInv, PortTypes
<1>7. /\ Sched!Inv' /\ BlockedWhere'
      /\ count'[mutex(p)] = count[mutex(p)] + 1
      /\ \A r \in Semaphore : r # mutex(p) => count'[r] = count[r]
  BY <1>1, <1>4, VStep, PortSemaphores
<1>8. /\ Doing(p, TakePoints)' = Doing(p, TakePoints)
      /\ Doing(p, TellPoints)' = Doing(p, TellPoints) + 1
      /\ Doing(p, FreePoints)' = Doing(p, FreePoints)
      /\ Doing(p, PutPoints)' = Doing(p, PutPoints) - 1
  BY <1>1, <1>2, <1>4, DoingMoves, PointsAre
<1>9. Cardinality(Inside(mutex(p))') = Cardinality(Inside(mutex(p))) - 1
  <2>1. mutex(p)' = mutex(p)
    BY <1>1 DEF mutex
  <2> QED BY <1>1, <1>2, <1>4, <2>1, InsideChanges DEF CallsInv
<1>10. \A q \in Port : count'[cs(q)] = count[cs(q)] /\ count'[ps(q)] = count[ps(q)]
  BY <1>7, PortSemaphores
<1>11. \A q \in Port : mutex(q) # mutex(p) => count'[mutex(q)] = count[mutex(q)]
  BY <1>7, PortSemaphores
<1>12. MessagesOf(p)' /\ RoomOf(p)'
  BY <1>5, <1>8, <1>10, MessagesMove, RoomMove
<1>13. count'[mutex(p)] + Cardinality(Inside(mutex(p))') = 1
  BY <1>7, <1>9, MutexMove
<1> QED BY <1>4, <1>5, <1>6, <1>7, <1>10, <1>11, <1>12, <1>13, CallStep

LEMMA TakeFromInv ==
  ASSUME CallsInv, NEW p \in Port, NEW m, NEW slots, TakeFrom(p, m, slots)
  PROVE  CallsInv'
<1> DEFINE to == "free"
           from == "take"
<1>1. /\ Curr_Thread \in Thread /\ pc[Curr_Thread] = from /\ p = at[Curr_Thread]
      /\ pc' = [pc EXCEPT ![Curr_Thread] = to]
      /\ at' = at /\ msg' = msg /\ strategy' = strategy
      /\ chan' = [chan EXCEPT ![p] = Tail(chan[p])]
      /\ V(mutex(p))
  BY DEF TakeFrom, Goto
<1>2. /\ from # "idle" /\ from \notin PutPoints /\ from \in TakePoints
      /\ from \notin TellPoints /\ from \notin FreePoints /\ from \in InsidePoints
      /\ to # "idle" /\ to \in Points /\ to \notin PutPoints /\ to \notin TakePoints
      /\ to \notin TellPoints /\ to \in FreePoints /\ to \notin InsidePoints
  BY PointsAre
<1> HIDE DEF to, from
<1>3. /\ chan' = [chan EXCEPT ![p] = Tail(chan[p])]
      /\ chan \in [Port -> Seq(Msg)] /\ chan[p] \in Seq(Msg)
  BY <1>1, <1>2 DEF CallsInv, PortTypes
<1>4. Moves(p, to, p)
  <2>1. at' = [at EXCEPT ![Curr_Thread] = p]
    BY <1>1 DEF CallsInv, PortTypes
  <2> QED BY <1>1, <2>1 DEF Moves
<1>5. /\ chan' \in [Port -> Seq(Msg)] /\ Len(chan'[p]) = Len(chan[p]) - 1
      /\ \A q \in Port : q # p => chan'[q] = chan[q]
  <2>1. chan[p] # <<>>
    <3>1. Len(chan[p]) >= 1
      BY <1>1, <1>2, TakerHasMessage
    <3> QED BY <1>3, <3>1, EmptySeq
  <2>2. Tail(chan[p]) \in Seq(Msg) /\ Len(Tail(chan[p])) = Len(chan[p]) - 1
    BY <1>3, <2>1, TailFacts
  <2> QED BY <1>3, <2>2
<1>6. PortTypes'
  BY <1>1, <1>2, <1>5 DEF CallsInv, PortTypes
<1>7. /\ Sched!Inv' /\ BlockedWhere'
      /\ count'[mutex(p)] = count[mutex(p)] + 1
      /\ \A r \in Semaphore : r # mutex(p) => count'[r] = count[r]
  BY <1>1, <1>4, VStep, PortSemaphores
<1>8. /\ Doing(p, TakePoints)' = Doing(p, TakePoints) - 1
      /\ Doing(p, TellPoints)' = Doing(p, TellPoints)
      /\ Doing(p, FreePoints)' = Doing(p, FreePoints) + 1
      /\ Doing(p, PutPoints)' = Doing(p, PutPoints)
  BY <1>1, <1>2, <1>4, DoingMoves, PointsAre
<1>9. Cardinality(Inside(mutex(p))') = Cardinality(Inside(mutex(p))) - 1
  <2>1. mutex(p)' = mutex(p)
    BY <1>1 DEF mutex
  <2> QED BY <1>1, <1>2, <1>4, <2>1, InsideChanges DEF CallsInv
<1>10. \A q \in Port : count'[cs(q)] = count[cs(q)] /\ count'[ps(q)] = count[ps(q)]
  BY <1>7, PortSemaphores
<1>11. \A q \in Port : mutex(q) # mutex(p) => count'[mutex(q)] = count[mutex(q)]
  BY <1>7, PortSemaphores
<1>12. MessagesOf(p)' /\ RoomOf(p)'
  BY <1>5, <1>8, <1>10, MessagesMove, RoomMove
<1>13. count'[mutex(p)] + Cardinality(Inside(mutex(p))') = 1
  BY <1>7, <1>9, MutexMove
<1> QED BY <1>4, <1>5, <1>6, <1>7, <1>10, <1>11, <1>12, <1>13, CallStep

(***************************************************************************)
(* Send and Receive end with a V of cs and of ps.                          *)
(***************************************************************************)
LEMMA TellInv ==
  ASSUME CallsInv, NEW p, p = at[Curr_Thread], Tell
  PROVE  CallsInv'
<1> DEFINE to == "idle"
           from == "tell"
<1>1. /\ Curr_Thread \in Thread /\ pc[Curr_Thread] = from
      /\ pc' = [pc EXCEPT ![Curr_Thread] = to]
      /\ at' = [at EXCEPT ![Curr_Thread] = NULL]
      /\ msg' = [msg EXCEPT ![Curr_Thread] = NoMsg]
      /\ V(cs(p)) /\ chan' = chan /\ strategy' = strategy
  BY DEF Tell, Goto, Return, NoWork
<1>2. /\ from # "idle" /\ from \notin PutPoints /\ from \notin TakePoints
      /\ from \in TellPoints /\ from \notin FreePoints /\ from \notin InsidePoints
      /\ to = "idle" /\ to \in Points /\ to \notin PutPoints /\ to \notin TakePoints
      /\ to \notin TellPoints /\ to \notin FreePoints /\ to \notin InsidePoints
  BY PointsAre
<1> HIDE DEF to, from
<1>3. p \in Port
  BY <1>1, <1>2 DEF CallsInv, PortTypes
<1>4. Moves(p, to, NULL)
  BY <1>1, <1>2 DEF Moves
<1>5. PortTypes'
  BY <1>1, <1>2 DEF CallsInv, PortTypes
<1>6. /\ Sched!Inv' /\ BlockedWhere'
      /\ count'[cs(p)] = count[cs(p)] + 1
      /\ \A r \in Semaphore : r # cs(p) => count'[r] = count[r]
  BY <1>1, <1>3, <1>4, VStep, PortSemaphores
<1>7. /\ Doing(p, TakePoints)' = Doing(p, TakePoints)
      /\ Doing(p, TellPoints)' = Doing(p, TellPoints) - 1
      /\ Doing(p, FreePoints)' = Doing(p, FreePoints)
      /\ Doing(p, PutPoints)' = Doing(p, PutPoints)
  BY <1>1, <1>2, <1>4, DoingMoves, PointsAre
<1>8. Cardinality(Inside(mutex(p))') = Cardinality(Inside(mutex(p)))
  <2>1. mutex(p)' = mutex(p)
    BY <1>1 DEF mutex
  <2> QED BY <1>1, <1>2, <1>4, <2>1, InsideChanges DEF CallsInv
<1>9. \A q \in Port : q # p => count'[cs(q)] = count[cs(q)]
  BY <1>3, <1>6, PortSemaphores
<1>10. \A q \in Port : count'[ps(q)] = count[ps(q)] /\ count'[mutex(q)] = count[mutex(q)]
  BY <1>3, <1>6, PortSemaphores
<1>11. MessagesOf(p)' /\ RoomOf(p)'
  BY <1>1, <1>3, <1>6, <1>7, <1>10, MessagesMove, RoomMove
<1>12. count'[mutex(p)] + Cardinality(Inside(mutex(p))') = 1
  BY <1>3, <1>8, <1>10, MutexMove
<1> QED BY <1>1, <1>3, <1>4, <1>5, <1>6, <1>9, <1>10, <1>11, <1>12, CallStep

LEMMA FreeInv ==
  ASSUME CallsInv, NEW p, p = at[Curr_Thread], Free
  PROVE  CallsInv'
<1> DEFINE to == "idle"
           from == "free"
<1>1. /\ Curr_Thread \in Thread /\ pc[Curr_Thread] = from
      /\ pc' = [pc EXCEPT ![Curr_Thread] = to]
      /\ at' = [at EXCEPT ![Curr_Thread] = NULL]
      /\ msg' = [msg EXCEPT ![Curr_Thread] = NoMsg]
      /\ V(ps(p)) /\ chan' = chan /\ strategy' = strategy
  BY DEF Free, Goto, Return, NoWork
<1>2. /\ from # "idle" /\ from \notin PutPoints /\ from \notin TakePoints
      /\ from \notin TellPoints /\ from \in FreePoints /\ from \notin InsidePoints
      /\ to = "idle" /\ to \in Points /\ to \notin PutPoints /\ to \notin TakePoints
      /\ to \notin TellPoints /\ to \notin FreePoints /\ to \notin InsidePoints
  BY PointsAre
<1> HIDE DEF to, from
<1>3. p \in Port
  BY <1>1, <1>2 DEF CallsInv, PortTypes
<1>4. Moves(p, to, NULL)
  BY <1>1, <1>2 DEF Moves
<1>5. PortTypes'
  BY <1>1, <1>2 DEF CallsInv, PortTypes
<1>6. /\ Sched!Inv' /\ BlockedWhere'
      /\ count'[ps(p)] = count[ps(p)] + 1
      /\ \A r \in Semaphore : r # ps(p) => count'[r] = count[r]
  BY <1>1, <1>3, <1>4, VStep, PortSemaphores
<1>7. /\ Doing(p, TakePoints)' = Doing(p, TakePoints)
      /\ Doing(p, TellPoints)' = Doing(p, TellPoints)
      /\ Doing(p, FreePoints)' = Doing(p, FreePoints) - 1
      /\ Doing(p, PutPoints)' = Doing(p, PutPoints)
  BY <1>1, <1>2, <1>4, DoingMoves, PointsAre
<1>8. Cardinality(Inside(mutex(p))') = Cardinality(Inside(mutex(p)))
  <2>1. mutex(p)' = mutex(p)
    BY <1>1 DEF mutex
  <2> QED BY <1>1, <1>2, <1>4, <2>1, InsideChanges DEF CallsInv
<1>9. \A q \in Port : q # p => count'[ps(q)] = count[ps(q)]
  BY <1>3, <1>6, PortSemaphores
<1>10. \A q \in Port : count'[cs(q)] = count[cs(q)] /\ count'[mutex(q)] = count[mutex(q)]
  BY <1>3, <1>6, PortSemaphores
<1>11. MessagesOf(p)' /\ RoomOf(p)'
  BY <1>1, <1>3, <1>6, <1>7, <1>10, MessagesMove, RoomMove
<1>12. count'[mutex(p)] + Cardinality(Inside(mutex(p))') = 1
  BY <1>3, <1>8, <1>10, MutexMove
<1> QED BY <1>1, <1>3, <1>4, <1>5, <1>6, <1>9, <1>10, <1>11, <1>12, CallStep

(***************************************************************************)
(* The other steps leave the ports alone.                                  *)
(***************************************************************************)
LEMMA StillInv ==
  ASSUME CallsInv, Sched!Inv', UNCHANGED <<count, TCB_Q, strategy, pc, at, msg, chan>>
  PROVE  CallsInv'
<1>1. PortTypes' /\ BlockedWhere'
  BY DEF CallsInv, PortTypes, BlockedWhere, Blocked, cs, ps
<1>2. ASSUME NEW p \in Port PROVE MessagesOf(p)' /\ RoomOf(p)'
  <2>1. \A points : Doing(p, points)' = Doing(p, points)
    BY DEF Doing
  <2>2. chan'[p] = chan[p] /\ count'[cs(p)] = count[cs(p)] /\ count'[ps(p)] = count[ps(p)]
    OBVIOUS
  <2> QED BY <2>1, <2>2, MessagesMove, RoomMove
<1>3. MutexAccounted'
  <2>1. \A q : mutex(q)' = mutex(q) /\ \A m : Inside(m)' = Inside(m)
    BY DEF mutex, Inside
  <2> QED BY <2>1 DEF CallsInv, MutexAccounted
<1> QED BY <1>1, <1>2, <1>3, AccountsAreNext DEF CallsInv

LEMMA CallInv == ASSUME CallsInv, Call PROVE CallsInv'
<1>1. ASSUME NEW t \in Thread, Start(t) PROVE CallsInv'
  <2>1. Sched!Inv' /\ UNCHANGED <<count, TCB_Q, strategy, pc, at, msg, chan>>
    BY <1>1, StartFacts DEF CallsInv, Start, NoWork
  <2> QED BY <2>1, StillInv
<1>2. CASE Run
  <2>1. Sched!Inv' /\ UNCHANGED <<count, TCB_Q, strategy, pc, at, msg, chan>>
    BY <1>2, RunFacts DEF CallsInv, Run, NoWork
  <2> QED BY <2>1, StillInv
<1>3. CASE \E p \in Port, m \in Msg : Send(p, m)
  BY <1>3, SendInv
<1>4. CASE LockToPut
  <2> DEFINE from == "lock to put"
             to == "put"
  <2>1. Goto(from, to) /\ P(mutex(at[Curr_Thread])) /\ UNCHANGED <<at, msg, chan>>
    BY <1>4 DEF LockToPut, NoWork
  <2> QED BY <2>1, LockInv
<1>5. CASE LockToTake
  <2> DEFINE from == "lock to take"
             to == "take"
  <2>1. Goto(from, to) /\ P(mutex(at[Curr_Thread])) /\ UNCHANGED <<at, msg, chan>>
    BY <1>5 DEF LockToTake, NoWork
  <2> QED BY <2>1, LockInv
<1>6. CASE Tell
  BY <1>6, TellInv
<1>7. CASE \E p \in Port : Receive(p)
  BY <1>7, ReceiveInv
<1>8. CASE Free
  BY <1>8, FreeInv
<1> QED BY <1>1, <1>2, <1>3, <1>4, <1>5, <1>6, <1>7, <1>8 DEF Call
-----------------------------------------------------------------------------
(***************************************************************************)
(* Work on the ring of Strategy 2.                                         *)
(***************************************************************************)
LEMMA RingIs ==
  RingHoldsChannel <=>
    (strategy = 2 => \A p \in Port : InRing(chan[p], buffer[p], out[p], in[p], N))
BY DEF RingHoldsChannel, InRing

LEMMA RingIsNext ==
  RingHoldsChannel' <=>
    (strategy' = 2 => \A p \in Port : InRing(chan'[p], buffer'[p], out'[p], in'[p], N))
BY DEF RingHoldsChannel, InRing

LEMMA PutInv ==
  ASSUME IInv, NEW p \in Port, Put(p), strategy = 2, UNCHANGED bufferCount
  PROVE  IInv'
<1> DEFINE m == msg[Curr_Thread]
           slots == [buffer[p] EXCEPT ![in[p]] = m]
           next == (in[p] + 1) % N
<1>1. /\ PutInto(p, slots)
      /\ in' = [in EXCEPT ![p] = next] /\ out' = out
  BY DEF Put
<1>2. /\ Curr_Thread \in Thread /\ at[Curr_Thread] = p /\ pc[Curr_Thread] \in PutPoints
      /\ chan' = [chan EXCEPT ![p] = Append(chan[p], m)]
      /\ buffer' = [buffer EXCEPT ![p] = slots] /\ strategy' = strategy
  BY <1>1, PointsAre DEF PutInto, Goto
<1>3. CallsInv'
  BY <1>1, PutIntoInv DEF IInv
<1>4. /\ m \in Msg /\ chan \in [Port -> Seq(Msg)] /\ N \in Nat \ {0} /\ strategy = 2
      /\ buffer \in [Port -> [0..(N - 1) -> Msg \cup {NoMsg}]]
      /\ in \in [Port -> 0..(N - 1)] /\ out \in [Port -> 0..(N - 1)]
      /\ bufferCount \in [Port -> Int]
  BY <1>2, PortAssumption DEF IInv, CallsInv, PortTypes, BufferTypes
<1>5. /\ Len(chan[p]) < N
      /\ \A q \in Port : InRing(chan[q], buffer[q], out[q], in[q], N)
  BY <1>2, PutterHasRoom, RingIs DEF IInv
<1>6. InRing(Append(chan[p], m), slots, out[p], next, N)
  BY <1>4, <1>5, RingAppend
<1>7. next \in 0..(N - 1) /\ slots \in [0..(N - 1) -> Msg \cup {NoMsg}]
  BY <1>4
<1> HIDE DEF m, slots, next
<1>8. BufferTypes'
  BY <1>1, <1>2, <1>4, <1>7 DEF BufferTypes
<1>9. ASSUME NEW q \in Port PROVE InRing(chan'[q], buffer'[q], out'[q], in'[q], N)
  <2>1. CASE q = p
    BY <1>1, <1>2, <1>4, <1>6, <2>1
  <2>2. CASE q # p
    BY <1>1, <1>2, <1>4, <1>5, <2>2
  <2> QED BY <2>1, <2>2
<1>10. RingHoldsChannel'
  BY <1>9, RingIsNext
<1>11. BufferHoldsChannel'
  BY <1>2, <1>4 DEF BufferHoldsChannel
<1> QED BY <1>3, <1>8, <1>10, <1>11 DEF IInv

LEMMA TakeInv ==
  ASSUME IInv, NEW p \in Port, Take(p), strategy = 2, UNCHANGED bufferCount
  PROVE  IInv' /\ buffer[p][out[p]] = Head(chan[p])
<1> DEFINE next == (out[p] + 1) % N
<1>1. /\ TakeFrom(p, buffer[p][out[p]], buffer[p])
      /\ out' = [out EXCEPT ![p] = next] /\ in' = in
  BY DEF Take
<1>2. /\ Curr_Thread \in Thread /\ at[Curr_Thread] = p /\ pc[Curr_Thread] \in TakePoints
      /\ chan' = [chan EXCEPT ![p] = Tail(chan[p])]
      /\ buffer' = [buffer EXCEPT ![p] = buffer[p]] /\ strategy' = strategy
  BY <1>1, PointsAre DEF TakeFrom, Goto
<1>3. CallsInv'
  BY <1>1, TakeFromInv DEF IInv
<1>4. /\ chan \in [Port -> Seq(Msg)] /\ N \in Nat \ {0} /\ strategy = 2
      /\ buffer \in [Port -> [0..(N - 1) -> Msg \cup {NoMsg}]]
      /\ in \in [Port -> 0..(N - 1)] /\ out \in [Port -> 0..(N - 1)]
      /\ bufferCount \in [Port -> Int]
  BY <1>2, PortAssumption DEF IInv, CallsInv, PortTypes, BufferTypes
<1>5. \A q \in Port : InRing(chan[q], buffer[q], out[q], in[q], N)
  BY <1>4, RingIs DEF IInv
<1>6. chan[p] # <<>>
  <2>1. Len(chan[p]) >= 1
    BY <1>2, TakerHasMessage DEF IInv
  <2> QED BY <1>4, <2>1, EmptySeq
<1>7. /\ InRing(Tail(chan[p]), buffer[p], next, in[p], N)
      /\ next \in 0..(N - 1) /\ buffer[p][out[p]] = Head(chan[p])
  <2>1. /\ chan[p] \in Seq(Msg) /\ chan[p] # <<>> /\ N \in Nat \ {0} /\ out[p] \in 0..(N - 1)
        /\ InRing(chan[p], buffer[p], out[p], in[p], N)
    BY <1>4, <1>5, <1>6
  <2> DEFINE c == chan[p]
             b == buffer[p]
             o == out[p]
             i == in[p]
  <2> HIDE DEF c, b, o, i
  <2>2. c \in Seq(Msg) /\ c # <<>> /\ o \in 0..(N - 1) /\ InRing(c, b, o, i, N)
    BY <2>1 DEF c, b, o, i
  <2>3. /\ b[o] = Head(c)
        /\ (o + 1) % N \in 0..(N - 1)
        /\ InRing(Tail(c), b, (o + 1) % N, i, N)
    BY <2>1, <2>2, RingTail
  <2> QED BY <2>3 DEF c, b, o, i
<1> HIDE DEF next
<1>8. BufferTypes'
  BY <1>1, <1>2, <1>4, <1>7 DEF BufferTypes
<1>9. ASSUME NEW q \in Port PROVE InRing(chan'[q], buffer'[q], out'[q], in'[q], N)
  <2>1. CASE q = p
    BY <1>1, <1>2, <1>4, <1>7, <2>1
  <2>2. CASE q # p
    BY <1>1, <1>2, <1>4, <1>5, <2>2
  <2> QED BY <2>1, <2>2
<1>10. RingHoldsChannel'
  BY <1>9, RingIsNext
<1>11. BufferHoldsChannel'
  BY <1>2, <1>4 DEF BufferHoldsChannel
<1> QED BY <1>3, <1>7, <1>8, <1>10, <1>11 DEF IInv
-----------------------------------------------------------------------------
(***************************************************************************)
(* Work on the array of Strategy 1.                                        *)
(***************************************************************************)
LEMMA ArrayIs ==
  BufferHoldsChannel <=>
    (strategy = 1 => \A p \in Port : InArray(chan[p], buffer[p], bufferCount[p], N))
BY DEF BufferHoldsChannel, InArray

LEMMA ArrayIsNext ==
  BufferHoldsChannel' <=>
    (strategy' = 1 => \A p \in Port : InArray(chan'[p], buffer'[p], bufferCount'[p], N))
BY DEF BufferHoldsChannel, InArray

LEMMA PutLastInv ==
  ASSUME IInv, NEW p \in Port, PutLast(p), strategy = 1, UNCHANGED ringVars
  PROVE  IInv'
<1> DEFINE m == msg[Curr_Thread]
           slots == [buffer[p] EXCEPT ![bufferCount[p]] = m]
           next == bufferCount[p] + 1
<1>1. /\ PutInto(p, slots)
      /\ bufferCount' = [bufferCount EXCEPT ![p] = next] /\ out' = out /\ in' = in
  BY DEF PutLast, ringVars
<1>2. /\ Curr_Thread \in Thread /\ at[Curr_Thread] = p /\ pc[Curr_Thread] \in PutPoints
      /\ chan' = [chan EXCEPT ![p] = Append(chan[p], m)]
      /\ buffer' = [buffer EXCEPT ![p] = slots] /\ strategy' = strategy
  BY <1>1, PointsAre DEF PutInto, Goto
<1>3. CallsInv'
  BY <1>1, PutIntoInv DEF IInv
<1>4. /\ m \in Msg /\ chan \in [Port -> Seq(Msg)] /\ N \in Nat \ {0} /\ strategy = 1
      /\ buffer \in [Port -> [0..(N - 1) -> Msg \cup {NoMsg}]]
      /\ in \in [Port -> 0..(N - 1)] /\ out \in [Port -> 0..(N - 1)]
      /\ bufferCount \in [Port -> Int]
  BY <1>2, PortAssumption DEF IInv, CallsInv, PortTypes, BufferTypes
<1>5. /\ Len(chan[p]) < N
      /\ \A q \in Port : InArray(chan[q], buffer[q], bufferCount[q], N)
  BY <1>2, PutterHasRoom, ArrayIs DEF IInv
<1>6. InArray(Append(chan[p], m), slots, next, N)
  BY <1>4, <1>5, ArrayAppend
<1>7. next \in Int /\ slots \in [0..(N - 1) -> Msg \cup {NoMsg}]
  <2>1. bufferCount[p] \in Int /\ buffer[p] \in [0..(N - 1) -> Msg \cup {NoMsg}]
    BY <1>4
  <2>2. next \in Int
    BY <2>1
  <2>3. m \in Msg \cup {NoMsg}
    BY <1>4
  <2> HIDE DEF m
  <2>4. slots \in [0..(N - 1) -> Msg \cup {NoMsg}]
    BY <2>1, <2>3
  <2> QED BY <2>2, <2>4
<1> HIDE DEF m, slots, next
<1>8. BufferTypes'
  BY <1>1, <1>2, <1>4, <1>7 DEF BufferTypes
<1>9. ASSUME NEW q \in Port PROVE InArray(chan'[q], buffer'[q], bufferCount'[q], N)
  <2>1. CASE q = p
    BY <1>1, <1>2, <1>4, <1>6, <2>1
  <2>2. CASE q # p
    BY <1>1, <1>2, <1>4, <1>5, <2>2
  <2> QED BY <2>1, <2>2
<1>10. BufferHoldsChannel'
  BY <1>9, ArrayIsNext
<1>11. RingHoldsChannel'
  BY <1>2, <1>4 DEF RingHoldsChannel
<1> QED BY <1>3, <1>8, <1>10, <1>11 DEF IInv

LEMMA TakeFirstInv ==
  ASSUME IInv, NEW p \in Port, TakeFirst(p), strategy = 1, UNCHANGED ringVars
  PROVE  IInv' /\ buffer[p][0] = Head(chan[p])
<1> DEFINE next == bufferCount[p] - 1
           slots == MovedDown(buffer[p], next, N)
<1>1. /\ chan \in [Port -> Seq(Msg)] /\ N \in Nat \ {0} /\ strategy = 1
      /\ buffer \in [Port -> [0..(N - 1) -> Msg \cup {NoMsg}]]
      /\ in \in [Port -> 0..(N - 1)] /\ out \in [Port -> 0..(N - 1)]
      /\ bufferCount \in [Port -> Int]
  BY PortAssumption DEF IInv, CallsInv, PortTypes, BufferTypes
<1>2. /\ bufferCount' = [bufferCount EXCEPT ![p] = next] /\ out' = out /\ in' = in
      /\ bufferCount'[p] = next
  BY <1>1 DEF TakeFirst, ringVars
<1>3. TakeFrom(p, buffer[p][0], slots)
  BY <1>2 DEF TakeFirst, MovedDown
<1>4. /\ Curr_Thread \in Thread /\ at[Curr_Thread] = p /\ pc[Curr_Thread] \in TakePoints
      /\ chan' = [chan EXCEPT ![p] = Tail(chan[p])]
      /\ buffer' = [buffer EXCEPT ![p] = slots] /\ strategy' = strategy
  BY <1>3, PointsAre DEF TakeFrom, Goto
<1>5. CallsInv'
  BY <1>3, TakeFromInv DEF IInv
<1>6. \A q \in Port : InArray(chan[q], buffer[q], bufferCount[q], N)
  BY <1>1, ArrayIs DEF IInv
<1>7. chan[p] # <<>>
  <2>1. Len(chan[p]) >= 1
    BY <1>4, TakerHasMessage DEF IInv
  <2> QED BY <1>1, <2>1, EmptySeq
<1>8. /\ InArray(Tail(chan[p]), slots, next, N)
      /\ slots \in [0..(N - 1) -> Msg \cup {NoMsg}] /\ buffer[p][0] = Head(chan[p])
  <2> DEFINE c == chan[p]
             b == buffer[p]
             k == bufferCount[p]
  <2> HIDE DEF c, b, k
  <2>1. /\ c \in Seq(Msg) /\ c # <<>> /\ N \in Nat \ {0}
        /\ b \in [0..(N - 1) -> Msg \cup {NoMsg}] /\ InArray(c, b, k, N)
    BY <1>1, <1>6, <1>7 DEF c, b, k
  <2>2. /\ b[0] = Head(c)
        /\ MovedDown(b, k - 1, N) \in [0..(N - 1) -> Msg \cup {NoMsg}]
        /\ InArray(Tail(c), MovedDown(b, k - 1, N), k - 1, N)
    BY <2>1, ArrayTail
  <2> QED BY <2>2 DEF c, b, k
<1>9. next \in Int
  BY <1>1
<1> HIDE DEF next, slots
<1>10. BufferTypes'
  BY <1>1, <1>2, <1>4, <1>8, <1>9 DEF BufferTypes
<1>11. ASSUME NEW q \in Port PROVE InArray(chan'[q], buffer'[q], bufferCount'[q], N)
  <2>1. CASE q = p
    BY <1>1, <1>2, <1>4, <1>8, <2>1
  <2>2. CASE q # p
    BY <1>1, <1>2, <1>4, <1>6, <2>2
  <2> QED BY <2>1, <2>2
<1>12. BufferHoldsChannel'
  BY <1>11, ArrayIsNext
<1>13. RingHoldsChannel'
  BY <1>1, <1>4 DEF RingHoldsChannel
<1> QED BY <1>5, <1>8, <1>10, <1>12, <1>13 DEF IInv
-----------------------------------------------------------------------------
LEMMA CallLeaves == ASSUME Call PROVE UNCHANGED <<strategy, buffer, chan, got>>
BY DEF Call, Start, Run, Send, LockToPut, Tell, Receive, LockToTake, Free, Goto, NoWork

LEMMA PortsNext == ASSUME IInv, Next PROVE IInv'
<1>1. CASE Call /\ UNCHANGED <<ringVars, bufferCount>>
  <2>1. CallsInv'
    BY <1>1, CallInv DEF IInv
  <2>2. UNCHANGED <<strategy, buffer, chan, in, out, bufferCount>>
    BY <1>1, CallLeaves DEF ringVars
  <2>3. BufferTypes' /\ RingHoldsChannel' /\ BufferHoldsChannel'
    BY <2>2 DEF IInv, BufferTypes, RingHoldsChannel, BufferHoldsChannel
  <2> QED BY <2>1, <2>3 DEF IInv
<1>2. CASE strategy = 1 /\ (\E p \in Port : PutLast(p) \/ TakeFirst(p)) /\ UNCHANGED ringVars
  BY <1>2, PutLastInv, TakeFirstInv
<1>3. CASE strategy = 2 /\ (\E p \in Port : Put(p) \/ Take(p)) /\ UNCHANGED bufferCount
  BY <1>3, PutInv, TakeInv
<1> QED BY <1>1, <1>2, <1>3 DEF Next

LEMMA PortsStutter == ASSUME IInv, UNCHANGED vars PROVE IInv'
<1>1. UNCHANGED <<ReadyQ, Curr_Thread, count, TCB_Q, strategy, buffer, pc, at, msg, chan, in,
                  out, bufferCount>>
  BY DEF vars, callVars, semVars, ringVars
<1>2. Sched!Inv'
  BY <1>1, Sched!NextInv, SemAssumption, ThreadAssumption
  DEF IInv, CallsInv, Sched!semVars
<1>3. CallsInv'
  BY <1>1, <1>2, StillInv DEF IInv
<1>4. BufferTypes' /\ RingHoldsChannel' /\ BufferHoldsChannel'
  BY <1>1 DEF IInv, BufferTypes, RingHoldsChannel, BufferHoldsChannel
<1> QED BY <1>3, <1>4 DEF IInv

LEMMA PortsInit == ASSUME Init PROVE IInv
<1> USE PortAssumption
<1>1. Sched!Inv
  BY Sched!InitInv, SemAssumption, ThreadAssumption
  DEF Init, CallsInit, SemInit, Sched!SemInit, ThreadsInit, Sched!ThreadsInit
<1>2. /\ count = InputValue /\ TCB_Q = [s \in Semaphore |-> <<>>]
      /\ strategy \in {1, 2}
      /\ buffer = [p \in Port |-> [i \in 0..(N - 1) |-> NoMsg]]
      /\ pc = [t \in Thread |-> "idle"] /\ at = [t \in Thread |-> NULL]
      /\ msg = [t \in Thread |-> NoMsg]
      /\ chan = [p \in Port |-> <<>>]
      /\ in = [p \in Port |-> 0] /\ out = [p \in Port |-> 0]
      /\ bufferCount = [p \in Port |-> 0]
  BY DEF Init, CallsInit, SemInit, RingInit, ShiftInit
<1>3. PortTypes
  <2>1. /\ strategy \in {1, 2}
        /\ at \in [Thread -> Port \cup {NULL}]
        /\ msg \in [Thread -> Msg \cup {NoMsg}]
        /\ chan \in [Port -> Seq(Msg)]
    BY <1>2
  <2>2. pc \in [Thread -> Points]
    BY <1>2, PointsAre
  <2>3. \A t \in Thread : pc[t] = "idle" /\ pc[t] \notin PutPoints
    BY <1>2, PointsAre
  <2> QED BY <2>1, <2>2, <2>3 DEF PortTypes
<1>4. BlockedWhere
  <2>1. Range(<<>>) = {}
    BY DEF Range
  <2> QED BY <1>2, <2>1, PortSemaphores DEF BlockedWhere, Blocked
<1>5. ASSUME NEW p \in Port PROVE MessagesOf(p) /\ RoomOf(p)
  <2>1. ASSUME NEW points, "idle" \notin points PROVE Doing(p, points) = 0
    <3>1. {t \in Thread : at[t] = p /\ pc[t] \in points} = {}
      BY <1>2, <2>1
    <3> QED BY <3>1, FS_EmptySet DEF Doing
  <2>2. /\ Doing(p, TakePoints) = 0 /\ Doing(p, TellPoints) = 0
        /\ Doing(p, PutPoints) = 0 /\ Doing(p, FreePoints) = 0
    BY <2>1, PointsAre
  <2>3. count[cs(p)] = 0 /\ count[ps(p)] = N /\ Len(chan[p]) = 0
    BY <1>2
  <2>4. N \in Nat
    OBVIOUS
  <2> QED BY <2>2, <2>3, <2>4 DEF MessagesOf, RoomOf
<1>6. MutexAccounted
  <2> SUFFICES ASSUME NEW p \in Port PROVE count[mutex(p)] + Cardinality(Inside(mutex(p))) = 1
    BY DEF MutexAccounted
  <2>1. Inside(mutex(p)) = {}
    BY <1>2, PointsAre DEF Inside
  <2>2. count[mutex(p)] = 1
    BY <1>2 DEF mutex
  <2> QED BY <2>1, <2>2, FS_EmptySet
<1>7. BufferTypes
  BY <1>2 DEF BufferTypes
<1>8. RingHoldsChannel
  <2> SUFFICES ASSUME NEW p \in Port PROVE InRing(chan[p], buffer[p], out[p], in[p], N)
    BY RingIs
  <2>1. chan[p] = <<>> /\ out[p] = 0 /\ in[p] = 0 /\ Len(<<>>) = 0
    BY <1>2
  <2>2. 0 \in 0..(2 * N - 1) /\ N \in Nat \ {0}
    OBVIOUS
  <2>3. 0 % N = 0
    BY <2>2, RingIndex
  <2> QED BY <2>1, <2>2, <2>3 DEF InRing
<1>9. BufferHoldsChannel
  <2> SUFFICES ASSUME NEW p \in Port PROVE InArray(chan[p], buffer[p], bufferCount[p], N)
    BY ArrayIs
  <2> QED BY <1>2 DEF InArray
<1> QED BY <1>1, <1>3, <1>4, <1>5, <1>6, <1>7, <1>8, <1>9, AccountsAre DEF IInv, CallsInv

\* Every reachable state of the ports is well formed, whatever the program does.
LEMMA PortsInv == Spec => []IInv
<1>1. Init => IInv
  BY PortsInit
<1>2. IInv /\ [Next]_vars => IInv'
  BY PortsNext, PortsStutter
<1> QED BY <1>1, <1>2, PTL DEF Spec

\* No wake-up is lost: the counts of cs and ps account for every message and slot.
THEOREM PortsTokensAccounted == Spec => []TokensAccounted
<1>1. IInv => TokensAccounted
  BY DEF IInv, CallsInv
<1> QED BY <1>1, PortsInv, PTL

\* The ring of msgs.h holds exactly the messages that were sent and not received.
THEOREM PortsRingHoldsChannel == Spec => []RingHoldsChannel
<1>1. IInv => RingHoldsChannel
  BY DEF IInv
<1> QED BY <1>1, PortsInv, PTL

\* So does the array of msgs1.h, and its count never leaves the buffer.
THEOREM PortsBufferHoldsChannel == Spec => []BufferHoldsChannel
<1>1. IInv => BufferHoldsChannel
  BY DEF IInv
<1> QED BY <1>1, PortsInv, PTL
-----------------------------------------------------------------------------
(***************************************************************************)
(* The ports implement the channels: the work on a buffer is the step of a *)
(* channel, with room before a Send and the oldest message for a Receive.  *)
(***************************************************************************)
LEMMA PutSends ==
  ASSUME CallsInv, NEW p \in Port, NEW slots, PutInto(p, slots)
  PROVE  Fifo!Next
<1>1. /\ Curr_Thread \in Thread /\ at[Curr_Thread] = p /\ pc[Curr_Thread] \in PutPoints
      /\ chan' = [chan EXCEPT ![p] = Append(chan[p], msg[Curr_Thread])] /\ got' = got
  BY PointsAre DEF PutInto, Goto
<1>2. Len(chan[p]) < N
  BY <1>1, PutterHasRoom
<1>3. msg[Curr_Thread] \in Msg
  BY <1>1 DEF CallsInv, PortTypes
<1>4. Fifo!Send(p, msg[Curr_Thread])
  BY <1>1, <1>2 DEF Fifo!Send
<1> QED BY <1>1, <1>3, <1>4 DEF Fifo!Next

LEMMA TakeReceives ==
  ASSUME CallsInv, NEW p \in Port, NEW m, NEW slots, TakeFrom(p, m, slots), m = Head(chan[p])
  PROVE  Fifo!Next
<1>1. /\ Curr_Thread \in Thread /\ at[Curr_Thread] = p /\ pc[Curr_Thread] \in TakePoints
      /\ chan' = [chan EXCEPT ![p] = Tail(chan[p])]
      /\ got' = [got EXCEPT ![Curr_Thread] = m]
  BY PointsAre DEF TakeFrom, Goto
<1>2. chan[p] \in Seq(Msg) /\ chan[p] # <<>>
  <2>1. Len(chan[p]) >= 1 /\ chan[p] \in Seq(Msg)
    BY <1>1, TakerHasMessage DEF CallsInv, PortTypes
  <2> QED BY <2>1, EmptySeq
<1>3. m \in Msg
  BY <1>2, TailFacts
<1>4. Fifo!Receive(p, m)
  BY <1>1, <1>2 DEF Fifo!Receive
<1> QED BY <1>1, <1>3, <1>4 DEF Fifo!Next

LEMMA ChannelStep == ASSUME IInv, [Next]_vars PROVE [Fifo!Next]_(Fifo!fifoVars)
<1>1. CASE Call /\ UNCHANGED <<ringVars, bufferCount>>
  BY <1>1, CallLeaves DEF Fifo!fifoVars
<1>2. ASSUME NEW p \in Port, strategy = 1, UNCHANGED ringVars, PutLast(p) \/ TakeFirst(p)
      PROVE  Fifo!Next
  <2>1. CASE PutLast(p)
    BY <2>1, PutSends DEF PutLast, IInv
  <2>2. CASE TakeFirst(p)
    <3>1. buffer[p][0] = Head(chan[p])
      BY <1>2, <2>2, TakeFirstInv
    <3> QED BY <2>2, <3>1, TakeReceives DEF TakeFirst, IInv
  <2> QED BY <1>2, <2>1, <2>2
<1>3. ASSUME NEW p \in Port, strategy = 2, UNCHANGED bufferCount, Put(p) \/ Take(p)
      PROVE  Fifo!Next
  <2>1. CASE Put(p)
    BY <2>1, PutSends DEF Put, IInv
  <2>2. CASE Take(p)
    <3>1. buffer[p][out[p]] = Head(chan[p])
      BY <1>3, <2>2, TakeInv
    <3> QED BY <2>2, <3>1, TakeReceives DEF Take, IInv
  <2> QED BY <1>3, <2>1, <2>2
<1>4. CASE UNCHANGED vars
  BY <1>4 DEF vars, callVars, Fifo!fifoVars
<1> QED BY <1>1, <1>2, <1>3, <1>4 DEF Next

\* Whatever a program sends and receives, the ports are bounded first-in, first-out channels.
THEOREM PortsImplementChannels == Spec => ImplementsChannels
<1>1. Init => Fifo!Init
  BY DEF Init, CallsInit, Fifo!Init, Fifo!ChannelsInit
<1>2. IInv /\ [Next]_vars => [Fifo!Next]_(Fifo!fifoVars)
  BY ChannelStep
<1> QED BY <1>1, <1>2, PortsInv, PTL DEF Spec, ImplementsChannels, Fifo!Spec

(***************************************************************************)
(* The ports use the kernel within its bound: before a V the count is less *)
(* than the capacity, since the caller is one of those it accounts for.    *)
(***************************************************************************)
LEMMA SomebodyDoes ==
  ASSUME Curr_Thread \in Thread, NEW p, at[Curr_Thread] = p, NEW points,
         pc[Curr_Thread] \in points
  PROVE  Doing(p, points) \in Nat \ {0}
<1> DEFINE X == {t \in Thread : at[t] = p /\ pc[t] \in points}
<1>1. IsFiniteSet(X) /\ Curr_Thread \in X /\ Doing(p, points) = Cardinality(X)
  BY DoingFinite DEF Doing
<1> HIDE DEF X
<1>2. Cardinality(X) \in Nat /\ Cardinality(X) # 0
  BY <1>1, FS_CardinalityType, FS_EmptySet
<1> QED BY <1>1, <1>2

LEMMA TellBound ==
  ASSUME CallsInv, Curr_Thread \in Thread, pc[Curr_Thread] \in TellPoints,
         NEW p \in Port, at[Curr_Thread] = p
  PROVE  count[cs(p)] < N
<1>1. Len(chan[p]) <= N /\ Doing(p, TellPoints) \in Nat \ {0}
  BY ChannelFits, SomebodyDoes
<1>2. /\ Len(chan[p]) = count[cs(p)] + Doing(p, TakePoints) + Doing(p, TellPoints)
      /\ N \in Nat /\ Len(chan[p]) \in Nat /\ count[cs(p)] \in Int
      /\ Doing(p, TakePoints) \in Nat
  BY AccountTypes DEF MessagesOf
<1> QED BY <1>1, <1>2

LEMMA FreeBound ==
  ASSUME CallsInv, Curr_Thread \in Thread, pc[Curr_Thread] \in FreePoints,
         NEW p \in Port, at[Curr_Thread] = p
  PROVE  count[ps(p)] < N
<1>1. Doing(p, FreePoints) \in Nat \ {0}
  BY SomebodyDoes
<1>2. /\ N - Len(chan[p]) = count[ps(p)] + Doing(p, PutPoints) + Doing(p, FreePoints)
      /\ N \in Nat /\ Len(chan[p]) \in Nat /\ count[ps(p)] \in Int
      /\ Doing(p, PutPoints) \in Nat
  BY AccountTypes DEF RoomOf
<1> QED BY <1>1, <1>2

LEMMA MutexBound ==
  ASSUME CallsInv, Curr_Thread \in Thread, pc[Curr_Thread] \in InsidePoints,
         NEW p \in Port, at[Curr_Thread] = p
  PROVE  count[mutex(p)] < N
<1> DEFINE X == Inside(mutex(p))
<1>1. Curr_Thread \in X /\ X \in SUBSET Thread
  BY DEF Inside
<1>2. IsFiniteSet(X)
  BY <1>1, PortAssumption, FS_Subset
<1> HIDE DEF X
<1>3. Cardinality(X) \in Nat /\ Cardinality(X) # 0
  BY <1>1, <1>2, FS_CardinalityType, FS_EmptySet
<1>4. /\ count[mutex(p)] \in Int /\ count[mutex(p)] + Cardinality(X) = 1 /\ N \in Nat \ {0}
  BY AccountTypes DEF X
<1> QED BY <1>3, <1>4

LEMMA ProgramCalls ==
  /\ \A t \in Thread : Start(t) => AnyProgram!Start(t)
  /\ Run => AnyProgram!Run
  /\ \A s \in Semaphore : P(s) => AnyProgram!P(s)
  /\ \A s \in Semaphore : V(s) => AnyProgram!V(s)
<1>1. ASSUME NEW t \in Thread, Start(t) PROVE AnyProgram!Start(t)
  BY <1>1 DEF Start, AnyProgram!Start, start_thread, AnyProgram!start_thread, AddQueue,
              AnyProgram!AddQueue, Started, AnyProgram!Started, Blocked, AnyProgram!Blocked,
              Range, AnyProgram!Range
<1>2. ASSUME Run PROVE AnyProgram!Run
  BY <1>2 DEF Run, AnyProgram!Run, run, AnyProgram!run, Dispatch, AnyProgram!Dispatch, DelQueue,
              AnyProgram!DelQueue
<1>3. ASSUME NEW s \in Semaphore, P(s) PROVE AnyProgram!P(s)
  BY <1>3 DEF P, AnyProgram!P, Block, AnyProgram!Block, Dispatch, AnyProgram!Dispatch, DelQueue,
              AnyProgram!DelQueue, AddQueue, AnyProgram!AddQueue, threadVars, AnyProgram!threadVars
<1>4. ASSUME NEW s \in Semaphore, V(s) PROVE AnyProgram!V(s)
  BY <1>4 DEF V, AnyProgram!V, Wake, AnyProgram!Wake, yield, AnyProgram!yield, Dispatch,
              AnyProgram!Dispatch, DelQueue, AnyProgram!DelQueue, AddQueue, AnyProgram!AddQueue
<1> QED BY <1>1, <1>2, <1>3, <1>4

LEMMA CallOfKernel == ASSUME CallsInv, Call PROVE AnyProgram!Next
<1>1. ASSUME NEW t \in Thread, Start(t) PROVE AnyProgram!Next
  BY <1>1, ProgramCalls DEF AnyProgram!Next
<1>2. CASE Run
  BY <1>2, ProgramCalls DEF AnyProgram!Next
<1>3. ASSUME NEW p \in Port, NEW s \in {cs(p), ps(p), mutex(p)}, P(s) PROVE AnyProgram!Next
  BY <1>3, PortSemaphores, ProgramCalls DEF AnyProgram!Next
<1>4. ASSUME NEW p \in Port, NEW s \in {cs(p), ps(p)}, V(s), count[s] < N
      PROVE  AnyProgram!Next
  BY <1>4, PortSemaphores, ProgramCalls DEF AnyProgram!Next
<1>5. ASSUME Curr_Thread \in Thread, pc[Curr_Thread] # "idle" PROVE at[Curr_Thread] \in Port
  BY <1>5 DEF CallsInv, PortTypes
<1>6. ASSUME NEW p \in Port, NEW m \in Msg, Send(p, m) PROVE AnyProgram!Next
  BY <1>3, <1>6 DEF Send
<1>7. CASE LockToPut \/ LockToTake
  <2>1. /\ Curr_Thread \in Thread /\ pc[Curr_Thread] # "idle"
        /\ P(mutex(at[Curr_Thread]))
    BY <1>7 DEF LockToPut, LockToTake, Goto
  <2> QED BY <1>3, <1>5, <2>1
<1>8. CASE Tell
  <2>1. /\ Curr_Thread \in Thread /\ pc[Curr_Thread] # "idle" /\ pc[Curr_Thread] \in TellPoints
        /\ V(cs(at[Curr_Thread]))
    BY <1>8, PointsAre DEF Tell, Goto
  <2> QED BY <1>4, <1>5, <2>1, TellBound
<1>9. ASSUME NEW p \in Port, Receive(p) PROVE AnyProgram!Next
  BY <1>3, <1>9 DEF Receive
<1>10. CASE Free
  <2>1. /\ Curr_Thread \in Thread /\ pc[Curr_Thread] # "idle" /\ pc[Curr_Thread] \in FreePoints
        /\ V(ps(at[Curr_Thread]))
    BY <1>10, PointsAre DEF Free, Goto
  <2> QED BY <1>4, <1>5, <2>1, FreeBound
<1> QED BY <1>1, <1>2, <1>6, <1>7, <1>8, <1>9, <1>10 DEF Call

LEMMA WorkOfKernel ==
  ASSUME CallsInv, NEW p \in Port, NEW m, NEW slots, PutInto(p, slots) \/ TakeFrom(p, m, slots)
  PROVE  AnyProgram!Next
<1>1. /\ Curr_Thread \in Thread /\ at[Curr_Thread] = p /\ pc[Curr_Thread] \in InsidePoints
      /\ V(mutex(p))
  BY PointsAre DEF PutInto, TakeFrom, Goto
<1>2. count[mutex(p)] < N
  BY <1>1, MutexBound
<1> QED BY <1>1, <1>2, PortSemaphores, ProgramCalls DEF AnyProgram!Next

\* What is proved of the kernel under any program holds under the ports.
THEOREM PortsUseKernel == Spec => UsesKernel
<1>1. Init => AnyProgram!SemInit
  BY DEF Init, CallsInit, SemInit, AnyProgram!SemInit, ThreadsInit, AnyProgram!ThreadsInit
<1>2. ASSUME IInv, [Next]_vars PROVE [AnyProgram!Next]_(AnyProgram!semVars)
  <2>1. CASE Call
    BY <1>2, <2>1, CallOfKernel DEF IInv
  <2>2. ASSUME NEW p \in Port, PutLast(p) \/ TakeFirst(p) \/ Put(p) \/ Take(p)
        PROVE  AnyProgram!Next
    BY <1>2, <2>2, WorkOfKernel DEF IInv, PutLast, TakeFirst, Put, Take
  <2>3. CASE UNCHANGED vars
    BY <2>3 DEF vars, callVars, semVars, AnyProgram!semVars
  <2> QED BY <1>2, <2>1, <2>2, <2>3 DEF Next
<1> QED BY <1>1, <1>2, PortsInv, PTL DEF Spec, UsesKernel, AnyProgram!Spec
=============================================================================
