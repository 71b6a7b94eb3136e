---------------------------- MODULE KernelProofs ----------------------------
(***************************************************************************)
(* Proofs about the kernel, for every set of threads and of semaphores and *)
(* every initial value.                                                    *)
(***************************************************************************)
EXTENDS Kernel, DataFacts

(***************************************************************************)
(* What AddQueue and DelQueue do to the elements of a queue.               *)
(***************************************************************************)
LEMMA AddQueueProperties ==
  ASSUME NEW S, NEW q \in Seq(S), NEW t \in S
  PROVE  /\ AddQueue(q, t) \in Seq(S)
         /\ AddQueue(q, t) # <<>>
         /\ Len(AddQueue(q, t)) = Len(q) + 1
         /\ Range(AddQueue(q, t)) = Range(q) \cup {t}
         /\ IsInjective(q) /\ t \notin Range(q) => IsInjective(AddQueue(q, t))
         /\ \A i \in 1..Len(q) : AddQueue(q, t)[i] = q[i]
BY AppendFacts DEF AddQueue

LEMMA DelQueueProperties ==
  ASSUME NEW S, NEW q \in Seq(S), q # <<>>
  PROVE  /\ DelQueue(q).item \in S
         /\ DelQueue(q).item \in Range(q)
         /\ DelQueue(q).rest \in Seq(S)
         /\ Len(DelQueue(q).rest) = Len(q) - 1
         /\ Range(q) = Range(DelQueue(q).rest) \cup {DelQueue(q).item}
         /\ IsInjective(q) => /\ IsInjective(DelQueue(q).rest)
                              /\ DelQueue(q).item \notin Range(DelQueue(q).rest)
BY TailFacts DEF DelQueue

\* A thread put at the tail of a queue it is not in.
LEMMA AddThread ==
  ASSUME NEW q \in Seq(Thread), NEW t \in Thread, IsInjective(q), t \notin Range(q)
  PROVE  /\ AddQueue(q, t) \in Seq(Thread)
         /\ AddQueue(q, t) # <<>>
         /\ Range(AddQueue(q, t)) = Range(q) \cup {t}
         /\ IsInjective(AddQueue(q, t))
BY AddQueueProperties

(***************************************************************************)
(* A switch to the head of q: somebody of q runs, unless q was empty.      *)
(***************************************************************************)
LEMMA DispatchProperties ==
  ASSUME NEW q \in Seq(Thread), Dispatch(q)
  PROVE  /\ ReadyQ' \in Seq(Thread)
         /\ Range(ReadyQ') \subseteq Range(q)
         /\ q # <<>> => Curr_Thread' \in Thread /\ Curr_Thread' \in Range(q)
         /\ q = <<>> => Curr_Thread' = NULL /\ ReadyQ' = <<>>
         /\ IsInjective(q) => IsInjective(ReadyQ') /\ Curr_Thread' \notin Range(ReadyQ')
<1>1. CASE q # <<>>
  BY <1>1, DelQueueProperties DEF Dispatch
<1>2. CASE q = <<>>
  <2>1. Curr_Thread' = NULL /\ ReadyQ' = <<>>
    BY <1>2 DEF Dispatch, DelQueue
  <2>2. Range(<<>>) = {} /\ IsInjective(<<>>)
    BY DEF Range, IsInjective
  <2> QED BY <1>2, <2>1, <2>2
<1> QED BY <1>1, <1>2
-----------------------------------------------------------------------------
(***************************************************************************)
(* Type correctness and the two invariants are inductive together: V takes *)
(* the head of a queue that CountMatchesWaiters shows not to be empty, and *)
(* a TCB goes to a queue only from where OnePlace says it alone is.        *)
(***************************************************************************)
Inv == TypeOK /\ OnePlace /\ CountMatchesWaiters

LEMMA InitInv == SemInit => Inv
<1> SUFFICES ASSUME SemInit PROVE Inv
  OBVIOUS
<1>1. Range(<<>>) = {} /\ IsInjective(<<>>) /\ Len(<<>>) = 0
  BY DEF Range, IsInjective
<1>2. TypeOK
  BY SemAssumption DEF SemInit, ThreadsInit, TypeOK
<1>3. OnePlace
  BY <1>1 DEF SemInit, ThreadsInit, OnePlace, ReadyPlace, BlockedPlace, SemaphorePlace, Blocked
<1>4. CountMatchesWaiters
  BY <1>1, SemAssumption DEF SemInit, CountMatchesWaiters
<1> QED BY <1>2, <1>3, <1>4 DEF Inv

(***************************************************************************)
(* The steps that leave the semaphores alone: a switch to the head of a    *)
(* queue that holds the ready threads and perhaps the running one.         *)
(***************************************************************************)
LEMMA StartInv == ASSUME Inv, NEW t \in Thread, Start(t) PROVE Inv'
<1>0. t \notin Started
  BY DEF Start
<1>1. /\ ReadyQ' = AddQueue(ReadyQ, t)
      /\ UNCHANGED <<Curr_Thread, count, TCB_Q>>
      /\ t \notin Range(ReadyQ)
      /\ t # Curr_Thread
      /\ \A s \in Semaphore : t \notin Blocked(s)
  <2>1. /\ ReadyQ' = AddQueue(ReadyQ, t)
        /\ UNCHANGED <<Curr_Thread, count, TCB_Q>>
    BY DEF Start, start_thread
  <2>2. t \notin Range(ReadyQ)
    BY <1>0 DEF Started
  <2>3. t # Curr_Thread
    BY <1>0 DEF Started
  <2>4. ASSUME NEW s \in Semaphore PROVE t \notin Blocked(s)
    <3>1. Blocked(s) \subseteq UNION {Blocked(r) : r \in Semaphore}
      OBVIOUS
    <3> QED BY <1>0, <3>1 DEF Started
  <2> QED BY <2>1, <2>2, <2>3, <2>4
<1>2. /\ ReadyQ' \in Seq(Thread)
      /\ Range(ReadyQ') = Range(ReadyQ) \cup {t}
      /\ IsInjective(ReadyQ')
  <2>1. ReadyQ \in Seq(Thread) /\ IsInjective(ReadyQ)
    BY DEF Inv, TypeOK, OnePlace, ReadyPlace
  <2> QED BY <1>1, <2>1, AddThread
<1>3. TypeOK'
  BY <1>1, <1>2 DEF Inv, TypeOK
<1>4. OnePlace'
  BY <1>1, <1>2 DEF Inv, OnePlace, ReadyPlace, BlockedPlace, SemaphorePlace, Blocked
<1>5. CountMatchesWaiters'
  BY <1>1 DEF Inv, CountMatchesWaiters
<1> QED BY <1>3, <1>4, <1>5 DEF Inv

LEMMA SwitchInv ==
  ASSUME Inv, NEW q \in Seq(Thread), IsInjective(q),
         Range(q) \subseteq Range(ReadyQ) \cup {Curr_Thread},
         Dispatch(q), UNCHANGED <<count, TCB_Q>>
  PROVE  Inv'
<1> USE ThreadAssumption
<1>1. /\ ReadyQ' \in Seq(Thread)
      /\ Range(ReadyQ') \subseteq Range(q)
      /\ Curr_Thread' \in Thread \cup {NULL}
      /\ Curr_Thread' = NULL \/ Curr_Thread' \in Range(q)
      /\ IsInjective(ReadyQ') /\ Curr_Thread' \notin Range(ReadyQ')
  BY DispatchProperties
<1>2. TypeOK'
  BY <1>1 DEF Inv, TypeOK
<1>3. \A s \in Semaphore : Blocked(s) \subseteq Thread
  BY RangeOfSeq DEF Inv, TypeOK, Blocked
<1>4. OnePlace'
  BY <1>1, <1>3 DEF Inv, OnePlace, ReadyPlace, BlockedPlace, SemaphorePlace, Blocked
<1>5. CountMatchesWaiters'
  BY DEF Inv, CountMatchesWaiters
<1> QED BY <1>2, <1>4, <1>5 DEF Inv

LEMMA RunInv == ASSUME Inv, Run PROVE Inv'
<1>1. /\ ReadyQ \in Seq(Thread) /\ IsInjective(ReadyQ)
      /\ Dispatch(ReadyQ) /\ UNCHANGED <<count, TCB_Q>>
  BY DEF Inv, TypeOK, OnePlace, ReadyPlace, Run, run
<1> QED BY <1>1, SwitchInv

\* The ready queue behind which a running thread puts itself.
LEMMA Requeued ==
  ASSUME Inv, Curr_Thread \in Thread
  PROVE  /\ AddQueue(ReadyQ, Curr_Thread) \in Seq(Thread)
         /\ AddQueue(ReadyQ, Curr_Thread) # <<>>
         /\ IsInjective(AddQueue(ReadyQ, Curr_Thread))
         /\ Range(AddQueue(ReadyQ, Curr_Thread)) = Range(ReadyQ) \cup {Curr_Thread}
BY AddThread DEF Inv, TypeOK, OnePlace, ReadyPlace

LEMMA YieldInv == ASSUME Inv, Yield PROVE Inv'
<1>1. /\ Curr_Thread \in Thread
      /\ Dispatch(AddQueue(ReadyQ, Curr_Thread)) /\ UNCHANGED <<count, TCB_Q>>
  BY DEF Yield, yield
<1> QED BY <1>1, Requeued, SwitchInv

(***************************************************************************)
(* P: below zero the running thread moves to the semaphore's queue.        *)
(***************************************************************************)
LEMMA PInv == ASSUME Inv, NEW s \in Semaphore, P(s) PROVE Inv'
<1> USE ThreadAssumption
<1>1. /\ Curr_Thread \in Thread
      /\ count' = [count EXCEPT ![s] = count[s] - 1]
      /\ count'[s] = count[s] - 1
      /\ count[s] \in Int
  BY DEF P, Inv, TypeOK
<1>2. CASE count'[s] < 0 /\ Block(s)
  <2> DEFINE q == AddQueue(TCB_Q[s], Curr_Thread)
  <2>1. /\ TCB_Q' = [TCB_Q EXCEPT ![s] = q]
        /\ Dispatch(ReadyQ)
    BY <1>2 DEF Block
  <2>2. /\ q \in Seq(Thread)
        /\ Len(q) = Len(TCB_Q[s]) + 1
        /\ Range(q) = Range(TCB_Q[s]) \cup {Curr_Thread}
        /\ IsInjective(q)
    BY <1>1, AddQueueProperties DEF Inv, TypeOK, OnePlace, BlockedPlace, Blocked
  <2>3. /\ ReadyQ' \in Seq(Thread)
        /\ Range(ReadyQ') \subseteq Range(ReadyQ)
        /\ Curr_Thread' \in Thread \cup {NULL}
        /\ Curr_Thread' = NULL \/ Curr_Thread' \in Range(ReadyQ)
        /\ IsInjective(ReadyQ') /\ Curr_Thread' \notin Range(ReadyQ')
    BY <2>1, DispatchProperties DEF Inv, TypeOK, OnePlace, ReadyPlace
  <2>4. /\ TCB_Q'[s] = q
        /\ \A r \in Semaphore \ {s} : TCB_Q'[r] = TCB_Q[r]
    BY <2>1 DEF Inv, TypeOK
  <2>5. TypeOK'
    BY <1>1, <2>1, <2>2, <2>3 DEF Inv, TypeOK
  <2>6. OnePlace'
    <3>1. \A r \in Semaphore : Blocked(r) \subseteq Thread
      BY RangeOfSeq DEF Inv, TypeOK, Blocked
    <3>2. ReadyPlace'
      BY <2>3 DEF ReadyPlace
    <3>3. BlockedPlace'
      BY <1>1, <2>2, <2>3, <2>4, <3>1
      DEF Inv, OnePlace, ReadyPlace, BlockedPlace, Blocked
    <3>4. SemaphorePlace'
      BY <2>2, <2>4 DEF Inv, OnePlace, BlockedPlace, SemaphorePlace, Blocked
    <3> QED BY <3>2, <3>3, <3>4 DEF OnePlace
  <2>7. CountMatchesWaiters'
    BY <1>1, <1>2, <2>2, <2>4 DEF Inv, TypeOK, CountMatchesWaiters
  <2> QED BY <2>5, <2>6, <2>7 DEF Inv
<1>3. CASE count'[s] >= 0 /\ UNCHANGED <<threadVars, TCB_Q>>
  <2>1. TypeOK' /\ OnePlace'
    BY <1>1, <1>3 DEF Inv, TypeOK, OnePlace, ReadyPlace, BlockedPlace,
                      SemaphorePlace, Blocked, threadVars
  <2>2. CountMatchesWaiters'
    BY <1>1, <1>3 DEF Inv, TypeOK, CountMatchesWaiters
  <2> QED BY <2>1, <2>2 DEF Inv
<1> QED BY <1>2, <1>3 DEF P

(***************************************************************************)
(* V: a count below zero is the length of the semaphore's queue, so that   *)
(* there is a thread to wake.                                              *)
(***************************************************************************)
LEMMA SomebodyWaits ==
  ASSUME Inv, NEW s \in Semaphore, count[s] < 0
  PROVE  /\ TCB_Q[s] # <<>>
         /\ DelQueue(TCB_Q[s]).item \in Thread
         /\ DelQueue(TCB_Q[s]).item # NULL
<1>1. TCB_Q[s] \in Seq(Thread) /\ TCB_Q[s] # <<>>
  BY EmptySeq DEF Inv, TypeOK, CountMatchesWaiters
<1> QED BY <1>1, DelQueueProperties, ThreadAssumption

LEMMA VInv == ASSUME Inv, NEW s \in Semaphore, V(s) PROVE Inv'
<1> USE ThreadAssumption
<1>1. /\ Curr_Thread \in Thread
      /\ count' = [count EXCEPT ![s] = count[s] + 1]
      /\ count'[s] = count[s] + 1
      /\ count[s] \in Int
  BY DEF V, Inv, TypeOK
<1>2. CASE count'[s] <= 0 /\ Wake(s)
  <2> DEFINE w == DelQueue(TCB_Q[s]).item
             rest == DelQueue(TCB_Q[s]).rest
             q1 == AddQueue(ReadyQ, w)
             q2 == AddQueue(q1, Curr_Thread)
  <2>1. TCB_Q[s] # <<>> /\ w \in Thread /\ w # NULL
    BY <1>1, <1>2, SomebodyWaits
  <2>2. TCB_Q' = [TCB_Q EXCEPT ![s] = rest] /\ Dispatch(q2)
    BY <1>2, <2>1 DEF Wake
  <2>3. /\ rest \in Seq(Thread)
        /\ Len(rest) = Len(TCB_Q[s]) - 1
        /\ Range(TCB_Q[s]) = Range(rest) \cup {w}
        /\ IsInjective(rest)
        /\ w \notin Range(rest)
    BY <2>1, DelQueueProperties DEF Inv, TypeOK, OnePlace, BlockedPlace
  <2>4. /\ w \notin Range(ReadyQ)
        /\ w # Curr_Thread
    <3>1. w \in Blocked(s)
      BY <2>3 DEF Blocked
    <3> QED BY <3>1 DEF Inv, OnePlace, BlockedPlace
  <2>5. /\ q2 \in Seq(Thread)
        /\ Range(q2) = Range(ReadyQ) \cup {w, Curr_Thread}
        /\ IsInjective(q2)
        /\ q2 # <<>>
    <3>1. /\ ReadyQ \in Seq(Thread)
          /\ IsInjective(ReadyQ)
          /\ Curr_Thread \notin Range(ReadyQ)
      BY DEF Inv, TypeOK, OnePlace, ReadyPlace
    <3>2. /\ q1 \in Seq(Thread)
          /\ Range(q1) = Range(ReadyQ) \cup {w}
          /\ IsInjective(q1)
      BY <2>1, <2>4, <3>1, AddThread
    <3>3. Curr_Thread \notin Range(q1)
      BY <2>4, <3>1, <3>2
    <3>4. /\ q2 \in Seq(Thread)
          /\ Range(q2) = Range(q1) \cup {Curr_Thread}
          /\ IsInjective(q2)
          /\ q2 # <<>>
      BY <1>1, <3>2, <3>3, AddThread
    <3> QED BY <3>2, <3>4
  <2>6. /\ ReadyQ' \in Seq(Thread)
        /\ Range(ReadyQ') \subseteq Range(q2)
        /\ Curr_Thread' \in Thread
        /\ Curr_Thread' \in Range(q2)
        /\ IsInjective(ReadyQ') /\ Curr_Thread' \notin Range(ReadyQ')
    BY <2>2, <2>5, DispatchProperties
  <2>7. /\ TCB_Q'[s] = rest
        /\ \A r \in Semaphore \ {s} : TCB_Q'[r] = TCB_Q[r]
    BY <2>2 DEF Inv, TypeOK
  <2>8. TypeOK'
    BY <1>1, <2>2, <2>3, <2>6 DEF Inv, TypeOK
  <2>9. OnePlace'
    <3>1. ReadyPlace'
      BY <2>6 DEF ReadyPlace
    <3>2. BlockedPlace'
      <4> SUFFICES ASSUME NEW r \in Semaphore
                   PROVE  /\ IsInjective(TCB_Q'[r])
                          /\ Curr_Thread' \notin Range(TCB_Q'[r])
                          /\ Range(TCB_Q'[r]) \cap Range(ReadyQ') = {}
        BY DEF BlockedPlace, Blocked
      <4>1. /\ IsInjective(TCB_Q[r])
            /\ Curr_Thread \notin Blocked(r)
            /\ Blocked(r) \cap Range(ReadyQ) = {}
        BY DEF Inv, OnePlace, BlockedPlace
      <4>2. w \notin Range(TCB_Q'[r])
        <5>1. CASE r = s
          BY <2>3, <2>7, <5>1
        <5>2. CASE r # s
          BY <2>3, <2>7, <5>2 DEF Inv, OnePlace, SemaphorePlace, Blocked
        <5> QED BY <5>1, <5>2
      <4>3. Range(TCB_Q'[r]) \subseteq Blocked(r) /\ IsInjective(TCB_Q'[r])
        BY <2>3, <2>7, <4>1 DEF Blocked
      <4>4. Range(TCB_Q'[r]) \cap Range(q2) = {}
        BY <2>5, <4>1, <4>2, <4>3
      <4> QED BY <2>6, <4>3, <4>4
    <3>3. SemaphorePlace'
      BY <2>3, <2>7 DEF Inv, OnePlace, SemaphorePlace, Blocked
    <3> QED BY <3>1, <3>2, <3>3 DEF OnePlace
  <2>10. CountMatchesWaiters'
    BY <1>1, <1>2, <2>3, <2>7 DEF Inv, TypeOK, CountMatchesWaiters
  <2> QED BY <2>8, <2>9, <2>10 DEF Inv
<1>3. CASE count'[s] > 0 /\ yield /\ UNCHANGED TCB_Q
  <2>1. Dispatch(AddQueue(ReadyQ, Curr_Thread))
    BY <1>3 DEF yield
  <2>2. /\ ReadyQ' \in Seq(Thread)
        /\ Range(ReadyQ') \subseteq Range(ReadyQ) \cup {Curr_Thread}
        /\ Curr_Thread' \in Thread
        /\ Curr_Thread' \in Range(ReadyQ) \cup {Curr_Thread}
        /\ IsInjective(ReadyQ') /\ Curr_Thread' \notin Range(ReadyQ')
    BY <1>1, <2>1, Requeued, DispatchProperties
  <2>3. TypeOK'
    BY <1>1, <1>3, <2>2 DEF Inv, TypeOK
  <2>4. OnePlace'
    BY <1>3, <2>2 DEF Inv, OnePlace, ReadyPlace, BlockedPlace, SemaphorePlace, Blocked
  <2>5. CountMatchesWaiters'
    BY <1>1, <1>3 DEF Inv, TypeOK, CountMatchesWaiters
  <2> QED BY <2>3, <2>4, <2>5 DEF Inv
<1> QED BY <1>2, <1>3 DEF V

LEMMA NextInv == Inv /\ [Next]_semVars => Inv'
<1> SUFFICES ASSUME Inv, [Next]_semVars PROVE Inv'
  OBVIOUS
<1>1. ASSUME NEW t \in Thread, Start(t) PROVE Inv'
  BY <1>1, StartInv
<1>2. CASE Run
  BY <1>2, RunInv
<1>3. CASE Yield
  BY <1>3, YieldInv
<1>4. ASSUME NEW s \in Semaphore, P(s) PROVE Inv'
  BY <1>4, PInv
<1>5. ASSUME NEW s \in Semaphore, V(s) PROVE Inv'
  BY <1>5, VInv
<1>6. CASE UNCHANGED semVars
  BY <1>6 DEF semVars, Inv, TypeOK, OnePlace, ReadyPlace, BlockedPlace,
              SemaphorePlace, Blocked, CountMatchesWaiters
<1> QED BY <1>1, <1>2, <1>3, <1>4, <1>5, <1>6 DEF Next

\* Every reachable state of the kernel is well formed, under any program.
LEMMA SpecInv == Spec => []Inv
BY InitInv, NextInv, PTL DEF Spec

\* The variables of the kernel keep their types.
THEOREM KernelTypeOK == Spec => []TypeOK
<1>1. Inv => TypeOK
  BY DEF Inv
<1> QED BY <1>1, SpecInv, PTL

\* No TCB is ever in two queues, or twice in one, or queued while it runs.
THEOREM KernelOnePlace == Spec => []OnePlace
<1>1. Inv => OnePlace
  BY DEF Inv
<1> QED BY <1>1, SpecInv, PTL

\* A semaphore's count tells the length of its queue.
THEOREM KernelCountMatchesWaiters == Spec => []CountMatchesWaiters
<1>1. Inv => CountMatchesWaiters
  BY DEF Inv
<1> QED BY <1>1, SpecInv, PTL
-----------------------------------------------------------------------------
(***************************************************************************)
(* The action properties, from the invariant in the state before the step. *)
(***************************************************************************)
Waiters == UNION {Blocked(s) : s \in Semaphore}

\* A step that leaves nobody running finds nobody ready.
LEMMA DispatchNobody ==
  ASSUME NEW q \in Seq(Thread), Dispatch(q), Curr_Thread' = NULL
  PROVE  q = <<>>
BY DispatchProperties, ThreadAssumption

LEMMA DiesStep ==
  ASSUME Inv, Next, Curr_Thread' = NULL
  PROVE  Started \subseteq UNION {Blocked(s)' : s \in Semaphore}
<1> USE ThreadAssumption
<1>0. Range(<<>>) = {} /\ ReadyQ \in Seq(Thread)
  BY DEF Inv, TypeOK, Range
<1>1. ASSUME NEW t \in Thread, Start(t) PROVE FALSE
  BY <1>1 DEF Start, start_thread
<1>2. CASE Run
  <2>1. ReadyQ = <<>> /\ TCB_Q' = TCB_Q /\ Curr_Thread = Main
    BY <1>0, <1>2, DispatchNobody DEF Run, run
  <2>2. Started = Waiters
    BY <1>0, <2>1 DEF Started, Waiters
  <2>3. \A s \in Semaphore : Blocked(s)' = Blocked(s)
    BY <2>1 DEF Blocked
  <2> QED BY <2>2, <2>3 DEF Waiters
<1>3. CASE Yield
  <2>1. /\ AddQueue(ReadyQ, Curr_Thread) \in Seq(Thread)
        /\ AddQueue(ReadyQ, Curr_Thread) # <<>>
        /\ Dispatch(AddQueue(ReadyQ, Curr_Thread))
    BY <1>3, Requeued DEF Yield, yield
  <2> QED BY <2>1, DispatchNobody
<1>4. ASSUME NEW s \in Semaphore, P(s)
      PROVE  Started \subseteq UNION {Blocked(r)' : r \in Semaphore}
  <2>1. CASE Block(s)
    <3>1. /\ Curr_Thread \in Thread
          /\ TCB_Q' = [TCB_Q EXCEPT ![s] = AddQueue(TCB_Q[s], Curr_Thread)]
          /\ ReadyQ = <<>>
      BY <1>0, <1>4, <2>1, DispatchNobody DEF P, Block
    <3>2. Range(AddQueue(TCB_Q[s], Curr_Thread)) = Blocked(s) \cup {Curr_Thread}
      <4>1. TCB_Q[s] \in Seq(Thread)
        BY DEF Inv, TypeOK
      <4> QED BY <3>1, <4>1, AddQueueProperties DEF Blocked
    <3>3. /\ Blocked(s)' = Blocked(s) \cup {Curr_Thread}
          /\ \A r \in Semaphore \ {s} : Blocked(r)' = Blocked(r)
      BY <3>1, <3>2 DEF Inv, TypeOK, Blocked
    <3>4. Started = Waiters \cup {Curr_Thread}
      BY <1>0, <3>1 DEF Started, Waiters
    <3> QED BY <3>3, <3>4 DEF Waiters
  <2>2. CASE UNCHANGED <<threadVars, TCB_Q>>
    BY <1>4, <2>2 DEF P, threadVars
  <2> QED BY <1>4, <2>1, <2>2 DEF P
<1>5. ASSUME NEW s \in Semaphore, V(s) PROVE FALSE
  <2>1. Curr_Thread \in Thread
    BY <1>5 DEF V
  <2>2. CASE count'[s] <= 0 /\ Wake(s)
    <3> DEFINE w == DelQueue(TCB_Q[s]).item
    <3>1. count[s] < 0
      BY <1>5, <2>2 DEF V, Inv, TypeOK
    <3>2. w \in Thread /\ w # NULL
      BY <3>1, SomebodyWaits
    <3>3. Dispatch(AddQueue(AddQueue(ReadyQ, w), Curr_Thread))
      BY <2>2, <3>2 DEF Wake
    <3> HIDE DEF w
    <3>4. AddQueue(ReadyQ, w) \in Seq(Thread)
      BY <1>0, <3>2, AddQueueProperties
    <3>5. /\ AddQueue(AddQueue(ReadyQ, w), Curr_Thread) \in Seq(Thread)
          /\ AddQueue(AddQueue(ReadyQ, w), Curr_Thread) # <<>>
      BY <2>1, <3>4, AddQueueProperties
    <3> QED BY <3>3, <3>5, DispatchNobody
  <2>3. CASE yield
    <3>1. /\ AddQueue(ReadyQ, Curr_Thread) \in Seq(Thread)
          /\ AddQueue(ReadyQ, Curr_Thread) # <<>>
          /\ Dispatch(AddQueue(ReadyQ, Curr_Thread))
      BY <2>1, <2>3, Requeued DEF yield
    <3> QED BY <3>1, DispatchNobody
  <2> QED BY <1>5, <2>2, <2>3 DEF V
<1> QED BY <1>1, <1>2, <1>3, <1>4, <1>5 DEF Next

\* The process dies only in a deadlock of all the threads that were started.
THEOREM KernelDiesOnlyWhenAllBlocked == Spec => DiesOnlyWhenAllBlocked
<1>1. Inv /\ [Next]_semVars =>
        [Curr_Thread' = NULL =>
           Started \subseteq UNION {Blocked(s)' : s \in Semaphore}]_semVars
  BY DiesStep
<1> QED BY <1>1, SpecInv, PTL DEF Spec, DiesOnlyWhenAllBlocked

(***************************************************************************)
(* The ready queue is served in order.                                     *)
(***************************************************************************)
InOrder == \/ Extends(ReadyQ, ReadyQ')
           \/ /\ ReadyQ # <<>>
              /\ Curr_Thread' = Head(ReadyQ)
              /\ Extends(Tail(ReadyQ), ReadyQ')

\* A switch to the head of a queue that the ready queue has grown into.
LEMMA DispatchInOrder ==
  ASSUME NEW q \in Seq(Thread), ReadyQ \in Seq(Thread), Extends(ReadyQ, q), Dispatch(q)
  PROVE  InOrder
<1>1. CASE ReadyQ = <<>>
  <2>1. ReadyQ' \in Seq(Thread) /\ Len(ReadyQ) = 0
    BY <1>1, DispatchProperties
  <2>2. Len(ReadyQ') \in Nat
    BY <2>1, LenProperties
  <2> QED BY <2>1, <2>2 DEF InOrder, Extends
<1>2. CASE ReadyQ # <<>>
  <2>1. Len(ReadyQ) \in Nat \ {0} /\ Len(q) \in Nat
    BY <1>2, LenProperties, EmptySeq
  <2>2. q # <<>>
    BY <2>1, EmptySeq DEF Extends
  <2>3. Curr_Thread' = Head(q) /\ ReadyQ' = Tail(q)
    BY <2>2 DEF Dispatch, DelQueue
  <2>4. Head(q) = q[1] /\ Head(ReadyQ) = ReadyQ[1] /\ q[1] = ReadyQ[1]
    BY <1>2, <2>1, <2>2, HeadTailProperties DEF Extends
  <2>5. /\ Len(Tail(q)) = Len(q) - 1
        /\ Len(Tail(ReadyQ)) = Len(ReadyQ) - 1
        /\ \A i \in 1..Len(Tail(q)) : Tail(q)[i] = q[i + 1]
        /\ \A i \in 1..Len(Tail(ReadyQ)) : Tail(ReadyQ)[i] = ReadyQ[i + 1]
    BY <1>2, <2>2, HeadTailProperties
  <2>6. Extends(Tail(ReadyQ), Tail(q))
    BY <2>1, <2>5 DEF Extends
  <2> QED BY <1>2, <2>3, <2>4, <2>6 DEF InOrder
<1> QED BY <1>1, <1>2

\* A queue grows at its tail.
LEMMA AddQueueExtends ==
  ASSUME NEW p, NEW q \in Seq(Thread), NEW t \in Thread, Extends(p, q), Len(p) \in Nat
  PROVE  AddQueue(q, t) \in Seq(Thread) /\ Extends(p, AddQueue(q, t))
<1>1. /\ AddQueue(q, t) \in Seq(Thread)
      /\ Len(AddQueue(q, t)) = Len(q) + 1
      /\ \A i \in 1..Len(q) : AddQueue(q, t)[i] = q[i]
  BY AddQueueProperties
<1>2. Len(q) \in Nat
  BY LenProperties
<1> QED BY <1>1, <1>2 DEF Extends

\* A caller that goes to the tail of a queue, and the switch to its head.
LEMMA GoesLast ==
  ASSUME NEW q \in Seq(Thread), Curr_Thread \in Thread, Dispatch(AddQueue(q, Curr_Thread))
  PROVE  CallerGoesLast
<1> DEFINE grown == AddQueue(q, Curr_Thread)
<1>1. /\ grown \in Seq(Thread) /\ grown # <<>> /\ Len(grown) = Len(q) + 1
      /\ Len(q) \in Nat
      /\ grown[Len(q) + 1] = Curr_Thread
  BY AddQueueProperties, AppendProperties, LenProperties DEF AddQueue
<1>2. ReadyQ' = Tail(grown)
  BY <1>1 DEF Dispatch, DelQueue
<1> HIDE DEF grown
<1>3. /\ Tail(grown) \in Seq(Thread) /\ Len(Tail(grown)) = Len(q)
      /\ \A i \in 1..Len(Tail(grown)) : Tail(grown)[i] = grown[i + 1]
  BY <1>1, HeadTailProperties
<1>4. CASE Len(q) = 0
  <2>1. ReadyQ' = <<>>
    BY <1>2, <1>3, <1>4, EmptySeq
  <2> QED BY <2>1 DEF CallerGoesLast, Range
<1>5. CASE Len(q) # 0
  <2>1. Len(q) \in 1..Len(Tail(grown))
    BY <1>1, <1>3, <1>5
  <2> QED BY <1>1, <1>2, <1>3, <2>1 DEF CallerGoesLast
<1> QED BY <1>4, <1>5

\* A caller that is in no queue, and the switch to the head of the ready queue.
LEMMA GoesNowhere ==
  ASSUME Inv, Dispatch(ReadyQ)
  PROVE  CallerGoesLast
BY DispatchProperties DEF CallerGoesLast, Inv, TypeOK, OnePlace, ReadyPlace

LEMMA CallerLastStep ==
  ASSUME Inv, [Next]_semVars
  PROVE  CallerGoesLast
<1>0. ReadyQ \in Seq(Thread)
  BY DEF Inv, TypeOK
<1>1. CASE yield
  BY <1>0, <1>1, GoesLast DEF yield
<1>2. CASE Curr_Thread' = Curr_Thread
  BY <1>2 DEF CallerGoesLast
<1>3. CASE Dispatch(ReadyQ)
  BY <1>3, GoesNowhere
<1>4. ASSUME NEW s \in Semaphore, P(s) PROVE CallerGoesLast
  BY <1>2, <1>3, <1>4 DEF P, Block, threadVars
<1>5. ASSUME NEW s \in Semaphore, V(s) PROVE CallerGoesLast
  <2>1. CASE count'[s] <= 0 /\ Wake(s)
    <3> DEFINE w == DelQueue(TCB_Q[s]).item
    <3>1. count[s] < 0
      BY <1>5, <2>1 DEF V, Inv, TypeOK
    <3>2. w \in Thread /\ w # NULL
      BY <3>1, SomebodyWaits
    <3>3. Dispatch(AddQueue(AddQueue(ReadyQ, w), Curr_Thread))
      BY <2>1, <3>2 DEF Wake
    <3> HIDE DEF w
    <3>4. AddQueue(ReadyQ, w) \in Seq(Thread)
      BY <1>0, <3>2, AddQueueProperties
    <3> QED BY <1>5, <3>3, <3>4, GoesLast DEF V
  <2> QED BY <1>1, <1>5, <2>1 DEF V
<1> QED BY <1>1, <1>2, <1>3, <1>4, <1>5
        DEF Next, Start, start_thread, Run, run, Yield, semVars

LEMMA InOrderStep ==
  ASSUME Inv, [Next]_semVars
  PROVE  InOrder
<1>0. /\ ReadyQ \in Seq(Thread)
      /\ Len(ReadyQ) \in Nat
      /\ Extends(ReadyQ, ReadyQ)
  BY LenProperties DEF Inv, TypeOK, Extends
<1>1. CASE yield
  BY <1>0, <1>1, AddQueueExtends, DispatchInOrder DEF yield
<1>2. CASE \E t \in Thread : Start(t)
  BY <1>0, <1>2, AddQueueExtends DEF Start, start_thread, InOrder
<1>3. CASE Run
  BY <1>0, <1>3, DispatchInOrder DEF Run, run
<1>4. CASE UNCHANGED ReadyQ
  BY <1>0, <1>4 DEF InOrder
<1>5. ASSUME NEW s \in Semaphore, P(s) PROVE InOrder
  <2>1. CASE Dispatch(ReadyQ)
    BY <1>0, <2>1, DispatchInOrder
  <2> QED BY <1>4, <1>5, <2>1 DEF P, Block, threadVars
<1>6. ASSUME NEW s \in Semaphore, V(s) PROVE InOrder
  <2>1. CASE count'[s] <= 0 /\ Wake(s)
    <3> DEFINE w == DelQueue(TCB_Q[s]).item
    <3>1. count[s] < 0
      BY <1>6, <2>1 DEF V, Inv, TypeOK
    <3>2. w \in Thread /\ w # NULL
      BY <3>1, SomebodyWaits
    <3>3. Dispatch(AddQueue(AddQueue(ReadyQ, w), Curr_Thread))
      BY <2>1, <3>2 DEF Wake
    <3> HIDE DEF w
    <3>4. AddQueue(ReadyQ, w) \in Seq(Thread) /\ Extends(ReadyQ, AddQueue(ReadyQ, w))
      BY <1>0, <3>2, AddQueueExtends
    <3>5. /\ AddQueue(AddQueue(ReadyQ, w), Curr_Thread) \in Seq(Thread)
          /\ Extends(ReadyQ, AddQueue(AddQueue(ReadyQ, w), Curr_Thread))
      BY <1>0, <1>6, <3>4, AddQueueExtends DEF V
    <3> QED BY <1>0, <3>3, <3>5, DispatchInOrder
  <2> QED BY <1>1, <1>6, <2>1 DEF V
<1> QED BY <1>1, <1>2, <1>3, <1>4, <1>5, <1>6 DEF Next, Yield, semVars

\* Ready threads run in the order in which they became ready, and a thread
\* that gives the processor away goes behind them all.
THEOREM KernelReadyInOrder == Spec => ReadyInOrder
<1>1. Inv /\ [Next]_semVars =>
        [/\ CallerGoesLast
         /\ \/ Extends(ReadyQ, ReadyQ')
            \/ /\ ReadyQ # <<>>
               /\ Curr_Thread' = Head(ReadyQ)
               /\ Extends(Tail(ReadyQ), ReadyQ')]_semVars
  BY InOrderStep, CallerLastStep DEF InOrder
<1> QED BY <1>1, SpecInv, PTL DEF Spec, ReadyInOrder
-----------------------------------------------------------------------------
(***************************************************************************)
(* The kernel implements the semaphores.                                   *)
(***************************************************************************)
LEMMA ImplementsInit == SemInit => Abstract!Init
BY SemAssumption DEF SemInit, Abstract!Init

LEMMA PAcquiresOrWaits ==
  ASSUME Inv, NEW s \in Semaphore, P(s)
  PROVE  Abstract!Next
<1> DEFINE tokens == [r \in Semaphore |-> IF count[r] > 0 THEN count[r] ELSE 0]
<1>0. /\ count \in [Semaphore -> Int]
      /\ TCB_Q \in [Semaphore -> Seq(Thread)]
      /\ Curr_Thread \in Thread
      /\ count' = [count EXCEPT ![s] = @ - 1]
  BY DEF Inv, TypeOK, P
<1>1. CASE count[s] > 0
  <2>1. UNCHANGED TCB_Q
    BY <1>0, <1>1 DEF P, threadVars
  <2>2. tokens' = [tokens EXCEPT ![s] = @ - 1]
    <3>1. \A r \in Semaphore :
            tokens'[r] = IF r = s THEN tokens[s] - 1 ELSE tokens[r]
      BY <1>0, <1>1
    <3> QED BY <3>1
  <2>3. tokens[s] > 0
    BY <1>1
  <2>4. Abstract!Acquire(s)
    BY <2>1, <2>2, <2>3 DEF Abstract!Acquire
  <2> QED BY <2>4 DEF Abstract!Next
<1>2. CASE count[s] <= 0
  <2>1. TCB_Q' = [TCB_Q EXCEPT ![s] = Append(@, Curr_Thread)]
    BY <1>0, <1>2 DEF P, Block, AddQueue
  <2>2. Curr_Thread \notin Abstract!Waiters
    BY DEF Abstract!Waiters, Abstract!Range, Range, Inv, OnePlace, BlockedPlace, Blocked
  <2>3. Abstract!Wait(Curr_Thread, s)
    BY <1>0, <1>2, <2>1, <2>2 DEF Abstract!Wait
  <2> QED BY <1>0, <2>3 DEF Abstract!Next
<1> QED BY <1>0, <1>1, <1>2

LEMMA VReleasesOrGrants ==
  ASSUME Inv, NEW s \in Semaphore, V(s)
  PROVE  Abstract!Next
<1> DEFINE tokens == [r \in Semaphore |-> IF count[r] > 0 THEN count[r] ELSE 0]
<1>0. /\ count \in [Semaphore -> Int]
      /\ TCB_Q \in [Semaphore -> Seq(Thread)]
      /\ count' = [count EXCEPT ![s] = @ + 1]
      /\ Len(TCB_Q[s]) = IF count[s] < 0 THEN -count[s] ELSE 0
  BY DEF Inv, TypeOK, CountMatchesWaiters, V
<1>1. CASE count[s] >= 0
  <2>1. UNCHANGED TCB_Q
    BY <1>0, <1>1 DEF V
  <2>2. TCB_Q[s] = <<>>
    BY <1>0, <1>1, EmptySeq
  <2>3. tokens' = [tokens EXCEPT ![s] = @ + 1]
    <3>1. \A r \in Semaphore :
            tokens'[r] = IF r = s THEN tokens[s] + 1 ELSE tokens[r]
      BY <1>0, <1>1
    <3> QED BY <3>1
  <2>4. Abstract!Release(s)
    BY <2>1, <2>2, <2>3 DEF Abstract!Release
  <2> QED BY <2>4 DEF Abstract!Next
<1>2. CASE count[s] < 0
  <2>1. DelQueue(TCB_Q[s]).item # NULL /\ TCB_Q[s] # <<>>
    BY <1>0, <1>2, SomebodyWaits, ThreadAssumption, EmptySeq
  <2>2. TCB_Q' = [TCB_Q EXCEPT ![s] = Tail(@)]
    BY <1>0, <1>2, <2>1 DEF V, Wake, DelQueue
  <2>3. Abstract!Grant(s)
    BY <1>0, <1>2, <2>1, <2>2 DEF Abstract!Grant
  <2> QED BY <2>3 DEF Abstract!Next
<1> QED BY <1>0, <1>1, <1>2

LEMMA ImplementsNext ==
  ASSUME Inv, [Next]_semVars
  PROVE  [Abstract!Next]_(Abstract!absVars)
<1>1. CASE UNCHANGED <<count, TCB_Q>>
  BY <1>1 DEF Abstract!absVars
<1> QED BY <1>1, PAcquiresOrWaits, VReleasesOrGrants
        DEF Next, Start, Run, Yield, semVars

\* The kernel implements first-come, first-served counting semaphores.
THEOREM KernelImplementsSemaphores == Spec => ImplementsSemaphores
BY ImplementsInit, ImplementsNext, SpecInv, PTL
   DEF Spec, ImplementsSemaphores, Abstract!Spec
=============================================================================
