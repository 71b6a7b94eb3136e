------------------------------- MODULE Kernel -------------------------------
(***************************************************************************)
(* The scheduler and the semaphores under any program: main() starts       *)
(* threads in any number and order, and a running thread may start a       *)
(* thread, yield, or call P or V of any semaphore at any time.  Whatever   *)
(* is shown here holds in every program of Projects 3 to 5, whose threads  *)
(* use the kernel through these calls only.                                *)
(***************************************************************************)
EXTENDS Sem

CONSTANT MaxCount   \* V is not called at this count (a bound for TLC)

Start(t) == /\ t \notin Started
            /\ start_thread(t)
            /\ UNCHANGED <<count, TCB_Q>>

Run == run /\ UNCHANGED <<count, TCB_Q>>

Yield == yield /\ UNCHANGED <<count, TCB_Q>>

\* Any program: func of Project 3's sem_test.c, for one, calls P and V in turn.
Next == \/ \E t \in Thread : Start(t)
        \/ Run
        \/ Yield
        \/ \E s \in Semaphore : P(s)
        \/ \E s \in Semaphore : count[s] < MaxCount /\ V(s)

Spec == SemInit /\ [][Next]_semVars

(***************************************************************************)
(* A running thread goes on making calls: that is all the liveness of a    *)
(* scheduler without preemption can rest on.                               *)
(***************************************************************************)
FairSpec == Spec /\ WF_semVars(Next)
-----------------------------------------------------------------------------
TypeOK == /\ ReadyQ \in Seq(Thread)
          /\ Curr_Thread \in Thread \cup {Main, NULL}
          /\ count \in [Semaphore -> Int]
          /\ TCB_Q \in [Semaphore -> Seq(Thread)]

(***************************************************************************)
(* A TCB is in one place: at one position of the ready queue, or of one    *)
(* semaphore's queue, or running.  The lists of q.h are threaded through   *)
(* the items themselves, so that a TCB linked in twice corrupts both.      *)
(***************************************************************************)
ReadyPlace == /\ IsInjective(ReadyQ)
              /\ Curr_Thread \notin Range(ReadyQ)
BlockedPlace == \A s \in Semaphore : /\ IsInjective(TCB_Q[s])
                                     /\ Curr_Thread \notin Blocked(s)
                                     /\ Blocked(s) \cap Range(ReadyQ) = {}
SemaphorePlace == \A r, s \in Semaphore : r # s => Blocked(r) \cap Blocked(s) = {}
OnePlace == ReadyPlace /\ BlockedPlace /\ SemaphorePlace

(***************************************************************************)
(* A negative count is the number of blocked threads and a count of zero   *)
(* or more means that nobody waits: what V relies on when it passes        *)
(* DelQueue's result to AddQueue without looking at it.                    *)
(***************************************************************************)
CountMatchesWaiters ==
  \A s \in Semaphore : Len(TCB_Q[s]) = IF count[s] < 0 THEN -count[s] ELSE 0

(***************************************************************************)
(* The process dies on a null pointer only when no thread is left to run:  *)
(* every thread that was started is blocked on a semaphore.                *)
(***************************************************************************)
DiesOnlyWhenAllBlocked ==
  [][Curr_Thread' = NULL =>
       Started \subseteq UNION {Blocked(s)' : s \in Semaphore}]_semVars

(***************************************************************************)
(* Ready threads run in the order in which they became ready: a step       *)
(* leaves the ready queue alone, adds to its tail, or takes its head, and  *)
(* never moves or drops a thread behind it.  A thread that gives the       *)
(* processor away goes behind all others, the one that its V has woken     *)
(* included.                                                               *)
(***************************************************************************)
Extends(p, q) == /\ Len(p) <= Len(q)
                 /\ \A i \in 1..Len(p) : q[i] = p[i]
CallerGoesLast == Curr_Thread' # Curr_Thread /\ Curr_Thread \in Range(ReadyQ')
                    => ReadyQ'[Len(ReadyQ')] = Curr_Thread
ReadyInOrder ==
  [][/\ CallerGoesLast
     /\ \/ Extends(ReadyQ, ReadyQ')
        \/ /\ ReadyQ # <<>>
           /\ Curr_Thread' = Head(ReadyQ)
           /\ Extends(Tail(ReadyQ), ReadyQ')]_semVars

(***************************************************************************)
(* The kernel implements the semaphores: the tokens available are the      *)
(* positive part of the count.                                             *)
(***************************************************************************)
Abstract == INSTANCE Semaphores WITH
  available <- [s \in Semaphore |-> IF count[s] > 0 THEN count[s] ELSE 0],
  waiting <- TCB_Q
ImplementsSemaphores == Abstract!Spec

(***************************************************************************)
(* No ready thread is starved: it runs, provided that running threads go   *)
(* on making calls.                                                        *)
(***************************************************************************)
ReadyRuns == \A t \in Thread : t \in Range(ReadyQ) ~> Curr_Thread = t
=============================================================================
