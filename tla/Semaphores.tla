----------------------------- MODULE Semaphores -----------------------------
(***************************************************************************)
(* What sem.h promises: counting semaphores with first-come, first-served  *)
(* waiting.  available[s] tokens are there for the taking; waiting[s] are  *)
(* the threads queued for one.  A thread waits only while no token is      *)
(* available, and a released token goes straight to the longest waiting    *)
(* thread: a newcomer can never take it first.                             *)
(***************************************************************************)
EXTENDS Integers, Sequences, Functions

CONSTANTS Thread, Semaphore, InputValue

VARIABLES available, waiting

absVars == <<available, waiting>>

Init == /\ available = InputValue
        /\ waiting = [s \in Semaphore |-> <<>>]

Waiters == UNION {Range(waiting[s]) : s \in Semaphore}

Acquire(s) == /\ available[s] > 0
              /\ available' = [available EXCEPT ![s] = @ - 1]
              /\ UNCHANGED waiting

Wait(t, s) == /\ available[s] = 0
              /\ t \notin Waiters
              /\ waiting' = [waiting EXCEPT ![s] = Append(@, t)]
              /\ UNCHANGED available

Release(s) == /\ waiting[s] = <<>>
              /\ available' = [available EXCEPT ![s] = @ + 1]
              /\ UNCHANGED waiting

Grant(s) == /\ waiting[s] # <<>>
            /\ waiting' = [waiting EXCEPT ![s] = Tail(@)]
            /\ UNCHANGED available

Next == \E s \in Semaphore : \/ Acquire(s)
                             \/ \E t \in Thread : Wait(t, s)
                             \/ Release(s)
                             \/ Grant(s)

Spec == Init /\ [][Next]_absVars
=============================================================================
