----------------------------- MODULE PthreadSem -----------------------------
(***************************************************************************)
(* The semaphores of Project 1 (sem.h), on a pthread mutex and a condition *)
(* variable.  P and V do all their work under the mutex, which P gives up  *)
(* as it begins to wait: each is one step.  A signal wakes any waiting     *)
(* thread, and a thread is woken by a signal only.                         *)
(*                                                                         *)
(* Programs are preempted between any two steps.  A thread that waits in P *)
(* has the pc it is going to have when P returns.                          *)
(***************************************************************************)
EXTENDS Integers, FiniteSets

CONSTANTS Child, Main,   \* the threads that main() starts, and main() itself
          Wrap           \* bound: what a program only counts up is kept modulo Wrap

ASSUME MainAssumption == Main \notin Child /\ IsFiniteSet(Child)
ASSUME WrapAssumption == Wrap \in Nat \ {0, 1}

Thread == Child \cup {Main}

VARIABLES count, waiting, pc

threads == <<count, waiting, pc>>

SemInit(values) == /\ count = values
                   /\ waiting = [s \in DOMAIN values |-> {}]

Blocked(t) == \E s \in DOMAIN waiting : t \in waiting[s]

\* A slip in P: the count is tested before it is decremented.
P_TestsFirst(t, s) == /\ count' = [count EXCEPT ![s] = @ - 1]
                      /\ waiting' = IF count[s] < 0
                                    THEN [waiting EXCEPT ![s] = @ \cup {t}]
                                    ELSE waiting

P(t, s) == /\ count' = [count EXCEPT ![s] = @ - 1]
           /\ waiting' = IF count'[s] < 0
                         THEN [waiting EXCEPT ![s] = @ \cup {t}]
                         ELSE waiting

V(s) == /\ count' = [count EXCEPT ![s] = @ + 1]
        /\ \/ /\ count'[s] <= 0
              /\ \E t \in waiting[s] : waiting' = [waiting EXCEPT ![s] = @ \ {t}]
           \/ /\ count'[s] > 0 \/ waiting[s] = {}
              /\ UNCHANGED waiting

\* Thread t goes from one point of its program to another.
Goto(t, from, to) == /\ pc[t] = from
                     /\ ~Blocked(t)
                     /\ pc' = [pc EXCEPT ![t] = to]

\* A step that calls neither P nor V.
NoCall == UNCHANGED <<count, waiting>>
=============================================================================
