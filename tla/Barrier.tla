------------------------------ MODULE Barrier ------------------------------
(***************************************************************************)
(* barrier.h and barrier_test.c of Project 1: every thread, main()         *)
(* included, calls barrier() once.  The last one to come releases the      *)
(* others, one V after the other, while it holds the lock.                 *)
(***************************************************************************)
EXTENDS PthreadSem

VARIABLES actual_count,
          released           \* i of the loop that releases the threads

barrierVars == <<actual_count, released>>

Parties == Cardinality(Thread)

BarrierInit == actual_count = 0 /\ released = 0

BarrierMain == /\ SemInit([lock |-> 1, barrier |-> 0])
               /\ pc = [t \in Thread |-> "arrive"]

\* One round of the loop.
Release == /\ released' = released + 1
           /\ actual_count' = actual_count - 1
           /\ V("barrier")

\* A slip in barrier: one thread too few is waited for.
barrier_OneShort(t) ==
  \/ Goto(t, "arrive", "test") /\ P(t, "lock") /\ UNCHANGED barrierVars
  \/ /\ actual_count < Parties - 2
     /\ Goto(t, "test", "wait")
     /\ actual_count' = actual_count + 1
     /\ V("lock")
     /\ UNCHANGED released
  \/ Goto(t, "wait", "passed") /\ P(t, "barrier") /\ UNCHANGED barrierVars
  \/ actual_count >= Parties - 2 /\ Goto(t, "test", "last") /\ Release
  \/ released < Parties /\ Goto(t, "last", "last") /\ Release
  \/ released = Parties /\ Goto(t, "last", "passed") /\ V("lock") /\ UNCHANGED barrierVars

\* A slip in barrier: the loop counts the threads down with actual_count.
barrier_LoopsShort(t) ==
  \/ Goto(t, "arrive", "test") /\ P(t, "lock") /\ UNCHANGED barrierVars
  \/ /\ actual_count # Parties - 1
     /\ Goto(t, "test", "wait")
     /\ actual_count' = actual_count + 1
     /\ V("lock")
     /\ UNCHANGED released
  \/ Goto(t, "wait", "passed") /\ P(t, "barrier") /\ UNCHANGED barrierVars
  \/ actual_count = Parties - 1 /\ Goto(t, "test", "last") /\ Release
  \/ released < actual_count /\ Goto(t, "last", "last") /\ Release
  \/ released >= actual_count /\ Goto(t, "last", "passed") /\ V("lock") /\ UNCHANGED barrierVars

barrier(t) ==
  \/ Goto(t, "arrive", "test") /\ P(t, "lock") /\ UNCHANGED barrierVars
  \/ /\ actual_count # Parties - 1
     /\ Goto(t, "test", "wait")
     /\ actual_count' = actual_count + 1
     /\ V("lock")
     /\ UNCHANGED released
  \/ Goto(t, "wait", "passed") /\ P(t, "barrier") /\ UNCHANGED barrierVars
  \/ actual_count = Parties - 1 /\ Goto(t, "test", "last") /\ Release
  \/ released < Parties /\ Goto(t, "last", "last") /\ Release
  \/ released = Parties /\ Goto(t, "last", "passed") /\ V("lock") /\ UNCHANGED barrierVars

Passed(t) == pc[t] = "passed" /\ ~Blocked(t)

\* main() spins when it has passed.
Spin == Passed(Main) /\ UNCHANGED <<threads, barrierVars>>
-----------------------------------------------------------------------------
(***************************************************************************)
(* A thread leaves the barrier only when all of them have come to it.      *)
(***************************************************************************)
NobodyPassesEarly ==
  (\E t \in Thread : Passed(t)) => \A t \in Thread : pc[t] \in {"wait", "last", "passed"}

(***************************************************************************)
(* All the threads leave the barrier in the end.                           *)
(***************************************************************************)
EveryonePasses == pc[Main] = "arrive" ~> \A t \in Thread : Passed(t)
=============================================================================
