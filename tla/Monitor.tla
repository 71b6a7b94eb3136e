------------------------------ MODULE Monitor ------------------------------
(***************************************************************************)
(* monitor.h of Project 1: a pthread mutex and condition variables.        *)
(* A thread is alone from monitor_entry to monitor_wait or monitor_exit:   *)
(* that is one step.  A signalled thread has to get the mutex again, and   *)
(* others may enter before it.                                             *)
(***************************************************************************)
CONSTANT Condition

VARIABLES waiting, pc

monitorVars == <<waiting, pc>>

MonitorInit(start) == /\ waiting = [c \in Condition |-> {}]
                      /\ pc = start

Waits(t) == \E c \in DOMAIN waiting : t \in waiting[c]

monitor_wait(t, c) == waiting' = [waiting EXCEPT ![c] = @ \cup {t}]

monitor_signal(c) ==
  \/ waiting[c] = {} /\ UNCHANGED waiting
  \/ \E t \in waiting[c] : waiting' = [waiting EXCEPT ![c] = @ \ {t}]

\* From entry, or from the return of a wait, to the next wait or the exit.
Inside(t, from, to) == /\ pc[t] = from
                       /\ ~Waits(t)
                       /\ pc' = [pc EXCEPT ![t] = to]
=============================================================================
