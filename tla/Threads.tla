------------------------------ MODULE Threads ------------------------------
(***************************************************************************)
(* The non-preemptive scheduler of threads.h (Projects 2 to 5).            *)
(*                                                                         *)
(* A thread keeps the processor until it calls yield() or blocks on a      *)
(* semaphore: the module has no timer and no preemption.  ReadyQ holds     *)
(* the threads that may run, Curr_Thread the one that does.  The circular  *)
(* list of q.h is a sequence here, its head first; module Queue models     *)
(* the pointers and shows that they implement such a sequence as long as   *)
(* no thread is in two queues at once.                                     *)
(***************************************************************************)
EXTENDS Integers, Sequences, Functions

CONSTANTS Thread,   \* the TCBs that start_thread may allocate
          Main,     \* the context of main(), which has no TCB
          NULL      \* the null pointer

ASSUME ThreadAssumption == /\ Main \notin Thread
                           /\ NULL \notin Thread
                           /\ Main # NULL

VARIABLES ReadyQ,       \* threads.h: the global ready queue
          Curr_Thread   \* who has the processor: Main until run(); NULL
                        \* once the process has died on a null pointer

threadVars == <<ReadyQ, Curr_Thread>>

\* A slip in AddQueue: the head is moved to the item that was linked in.
AddQueue_AtHead(q, t) == <<t>> \o q

(***************************************************************************)
(* q.h on sequences: AddQueue links an item in at the tail, DelQueue       *)
(* unlinks the head and returns NULL when there is none.                   *)
(***************************************************************************)
AddQueue(q, t) == Append(q, t)

DelQueue(q) == [item |-> IF q = <<>> THEN NULL ELSE Head(q),
                rest |-> IF q = <<>> THEN <<>> ELSE Tail(q)]

ThreadsInit == /\ ReadyQ = <<>>
               /\ Curr_Thread = Main

(***************************************************************************)
(* "Curr_Thread = DelQueue(&ReadyQ); swapcontext(...)" with the ready      *)
(* queue q.  On an empty queue the second statement dereferences NULL.     *)
(***************************************************************************)
Dispatch(q) == /\ Curr_Thread' = DelQueue(q).item
               /\ ReadyQ' = DelQueue(q).rest

\* start_thread(): a new TCB goes to the tail of the ready queue.
start_thread(t) == /\ Curr_Thread # NULL
                   /\ ReadyQ' = AddQueue(ReadyQ, t)
                   /\ UNCHANGED Curr_Thread

\* run(): main() hands the processor over and never gets it back.
run == /\ Curr_Thread = Main
       /\ Dispatch(ReadyQ)

\* A slip around yield: main() calls it, too.
yield_ByMain == /\ Curr_Thread # NULL
                /\ Dispatch(AddQueue(ReadyQ, Curr_Thread))

\* yield(): the caller goes to the tail before the head is taken, so that it
\* goes on itself when no other thread is ready.
yield == /\ Curr_Thread \in Thread
         /\ Dispatch(AddQueue(ReadyQ, Curr_Thread))
=============================================================================
