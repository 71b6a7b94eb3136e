--------------------------- MODULE EnhancedThreads ---------------------------
(***************************************************************************)
(* The threads of EnhancingThreads/, whose functions may return.  A thread *)
(* that returns falls into cleanup(), which hands the processor on; and    *)
(* main() itself is scheduled: run() makes an item for it, Parent_Thread,  *)
(* and puts it into the ready queue.  cleanup() finds the next thread      *)
(* through the links of the item that was taken out of the queue last, so  *)
(* the lists are the pointers of Queue here.  Any program may run: main()  *)
(* and the threads start threads, yield, and call P and V, in any order.   *)
(***************************************************************************)
EXTENDS Queue

CONSTANTS Thread,       \* the items of start_thread
          Parent,       \* the items of run(), one for each call
          Semaphore, InputValue, Ready,
          MaxCount,     \* V is not called at this count (a bound for TLC)
          MainBlocks,   \* whether main() calls P
          MinReady      \* how many threads are ready when main() calls run()

ASSUME EnhancedAssumption ==
  /\ Item = Thread \cup Parent /\ Thread \cap Parent = {}
  /\ Ready \notin Semaphore
  /\ MainBlocks \in BOOLEAN /\ MinReady \in Nat \ {0}
  /\ InputValue \in [Semaphore -> Nat]

VARIABLES lists, Curr_Thread, Parent_Thread, thread_count, count,
          returned     \* history: the threads whose function has returned

vars == <<lists, Curr_Thread, Parent_Thread, thread_count, count, returned>>

Queues == {Ready} \cup Semaphore

\* initThreads(), and CreateSem for every semaphore.
initThreads == /\ lists = NewQueue(Queues)
               /\ Curr_Thread = NULL
               /\ Parent_Thread = NULL
               /\ thread_count = 0
               /\ count = InputValue
               /\ returned = {}

\* main() has the processor: it has no item before the first run().
InMain == Curr_Thread = Parent_Thread

\* A thread has it, or main() after a run(); else the process has died.
Scheduled == Curr_Thread \in Item

Fresh(i) == lists.next[i] = NULL

start_thread(t) ==
  /\ InMain \/ Scheduled
  /\ Fresh(t)
  /\ lists' = AddQueue(lists, Ready, t)
  /\ thread_count' = thread_count + 1
  /\ UNCHANGED <<Curr_Thread, Parent_Thread, count, returned>>

\* The first thread is taken out before the item of main() is put in.
run(p) == LET first == DelQueue(lists, Ready) IN
  /\ InMain
  /\ Fresh(p)
  /\ Len(Contents(lists, Ready)) >= MinReady
  /\ Curr_Thread' = first.item
  /\ Parent_Thread' = p
  /\ lists' = AddQueue(first.lists, Ready, p)
  /\ UNCHANGED <<thread_count, count, returned>>

Dispatch(l) == /\ Curr_Thread' = DelQueue(l, Ready).item
               /\ lists' = DelQueue(l, Ready).lists

yield == Scheduled /\ Dispatch(AddQueue(lists, Ready, Curr_Thread))

\* A slip in cleanup: thread_count still counts the thread.
cleanup_Miscounts == /\ Curr_Thread \in Thread
                     /\ Curr_Thread' = lists.next[Curr_Thread]
                     /\ lists' = DelQueue(lists, Ready).lists
                     /\ returned' = returned \cup {Curr_Thread}
                     /\ UNCHANGED <<Parent_Thread, thread_count, count>>

\* A slip in cleanup: the thread that goes on stays in the ready queue.
cleanup_KeepsHead == /\ Curr_Thread \in Thread
                     /\ Curr_Thread' = lists.next[Curr_Thread]
                     /\ thread_count' = thread_count - 1
                     /\ returned' = returned \cup {Curr_Thread}
                     /\ UNCHANGED <<lists, Parent_Thread, count>>

\* A slip in cleanup: the head is taken before the link is followed.
cleanup_SkipsOne == /\ Curr_Thread \in Thread
                    /\ Curr_Thread' = lists.next[lists.next[Curr_Thread]]
                    /\ lists' = DelQueue(lists, Ready).lists
                    /\ thread_count' = thread_count - 1
                    /\ returned' = returned \cup {Curr_Thread}
                    /\ UNCHANGED <<Parent_Thread, count>>

(***************************************************************************)
(* cleanup(): "Curr_Thread = Curr_Thread->next; DelQueue(&ReadyQ)".  The   *)
(* link is what DelQueue left in the item when it was dispatched.          *)
(***************************************************************************)
cleanup == /\ Curr_Thread \in Thread
           /\ Curr_Thread' = lists.next[Curr_Thread]
           /\ lists' = DelQueue(lists, Ready).lists
           /\ thread_count' = thread_count - 1
           /\ returned' = returned \cup {Curr_Thread}
           /\ UNCHANGED <<Parent_Thread, count>>

P(s) ==
  /\ Scheduled
  /\ MainBlocks \/ ~InMain
  /\ count' = [count EXCEPT ![s] = @ - 1]
  /\ \/ count'[s] < 0 /\ Dispatch(AddQueue(lists, s, Curr_Thread))
     \/ count'[s] >= 0 /\ UNCHANGED <<lists, Curr_Thread>>
  /\ UNCHANGED <<Parent_Thread, thread_count, returned>>

V(s) == LET woken == DelQueue(lists, s) IN
  /\ Scheduled
  /\ count' = [count EXCEPT ![s] = @ + 1]
  /\ \/ /\ count'[s] <= 0
        /\ Dispatch(AddQueue(AddQueue(woken.lists, Ready, woken.item),
                             Ready, Curr_Thread))
     \/ count'[s] > 0 /\ yield
  /\ UNCHANGED <<Parent_Thread, thread_count, returned>>

Next == \/ \E t \in Thread : start_thread(t)
        \/ \E p \in Parent : run(p)
        \/ yield /\ UNCHANGED <<Parent_Thread, thread_count, count, returned>>
        \/ cleanup
        \/ \E s \in Semaphore : P(s)
        \/ \E s \in Semaphore : count[s] < MaxCount /\ V(s)

Spec == initThreads /\ [][Next]_vars
-----------------------------------------------------------------------------
Queued(q) == {Contents(lists, q)[k] : k \in DOMAIN Contents(lists, q)}
Live == {t \in Thread : ~Fresh(t)} \ returned

(***************************************************************************)
(* getThreadCount() is the number of threads that were started and did not *)
(* return: main() waits for it to become 0.                                *)
(***************************************************************************)
CountsLiveThreads == thread_count = Cardinality(Live)

(***************************************************************************)
(* Nobody is lost and nobody comes back: the items in the queues and the   *)
(* one that runs are the live threads and main(), each of them once.  It   *)
(* takes cleanup() to drop exactly the item that it goes on with.          *)
(***************************************************************************)
EveryoneAccounted ==
  Parent_Thread # NULL /\ Curr_Thread # NULL =>
    /\ (UNION {Queued(q) : q \in Queues}) \cup {Curr_Thread} = Live \cup {Parent_Thread}
    /\ \A q \in Queues : /\ Cardinality(Queued(q)) = Len(Contents(lists, q))
                         /\ Curr_Thread \notin Queued(q)

(***************************************************************************)
(* What the comment in cleanup() says: when a thread returns, the next one *)
(* of the ready queue runs.                                                *)
(***************************************************************************)
CleanupRunsNext ==
  [][returned' # returned =>
       /\ Contents(lists, Ready) # <<>>
       /\ Curr_Thread' = Head(Contents(lists, Ready))
       /\ Contents(lists, Ready)' = Tail(Contents(lists, Ready))]_vars
=============================================================================
