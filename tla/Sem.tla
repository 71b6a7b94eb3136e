-------------------------------- MODULE Sem --------------------------------
(***************************************************************************)
(* The blocking semaphores of sem.h (Projects 3 to 5) on top of the        *)
(* scheduler.  A semaphore is a signed count and a queue of blocked        *)
(* threads.  V always gives the processor up, P only when it blocks; each  *)
(* is one action because nothing else can run before the switch.  A thread *)
(* that comes back from a switch has completed the call it was in.         *)
(***************************************************************************)
EXTENDS Threads

CONSTANTS Semaphore,    \* the semaphores the program creates
          InputValue    \* CreateSem's argument, for each of them

ASSUME SemAssumption == InputValue \in [Semaphore -> Nat]

VARIABLES count,    \* Semaphore_t.count
          TCB_Q     \* Semaphore_t.TCB_Q

semVars == <<ReadyQ, Curr_Thread, count, TCB_Q>>

\* CreateSem() of every semaphore; main() does it before it starts a thread.
SemInit == /\ ThreadsInit
           /\ count = InputValue
           /\ TCB_Q = [s \in Semaphore |-> <<>>]

\* The threads that start_thread has made so far.
Blocked(s) == Range(TCB_Q[s])
Started == Range(ReadyQ) \cup (UNION {Blocked(s) : s \in Semaphore})
             \cup ({Curr_Thread} \cap Thread)

\* A slip in Block: it ends in a call of yield().
Block_Yields(s) == /\ TCB_Q' = [TCB_Q EXCEPT ![s] = AddQueue(@, Curr_Thread)]
                   /\ yield

\* Block(): yield() with the semaphore's queue in place of the ready queue.
Block(s) == /\ TCB_Q' = [TCB_Q EXCEPT ![s] = AddQueue(@, Curr_Thread)]
            /\ Dispatch(ReadyQ)

\* A slip in P: the caller of a semaphore whose count is 0 gets through.
P_LetsOneMoreIn(s) ==
  /\ Curr_Thread \in Thread
  /\ count' = [count EXCEPT ![s] = @ - 1]
  /\ \/ /\ count'[s] < -1
        /\ Block(s)
     \/ /\ count'[s] >= -1
        /\ UNCHANGED <<threadVars, TCB_Q>>

\* P(): the count goes down; below zero the caller is blocked.
P(s) == /\ Curr_Thread \in Thread
        /\ count' = [count EXCEPT ![s] = @ - 1]
        /\ \/ /\ count'[s] < 0
              /\ Block(s)
           \/ /\ count'[s] >= 0
              /\ UNCHANGED <<threadVars, TCB_Q>>

\* A slip in Wake: the caller goes back to the ready queue first.
Wake_CallerFirst(s) == LET woken == DelQueue(TCB_Q[s]) IN
  /\ TCB_Q' = [TCB_Q EXCEPT ![s] = woken.rest]
  /\ Dispatch(AddQueue(AddQueue(ReadyQ, Curr_Thread), woken.item))

\* "AddQueue(&ReadyQ, DelQueue(&(sem->TCB_Q)))", then yield().  With nobody
\* in the semaphore's queue AddQueue would write through NULL.
Wake(s) == LET woken == DelQueue(TCB_Q[s]) IN
  \/ /\ woken.item # NULL
     /\ TCB_Q' = [TCB_Q EXCEPT ![s] = woken.rest]
     /\ Dispatch(AddQueue(AddQueue(ReadyQ, woken.item), Curr_Thread))
  \/ /\ woken.item = NULL
     /\ Curr_Thread' = NULL
     /\ UNCHANGED <<ReadyQ, TCB_Q>>

\* Slips in V: it looks for a waiting thread one count too early, or never.
V_TooEager(s) == /\ Curr_Thread \in Thread
                 /\ count' = [count EXCEPT ![s] = @ + 1]
                 /\ \/ /\ count'[s] <= 1
                       /\ Wake(s)
                    \/ /\ count'[s] > 1
                       /\ yield
                       /\ UNCHANGED TCB_Q

V_WakesNobody(s) == /\ Curr_Thread \in Thread
                    /\ count' = [count EXCEPT ![s] = @ + 1]
                    /\ yield
                    /\ UNCHANGED TCB_Q

\* V(): the count goes up, the longest waiting thread becomes ready, and the
\* caller yields behind it.
V(s) == /\ Curr_Thread \in Thread
        /\ count' = [count EXCEPT ![s] = @ + 1]
        /\ \/ /\ count'[s] <= 0
              /\ Wake(s)
           \/ /\ count'[s] > 0
              /\ yield
              /\ UNCHANGED TCB_Q
=============================================================================
