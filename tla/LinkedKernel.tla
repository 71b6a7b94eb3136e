---------------------------- MODULE LinkedKernel ----------------------------
(***************************************************************************)
(* The scheduler and the semaphores on the linked lists they are written   *)
(* with.  A thread is its queue element, and one pair of links serves      *)
(* every queue the thread is ever put in.  Shown to implement Kernel,      *)
(* whose queues are sequences.                                             *)
(***************************************************************************)
EXTENDS Queue

CONSTANTS Main, Semaphore, InputValue, MaxCount,
          Ready   \* names the head pointer ReadyQ; s names sem->TCB_Q

ASSUME LinkedAssumption == /\ Main \notin Item /\ Main # NULL
                           /\ Ready \notin Semaphore
                           /\ InputValue \in [Semaphore -> Nat]

VARIABLES lists, Curr_Thread, count

vars == <<lists, Curr_Thread, count>>

Queues == {Ready} \cup Semaphore

Init == /\ lists = NewQueue(Queues)
        /\ Curr_Thread = Main
        /\ count = InputValue

\* "Curr_Thread = DelQueue(&ReadyQ)" and the switch to it.
Dispatch(l) == /\ Curr_Thread' = DelQueue(l, Ready).item
               /\ lists' = DelQueue(l, Ready).lists

\* NewItem() gives an element that no list has ever linked.
start_thread(t) == /\ Curr_Thread # NULL
                   /\ lists.next[t] = NULL
                   /\ lists' = AddQueue(lists, Ready, t)
                   /\ UNCHANGED <<Curr_Thread, count>>

run == /\ Curr_Thread = Main
       /\ Dispatch(lists)
       /\ UNCHANGED count

yield == /\ Curr_Thread \in Item
         /\ Dispatch(AddQueue(lists, Ready, Curr_Thread))

Block(s) == Dispatch(AddQueue(lists, s, Curr_Thread))

P(s) == /\ Curr_Thread \in Item
        /\ count' = [count EXCEPT ![s] = @ - 1]
        /\ \/ count'[s] < 0 /\ Block(s)
           \/ count'[s] >= 0 /\ UNCHANGED <<lists, Curr_Thread>>

Wake(s) ==
  LET woken == DelQueue(lists, s)
      ready == AddQueue(woken.lists, Ready, woken.item)
  IN \/ woken.item # NULL /\ Dispatch(AddQueue(ready, Ready, Curr_Thread))
     \/ woken.item = NULL /\ Curr_Thread' = NULL /\ UNCHANGED lists

V(s) == /\ Curr_Thread \in Item
        /\ count' = [count EXCEPT ![s] = @ + 1]
        /\ \/ count'[s] <= 0 /\ Wake(s)
           \/ count'[s] > 0 /\ yield

Next == \/ \E t \in Item : start_thread(t)
        \/ run
        \/ yield /\ UNCHANGED count
        \/ \E s \in Semaphore : P(s)
        \/ \E s \in Semaphore : count[s] < MaxCount /\ V(s)

Spec == Init /\ [][Next]_vars
-----------------------------------------------------------------------------
(***************************************************************************)
(* Every queue is a ring: next leads from the head through all its items   *)
(* and back, and prev is the way back.  DelQueue unlinks the head through  *)
(* the prev of the head, which only AddQueue and DelQueue of other items   *)
(* have kept right.                                                        *)
(***************************************************************************)
Rings ==
  /\ lists \in Lists(Queues)
  /\ \A q \in Queues :
       LET items == Contents(lists, q)
           n == Len(items)
       IN \A k \in 1..n :
            LET after == items[IF k = n THEN 1 ELSE k + 1]
            IN lists.next[items[k]] = after /\ lists.prev[after] = items[k]

(***************************************************************************)
(* The lists implement the kernel's sequences: no thread is lost, repeated *)
(* or reordered by the relinking, although the items that leave a queue    *)
(* carry stale links into the next one.                                    *)
(***************************************************************************)
Sequential == INSTANCE Kernel WITH
  Thread <- Item,
  ReadyQ <- Contents(lists, Ready),
  TCB_Q <- [s \in Semaphore |-> Contents(lists, s)]
ImplementsKernel == Sequential!Spec
=============================================================================
