-------------------------- MODULE ProducerConsumer --------------------------
(***************************************************************************)
(* The producer and the consumer of Project 3 (prod_cons.c) and those of   *)
(* Project 2 (src/thread_test.c), on a buffer that is filled like a stack. *)
(* Nothing preempts a thread of theirs but P, V and yield, so that a step  *)
(* goes from one such call to the next.                                    *)
(*                                                                         *)
(* Project 3's P and V count as those of PthreadSem do; with one producer  *)
(* and one consumer no two threads ever wait for the same semaphore.  The  *)
(* threads are scheduled in any order, their own round robin included.     *)
(***************************************************************************)
EXTENDS PthreadSem

CONSTANTS BUFFER_LEN,
          Orders   \* what may be typed in; a negative order has no end

ASSUME BufferAssumption == BUFFER_LEN \in Nat \ {0, 1} /\ Orders \subseteq Int

VARIABLES buffer, buffer_pointer,
          order              \* produce and consume: what is left of an order

bufferVars == <<buffer, buffer_pointer, order>>

BufferInit == /\ buffer = [i \in 0..BUFFER_LEN-1 |-> 0]
              /\ buffer_pointer = -1
              /\ order = [t \in Thread |-> 0]

\* Main stands for one of the two threads here: main() itself is no thread.
Project3Main == /\ SemInit([prod |-> BUFFER_LEN - 1, cons |-> 0])
                /\ \E t \in Child : pc = [u \in Thread |-> CASE u = t -> "producer"
                                                             [] u = Main -> "consumer"
                                                             [] OTHER -> "none"]
Project2Main == /\ SemInit(<<>>)
                /\ \E t \in Child : pc = [u \in Thread |-> CASE u = t -> "filler"
                                                             [] u = Main -> "drainer"
                                                             [] OTHER -> "none"]

TakeOrder(t) == /\ \E n \in Orders : order' = [order EXCEPT ![t] = n]
                /\ NoCall
                /\ UNCHANGED <<buffer, buffer_pointer>>

Less(left, n) == IF left < 0 THEN left ELSE left - n

\* How much of an order can be done at once.
Part(left, room) == IF left \in 0..room THEN left ELSE room

Fill(t, n) ==
  /\ order' = [order EXCEPT ![t] = Less(@, n)]
  /\ buffer_pointer' = buffer_pointer + n
  /\ buffer' = [i \in DOMAIN buffer |->
                  IF i \in buffer_pointer+1 .. buffer_pointer' THEN i + 1 ELSE buffer[i]]

Drain(t, n) ==
  /\ order' = [order EXCEPT ![t] = Less(@, n)]
  /\ buffer_pointer' = buffer_pointer - n
  /\ buffer' = [i \in DOMAIN buffer |->
                  IF i \in buffer_pointer'+1 .. buffer_pointer THEN 0 ELSE buffer[i]]

(***************************************************************************)
(* Project 3: one token for each item.                                     *)
(***************************************************************************)
producer(t) ==
  \/ Goto(t, "producer", "produce") /\ TakeOrder(t)
  \/ order[t] = 0 /\ Goto(t, "produce", "producer") /\ NoCall /\ UNCHANGED bufferVars
  \/ order[t] # 0 /\ Goto(t, "produce", "put") /\ P(t, "prod") /\ UNCHANGED bufferVars
  \/ Goto(t, "put", "produce") /\ Fill(t, 1) /\ V("cons")

\* A slip in consumer: an item is taken before the call of P.
consumer_TakesFirst(t) ==
  \/ Goto(t, "consumer", "consume") /\ TakeOrder(t)
  \/ order[t] = 0 /\ Goto(t, "consume", "consumer") /\ NoCall /\ UNCHANGED bufferVars
  \/ order[t] # 0 /\ Goto(t, "consume", "take") /\ P(t, "cons") /\ Drain(t, 1)
  \/ Goto(t, "take", "consume") /\ V("prod") /\ UNCHANGED bufferVars

consumer(t) ==
  \/ Goto(t, "consumer", "consume") /\ TakeOrder(t)
  \/ order[t] = 0 /\ Goto(t, "consume", "consumer") /\ NoCall /\ UNCHANGED bufferVars
  \/ order[t] # 0 /\ Goto(t, "consume", "take") /\ P(t, "cons") /\ UNCHANGED bufferVars
  \/ Goto(t, "take", "consume") /\ Drain(t, 1) /\ V("prod")

(***************************************************************************)
(* Project 2: no semaphores.  A step does what can be done of an order and *)
(* ends in yield(), because the order is done or the buffer full or empty. *)
(***************************************************************************)
filler(t) ==
  \/ Goto(t, "filler", "fill") /\ TakeOrder(t)
  \/ LET n == Part(order[t], BUFFER_LEN - 1 - buffer_pointer)
     IN /\ Goto(t, "fill", IF n = order[t] THEN "filler" ELSE "fill")
        /\ Fill(t, n)
        /\ NoCall

drainer(t) ==
  \/ Goto(t, "drainer", "drain") /\ TakeOrder(t)
  \/ LET n == Part(order[t], buffer_pointer + 1)
     IN /\ Goto(t, "drain", IF n = order[t] THEN "drainer" ELSE "drain")
        /\ Drain(t, n)
        /\ NoCall
-----------------------------------------------------------------------------
(***************************************************************************)
(* The buffer holds 1, 2, ... up to buffer_pointer and zeros behind it, as *)
(* print_buffer shows it, and the pointer never leaves the buffer.  In     *)
(* Project 3 the two counts tell what is in it: a thread past its P has    *)
(* one token, or owes one if it waits.  There is a token less than there   *)
(* are slots, so that the producer waits in front of a buffer with a       *)
(* single slot left (see ProducerFillsBuffer), the consumer only in front  *)
(* of an empty one, and never both.                                        *)
(***************************************************************************)
FilledToPointer ==
  /\ buffer_pointer \in -1 .. BUFFER_LEN - 1
  /\ buffer = [i \in 0..BUFFER_LEN-1 |-> IF i <= buffer_pointer THEN i + 1 ELSE 0]
ThreadsAt(point) == Cardinality({t \in Thread : pc[t] = point})
TokensCountItems ==
  (\E t \in Thread : pc[t] \in {"producer", "produce", "put"}) =>
     /\ count["prod"] = BUFFER_LEN - 1 - (buffer_pointer + 1) - ThreadsAt("put")
     /\ count["cons"] = buffer_pointer + 1 - ThreadsAt("take")
BufferExact == FilledToPointer /\ TokensCountItems

(***************************************************************************)
(* What prod_cons.c says of itself: the producer gives the processor away  *)
(* in the middle of an order only when the buffer is full.                 *)
(***************************************************************************)
ProducerFillsBuffer ==
  \A t \in Thread : pc[t] = "put" /\ Blocked(t) => buffer_pointer = BUFFER_LEN - 1
=============================================================================
