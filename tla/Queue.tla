------------------------------- MODULE Queue -------------------------------
(***************************************************************************)
(* The queues of q.h: circular doubly linked lists threaded through the    *)
(* items themselves, each reached from a head pointer.  A value of lists   *)
(* is what memory holds of them,                                           *)
(*   [head |-> <a head pointer for every queue>,                           *)
(*    next |-> <...>, prev |-> <the two links of every item>],             *)
(* and the operations are functions of it, so that a function of threads.h *)
(* that makes several of them is still one step.                           *)
(***************************************************************************)
EXTENDS Integers, Sequences, FiniteSets

CONSTANTS Item,   \* the qElement_t that the program may allocate
          NULL

ASSUME ItemAssumption == NULL \notin Item /\ IsFiniteSet(Item)

Lists(Queues) == [head : [Queues -> Item \cup {NULL}],
                  next : [Item -> Item \cup {NULL}],
                  prev : [Item -> Item \cup {NULL}]]

\* NewQueue() for every queue, before any item is allocated.
NewQueue(Queues) == [head |-> [q \in Queues |-> NULL],
                     next |-> [i \in Item |-> NULL],
                     prev |-> [i \in Item |-> NULL]]

(***************************************************************************)
(* The items of a queue as PrintQueue and AddQueue walk them: along next,  *)
(* from the head up to the item whose next is the head again.  In a list   *)
(* that does not lead back to its head the walk of the program would never *)
(* end; here it is cut off after more steps than there are items.          *)
(***************************************************************************)
Steps == 0..Cardinality(Item)

Follow(l, i) == IF i = NULL THEN NULL ELSE l.next[i]

Walk(l, q) ==
  LET walk[n \in Steps] == IF n = 0 THEN l.head[q] ELSE Follow(l, walk[n - 1])
  IN walk

Contents(l, q) ==
  LET walk == Walk(l, q)
      last == CHOOSE n \in Steps :
                /\ Follow(l, walk[n]) = l.head[q] \/ n = Cardinality(Item)
                /\ \A m \in 0..(n - 1) : Follow(l, walk[m]) # l.head[q]
  IN IF l.head[q] = NULL THEN <<>> ELSE [k \in 1..(last + 1) |-> walk[k - 1]]

\* A slip in AddQueue: the head's prev is left as it was.
AddQueue_LosesTail(l, q, item) ==
  LET head == l.head[q]
      last == Contents(l, q)[Len(Contents(l, q))]
  IN IF head = NULL
     THEN [l EXCEPT !.head[q] = item, !.next[item] = item, !.prev[item] = item]
     ELSE [l EXCEPT !.next = [@ EXCEPT ![last] = item, ![item] = head],
                    !.prev[item] = last]

\* AddQueue(): the item goes between the last item and the head.
AddQueue(l, q, item) ==
  LET head == l.head[q]
      last == Contents(l, q)[Len(Contents(l, q))]
  IN IF head = NULL
     THEN [l EXCEPT !.head[q] = item, !.next[item] = item, !.prev[item] = item]
     ELSE [l EXCEPT !.next = [@ EXCEPT ![last] = item, ![item] = head],
                    !.prev = [@ EXCEPT ![item] = last, ![head] = item]]

\* A slip in DelQueue: the new head's prev still leads to the item taken out.
DelQueue_KeepsPrev(l, q) ==
  LET pop == l.head[q] IN
  [item |-> pop,
   lists |-> IF pop = NULL THEN l
             ELSE IF l.next[pop] = pop THEN [l EXCEPT !.head[q] = NULL]
             ELSE [l EXCEPT !.head[q] = l.next[pop],
                            !.next[l.prev[pop]] = l.next[pop]]]

\* DelQueue(): the head, or NULL, and the lists without it.  The item taken
\* out keeps its own two links.
DelQueue(l, q) ==
  LET pop == l.head[q] IN
  [item |-> pop,
   lists |-> IF pop = NULL THEN l
             ELSE IF l.next[pop] = pop THEN [l EXCEPT !.head[q] = NULL]
             ELSE [l EXCEPT !.head[q] = l.next[pop],
                            !.prev[l.next[pop]] = l.prev[pop],
                            !.next[l.prev[pop]] = l.next[pop]]]
=============================================================================
