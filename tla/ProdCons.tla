------------------------------ MODULE ProdCons ------------------------------
(***************************************************************************)
(* prod_cons_s.c of Project 1: producers and consumers around a ring of N  *)
(* slots, with semaphores for free slots, full slots and mutual exclusion. *)
(* What the threads print of the items is kept in deleted.                 *)
(***************************************************************************)
EXTENDS PthreadSem

CONSTANT N

ASSUME RingAssumption == N \in Nat \ {0, 1} /\ Wrap > N + 1

VARIABLES ring,              \* buffer[N]
          in, out, item_num,
          deleted            \* the item that was deleted last

prodConsVars == <<ring, in, out, item_num, deleted>>

ProdConsInit == /\ ring = [i \in 0..N-1 |-> 0]
                /\ in = 0 /\ out = 0 /\ item_num = 0
                /\ deleted = Wrap - 1

\* main() starts producers and consumers, here at least one of each.
ProdConsMain ==
  /\ SemInit([full |-> 0, empty |-> N, mutex |-> 1])
  /\ \E producers \in (SUBSET Child) \ {{}, Child} :
       pc = [t \in Thread |-> CASE t \in producers -> "prod"
                                [] t \in Child \ producers -> "cons"
                                [] t = Main -> "delays"]

Insert == /\ ring' = [ring EXCEPT ![in] = item_num]
          /\ UNCHANGED <<in, out, item_num, deleted>>
AdvanceIn == /\ item_num' = (item_num + 1) % Wrap
             /\ in' = (in + 1) % N
             /\ UNCHANGED <<ring, out, deleted>>
Delete == /\ deleted' = ring[out]
          /\ UNCHANGED <<ring, in, out, item_num>>
AdvanceOut == /\ out' = (out + 1) % N
              /\ UNCHANGED <<ring, in, item_num, deleted>>

\* A slip in prod: the mutex is taken before there is room.
prod_LocksFirst(t) ==
  \/ Goto(t, "prod", "in_prod") /\ P(t, "mutex") /\ UNCHANGED prodConsVars
  \/ Goto(t, "in_prod", "insert") /\ P(t, "empty") /\ UNCHANGED prodConsVars
  \/ Goto(t, "insert", "inserted") /\ Insert /\ NoCall
  \/ Goto(t, "inserted", "tell") /\ AdvanceIn /\ V("mutex")
  \/ Goto(t, "tell", "prod") /\ V("full") /\ UNCHANGED prodConsVars

prod(t) ==
  \/ Goto(t, "prod", "in_prod") /\ P(t, "empty") /\ UNCHANGED prodConsVars
  \/ Goto(t, "in_prod", "insert") /\ P(t, "mutex") /\ UNCHANGED prodConsVars
  \/ Goto(t, "insert", "inserted") /\ Insert /\ NoCall
  \/ Goto(t, "inserted", "tell") /\ AdvanceIn /\ V("mutex")
  \/ Goto(t, "tell", "prod") /\ V("full") /\ UNCHANGED prodConsVars

cons(t) ==
  \/ Goto(t, "cons", "in_cons") /\ P(t, "full") /\ UNCHANGED prodConsVars
  \/ Goto(t, "in_cons", "delete") /\ P(t, "mutex") /\ UNCHANGED prodConsVars
  \/ Goto(t, "delete", "deleted") /\ Delete /\ NoCall
  \/ Goto(t, "deleted", "free") /\ AdvanceOut /\ V("mutex")
  \/ Goto(t, "free", "cons") /\ V("empty") /\ UNCHANGED prodConsVars
-----------------------------------------------------------------------------
(***************************************************************************)
(* Every item is deleted once, in the order in which they were inserted:   *)
(* no slot is written before it was read, or read before it was written.   *)
(***************************************************************************)
ItemsInOrder == [][deleted' # deleted => deleted' = (deleted + 1) % Wrap]_deleted

(***************************************************************************)
(* With producers and consumers running, in prod_cons_s.c or in            *)
(* prod_cons_m.c, items go on being deleted.                               *)
(***************************************************************************)
ItemsFlow == (\E t \in Child : pc[t] \in {"cons", "consumes"}) => []<><<out' # out>>_out
=============================================================================
