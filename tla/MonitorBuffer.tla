---------------------------- MODULE MonitorBuffer ----------------------------
(***************************************************************************)
(* prod_cons_m.c of Project 1: the producers and consumers of prod_cons_s  *)
(* in a monitor.  A woken thread goes on without testing its condition     *)
(* again, so that an item may be overwritten, or deleted twice.  (What is  *)
(* in the slots is only printed, and is left out.)                         *)
(***************************************************************************)
EXTENDS ProdCons

VARIABLE items     \* count: the items that should be in the buffer

M == INSTANCE Monitor WITH Condition <- {"empty", "full"}

MonitorBufferInit == items = 0

MonitorBufferMain ==
  /\ count = <<>>
  /\ \E producers \in (SUBSET Child) \ {{}, Child} :
       M!MonitorInit([t \in Thread |-> CASE t \in producers -> "produces"
                                         [] t \in Child \ producers -> "consumes"
                                         [] t = Main -> "sets_delays"])

InsertItem(t, from) == /\ M!Inside(t, from, "produces")
                       /\ in' = (in + 1) % N
                       /\ items' = items + 1
                       /\ M!monitor_signal("full")
                       /\ UNCHANGED <<count, ring, out, item_num, deleted>>

DeleteItem(t, from) == /\ M!Inside(t, from, "consumes")
                       /\ out' = (out + 1) % N
                       /\ items' = items - 1
                       /\ M!monitor_signal("empty")
                       /\ UNCHANGED <<count, ring, in, item_num, deleted>>

WaitFor(t, condition, from, to) == /\ M!Inside(t, from, to)
                                   /\ M!monitor_wait(t, condition)
                                   /\ UNCHANGED <<count, prodConsVars, items>>

monitor_prod(t) == \/ items >= N /\ WaitFor(t, "empty", "produces", "has_room")
                   \/ items < N /\ InsertItem(t, "produces")
                   \/ InsertItem(t, "has_room")

\* A slip in monitor_cons: the test lets a consumer in front of an empty buffer.
monitor_cons_TestsLess(t) ==
  \/ items < 0 /\ WaitFor(t, "full", "consumes", "has_item")
  \/ items >= 0 /\ DeleteItem(t, "consumes")
  \/ DeleteItem(t, "has_item")

monitor_cons(t) == \/ items <= 0 /\ WaitFor(t, "full", "consumes", "has_item")
                   \/ items > 0 /\ DeleteItem(t, "consumes")
                   \/ DeleteItem(t, "has_item")
-----------------------------------------------------------------------------
(***************************************************************************)
(* How far the missing loop around the waits goes: each producer but one   *)
(* may insert an item too many, each consumer but one may delete one too   *)
(* many.  So a single producer never overwrites an item, and a single      *)
(* consumer never deletes one that is not there.                           *)
(***************************************************************************)
DamageBounded ==
  LET Number(points) == Cardinality({t \in Child : pc[t] \in points})
      producers == Number({"produces", "has_room"})
      consumers == Number({"consumes", "has_item"})
  IN producers > 0 => items \in 1 - consumers .. N + producers - 1
=============================================================================
