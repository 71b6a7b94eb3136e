--------------------------- MODULE MonitorReaders ---------------------------
(***************************************************************************)
(* read_write_m.c of Project 1: readers and writers in a monitor.  A woken *)
(* thread goes on without testing its condition again.  (The ID that a     *)
(* thread draws first is only printed, and is left out.)                   *)
(***************************************************************************)
EXTENDS Integers

CONSTANTS Reader, Writer    \* disjoint sets of threads

VARIABLES waiting, pc,
          rwc, wwc,      \* readers and writers that wait
          rc, wc         \* readers and writers that are in

vars == <<waiting, pc, rwc, wwc, rc, wc>>

M == INSTANCE Monitor WITH Condition <- {"r_cond", "w_cond"}

Init == /\ M!MonitorInit([t \in Reader \cup Writer |-> "outside"])
        /\ rwc = 0 /\ wwc = 0 /\ rc = 0 /\ wc = 0

reader_entry(t) ==
  \/ /\ wwc > 0 \/ wc > 0
     /\ M!Inside(t, "outside", "reader waits")
     /\ rwc' = rwc + 1
     /\ M!monitor_wait(t, "r_cond")
     /\ UNCHANGED <<wwc, rc, wc>>
  \/ /\ wwc = 0 /\ wc = 0
     /\ M!Inside(t, "outside", "reading")
     /\ rc' = rc + 1
     /\ M!monitor_signal("r_cond")
     /\ UNCHANGED <<rwc, wwc, wc>>
  \/ /\ M!Inside(t, "reader waits", "reading")
     /\ rwc' = rwc - 1
     /\ rc' = rc + 1
     /\ M!monitor_signal("r_cond")
     /\ UNCHANGED <<wwc, wc>>

reader_exit(t) ==
  /\ M!Inside(t, "reading", "outside")
  /\ rc' = rc - 1
  /\ \/ rc' = 0 /\ M!monitor_signal("w_cond")
     \/ rc' # 0 /\ UNCHANGED waiting
  /\ UNCHANGED <<rwc, wwc, wc>>

writer_entry(t) ==
  \/ /\ rc > 0 \/ wc > 0
     /\ M!Inside(t, "outside", "writer waits")
     /\ wwc' = wwc + 1
     /\ M!monitor_wait(t, "w_cond")
     /\ UNCHANGED <<rwc, rc, wc>>
  \/ /\ rc = 0 /\ wc = 0
     /\ M!Inside(t, "outside", "writing")
     /\ wc' = wc + 1
     /\ UNCHANGED <<waiting, rwc, wwc, rc>>
  \/ /\ M!Inside(t, "writer waits", "writing")
     /\ wwc' = wwc - 1
     /\ wc' = wc + 1
     /\ UNCHANGED <<waiting, rwc, rc>>

writer_exit(t) ==
  /\ M!Inside(t, "writing", "outside")
  /\ wc' = wc - 1
  /\ \/ rwc > 0 /\ M!monitor_signal("r_cond")
     \/ rwc <= 0 /\ M!monitor_signal("w_cond")
  /\ UNCHANGED <<rwc, wwc, rc>>

Next == \/ \E t \in Reader : reader_entry(t) \/ reader_exit(t)
        \/ \E t \in Writer : writer_entry(t) \/ writer_exit(t)

Spec == Init /\ [][Next]_vars
-----------------------------------------------------------------------------
(***************************************************************************)
(* Writing excludes reading, and writing by others: what readers "blocking *)
(* for writer" and writers "blocking for others" wait for.                 *)
(***************************************************************************)
Exclusion == \A t \in Writer : pc[t] = "writing" =>
                 \A u \in (Reader \cup Writer) \ {t} : pc[u] \notin {"reading", "writing"}
=============================================================================
