------------------------------- MODULE Rounds -------------------------------
(***************************************************************************)
(* proj-1.c of Project 1: in each round every child increments its element *)
(* of the array, outside of the mutex, and main() prints the array.        *)
(*                                                                         *)
(* printing is left out: main() sets it and takes it back under the mutex, *)
(* and the children look at it under the mutex.                            *)
(***************************************************************************)
EXTENDS PthreadSem

VARIABLES array, done, updating,
          printed            \* the array as main() printed it last

roundsVars == <<array, done, updating, printed>>

RoundsInit == /\ array = [t \in Child |-> 0]
              /\ done = [t \in Child |-> FALSE]
              /\ updating = FALSE
              /\ printed = array

RoundsMain == /\ SemInit([mutex |-> 1])
              /\ pc = [t \in Thread |-> IF t = Main THEN "main" ELSE "child"]

\* The end of a child's loop; the last child to be done ends the round.
Report(t, isUpdating) ==
  /\ done' = [done EXCEPT ![t] = TRUE]
  /\ updating' = (isUpdating /\ \E other \in Child \ {t} : ~done[other])
  /\ V("mutex")
  /\ UNCHANGED <<array, printed>>

child(t) ==
  \/ Goto(t, "child", "look") /\ P(t, "mutex") /\ UNCHANGED roundsVars
  \/ /\ ~done[t]
     /\ Goto(t, "look", "update")
     /\ updating' = TRUE
     /\ V("mutex")
     /\ UNCHANGED <<array, done, printed>>
  \/ /\ Goto(t, "update", "updated")
     /\ array' = [array EXCEPT ![t] = (@ + 1) % Wrap]
     /\ NoCall
     /\ UNCHANGED <<done, updating, printed>>
  \/ Goto(t, "updated", "report") /\ P(t, "mutex") /\ UNCHANGED roundsVars
  \/ Goto(t, "report", "child") /\ Report(t, updating)
  \/ done[t] /\ Goto(t, "look", "child") /\ Report(t, TRUE)

\* A slip in main: updating is not looked at.
main_AnyTime ==
  \/ Goto(Main, "main", "check") /\ P(Main, "mutex") /\ UNCHANGED roundsVars
  \/ /\ Goto(Main, "check", "print")
     /\ printed' = array
     /\ NoCall
     /\ UNCHANGED <<array, done, updating>>
  \/ /\ Goto(Main, "print", "main")
     /\ done' = [t \in Child |-> FALSE]
     /\ V("mutex")
     /\ UNCHANGED <<array, updating, printed>>

main ==
  \/ Goto(Main, "main", "check") /\ P(Main, "mutex") /\ UNCHANGED roundsVars
  \/ updating /\ Goto(Main, "check", "main") /\ V("mutex") /\ UNCHANGED roundsVars
  \/ /\ ~updating
     /\ Goto(Main, "check", "print")
     /\ printed' = array
     /\ NoCall
     /\ UNCHANGED <<array, done, updating>>
  \/ /\ Goto(Main, "print", "main")
     /\ done' = [t \in Child |-> FALSE]
     /\ V("mutex")
     /\ UNCHANGED <<array, updating, printed>>
-----------------------------------------------------------------------------
(***************************************************************************)
(* What main() prints is what it printed before, or every child has        *)
(* incremented its element once since then, although the children do so    *)
(* without the mutex.                                                      *)
(***************************************************************************)
OncePerRound == [][printed' # printed =>
                     \A t \in Child : printed'[t] = (printed[t] + 1) % Wrap]_printed
=============================================================================
