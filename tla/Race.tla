-------------------------------- MODULE Race --------------------------------
(***************************************************************************)
(* race-p.c and race-c.c of Project 1: main() and a second thread, made    *)
(* with pthread_create or with clone, increment x in a loop each, without  *)
(* synchronization.  An increment loads x and stores it.  x counts from 0  *)
(* here, as in race-p.c.                                                   *)
(***************************************************************************)
EXTENDS PthreadSem

CONSTANT Increments     \* rounds of each loop: 100000000 in the code

ASSUME IncrementsAssumption == Increments \in Nat \ {0, 1}

VARIABLES x,
          rounds,       \* i of func1 and func2
          loaded        \* the value of x that a thread adds 1 to

raceVars == <<x, rounds, loaded>>

RaceInit == /\ x = 0
            /\ rounds = [t \in Thread |-> 0]
            /\ loaded = [t \in Thread |-> 0]

RaceMain == /\ SemInit(<<>>)
            /\ \E t \in Child : pc = [u \in Thread |-> IF u \in {t, Main} THEN "load"
                                                                        ELSE "not_made"]

\* The process is over when main() has printed the final value.
Over == pc[Main] = "printed"

\* A slip in func: the loop goes one round too far.
func_OnceMore(t) ==
  /\ ~Over
  /\ NoCall
  /\ \/ /\ rounds[t] <= Increments
        /\ Goto(t, "load", "store")
        /\ loaded' = [loaded EXCEPT ![t] = x]
        /\ UNCHANGED <<x, rounds>>
     \/ /\ Goto(t, "store", "load")
        /\ x' = loaded[t] + 1
        /\ rounds' = [rounds EXCEPT ![t] = @ + 1]
        /\ UNCHANGED loaded
     \/ rounds[t] > Increments /\ Goto(t, "load", "looped") /\ UNCHANGED raceVars

func(t) ==
  /\ ~Over
  /\ NoCall
  /\ \/ /\ rounds[t] < Increments
        /\ Goto(t, "load", "store")
        /\ loaded' = [loaded EXCEPT ![t] = x]
        /\ UNCHANGED <<x, rounds>>
     \/ /\ Goto(t, "store", "load")
        /\ x' = loaded[t] + 1
        /\ rounds' = [rounds EXCEPT ![t] = @ + 1]
        /\ UNCHANGED loaded
     \/ rounds[t] = Increments /\ Goto(t, "load", "looped") /\ UNCHANGED raceVars

\* main() sleeps for a second, which the other thread may outlast, and prints x.
PrintFinal == Goto(Main, "looped", "printed") /\ NoCall /\ UNCHANGED raceVars

Ended == Over /\ UNCHANGED <<threads, raceVars>>
-----------------------------------------------------------------------------
(***************************************************************************)
(* Lost updates: the final value may be anything between 2 and the number  *)
(* of increments, however long the loops are.  If the second thread has    *)
(* not come to its end, 1 is possible, too.                                *)
(***************************************************************************)
FinalValue ==
  Over => x \in (IF \E t \in Child : pc[t] = "looped" THEN 2 ELSE 1) .. 2 * Increments
=============================================================================
