------------------------------ MODULE Programs ------------------------------
(***************************************************************************)
(* The example programs that fit on one page, one of them at a time: Init  *)
(* chooses the main() that runs, and the globals of the others rest.       *)
(***************************************************************************)
EXTENDS Barrier, MonitorBuffer, Rounds, ProducerConsumer, Race

vars == <<threads, barrierVars, prodConsVars, items, roundsVars, bufferVars, raceVars>>

Init == /\ BarrierInit /\ ProdConsInit /\ MonitorBufferInit
        /\ RoundsInit /\ BufferInit /\ RaceInit
        /\ \/ BarrierMain
           \/ ProdConsMain
           \/ MonitorBufferMain
           \/ RoundsMain
           \/ Project3Main
           \/ Project2Main
           \/ RaceMain

Step(t) ==
  \/ /\ barrier(t)
     /\ UNCHANGED <<prodConsVars, items, roundsVars, bufferVars, raceVars>>
  \/ /\ \/ (prod(t) \/ cons(t)) /\ UNCHANGED items
        \/ monitor_prod(t) \/ monitor_cons(t)
     /\ UNCHANGED <<barrierVars, roundsVars, bufferVars, raceVars>>
  \/ /\ producer(t) \/ consumer(t) \/ filler(t) \/ drainer(t)
     /\ UNCHANGED <<barrierVars, prodConsVars, items, roundsVars, raceVars>>
  \/ /\ \/ t \in Child /\ child(t)
        \/ t = Main /\ main
     /\ UNCHANGED <<barrierVars, prodConsVars, items, bufferVars, raceVars>>
  \/ /\ func(t) \/ (t = Main /\ PrintFinal)
     /\ UNCHANGED <<barrierVars, prodConsVars, items, roundsVars, bufferVars>>

\* main() goes on with nothing to do, or the process is over.
Rest == /\ Spin \/ Ended
        /\ UNCHANGED vars

Next == Rest \/ \E t \in Thread : Step(t)

Spec == Init /\ [][Next]_vars

\* Every thread that can go on does.
FairSpec == Spec /\ \A t \in Thread : WF_vars(Step(t))
=============================================================================
