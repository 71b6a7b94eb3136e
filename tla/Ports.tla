-------------------------------- MODULE Ports --------------------------------
(***************************************************************************)
(* Message ports of either strategy under any program.                     *)
(***************************************************************************)
EXTENDS Msgs, Msgs1

vars == <<callVars, ringVars, bufferCount>>

Init == CallsInit /\ RingInit /\ ShiftInit

Next == \/ Call /\ UNCHANGED <<ringVars, bufferCount>>
        \/ /\ strategy = 1
           /\ \E p \in Port : PutLast(p) \/ TakeFirst(p)
           /\ UNCHANGED ringVars
        \/ /\ strategy = 2
           /\ \E p \in Port : Put(p) \/ Take(p)
           /\ UNCHANGED bufferCount

Spec == Init /\ [][Next]_vars

\* The running thread goes on making calls; nothing else is assumed.
FairSpec == Spec /\ WF_vars(Next)
=============================================================================
