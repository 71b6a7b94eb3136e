-------------------------------- MODULE Msgs --------------------------------
(***************************************************************************)
(* The buffers of msgs.h (Strategy 2): a ring from out up to in.           *)
(***************************************************************************)
EXTENDS PortCalls

VARIABLES in, out     \* of every port

ringVars == <<in, out>>

RingInit == in = [p \in Port |-> 0] /\ out = [p \in Port |-> 0]

\* A slip in Put: in does not go back to the first slot.
Put_WithoutWrap(p) == /\ PutInto(p, [buffer[p] EXCEPT ![in[p]] = msg[Curr_Thread]])
                      /\ in' = [in EXCEPT ![p] = @ + 1]
                      /\ UNCHANGED out

Put(p) == /\ PutInto(p, [buffer[p] EXCEPT ![in[p]] = msg[Curr_Thread]])
          /\ in' = [in EXCEPT ![p] = (@ + 1) % N]
          /\ UNCHANGED out

\* A slip in Take: out is advanced before the message is copied.
Take_AfterIncrement(p) == /\ TakeFrom(p, buffer[p][(out[p] + 1) % N], buffer[p])
                          /\ out' = [out EXCEPT ![p] = (@ + 1) % N]
                          /\ UNCHANGED in

Take(p) == /\ TakeFrom(p, buffer[p][out[p]], buffer[p])
           /\ out' = [out EXCEPT ![p] = (@ + 1) % N]
           /\ UNCHANGED in
-----------------------------------------------------------------------------
(***************************************************************************)
(* The slots from out up to in hold exactly the messages that were put and *)
(* not taken: no slot is overwritten before it is read or read before it   *)
(* is written, although no code compares in with out.                      *)
(***************************************************************************)
RingHoldsChannel ==
  strategy = 2 => \A p \in Port :
    /\ Len(chan[p]) <= N
    /\ in[p] = (out[p] + Len(chan[p])) % N
    /\ \A i \in 1..Len(chan[p]) : chan[p][i] = buffer[p][(out[p] + i - 1) % N]
=============================================================================
