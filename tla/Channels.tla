------------------------------ MODULE Channels ------------------------------
(***************************************************************************)
(* What msgs.h promises: every port is a first-in, first-out channel of N  *)
(* messages.  Send waits while its channel is full, Receive while it is    *)
(* empty, and no message is lost, repeated or reordered.                   *)
(***************************************************************************)
EXTENDS Integers, Sequences

CONSTANTS Port,
          N      \* the capacity of a port's buffer

ASSUME PortAssumption == N \in Nat \ {0}

VARIABLE chan    \* the messages in every port, oldest first

ChannelsInit == chan = [p \in Port |-> <<>>]

Send(p, msg) == /\ Len(chan[p]) < N
                /\ chan' = [chan EXCEPT ![p] = Append(@, msg)]

Receive(p, msg) == /\ chan[p] # <<>>
                   /\ msg = Head(chan[p])
                   /\ chan' = [chan EXCEPT ![p] = Tail(@)]
=============================================================================
