-------------------------------- MODULE Msgs1 --------------------------------
(***************************************************************************)
(* The buffers of msgs1.h (Strategy 1): the oldest message is in slot 0,   *)
(* and Receive moves the others down.                                      *)
(***************************************************************************)
EXTENDS PortCalls

VARIABLE bufferCount     \* of every port

ShiftInit == bufferCount = [p \in Port |-> 0]

PutLast(p) ==
  /\ PutInto(p, [buffer[p] EXCEPT ![bufferCount[p]] = msg[Curr_Thread]])
  /\ bufferCount' = [bufferCount EXCEPT ![p] = @ + 1]

\* A slip in TakeFirst: the loop ends one message too early.
TakeFirst_LeavesLast(p) ==
  /\ bufferCount' = [bufferCount EXCEPT ![p] = @ - 1]
  /\ TakeFrom(p, buffer[p][0],
              [i \in 0..(N - 1) |-> IF i + 1 < bufferCount'[p] THEN buffer[p][i + 1]
                                                               ELSE buffer[p][i]])

\* The loop runs over msgNum = 0..bufferCount, bufferCount being decremented.
TakeFirst(p) ==
  /\ bufferCount' = [bufferCount EXCEPT ![p] = @ - 1]
  /\ TakeFrom(p, buffer[p][0],
              [i \in 0..(N - 1) |-> IF i + 1 <= bufferCount'[p] THEN buffer[p][i + 1]
                                                                ELSE buffer[p][i]])
-----------------------------------------------------------------------------
(***************************************************************************)
(* The first bufferCount slots hold the messages that were put and not     *)
(* taken, the oldest first, and the count never leaves the buffer.         *)
(***************************************************************************)
BufferHoldsChannel ==
  strategy = 1 => \A p \in Port :
    /\ bufferCount[p] = Len(chan[p])
    /\ bufferCount[p] <= N
    /\ \A i \in 1..Len(chan[p]) : chan[p][i] = buffer[p][i - 1]
=============================================================================
