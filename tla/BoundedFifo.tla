---------------------------- MODULE BoundedFifo ----------------------------
(***************************************************************************)
(* Threads that send to and receive from the channels as they like.        *)
(***************************************************************************)
EXTENDS Channels

CONSTANTS Thread, Msg, NoMsg

VARIABLE got     \* the message a thread received last

fifoVars == <<chan, got>>

Init == ChannelsInit /\ got = [t \in Thread |-> NoMsg]

Next == \E p \in Port, msg \in Msg :
          \/ Send(p, msg) /\ UNCHANGED got
          \/ \E t \in Thread : /\ Receive(p, msg)
                               /\ got' = [got EXCEPT ![t] = msg]

Spec == Init /\ [][Next]_fifoVars
=============================================================================
