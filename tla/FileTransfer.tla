---------------------------- MODULE FileTransfer ----------------------------
(***************************************************************************)
(* The upload program of file_test.c: the server and its clients.          *)
(* (file_test_updates.c is the same program without three breaks: after    *)
(* NOT_OK it falls through to OK, which does nothing more.)  Every client  *)
(* uploads one file; its name goes out in packets of six                   *)
(* characters, then its pieces, then an end of file, and each message      *)
(* waits for the reply to the one before.  The scheduler may run any       *)
(* thread that is not blocked in Send or Receive.                          *)
(***************************************************************************)
EXTENDS FileServer

CONSTANT File   \* what the command line may name: files that exist, each the
                \* length of its name and the number of its pieces

\* What requests may carry is enough for these files.
ASSUME TransferAssumption ==
  /\ File \subseteq [name : Nat \ {0}, pieces : Nat]
  /\ \A f \in File : /\ 0..f.name \subseteq DataLen
                     /\ 0..(f.name \div FILENAME_DATA_LEN) \subseteq PacketsLeft
                     /\ 1..f.pieces \subseteq Piece

VARIABLES
  file,        \* the client's argument, and the file of that name
  pc,
  sentCount,   \* characters of the name that were sent
  arr3,        \* data.arr[3], which outlives the packet it was sent in
  pos,         \* pieces of the file that were sent
  ret,         \* 1 until something goes wrong, then -1: true for C all the same
  disk         \* history: what the client's file held when it was closed

clientVars == <<file, pc, sentCount, arr3, pos, ret>>
allVars == <<vars, clientVars, disk>>

TransferInit ==
  /\ Init
  /\ file \in [Client -> File]
  /\ pc = [c \in Client |-> "name"]
  /\ sentCount = [c \in Client |-> 0]
  /\ arr3 = [c \in Client |-> 0]
  /\ pos = [c \in Client |-> 0]
  /\ ret = [c \in Client |-> 1]
  /\ disk = [c \in Client |-> <<>>]

\* Where a client goes from the loop over the name, and over the file.
AfterName(c) == IF ret'[c] # 1 THEN "done" ELSE IF file[c].pieces = 0 THEN "eof" ELSE "data"
AfterData(c) == IF ret'[c] # 1 THEN "done" ELSE "eof"
-----------------------------------------------------------------------------
\* A slip in SendFilename: packets-left is computed after the count of the packet.
SendFilename_CountsFirst(c) ==
  LET filenameLen == file[c].name
      sent == Min({sentCount[c] + FILENAME_DATA_LEN, filenameLen})
      left == (filenameLen - sent) \div FILENAME_DATA_LEN
      len == sent - arr3[c]
  IN /\ pc[c] = "name"
     /\ Ask(c, NameRequest(c, left, len))
     /\ sentCount' = [sentCount EXCEPT ![c] = sent]
     /\ arr3' = [arr3 EXCEPT ![c] = len]
     /\ pc' = [pc EXCEPT ![c] = "name sent"]
     /\ UNCHANGED <<file, pos, ret>>

SendFilename(c) ==
  LET filenameLen == file[c].name
      sent == Min({sentCount[c] + FILENAME_DATA_LEN, filenameLen})
      left == (filenameLen - sentCount[c]) \div FILENAME_DATA_LEN
      len == sent - arr3[c]
  IN /\ pc[c] = "name"
     /\ Ask(c, NameRequest(c, left, len))
     /\ sentCount' = [sentCount EXCEPT ![c] = sent]
     /\ arr3' = [arr3 EXCEPT ![c] = len]
     /\ pc' = [pc EXCEPT ![c] = "name sent"]
     /\ UNCHANGED <<file, pos, ret>>

FilenameReply(c, reply) ==
  /\ pc[c] = "name sent"
  /\ Hear(c, reply)
  /\ ret' = [ret EXCEPT ![c] = IF reply \in {"OK", "FULL"} THEN @ ELSE -1]
  /\ pc' = [pc EXCEPT ![c] = IF reply = "FULL" THEN "blocked"
                             ELSE IF sentCount[c] # file[c].name THEN "name"
                             ELSE AfterName(c)]
  /\ UNCHANGED <<file, sentCount, arr3, pos>>

\* After FULL the client sleeps until the server tells it to start afresh.
Revival(c, reply) ==
  /\ pc[c] = "blocked"
  /\ Hear(c, reply)
  /\ \/ /\ reply \in {"READY", "WAIT_Q_FULL"}
        /\ sentCount' = [sentCount EXCEPT ![c] = 0]
        /\ arr3' = [arr3 EXCEPT ![c] = 0]
        /\ pc' = [pc EXCEPT ![c] = "name"]
     \/ /\ reply \notin {"READY", "WAIT_Q_FULL"}
        /\ UNCHANGED <<sentCount, arr3, pc>>
  /\ UNCHANGED <<file, pos, ret>>

SendFiledata(c) ==
  /\ pc[c] = "data"
  /\ Ask(c, DataRequest(c, pos[c] + 1))
  /\ pos' = [pos EXCEPT ![c] = @ + 1]
  /\ pc' = [pc EXCEPT ![c] = "data sent"]
  /\ UNCHANGED <<file, sentCount, arr3, ret>>

FiledataReply(c, reply) ==
  /\ pc[c] = "data sent"
  /\ Hear(c, reply)
  /\ ret' = [ret EXCEPT ![c] = IF reply = "OK" THEN @ ELSE -1]
  /\ pc' = [pc EXCEPT ![c] = IF pos[c] # file[c].pieces THEN "data" ELSE AfterData(c)]
  /\ UNCHANGED <<file, sentCount, arr3, pos>>

SendEof(c) ==
  /\ pc[c] = "eof"
  /\ Ask(c, EofRequest(c))
  /\ pc' = [pc EXCEPT ![c] = "eof sent"]
  /\ UNCHANGED <<file, sentCount, arr3, pos, ret>>

EofReply(c, reply) ==
  /\ pc[c] = "eof sent"
  /\ Hear(c, reply)
  /\ ret' = [ret EXCEPT ![c] = IF reply = "OK" THEN @ ELSE -1]
  /\ pc' = [pc EXCEPT ![c] = "done"]
  /\ UNCHANGED <<file, sentCount, arr3, pos>>

\* The terminal state, in which a client yields for ever.
Terminal(c) == pc[c] = "done" /\ UNCHANGED <<vars, clientVars>>

ClientSends(c) == /\ SendFilename(c) \/ SendFiledata(c) \/ SendEof(c)
                  /\ UNCHANGED <<serverVars, disk>>
ClientHears(c) == /\ \E reply \in Reply : \/ FilenameReply(c, reply)
                                          \/ Revival(c, reply)
                                          \/ FiledataReply(c, reply)
                                          \/ EofReply(c, reply)
                  /\ UNCHANGED <<serverVars, disk>>

ServerStep ==
  /\ ServerNext
  /\ LET m == Head(chan[SERVER_PORT]) IN
     disk' = IF server.at = "receive" /\ Closes(m)
             THEN [disk EXCEPT ![m.rp] = Found(m.rp).fp] ELSE disk
  /\ UNCHANGED clientVars

TransferNext == \/ ServerStep
                \/ \E c \in Client : \/ ClientSends(c)
                                     \/ ClientHears(c)
                                     \/ Terminal(c) /\ UNCHANGED disk

TransferSpec == TransferInit /\ [][TransferNext]_allVars

(***************************************************************************)
(* The round-robin ready queue runs every thread that is ready, and the    *)
(* semaphores of a port are first-come, first-served: a Receive that can   *)
(* go on does, and a Send that finds room again and again gets its turn.   *)
(***************************************************************************)
Fairness == /\ WF_allVars(ServerStep)
            /\ \A c \in Client : /\ SF_allVars(ClientSends(c))
                                 /\ WF_allVars(ClientHears(c))

FairTransferSpec == TransferSpec /\ Fairness
-----------------------------------------------------------------------------
(***************************************************************************)
(* A name that the server takes for complete has arrived whole:            *)
(* packets-left reaches 0 with the last packet and not before, and the     *)
(* lengths of the packets add up, although both are computed from counts   *)
(* that may be stale.  The one exception is a name over the limit whose    *)
(* client has been told NOT_OK: it may go on sending, and what is left of  *)
(* the name may be taken for all of it (see LeakedSlot.cfg).  No name      *)
(* within the limit is ever cut short, and no client without an error has  *)
(* a file under a wrong name.                                              *)
(***************************************************************************)
RefusedForLength(c) == ret[c] = -1 /\ file[c].name > MAX_FILENAME_LEN
NamesWholeOrRefused ==
  \A i \in Slot : LET c == clientList[i].clientId IN
    clientList[i].filenameComplete
      => clientList[i].filenameLen = file[c].name \/ RefusedForLength(c)

(***************************************************************************)
(* A client that ends without an error has its whole file on the server,   *)
(* every piece once and in order.                                          *)
(***************************************************************************)
FilesArriveWhole ==
  \A c \in Client : pc[c] = "done" /\ ret[c] = 1 =>
    disk[c] = [k \in 1..file[c].pieces |-> k]

\* Every upload comes to an end.
EveryoneFinishes == \A c \in Client : <>(pc[c] = "done")
=============================================================================
