----------------------------- MODULE FileServer -----------------------------
(***************************************************************************)
(* The file server of file_test.c (Project 5) under any clients.  It       *)
(* serves one request after the other from its port and answers at the     *)
(* port of the client; MaxClients uploads may be open at a time, and a     *)
(* client that finds no free entry of clientList waits in a ring queue     *)
(* until the server revives it.  Ports are the channels that Ports         *)
(* implements.  A filename is its length, and a file is the sequence of    *)
(* the pieces that fgets reads, in which sizes are counted.                *)
(***************************************************************************)
EXTENDS Channels, FiniteSetsExt

CONSTANTS Client,            \* the clients' ports
          SERVER_PORT,
          MAX_CLIENTS,
          MAX_FILESIZE,
          WAITING_QUEUE_LEN,
          DataLen, PacketsLeft, Piece  \* what requests may carry

FILENAME_DATA_LEN == 6
MAX_FILENAME_LEN == 15

ASSUME ServerAssumption ==
  /\ SERVER_PORT \notin Client
  /\ IsFiniteSet(Client)
  /\ Port = Client \cup {SERVER_PORT}
  /\ MAX_CLIENTS \in Nat \ {0}
  /\ MAX_FILESIZE \in Nat
  /\ WAITING_QUEUE_LEN \in Nat \ {0}
  /\ DataLen \subseteq Int /\ PacketsLeft \subseteq Int

NameRequest(c, left, len) == [rp |-> c, type |-> 0, left |-> left, len |-> len]
DataRequest(c, piece) == [rp |-> c, type |-> 1, piece |-> piece]
EofRequest(c) == [rp |-> c, type |-> 2]
InvalidRequest(c) == [rp |-> c, type |-> 3]

RequestsOf(c) == {NameRequest(c, left, len) : left \in PacketsLeft, len \in DataLen}
                   \cup {DataRequest(c, piece) : piece \in Piece}
                   \cup {EofRequest(c), InvalidRequest(c)}
Request == UNION {RequestsOf(c) : c \in Client}
Reply == {"NOT_OK", "OK", "FULL", "READY", "WAIT_Q_FULL"}

VARIABLES
  clientList,        \* ClientData_t clientList[MAX_CLIENTS]
  waitingClientQ, inQ, outQ,
  server,            \* where the server is, and what it is about to send
  dialogue           \* what the client is in: see Ask and Hear

queueVars == <<waitingClientQ, inQ, outQ>>
serverVars == <<clientList, queueVars, server>>
vars == <<chan, serverVars, dialogue>>

Slot == 0..(MAX_CLIENTS - 1)
Places == 0..(WAITING_QUEUE_LEN - 1)

\* init_clientData(); fileSize is the length of what was written to fp.
EmptySlot == [clientId |-> SERVER_PORT, filenameLen |-> 0, filenameComplete |-> FALSE,
              filenamePacketsLeft |-> -1, fp |-> <<>>]

AtReceive == [at |-> "receive"]
AtReply(to, reply, then) == [at |-> "reply", to |-> to, reply |-> reply, then |-> then]
AtNotify(to, reply) == [at |-> "notify", to |-> to, reply |-> reply]

Idle == [state |-> "idle", revived |-> FALSE]

Init == /\ ChannelsInit
        /\ clientList = [i \in Slot |-> EmptySlot]
        /\ waitingClientQ = [i \in Places |-> SERVER_PORT]
        /\ inQ = 0 /\ outQ = 0
        /\ server = AtReceive
        /\ dialogue = [c \in Client |-> Idle]
-----------------------------------------------------------------------------
\* Slips in find_client: a free entry is preferred to the client's own, and
\* emptySlot starts as 0.
find_client_FreeFirst(c) ==
  LET own == {i \in Slot : clientList[i].clientId = c}
      empty == {i \in Slot : clientList[i].clientId = SERVER_PORT}
  IN IF empty # {} THEN Max(empty) ELSE IF own # {} THEN Min(own) ELSE -1

find_client_TakesOver(c) ==
  LET own == {i \in Slot : clientList[i].clientId = c}
      empty == {i \in Slot : clientList[i].clientId = SERVER_PORT}
  IN IF own # {} THEN Min(own) ELSE IF empty # {} THEN Max(empty) ELSE 0

(***************************************************************************)
(* find_client(): the client's entry, else the last free one, else -1.     *)
(***************************************************************************)
find_client(c) ==
  LET own == {i \in Slot : clientList[i].clientId = c}
      empty == {i \in Slot : clientList[i].clientId = SERVER_PORT}
  IN IF own # {} THEN Min(own) ELSE IF empty # {} THEN Max(empty) ELSE -1

NoSlot(c) == find_client(c) = -1

\* The entry that find_client has found for c or given to it.
Found(c) == [clientList[find_client(c)] EXCEPT !.clientId = c]

TooLong(slot, m) == m.len + slot.filenameLen > MAX_FILENAME_LEN
OutOfOrder(slot, m) == /\ slot.filenamePacketsLeft # -1
                       /\ m.left # slot.filenamePacketsLeft - 1
\* A slip in the checks: the length of the whole name is not one of them.
BadName_WithoutLimit(slot, m) == \/ slot.filenameComplete
                                 \/ m.len < 1
                                 \/ m.left = -1
                                 \/ OutOfOrder(slot, m)

\* Why a filename packet is turned down.
BadName(slot, m) == \/ TooLong(slot, m)
                    \/ slot.filenameComplete
                    \/ m.len < 1
                    \/ m.left = -1
                    \/ OutOfOrder(slot, m)

\* The request is answered, and its client's entry becomes slot.
Settle(m, slot, reply, then) ==
  /\ clientList' = [clientList EXCEPT ![find_client(m.rp)] = slot]
  /\ server' = AtReply(m.rp, reply, then)

\* init_clientData(), NOT_OK, and a waiting client is revived.
TurnDown(m) == Settle(m, EmptySlot, "NOT_OK", "revive")

\* The same for a client that no entry could be found for.
TurnAway(m, reply, then) == /\ NoSlot(m.rp)
                            /\ server' = AtReply(m.rp, reply, then)
                            /\ UNCHANGED clientList

Filename(m) ==
  /\ m.type = 0
  /\ \/ TurnAway(m, "FULL", "queue")
     \/ /\ ~NoSlot(m.rp)
        /\ BadName(Found(m.rp), m)
        /\ TurnDown(m)
     \/ /\ ~NoSlot(m.rp)
        /\ ~BadName(Found(m.rp), m)
        /\ Settle(m, [Found(m.rp) EXCEPT !.filenamePacketsLeft = m.left,
                                         !.filenameLen = @ + m.len,
                                         !.filenameComplete = (m.left = 0)],
                  "OK", "serve")

\* Uploading(m): the request comes from a client whose file is open.
Uploading(m) == ~NoSlot(m.rp) /\ Found(m.rp).filenameComplete
NotUploading(m) == ~NoSlot(m.rp) /\ ~Found(m.rp).filenameComplete
Exceeds(m) == Len(Found(m.rp).fp) + 1 > MAX_FILESIZE

\* A slip in Filedata: the file is written from its beginning each time.
Filedata_Rewinds(m) ==
  /\ m.type = 1
  /\ \/ TurnAway(m, "NOT_OK", "revive")
     \/ NotUploading(m) /\ TurnDown(m)
     \/ Uploading(m) /\ Exceeds(m) /\ TurnDown(m)
     \/ /\ Uploading(m) /\ ~Exceeds(m)
        /\ Settle(m, [Found(m.rp) EXCEPT !.fp = <<m.piece>>], "OK", "serve")

Filedata(m) ==
  /\ m.type = 1
  /\ \/ TurnAway(m, "NOT_OK", "revive")
     \/ NotUploading(m) /\ TurnDown(m)
     \/ Uploading(m) /\ Exceeds(m) /\ TurnDown(m)
     \/ /\ Uploading(m) /\ ~Exceeds(m)
        /\ Settle(m, [Found(m.rp) EXCEPT !.fp = Append(@, m.piece)], "OK", "serve")

\* A slip in EndOfFile: the entry is free, but nobody is told.
EndOfFile_RevivesNobody(m) ==
  /\ m.type = 2
  /\ \/ TurnAway(m, "NOT_OK", "revive")
     \/ NotUploading(m) /\ TurnDown(m)
     \/ Uploading(m) /\ Settle(m, EmptySlot, "OK", "serve")

EndOfFile(m) ==
  /\ m.type = 2
  /\ \/ TurnAway(m, "NOT_OK", "revive")
     \/ NotUploading(m) /\ TurnDown(m)
     \/ Uploading(m) /\ Settle(m, EmptySlot, "OK", "revive")

\* When fclose is called on the client's file.
Closes(m) == /\ Uploading(m)
             /\ m.type = 2 \/ (m.type = 1 /\ Exceeds(m))

\* An entry that find_client has given away for it stays with the client.
Invalid(m) ==
  /\ m.type \notin {0, 1, 2}
  /\ \/ TurnAway(m, "NOT_OK", "serve")
     \/ ~NoSlot(m.rp) /\ Settle(m, Found(m.rp), "NOT_OK", "serve")

ServeRequest ==
  /\ server.at = "receive"
  /\ chan[SERVER_PORT] # <<>>
  /\ LET m == Head(chan[SERVER_PORT]) IN
     /\ Receive(SERVER_PORT, m)
     /\ Filename(m) \/ Filedata(m) \/ EndOfFile(m) \/ Invalid(m)
  /\ UNCHANGED <<queueVars, dialogue>>
-----------------------------------------------------------------------------
\* A slip in popQ: the client keeps its place in the queue.
ReviveNext_KeepsPlace == \/ /\ inQ # outQ
                            /\ server' = AtNotify(waitingClientQ[outQ], "READY")
                            /\ UNCHANGED queueVars
                         \/ /\ inQ = outQ
                            /\ server' = AtReceive
                            /\ UNCHANGED queueVars

\* popQ(), and the READY to the client it gives.
ReviveNext == \/ /\ inQ # outQ
                 /\ outQ' = (outQ + 1) % WAITING_QUEUE_LEN
                 /\ server' = AtNotify(waitingClientQ[outQ], "READY")
                 /\ UNCHANGED <<waitingClientQ, inQ>>
              \/ /\ inQ = outQ
                 /\ server' = AtReceive
                 /\ UNCHANGED queueVars

\* Slips in pushQ: the client goes one place too far, or is not told that
\* there is no place for it.
Enqueue_TooFar(c) == LET next_in == (inQ + 1) % WAITING_QUEUE_LEN IN
  \/ /\ next_in # outQ
     /\ waitingClientQ' = [waitingClientQ EXCEPT ![next_in] = c]
     /\ inQ' = next_in
     /\ server' = AtReceive
     /\ UNCHANGED outQ
  \/ /\ next_in = outQ
     /\ server' = AtNotify(c, "WAIT_Q_FULL")
     /\ UNCHANGED queueVars

Enqueue_TellsNobody(c) == LET next_in == (inQ + 1) % WAITING_QUEUE_LEN IN
  \/ /\ next_in # outQ
     /\ waitingClientQ' = [waitingClientQ EXCEPT ![inQ] = c]
     /\ inQ' = next_in
     /\ server' = AtReceive
     /\ UNCHANGED outQ
  \/ /\ next_in = outQ
     /\ server' = AtReceive
     /\ UNCHANGED queueVars

\* pushQ(), and the WAIT_Q_FULL to a client it has no place for.
Enqueue(c) == LET next_in == (inQ + 1) % WAITING_QUEUE_LEN IN
  \/ /\ next_in # outQ
     /\ waitingClientQ' = [waitingClientQ EXCEPT ![inQ] = c]
     /\ inQ' = next_in
     /\ server' = AtReceive
     /\ UNCHANGED outQ
  \/ /\ next_in = outQ
     /\ server' = AtNotify(c, "WAIT_Q_FULL")
     /\ UNCHANGED queueVars

\* The reply to the request, and up to the next call of Send or Receive.
SendReply ==
  /\ server.at = "reply"
  /\ Send(server.to, server.reply)
  /\ \/ server.then = "revive" /\ ReviveNext
     \/ server.then = "queue" /\ Enqueue(server.to)
     \/ server.then = "serve" /\ server' = AtReceive /\ UNCHANGED queueVars
  /\ UNCHANGED <<clientList, dialogue>>

SendNotice ==
  /\ server.at = "notify"
  /\ Send(server.to, server.reply)
  /\ server' = AtReceive
  /\ UNCHANGED <<clientList, queueVars, dialogue>>

ServerNext == ServeRequest \/ SendReply \/ SendNotice
-----------------------------------------------------------------------------
(***************************************************************************)
(* What every client does, whatever it asks for: it sends a request and    *)
(* receives the reply, and after FULL it receives until it is revived.     *)
(* "revived" remembers that it was, up to the reply to its next request.   *)
(***************************************************************************)
Ask(c, m) == /\ dialogue[c].state = "idle"
             /\ Send(SERVER_PORT, m)
             /\ dialogue' = [dialogue EXCEPT ![c].state = "asked"]

Hear(c, reply) ==
  /\ dialogue[c].state # "idle"
  /\ Receive(c, reply)
  /\ LET wakes == reply \in {"READY", "WAIT_Q_FULL"} IN
     dialogue' = [dialogue EXCEPT ![c] =
       IF dialogue[c].state = "asked"
       THEN [state |-> IF reply = "FULL" THEN "full" ELSE "idle", revived |-> FALSE]
       ELSE [state |-> IF wakes THEN "idle" ELSE "full", revived |-> reply = "READY"]]

AnyClient(c) == /\ \/ \E m \in RequestsOf(c) : Ask(c, m)
                   \/ \E reply \in Reply : Hear(c, reply)
                /\ UNCHANGED serverVars

Next == ServerNext \/ \E c \in Client : AnyClient(c)

Spec == Init /\ [][Next]_vars
-----------------------------------------------------------------------------
Entry == [clientId : Client \cup {SERVER_PORT},
          filenameLen : 0..MAX_FILENAME_LEN,
          filenameComplete : BOOLEAN,
          filenamePacketsLeft : PacketsLeft \cup {-1},
          fp : Seq(Piece)]

TypeOK ==
  /\ DOMAIN chan = Port
  /\ chan[SERVER_PORT] \in Seq(Request)
  /\ \A c \in Client : chan[c] \in Seq(Reply)
  /\ clientList \in [Slot -> Entry]
  /\ waitingClientQ \in [Places -> Port] /\ inQ \in Places /\ outQ \in Places
  /\ \/ server = AtReceive
     \/ /\ server.at = "reply" /\ server.to \in Client
        /\ server.reply \in Reply /\ server.then \in {"revive", "queue", "serve"}
     \/ /\ server.at = "notify" /\ server.to \in Client /\ server.reply \in Reply
  /\ dialogue \in [Client -> [state : {"idle", "asked", "full"}, revived : BOOLEAN]]

\* The clients in the ring queue, the next one to be revived first.
Waiting == LET n == (inQ - outQ) % WAITING_QUEUE_LEN IN
           [k \in 1..n |-> waitingClientQ[(outQ + k - 1) % WAITING_QUEUE_LEN]]

\* What the server has sent to a client, or is about to send.
Replies(c) == chan[c] \o IF server.at # "receive" /\ server.to = c
                         THEN <<server.reply>> ELSE <<>>

\* How often a client is waiting, or about to be put in the queue.
TimesQueued(c) == Cardinality({k \in DOMAIN Waiting : Waiting[k] = c})
                    + IF server.at = "reply" /\ server.then = "queue" /\ server.to = c
                      THEN 1 ELSE 0
Requests(c) == Cardinality({k \in DOMAIN chan[SERVER_PORT] : chan[SERVER_PORT][k].rp = c})

(***************************************************************************)
(* A client that waits for the server is going to be answered by exactly   *)
(* one thing: the request that the server has yet to read, the reply, the  *)
(* place in the waiting queue, or the notice that it has left it.  So no   *)
(* READY reaches a client that does not wait for one, nobody waits twice,  *)
(* and at most two messages are in a client's port: the server never waits *)
(* in Send.                                                                *)
(***************************************************************************)
OneAnswerEach ==
  \A c \in Client :
    LET replies == Replies(c)
        Revival(rest) == \/ rest = <<>> /\ TimesQueued(c) = 1
                         \/ /\ rest \in {<<"READY">>, <<"WAIT_Q_FULL">>}
                            /\ TimesQueued(c) = 0
    IN \/ /\ dialogue[c].state = "idle"
          /\ Requests(c) = 0 /\ replies = <<>> /\ TimesQueued(c) = 0
       \/ /\ dialogue[c].state = "asked"
          /\ \/ Requests(c) = 1 /\ replies = <<>> /\ TimesQueued(c) = 0
             \/ /\ Requests(c) = 0 /\ TimesQueued(c) = 0
                /\ replies \in {<<"OK">>, <<"NOT_OK">>}
             \/ /\ Requests(c) = 0 /\ replies # <<>>
                /\ Head(replies) = "FULL" /\ Revival(Tail(replies))
       \/ /\ dialogue[c].state = "full"
          /\ Requests(c) = 0 /\ Revival(replies)

(***************************************************************************)
(* A client has one entry of clientList at most, and none while it waits.  *)
(***************************************************************************)
OneSlotEach ==
  \A i \in Slot : clientList[i].clientId # SERVER_PORT =>
    /\ TimesQueued(clientList[i].clientId) = 0
    /\ \A j \in Slot \ {i} : clientList[j].clientId # clientList[i].clientId

(***************************************************************************)
(* No revival is lost: while clients wait, every free entry is matched by  *)
(* a client that was revived for it and whose next request has not been    *)
(* served, or the server is just about to revive one.  A newcomer that     *)
(* takes the entry first, or a revived client that is turned down or put   *)
(* back into the queue, must not leave the others waiting for ever.        *)
(***************************************************************************)
Free == {i \in Slot : clientList[i].clientId = SERVER_PORT}
Revived == {c \in Client : \/ \E k \in DOMAIN Replies(c) : Replies(c)[k] = "READY"
                           \/ dialogue[c].revived /\ Replies(c) = <<>>}
NoLostRevival ==
  Waiting # <<>> =>
    Cardinality(Free) <= Cardinality(Revived)
      + IF server.at = "reply" /\ server.then = "revive" THEN 1 ELSE 0

(***************************************************************************)
(* The ring queue is first-come, first-served and never overwritten.       *)
(***************************************************************************)
RevivedInOrder ==
  [][\/ Waiting' = Waiting
     \/ Waiting # <<>> /\ Waiting' = Tail(Waiting)
     \/ \E c \in Client : Waiting' = Append(Waiting, c)]_vars

(***************************************************************************)
(* Serving a client leaves the entries of the others alone.                *)
(***************************************************************************)
EntriesArePrivate ==
  [][\A i \in Slot : clientList[i].clientId # SERVER_PORT =>
       \/ clientList'[i] = clientList[i]
       \/ Head(chan[SERVER_PORT]).rp = clientList[i].clientId]_vars
=============================================================================
