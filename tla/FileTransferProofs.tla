-------------------------- MODULE FileTransferProofs --------------------------
(***************************************************************************)
(* Proofs about FileServer and FileTransfer.                               *)
(*   Part 1 is about the server alone, for clients that send anything, for *)
(* every finite set of them, number of entries, length of the waiting      *)
(* queue and of the files and requests.                                    *)
(*   Part 2 is about the program: the clients of file_test.c are clients   *)
(* as FileServer means them, so that the theorems of part 1 hold of it;    *)
(* a name within the limit is never cut short; and the files of clients    *)
(* that meet no error arrive whole.                                        *)
(***************************************************************************)
EXTENDS FileTransfer, DataFacts

(***************************************************************************)
(* PART 1.  THE SERVER, FOR ANY CLIENTS                                    *)
(***************************************************************************)

(***************************************************************************)
(* The inductive invariant: what the properties say, and                   *)
(*   - what the server may be about to send, and that it puts a client in  *)
(*     the queue only when all entries are taken;                          *)
(*   - that a revived client has no entry yet;                             *)
(*   - that "revived" is reset by the next reply.                          *)
(***************************************************************************)
ServerSays ==
  /\ server.at = "reply" => /\ server.reply \in {"OK", "NOT_OK", "FULL"}
                            /\ server.reply = "FULL" <=> server.then = "queue"
                            /\ server.then = "queue" => Free = {}
  /\ server.at = "notify" => server.reply \in {"READY", "WAIT_Q_FULL"}

RevivedOwnNothing == \A i \in Slot : clientList[i].clientId \notin Revived

FullNotRevived == \A c \in Client : dialogue[c].state = "full" => ~dialogue[c].revived

ClientsWait == \A k \in DOMAIN Waiting : Waiting[k] \in Client

IInv == /\ TypeOK
        /\ OneAnswerEach
        /\ OneSlotEach
        /\ NoLostRevival
        /\ ServerSays /\ RevivedOwnNothing /\ FullNotRevived /\ ClientsWait
-----------------------------------------------------------------------------
(***************************************************************************)
(* What a request holds, and whom it comes from.                           *)
(***************************************************************************)
LEMMA RequestFacts ==
  ASSUME NEW m \in Request
  PROVE  /\ m.rp \in Client
         /\ m.type = 0 => m.left \in PacketsLeft /\ m.len \in DataLen
         /\ m.type = 1 => m.piece \in Piece
<1>1. PICK c \in Client : m \in RequestsOf(c)
  BY DEF Request
<1>2. CASE \E left \in PacketsLeft, len \in DataLen : m = NameRequest(c, left, len)
  BY <1>2 DEF NameRequest
<1>3. CASE \E piece \in Piece : m = DataRequest(c, piece)
  BY <1>3 DEF DataRequest
<1>4. CASE m = EofRequest(c) \/ m = InvalidRequest(c)
  BY <1>4 DEF EofRequest, InvalidRequest
<1> QED BY <1>1, <1>2, <1>3, <1>4 DEF RequestsOf

LEMMA AskedFacts ==
  ASSUME NEW c \in Client, NEW m \in RequestsOf(c)
  PROVE  m \in Request /\ m.rp = c
<1> SUFFICES m.rp = c
  BY DEF Request
<1>1. CASE \E left \in PacketsLeft, len \in DataLen : m = NameRequest(c, left, len)
  BY <1>1 DEF NameRequest
<1>2. CASE \E piece \in Piece : m = DataRequest(c, piece)
  BY <1>2 DEF DataRequest
<1>3. CASE m = EofRequest(c) \/ m = InvalidRequest(c)
  BY <1>3 DEF EofRequest, InvalidRequest
<1> QED BY <1>1, <1>2, <1>3 DEF RequestsOf

(***************************************************************************)
(* find_client() gives an entry that is the client's own or free, and a    *)
(* free one only to a client without an entry; it fails when there is      *)
(* neither.                                                                *)
(***************************************************************************)
Owns(i, c) == clientList[i].clientId = c

LEMMA FindClient ==
  ASSUME TypeOK, NEW c \in Client
  PROVE  /\ NoSlot(c) => /\ Free = {}
                         /\ \A i \in Slot : ~Owns(i, c)
         /\ ~NoSlot(c) => /\ find_client(c) \in Slot
                          /\ \/ Owns(find_client(c), c)
                             \/ /\ Owns(find_client(c), SERVER_PORT)
                                /\ \A i \in Slot : ~Owns(i, c)
<1> DEFINE own == {i \in Slot : clientList[i].clientId = c}
           f == find_client(c)
<1>1. f = IF own # {} THEN Min(own) ELSE IF Free # {} THEN Max(Free) ELSE -1
  BY DEF find_client, Free
<1>2. MAX_CLIENTS - 1 \in Nat /\ Slot = 0..(MAX_CLIENTS - 1) /\ -1 \notin Slot
  BY ServerAssumption DEF Slot
<1>3. Free \in SUBSET (0..(MAX_CLIENTS - 1)) /\ own \in SUBSET (0..(MAX_CLIENTS - 1))
  BY <1>2 DEF Free
<1>4. own # {} => Min(own) \in own
  BY <1>2, <1>3, MinMaxAreMembers
<1>5. Free # {} => Max(Free) \in Free
  BY <1>2, <1>3, MinMaxAreMembers
<1>6. NoSlot(c) <=> f = -1
  BY DEF NoSlot
<1> HIDE DEF f
<1>7. CASE own # {}
  BY <1>1, <1>2, <1>4, <1>6, <1>7 DEF Owns, f
<1>8. CASE own = {} /\ Free # {}
  <2>1. f \in Free
    BY <1>1, <1>5, <1>8
  <2> QED BY <1>2, <1>6, <1>8, <2>1 DEF Owns, Free, f
<1>9. CASE own = {} /\ Free = {}
  BY <1>1, <1>6, <1>9 DEF Owns
<1> QED BY <1>7, <1>8, <1>9
-----------------------------------------------------------------------------
(***************************************************************************)
(* What serving a request may do, whichever handler serves it: the reply   *)
(* goes to the client, and of the entries only the client's is changed or  *)
(* given back, or a free one is taken.                                     *)
(***************************************************************************)
Changes(c, then) ==
  \E slot \in Entry :
    /\ slot.clientId = c \/ (slot.clientId = SERVER_PORT /\ then = "revive")
    /\ clientList' = [clientList EXCEPT ![find_client(c)] = slot]

Handled(m, reply, then) ==
  /\ server' = AtReply(m.rp, reply, then)
  /\ \/ reply \in {"OK", "NOT_OK"} /\ then \in {"revive", "serve"}
     \/ reply = "FULL" /\ then = "queue"
  /\ \/ NoSlot(m.rp) /\ clientList' = clientList
     \/ ~NoSlot(m.rp) /\ then # "queue" /\ Changes(m.rp, then)

Then == {"revive", "queue", "serve"}

LEMMA EntryFacts ==
  ASSUME TypeOK, NEW c \in Client, ~NoSlot(c)
  PROVE  /\ Found(c) \in Entry /\ Found(c).clientId = c
         /\ EmptySlot \in Entry /\ EmptySlot.clientId = SERVER_PORT
<1>1. clientList[find_client(c)] \in Entry
  BY FindClient DEF TypeOK
<1>2. Found(c) \in Entry /\ Found(c).clientId = c
  BY <1>1 DEF Found, Entry
<1>3. <<>> \in Seq(Piece)
  BY EmptySeq
<1>4. EmptySlot \in Entry /\ EmptySlot.clientId = SERVER_PORT
  BY <1>3 DEF EmptySlot, Entry, MAX_FILENAME_LEN
<1> QED BY <1>2, <1>4

\* The two ways in which the handlers end.
LEMMA SettleHandled ==
  ASSUME TypeOK, NEW m \in Request, ~NoSlot(m.rp), NEW slot \in Entry,
         NEW reply \in {"OK", "NOT_OK"}, NEW then \in {"revive", "serve"},
         slot.clientId = m.rp \/ (slot.clientId = SERVER_PORT /\ then = "revive"),
         Settle(m, slot, reply, then)
  PROVE  \E r \in Reply, t \in Then : Handled(m, r, t)
<1>1. /\ server' = AtReply(m.rp, reply, then)
      /\ clientList' = [clientList EXCEPT ![find_client(m.rp)] = slot]
  BY DEF Settle
<1>2. Changes(m.rp, then)
  BY <1>1, Zenon DEF Changes
<1>3. then # "queue"
  OBVIOUS
<1>4. Handled(m, reply, then)
  BY <1>1, <1>2, <1>3, Zenon DEF Handled
<1>5. reply \in Reply /\ then \in Then
  BY DEF Reply, Then
<1> QED BY <1>4, <1>5

LEMMA TurnAwayHandled ==
  ASSUME NEW m \in Request, NEW reply, NEW then,
         \/ reply \in {"OK", "NOT_OK"} /\ then \in {"revive", "serve"}
         \/ reply = "FULL" /\ then = "queue",
         TurnAway(m, reply, then)
  PROVE  \E r \in Reply, t \in Then : Handled(m, r, t)
<1>1. NoSlot(m.rp) /\ server' = AtReply(m.rp, reply, then) /\ clientList' = clientList
  BY DEF TurnAway
<1>2. Handled(m, reply, then)
  BY <1>1, Zenon DEF Handled
<1>3. reply \in Reply /\ then \in Then
  BY DEF Reply, Then
<1> QED BY <1>2, <1>3

LEMMA TurnDownHandled ==
  ASSUME TypeOK, NEW m \in Request, ~NoSlot(m.rp), TurnDown(m)
  PROVE  \E r \in Reply, t \in Then : Handled(m, r, t)
<1> DEFINE notOk == "NOT_OK"  revive == "revive"
<1>1. m.rp \in Client
  BY RequestFacts
<1>2. EmptySlot \in Entry /\ EmptySlot.clientId = SERVER_PORT
  BY <1>1, EntryFacts
<1>3. notOk \in {"OK", "NOT_OK"} /\ revive \in {"revive", "serve"} /\ revive = "revive"
  OBVIOUS
<1>4. Settle(m, EmptySlot, notOk, revive)
  BY Zenon DEF TurnDown
<1> HIDE DEF notOk, revive
<1> QED BY <1>2, <1>3, <1>4, SettleHandled

LEMMA FilenameHandled ==
  ASSUME TypeOK, NEW m \in Request, Filename(m)
  PROVE  \E r \in Reply, t \in Then : Handled(m, r, t)
<1> DEFINE ok == "OK"  serve == "serve"  full == "FULL"  queue == "queue"
           slot == [Found(m.rp) EXCEPT !.filenamePacketsLeft = m.left,
                                       !.filenameLen = @ + m.len,
                                       !.filenameComplete = (m.left = 0)]
<1>1. m.rp \in Client /\ ok \in {"OK", "NOT_OK"} /\ serve \in {"revive", "serve"}
  BY RequestFacts
<1>2. full = "FULL" /\ queue = "queue"
  OBVIOUS
<1>3. /\ m.type = 0
      /\ \/ TurnAway(m, full, queue)
         \/ ~NoSlot(m.rp) /\ TurnDown(m)
         \/ ~NoSlot(m.rp) /\ ~BadName(Found(m.rp), m) /\ Settle(m, slot, ok, serve)
  BY Zenon DEF Filename
<1> HIDE DEF ok, serve, full, queue, slot
<1>4. CASE TurnAway(m, full, queue)
  BY <1>2, <1>4, TurnAwayHandled
<1>5. CASE ~NoSlot(m.rp) /\ TurnDown(m)
  BY <1>5, TurnDownHandled
<1>6. CASE ~NoSlot(m.rp) /\ ~BadName(Found(m.rp), m) /\ Settle(m, slot, ok, serve)
  <2>1. Found(m.rp) \in Entry /\ Found(m.rp).clientId = m.rp
    BY <1>1, <1>6, EntryFacts
  <2>2. m.left \in PacketsLeft /\ m.len \in Int
    BY <1>3, RequestFacts, ServerAssumption
  <2>3. ~(m.len + Found(m.rp).filenameLen > 15) /\ ~(m.len < 1)
    BY <1>6, Zenon DEF BadName, TooLong, MAX_FILENAME_LEN
  <2>4. slot \in Entry /\ slot.clientId = m.rp
    <3> DEFINE found == Found(m.rp)
    <3> HIDE DEF found
    <3>1. found.filenameLen \in 0..15
      BY <2>1 DEF Entry, MAX_FILENAME_LEN, found
    <3>2. ~(m.len + found.filenameLen > 15) /\ ~(m.len < 1)
      BY <2>3 DEF found
    <3>3. found.filenameLen + m.len \in 0..15
      BY <2>2, <3>1, <3>2
    <3> QED BY <2>1, <2>2, <3>3 DEF Entry, MAX_FILENAME_LEN, found, slot
  <2> QED BY <1>1, <1>6, <2>4, SettleHandled
<1> QED BY <1>3, <1>4, <1>5, <1>6

LEMMA FiledataHandled ==
  ASSUME TypeOK, NEW m \in Request, Filedata(m)
  PROVE  \E r \in Reply, t \in Then : Handled(m, r, t)
<1> DEFINE ok == "OK"  notOk == "NOT_OK"  serve == "serve"  revive == "revive"
           slot == [Found(m.rp) EXCEPT !.fp = Append(@, m.piece)]
<1>1. /\ m.rp \in Client
      /\ ok \in {"OK", "NOT_OK"} /\ notOk \in {"OK", "NOT_OK"}
      /\ serve \in {"revive", "serve"} /\ revive \in {"revive", "serve"}
  BY RequestFacts
<1>2. /\ m.type = 1
      /\ \/ TurnAway(m, notOk, revive)
         \/ ~NoSlot(m.rp) /\ TurnDown(m)
         \/ ~NoSlot(m.rp) /\ Settle(m, slot, ok, serve)
  BY Zenon DEF Filedata, NotUploading, Uploading
<1> HIDE DEF ok, notOk, serve, revive, slot
<1>3. CASE TurnAway(m, notOk, revive)
  BY <1>1, <1>3, TurnAwayHandled
<1>4. CASE ~NoSlot(m.rp) /\ TurnDown(m)
  BY <1>4, TurnDownHandled
<1>5. CASE ~NoSlot(m.rp) /\ Settle(m, slot, ok, serve)
  <2>1. Found(m.rp) \in Entry /\ Found(m.rp).clientId = m.rp
    BY <1>1, <1>5, EntryFacts
  <2>2. Append(Found(m.rp).fp, m.piece) \in Seq(Piece)
    BY <1>2, <2>1, RequestFacts, AppendProperties DEF Entry
  <2>3. slot \in Entry /\ slot.clientId = m.rp
    BY <2>1, <2>2 DEF Entry, slot
  <2> QED BY <1>1, <1>5, <2>3, SettleHandled
<1> QED BY <1>2, <1>3, <1>4, <1>5

LEMMA EndOfFileHandled ==
  ASSUME TypeOK, NEW m \in Request, EndOfFile(m)
  PROVE  \E r \in Reply, t \in Then : Handled(m, r, t)
<1> DEFINE ok == "OK"  notOk == "NOT_OK"  revive == "revive"
<1>1. /\ m.rp \in Client
      /\ ok \in {"OK", "NOT_OK"} /\ notOk \in {"OK", "NOT_OK"}
      /\ revive \in {"revive", "serve"} /\ revive = "revive"
  BY RequestFacts
<1>2. \/ TurnAway(m, notOk, revive)
      \/ ~NoSlot(m.rp) /\ TurnDown(m)
      \/ ~NoSlot(m.rp) /\ Settle(m, EmptySlot, ok, revive)
  BY Zenon DEF EndOfFile, NotUploading, Uploading
<1> HIDE DEF ok, notOk, revive
<1>3. CASE TurnAway(m, notOk, revive)
  BY <1>1, <1>3, TurnAwayHandled
<1>4. CASE ~NoSlot(m.rp) /\ TurnDown(m)
  BY <1>4, TurnDownHandled
<1>5. CASE ~NoSlot(m.rp) /\ Settle(m, EmptySlot, ok, revive)
  BY <1>1, <1>5, EntryFacts, SettleHandled
<1> QED BY <1>2, <1>3, <1>4, <1>5

LEMMA InvalidHandled ==
  ASSUME TypeOK, NEW m \in Request, Invalid(m)
  PROVE  \E r \in Reply, t \in Then : Handled(m, r, t)
<1> DEFINE notOk == "NOT_OK"  serve == "serve"
<1>1. m.rp \in Client /\ notOk \in {"OK", "NOT_OK"} /\ serve \in {"revive", "serve"}
  BY RequestFacts
<1>2. \/ TurnAway(m, notOk, serve)
      \/ ~NoSlot(m.rp) /\ Settle(m, Found(m.rp), notOk, serve)
  BY Zenon DEF Invalid
<1> HIDE DEF notOk, serve
<1>3. CASE TurnAway(m, notOk, serve)
  BY <1>1, <1>3, TurnAwayHandled
<1>4. CASE ~NoSlot(m.rp) /\ Settle(m, Found(m.rp), notOk, serve)
  BY <1>1, <1>4, EntryFacts, SettleHandled
<1> QED BY <1>2, <1>3, <1>4

LEMMA ServeFacts ==
  ASSUME TypeOK, ServeRequest
  PROVE  LET m == Head(chan[SERVER_PORT]) IN
         /\ m \in Request /\ m.rp \in Client
         /\ server.at = "receive" /\ chan[SERVER_PORT] # <<>>
         /\ chan' = [chan EXCEPT ![SERVER_PORT] = Tail(@)]
         /\ UNCHANGED <<queueVars, dialogue>>
         /\ \E r \in Reply, t \in Then : Handled(m, r, t)
<1> DEFINE m == Head(chan[SERVER_PORT])
<1>1. /\ server.at = "receive" /\ chan[SERVER_PORT] # <<>>
      /\ chan' = [chan EXCEPT ![SERVER_PORT] = Tail(@)]
      /\ Filename(m) \/ Filedata(m) \/ EndOfFile(m) \/ Invalid(m)
      /\ UNCHANGED <<queueVars, dialogue>>
  BY Zenon DEF ServeRequest, Receive
<1>2. m \in Request /\ m.rp \in Client
  BY <1>1, HeadTailProperties, RequestFacts DEF TypeOK
<1> HIDE DEF m
<1>3. \E r \in Reply, t \in Then : Handled(m, r, t)
  BY <1>1, <1>2, FilenameHandled, FiledataHandled, EndOfFileHandled, InvalidHandled
<1> QED BY <1>1, <1>2, <1>3 DEF m
-----------------------------------------------------------------------------
(***************************************************************************)
(* pushQ and popQ: the ring holds the clients that wait, in their order.   *)
(***************************************************************************)
LEMMA WaitingFacts ==
  ASSUME TypeOK
  PROVE  /\ Waiting \in Seq(Port)
         /\ Waiting = RingContents(waitingClientQ, outQ, inQ, WAITING_QUEUE_LEN)
         /\ Waiting = <<>> <=> inQ = outQ
<1>1. /\ WAITING_QUEUE_LEN \in Nat \ {0}
      /\ waitingClientQ \in [0..(WAITING_QUEUE_LEN - 1) -> Port]
      /\ inQ \in 0..(WAITING_QUEUE_LEN - 1) /\ outQ \in 0..(WAITING_QUEUE_LEN - 1)
  BY ServerAssumption DEF TypeOK, Places
<1>2. Waiting = RingContents(waitingClientQ, outQ, inQ, WAITING_QUEUE_LEN)
  BY DEF Waiting, RingContents
<1> QED BY <1>1, <1>2, RingContentsFacts

QueueTypes == waitingClientQ \in [Places -> Port] /\ inQ \in Places /\ outQ \in Places

LEMMA PushFacts ==
  ASSUME TypeOK, NEW c \in Client,
         (inQ + 1) % WAITING_QUEUE_LEN # outQ,
         waitingClientQ' = [waitingClientQ EXCEPT ![inQ] = c],
         inQ' = (inQ + 1) % WAITING_QUEUE_LEN, outQ' = outQ
  PROVE  Waiting' = Append(Waiting, c) /\ QueueTypes'
<1>1. /\ WAITING_QUEUE_LEN \in Nat \ {0} /\ c \in Port
      /\ waitingClientQ \in [0..(WAITING_QUEUE_LEN - 1) -> Port]
      /\ inQ \in 0..(WAITING_QUEUE_LEN - 1) /\ outQ \in 0..(WAITING_QUEUE_LEN - 1)
  BY ServerAssumption DEF TypeOK, Places
<1>2. Waiting' = RingContents(waitingClientQ', outQ', inQ', WAITING_QUEUE_LEN)
  BY DEF Waiting, RingContents
<1>3. Waiting' = Append(Waiting, c)
  <2> DEFINE old == Waiting
             new == Append(Waiting, c)
  <2>1. /\ old \in Seq(Port) /\ Len(old) < WAITING_QUEUE_LEN
        /\ InRing(old, waitingClientQ, outQ, inQ, WAITING_QUEUE_LEN)
    BY <1>1, WaitingFacts, RingContentsFacts
  <2> HIDE DEF old
  <2>2. InRing(new, [waitingClientQ EXCEPT ![inQ] = c], outQ,
               (inQ + 1) % WAITING_QUEUE_LEN, WAITING_QUEUE_LEN)
    BY <1>1, <2>1, RingAppend DEF old
  <2>3. InRing(new, waitingClientQ', outQ, inQ', WAITING_QUEUE_LEN)
    BY <2>2
  <2>4. new \in Seq(Port)
    BY <1>1, <2>1, AppendProperties DEF old
  <2> HIDE DEF new
  <2>5. inQ' \in 0..(WAITING_QUEUE_LEN - 1) /\ inQ' # outQ
    BY <1>1
  <2>6. Len(new) < WAITING_QUEUE_LEN
    BY <1>1, <2>3, <2>4, <2>5, RingNotFull
  <2>7. new = RingContents(waitingClientQ', outQ, inQ', WAITING_QUEUE_LEN)
    BY <1>1, <2>3, <2>4, <2>5, <2>6, RingContentsUnique
  <2> QED BY <1>2, <2>7 DEF new
<1>4. inQ' \in 0..(WAITING_QUEUE_LEN - 1)
  BY <1>1
<1> QED BY <1>1, <1>3, <1>4 DEF QueueTypes, Places

LEMMA PopFacts ==
  ASSUME TypeOK, inQ # outQ,
         outQ' = (outQ + 1) % WAITING_QUEUE_LEN,
         waitingClientQ' = waitingClientQ, inQ' = inQ
  PROVE  /\ Waiting # <<>> /\ waitingClientQ[outQ] = Head(Waiting)
         /\ Waiting' = Tail(Waiting) /\ QueueTypes'
<1>1. /\ WAITING_QUEUE_LEN \in Nat \ {0}
      /\ waitingClientQ \in [0..(WAITING_QUEUE_LEN - 1) -> Port]
      /\ inQ \in 0..(WAITING_QUEUE_LEN - 1) /\ outQ \in 0..(WAITING_QUEUE_LEN - 1)
  BY ServerAssumption DEF TypeOK, Places
<1>2. Waiting' = RingContents(waitingClientQ', outQ', inQ', WAITING_QUEUE_LEN)
  BY DEF Waiting, RingContents
<1>3. /\ Waiting # <<>> /\ waitingClientQ[outQ] = Head(Waiting)
      /\ Waiting' = Tail(Waiting) /\ outQ' \in 0..(WAITING_QUEUE_LEN - 1)
  <2> DEFINE n == WAITING_QUEUE_LEN  b == waitingClientQ  i == inQ  o == outQ
  <2>1. /\ n \in Nat \ {0} /\ b \in [0..(n - 1) -> Port]
        /\ i \in 0..(n - 1) /\ o \in 0..(n - 1) /\ i # o
    BY <1>1
  <2>2. Waiting' = RingContents(b, (o + 1) % n, i, n)
    BY <1>2
  <2>3. Waiting = RingContents(b, o, i, n)
    BY WaitingFacts
  <2> HIDE DEF n, b, i, o
  <2>4. /\ RingContents(b, o, i, n) # <<>>
        /\ b[o] = Head(RingContents(b, o, i, n))
        /\ (o + 1) % n \in 0..(n - 1)
        /\ RingContents(b, (o + 1) % n, i, n) = Tail(RingContents(b, o, i, n))
    BY <2>1, RingPop
  <2> USE DEF n, b, i, o
  <2> QED BY <2>2, <2>3, <2>4
<1> QED BY <1>1, <1>3 DEF QueueTypes, Places

LEMMA QueueUnchanged ==
  ASSUME UNCHANGED queueVars
  PROVE  Waiting' = Waiting /\ (TypeOK => QueueTypes')
BY DEF queueVars, Waiting, TypeOK, QueueTypes

(***************************************************************************)
(* SendReply: it goes back to Receive, or pops a client and revives it, or *)
(* puts the client in the queue, or refuses to.                            *)
(***************************************************************************)
Returns == /\ server.then = "serve" \/ (server.then = "revive" /\ Waiting = <<>>)
           /\ server' = AtReceive
           /\ Waiting' = Waiting

Pops == /\ server.then = "revive"
        /\ Waiting # <<>>
        /\ server' = AtNotify(Head(Waiting), "READY")
        /\ Waiting' = Tail(Waiting)

Pushes == /\ server.then = "queue"
          /\ server' = AtReceive
          /\ Waiting' = Append(Waiting, server.to)

Refuses == /\ server.then = "queue"
           /\ server' = AtNotify(server.to, "WAIT_Q_FULL")
           /\ Waiting' = Waiting

LEMMA SendReplyFacts ==
  ASSUME TypeOK, SendReply
  PROVE  /\ server.at = "reply" /\ server.to \in Client /\ server.reply \in Reply
         /\ chan' = [chan EXCEPT ![server.to] = Append(@, server.reply)]
         /\ UNCHANGED <<clientList, dialogue>>
         /\ QueueTypes'
         /\ Returns \/ Pops \/ Pushes \/ Refuses
<1>1. /\ server.at = "reply"
      /\ chan' = [chan EXCEPT ![server.to] = Append(@, server.reply)]
      /\ UNCHANGED <<clientList, dialogue>>
  BY DEF SendReply, Send
<1>2. server.to \in Client /\ server.reply \in Reply
  BY <1>1 DEF TypeOK, AtReceive
<1>3. CASE server.then = "revive" /\ ReviveNext
  <2>1. CASE /\ inQ # outQ
             /\ outQ' = (outQ + 1) % WAITING_QUEUE_LEN
             /\ server' = AtNotify(waitingClientQ[outQ], "READY")
             /\ UNCHANGED <<waitingClientQ, inQ>>
    <3>1. Pops /\ QueueTypes'
      BY <1>3, <2>1, PopFacts DEF Pops, AtNotify
    <3> QED BY <1>1, <1>2, <3>1
  <2>2. CASE inQ = outQ /\ server' = AtReceive /\ UNCHANGED queueVars
    <3>1. Returns /\ QueueTypes'
      BY <1>3, <2>2, QueueUnchanged, WaitingFacts DEF Returns
    <3> QED BY <1>1, <1>2, <3>1
  <2> QED BY <1>3, <2>1, <2>2 DEF ReviveNext, AtNotify
<1>4. CASE server.then = "queue" /\ Enqueue(server.to)
  <2>1. CASE /\ (inQ + 1) % WAITING_QUEUE_LEN # outQ
             /\ waitingClientQ' = [waitingClientQ EXCEPT ![inQ] = server.to]
             /\ inQ' = (inQ + 1) % WAITING_QUEUE_LEN
             /\ server' = AtReceive
             /\ UNCHANGED outQ
    <3>1. Pushes /\ QueueTypes'
      BY <1>2, <1>4, <2>1, PushFacts DEF Pushes
    <3> QED BY <1>1, <1>2, <3>1
  <2>2. CASE server' = AtNotify(server.to, "WAIT_Q_FULL") /\ UNCHANGED queueVars
    <3>1. Refuses /\ QueueTypes'
      BY <1>4, <2>2, QueueUnchanged DEF Refuses, AtNotify
    <3> QED BY <1>1, <1>2, <3>1
  <2> QED BY <1>4, <2>1, <2>2 DEF Enqueue, AtNotify
<1>5. CASE server.then = "serve" /\ server' = AtReceive /\ UNCHANGED queueVars
  <2>1. Returns /\ QueueTypes'
    BY <1>5, QueueUnchanged DEF Returns
  <2> QED BY <1>1, <1>2, <2>1
<1> QED BY <1>3, <1>4, <1>5 DEF SendReply

LEMMA SendNoticeFacts ==
  ASSUME TypeOK, SendNotice
  PROVE  /\ server.at = "notify" /\ server.to \in Client /\ server.reply \in Reply
         /\ chan' = [chan EXCEPT ![server.to] = Append(@, server.reply)]
         /\ server' = AtReceive
         /\ UNCHANGED <<clientList, queueVars, dialogue>>
<1>1. server.at = "notify"
  BY DEF SendNotice
<1>2. server.to \in Client /\ server.reply \in Reply
  BY <1>1 DEF TypeOK, AtReceive
<1> QED BY <1>1, <1>2 DEF SendNotice, Send

\* A client takes the first reply of its port.
LEMMA HearFacts ==
  ASSUME TypeOK, NEW c \in Client, NEW reply, Hear(c, reply)
  PROVE  /\ chan[c] # <<>> /\ reply = Head(chan[c]) /\ reply \in Reply
         /\ chan' = [chan EXCEPT ![c] = Tail(@)]
         /\ dialogue[c].state # "idle"
         /\ dialogue' = [dialogue EXCEPT ![c] =
              IF dialogue[c].state = "asked"
              THEN [state |-> IF reply = "FULL" THEN "full" ELSE "idle", revived |-> FALSE]
              ELSE [state |-> IF reply \in {"READY", "WAIT_Q_FULL"} THEN "idle" ELSE "full",
                    revived |-> reply = "READY"]]
<1>1. chan[c] # <<>> /\ reply = Head(chan[c]) /\ chan' = [chan EXCEPT ![c] = Tail(@)]
  BY DEF Hear, Receive
<1>2. reply \in Reply
  BY <1>1, HeadTailProperties DEF TypeOK
<1> QED BY <1>1, <1>2 DEF Hear
-----------------------------------------------------------------------------
(***************************************************************************)
(* The types.                                                              *)
(***************************************************************************)
LEMMA InitTypes ==
  ASSUME Init
  PROVE  TypeOK /\ ClientsWait /\ Waiting = <<>>
<1>1. /\ chan = [p \in Port |-> <<>>] /\ clientList = [i \in Slot |-> EmptySlot]
      /\ waitingClientQ = [i \in Places |-> SERVER_PORT] /\ inQ = 0 /\ outQ = 0
      /\ server = AtReceive /\ dialogue = [c \in Client |-> Idle]
  BY DEF Init, ChannelsInit
<1>2. Port = Client \cup {SERVER_PORT} /\ WAITING_QUEUE_LEN \in Nat \ {0}
  BY ServerAssumption
<1>3. <<>> \in Seq(Request) /\ <<>> \in Seq(Reply) /\ <<>> \in Seq(Piece)
  BY EmptySeq
<1>4. EmptySlot \in Entry
  BY <1>3 DEF EmptySlot, Entry, MAX_FILENAME_LEN
<1>5. 0 \in Places
  BY <1>2 DEF Places
<1>6. TypeOK
  BY <1>1, <1>2, <1>3, <1>4, <1>5 DEF TypeOK, Idle
<1>7. Waiting = <<>>
  BY <1>1, <1>6, WaitingFacts
<1> QED BY <1>6, <1>7 DEF ClientsWait

\* What Send and Receive leave of the types of the channels.
ChanTypes == /\ DOMAIN chan = Port
             /\ chan[SERVER_PORT] \in Seq(Request)
             /\ \A c \in Client : chan[c] \in Seq(Reply)

LEMMA ReplySent ==
  ASSUME TypeOK, NEW c \in Client, NEW r \in Reply,
         chan' = [chan EXCEPT ![c] = Append(@, r)]
  PROVE  /\ ChanTypes' /\ chan'[SERVER_PORT] = chan[SERVER_PORT]
         /\ chan'[c] = Append(chan[c], r)
         /\ \A d \in Client \ {c} : chan'[d] = chan[d]
<1>1. /\ DOMAIN chan = Port /\ Port = Client \cup {SERVER_PORT} /\ SERVER_PORT \notin Client
      /\ chan[SERVER_PORT] \in Seq(Request)
      /\ \A d \in Client : chan[d] \in Seq(Reply)
  BY ServerAssumption DEF TypeOK
<1>2. Append(chan[c], r) \in Seq(Reply)
  BY <1>1, AppendProperties
<1> QED BY <1>1, <1>2 DEF ChanTypes

LEMMA ReplyHeard ==
  ASSUME TypeOK, NEW c \in Client, chan[c] # <<>>,
         chan' = [chan EXCEPT ![c] = Tail(@)]
  PROVE  /\ ChanTypes' /\ chan'[SERVER_PORT] = chan[SERVER_PORT]
         /\ chan'[c] = Tail(chan[c])
         /\ \A d \in Client \ {c} : chan'[d] = chan[d]
<1>1. /\ DOMAIN chan = Port /\ Port = Client \cup {SERVER_PORT} /\ SERVER_PORT \notin Client
      /\ chan[SERVER_PORT] \in Seq(Request)
      /\ \A d \in Client : chan[d] \in Seq(Reply)
  BY ServerAssumption DEF TypeOK
<1>2. Tail(chan[c]) \in Seq(Reply)
  BY <1>1, HeadTailProperties
<1> QED BY <1>1, <1>2 DEF ChanTypes

LEMMA RequestSent ==
  ASSUME TypeOK, NEW m \in Request, chan' = [chan EXCEPT ![SERVER_PORT] = Append(@, m)]
  PROVE  /\ ChanTypes' /\ chan'[SERVER_PORT] = Append(chan[SERVER_PORT], m)
         /\ \A d \in Client : chan'[d] = chan[d]
<1>1. /\ DOMAIN chan = Port /\ Port = Client \cup {SERVER_PORT} /\ SERVER_PORT \notin Client
      /\ chan[SERVER_PORT] \in Seq(Request)
      /\ \A d \in Client : chan[d] \in Seq(Reply)
  BY ServerAssumption DEF TypeOK
<1>2. Append(chan[SERVER_PORT], m) \in Seq(Request)
  BY <1>1, AppendProperties
<1> QED BY <1>1, <1>2 DEF ChanTypes

LEMMA RequestRead ==
  ASSUME TypeOK, chan[SERVER_PORT] # <<>>, chan' = [chan EXCEPT ![SERVER_PORT] = Tail(@)]
  PROVE  /\ ChanTypes' /\ chan'[SERVER_PORT] = Tail(chan[SERVER_PORT])
         /\ \A d \in Client : chan'[d] = chan[d]
<1>1. /\ DOMAIN chan = Port /\ Port = Client \cup {SERVER_PORT} /\ SERVER_PORT \notin Client
      /\ chan[SERVER_PORT] \in Seq(Request)
      /\ \A d \in Client : chan[d] \in Seq(Reply)
  BY ServerAssumption DEF TypeOK
<1>2. Tail(chan[SERVER_PORT]) \in Seq(Request)
  BY <1>1, HeadTailProperties
<1> QED BY <1>1, <1>2 DEF ChanTypes

ServerTypes ==
  \/ server = AtReceive
  \/ /\ server.at = "reply" /\ server.to \in Client
     /\ server.reply \in Reply /\ server.then \in Then
  \/ server.at = "notify" /\ server.to \in Client /\ server.reply \in Reply

DialogueTypes == dialogue \in [Client -> [state : {"idle", "asked", "full"}, revived : BOOLEAN]]

LEMMA TypesNext ==
  ASSUME ChanTypes', clientList' \in [Slot -> Entry], QueueTypes', ServerTypes', DialogueTypes'
  PROVE  TypeOK'
BY DEF TypeOK, ChanTypes, QueueTypes, ServerTypes, DialogueTypes, Then

LEMMA TypesNow ==
  ASSUME TypeOK
  PROVE  /\ ChanTypes /\ clientList \in [Slot -> Entry] /\ QueueTypes /\ ServerTypes
         /\ DialogueTypes
BY DEF TypeOK, ChanTypes, QueueTypes, ServerTypes, DialogueTypes, Then

LEMMA ServeTypes ==
  ASSUME TypeOK, ServeRequest
  PROVE  TypeOK'
<1> DEFINE m == Head(chan[SERVER_PORT])
<1>1. /\ m.rp \in Client /\ m \in Request
      /\ chan[SERVER_PORT] # <<>> /\ chan' = [chan EXCEPT ![SERVER_PORT] = Tail(@)]
      /\ UNCHANGED <<queueVars, dialogue>>
      /\ \E r \in Reply, t \in Then : Handled(m, r, t)
  BY ServeFacts
<1> HIDE DEF m
<1>2. PICK r \in Reply, t \in Then : Handled(m, r, t)
  BY <1>1
<1>3. ChanTypes'
  BY <1>1, RequestRead
<1>4. QueueTypes' /\ DialogueTypes'
  BY <1>1, QueueUnchanged, TypesNow DEF DialogueTypes
<1>5. server' = AtReply(m.rp, r, t)
  BY <1>2 DEF Handled
<1>6. ServerTypes'
  BY <1>1, <1>5 DEF ServerTypes, AtReply
<1>7. clientList' \in [Slot -> Entry]
  <2>1. CASE clientList' = clientList
    BY <2>1 DEF TypeOK
  <2>2. CASE ~NoSlot(m.rp) /\ Changes(m.rp, t)
    <3>1. PICK slot \in Entry : clientList' = [clientList EXCEPT ![find_client(m.rp)] = slot]
      BY <2>2 DEF Changes
    <3> QED BY <3>1 DEF TypeOK
  <2> QED BY <1>2, <2>1, <2>2 DEF Handled
<1> QED BY <1>3, <1>4, <1>6, <1>7, TypesNext

LEMMA HeadWaiting ==
  ASSUME TypeOK, ClientsWait, Waiting # <<>>
  PROVE  Head(Waiting) \in Client
<1> DEFINE w == Waiting
<1>1. w \in Seq(Port) /\ w # <<>> /\ \A k \in DOMAIN w : w[k] \in Client
  BY WaitingFacts DEF ClientsWait
<1> HIDE DEF w
<1>2. Head(w) = w[1] /\ 1 \in DOMAIN w
  BY <1>1, HeadTailProperties, LenProperties, EmptySeq
<1>3. Head(w) \in Client
  BY <1>1, <1>2
<1> QED BY <1>3 DEF w

LEMMA SendReplyTypes ==
  ASSUME TypeOK, ClientsWait, SendReply
  PROVE  TypeOK'
<1>1. /\ server.to \in Client /\ server.reply \in Reply
      /\ chan' = [chan EXCEPT ![server.to] = Append(@, server.reply)]
      /\ UNCHANGED <<clientList, dialogue>>
      /\ QueueTypes'
      /\ Returns \/ Pops \/ Pushes \/ Refuses
  BY SendReplyFacts
<1>2. ChanTypes'
  BY <1>1, ReplySent
<1>3. clientList' \in [Slot -> Entry] /\ DialogueTypes'
  BY <1>1, TypesNow DEF DialogueTypes
<1>4. ASSUME Returns \/ Pushes PROVE ServerTypes'
  BY <1>4 DEF Returns, Pushes, ServerTypes
<1>5. ASSUME Pops PROVE ServerTypes'
  <2>1. Head(Waiting) \in Client
    BY <1>5, HeadWaiting DEF Pops, AtNotify
  <2> QED BY <1>5, <2>1 DEF Pops, ServerTypes, AtNotify, Reply
<1>6. ASSUME Refuses PROVE ServerTypes'
  BY <1>1, <1>6 DEF Refuses, ServerTypes, AtNotify, Reply
<1>7. ServerTypes'
  BY <1>1, <1>4, <1>5, <1>6
<1> QED BY <1>1, <1>2, <1>3, <1>7, TypesNext

LEMMA SendNoticeTypes ==
  ASSUME TypeOK, SendNotice
  PROVE  TypeOK'
<1>1. /\ server.to \in Client /\ server.reply \in Reply
      /\ chan' = [chan EXCEPT ![server.to] = Append(@, server.reply)]
      /\ server' = AtReceive
      /\ UNCHANGED <<clientList, queueVars, dialogue>>
  BY SendNoticeFacts
<1>2. ChanTypes'
  BY <1>1, ReplySent
<1>3. clientList' \in [Slot -> Entry] /\ DialogueTypes' /\ QueueTypes'
  BY <1>1, QueueUnchanged, TypesNow DEF DialogueTypes
<1>4. ServerTypes'
  BY <1>1 DEF ServerTypes
<1> QED BY <1>2, <1>3, <1>4, TypesNext

LEMMA AskFacts ==
  ASSUME TypeOK, NEW c \in Client, NEW m \in RequestsOf(c), Ask(c, m), UNCHANGED serverVars
  PROVE  /\ m \in Request /\ m.rp = c
         /\ chan' = [chan EXCEPT ![SERVER_PORT] = Append(@, m)]
         /\ dialogue[c].state = "idle"
         /\ dialogue' = [dialogue EXCEPT ![c].state = "asked"]
         /\ UNCHANGED <<clientList, queueVars, server>>
BY AskedFacts DEF Ask, Send, serverVars

LEMMA AskTypes ==
  ASSUME TypeOK, NEW c \in Client, NEW m \in RequestsOf(c), Ask(c, m), UNCHANGED serverVars
  PROVE  TypeOK'
<1>1. /\ m \in Request
      /\ chan' = [chan EXCEPT ![SERVER_PORT] = Append(@, m)]
      /\ dialogue' = [dialogue EXCEPT ![c].state = "asked"]
      /\ UNCHANGED <<clientList, queueVars, server>>
  BY AskFacts
<1>2. ChanTypes'
  BY <1>1, RequestSent
<1>3. clientList' \in [Slot -> Entry] /\ ServerTypes' /\ QueueTypes'
  BY <1>1, QueueUnchanged, TypesNow DEF ServerTypes
<1>4. DialogueTypes'
  BY <1>1, TypesNow DEF DialogueTypes
<1> QED BY <1>2, <1>3, <1>4, TypesNext

LEMMA HearTypes ==
  ASSUME TypeOK, NEW c \in Client, NEW reply, Hear(c, reply), UNCHANGED serverVars
  PROVE  TypeOK'
<1>1. /\ chan[c] # <<>> /\ reply \in Reply
      /\ chan' = [chan EXCEPT ![c] = Tail(@)]
      /\ dialogue' = [dialogue EXCEPT ![c] =
           IF dialogue[c].state = "asked"
           THEN [state |-> IF reply = "FULL" THEN "full" ELSE "idle", revived |-> FALSE]
           ELSE [state |-> IF reply \in {"READY", "WAIT_Q_FULL"} THEN "idle" ELSE "full",
                 revived |-> reply = "READY"]]
  BY HearFacts
<1>2. ChanTypes'
  BY <1>1, ReplyHeard
<1>3. clientList' \in [Slot -> Entry] /\ ServerTypes' /\ QueueTypes'
  BY QueueUnchanged, TypesNow DEF ServerTypes, serverVars
<1>4. DialogueTypes'
  BY <1>1, TypesNow DEF DialogueTypes
<1> QED BY <1>2, <1>3, <1>4, TypesNext

LEMMA ClientsWaitNext ==
  ASSUME TypeOK, ClientsWait, NEW c \in Client,
         \/ Waiting' = Waiting
         \/ Waiting # <<>> /\ Waiting' = Tail(Waiting)
         \/ Waiting' = Append(Waiting, c)
  PROVE  ClientsWait'
<1> DEFINE w == Waiting
<1>1. w \in Seq(Port) /\ \A k \in DOMAIN w : w[k] \in Client
  BY WaitingFacts DEF ClientsWait
<1>2. CASE Waiting' = Waiting
  BY <1>2 DEF ClientsWait
<1>3. CASE w # <<>> /\ Waiting' = Tail(w)
  <2> HIDE DEF w
  <2>1. /\ Tail(w) \in Seq(Port) /\ Len(w) \in Nat /\ DOMAIN w = 1..Len(w)
        /\ DOMAIN Tail(w) = 1..(Len(w) - 1)
        /\ \A k \in 1..(Len(w) - 1) : Tail(w)[k] = w[k + 1]
    BY <1>1, <1>3, HeadTailProperties, LenProperties, EmptySeq
  <2>2. \A k \in DOMAIN Tail(w) : Tail(w)[k] \in Client
    BY <1>1, <2>1
  <2> QED BY <1>3, <2>2 DEF ClientsWait
<1>4. CASE Waiting' = Append(w, c)
  <2> HIDE DEF w
  <2>1. c \in Port
    BY ServerAssumption
  <2>2. /\ Len(w) \in Nat /\ DOMAIN w = 1..Len(w)
        /\ DOMAIN Append(w, c) = 1..(Len(w) + 1)
        /\ \A k \in 1..Len(w) : Append(w, c)[k] = w[k]
        /\ Append(w, c)[Len(w) + 1] = c
    BY <1>1, <2>1, AppendProperties, LenProperties
  <2>3. \A k \in DOMAIN Append(w, c) : Append(w, c)[k] \in Client
    BY <1>1, <2>2
  <2> QED BY <1>4, <2>3 DEF ClientsWait
<1> QED BY <1>2, <1>3, <1>4
-----------------------------------------------------------------------------
(***************************************************************************)
(* How a step changes what OneAnswerEach counts for a client: the times it *)
(* is queued, its requests and the replies to it.                          *)
(***************************************************************************)
Flag(c) == IF server.at = "reply" /\ server.then = "queue" /\ server.to = c THEN 1 ELSE 0

LEMMA CountOne ==
  ASSUME NEW w, NEW c
  PROVE  Cardinality({k \in DOMAIN w : w[k] = c}) = CountIn(w, {c})
<1>1. {k \in DOMAIN w : w[k] = c} = {k \in DOMAIN w : w[k] \in {c}}
  OBVIOUS
<1> QED BY <1>1 DEF CountIn

LEMMA QueuedNow ==
  ASSUME TypeOK, NEW c \in Client
  PROVE  /\ TimesQueued(c) = CountIn(Waiting, {c}) + Flag(c)
         /\ CountIn(Waiting, {c}) \in Nat /\ Flag(c) \in {0, 1} /\ TimesQueued(c) \in Nat
         /\ TimesQueued(c)' = CountIn(Waiting', {c}) + Flag(c)' /\ Flag(c)' \in {0, 1}
<1>1. TimesQueued(c) = CountIn(Waiting, {c}) + Flag(c) /\ Flag(c) \in {0, 1}
  BY CountOne DEF TimesQueued, Flag
<1>2. TimesQueued(c)' = CountIn(Waiting', {c}) + Flag(c)' /\ Flag(c)' \in {0, 1}
  <2>1. Cardinality({k \in DOMAIN Waiting' : Waiting'[k] = c}) = CountIn(Waiting', {c})
    BY CountOne
  <2> QED BY <2>1 DEF TimesQueued, Flag
<1>3. CountIn(Waiting, {c}) \in Nat
  BY WaitingFacts, CountInType
<1> QED BY <1>1, <1>2, <1>3

LEMMA QueuedNext ==
  ASSUME TypeOK, NEW c \in Client
  PROVE  /\ Waiting' = Waiting => TimesQueued(c)' = TimesQueued(c) - Flag(c) + Flag(c)'
         /\ \A d \in Client : Waiting' = Append(Waiting, d) =>
              TimesQueued(c)' = TimesQueued(c) - Flag(c) + Flag(c)' + IF c = d THEN 1 ELSE 0
         /\ Waiting # <<>> /\ Waiting' = Tail(Waiting) =>
              TimesQueued(c)' = TimesQueued(c) - Flag(c) + Flag(c)'
                                  - IF c = Head(Waiting) THEN 1 ELSE 0
<1> DEFINE q == TimesQueued(c)  q1 == TimesQueued(c)'
           f == Flag(c)  f1 == Flag(c)'
           n == CountIn(Waiting, {c})  n1 == CountIn(Waiting', {c})
<1>1. q = n + f /\ n \in Nat /\ f \in {0, 1} /\ q1 = n1 + f1 /\ f1 \in {0, 1}
  BY QueuedNow
<1> HIDE DEF q, q1, f, f1
<1>2. ASSUME Waiting' = Waiting PROVE q1 = q - f + f1
  <2>1. n1 = n
    BY <1>2
  <2> HIDE DEF n, n1
  <2> QED BY <1>1, <2>1
<1>3. ASSUME NEW d \in Client, Waiting' = Append(Waiting, d)
      PROVE  q1 = q - f + f1 + IF c = d THEN 1 ELSE 0
  <2>1. d \in Port
    BY ServerAssumption
  <2>2. n1 = n + IF d \in {c} THEN 1 ELSE 0
    BY <1>3, <2>1, WaitingFacts, CountInAppend
  <2> HIDE DEF n, n1
  <2> QED BY <1>1, <2>2
<1>4. ASSUME Waiting # <<>>, Waiting' = Tail(Waiting)
      PROVE  q1 = q - f + f1 - IF c = Head(Waiting) THEN 1 ELSE 0
  <2>1. n = n1 + IF Head(Waiting) \in {c} THEN 1 ELSE 0
    BY <1>4, WaitingFacts, CountInTail
  <2>2. n1 \in Nat
    <3>1. Tail(Waiting) \in Seq(Port)
      BY <1>4, WaitingFacts, HeadTailProperties
    <3> QED BY <1>4, <3>1, CountInType
  <2> HIDE DEF n, n1
  <2> QED BY <1>1, <2>1, <2>2
<1> QED BY <1>2, <1>3, <1>4 DEF q, q1, f, f1

\* The requests of c among the messages that the server has yet to read.
By(c) == {m \in Request : m.rp = c}

LEMMA CountRequests ==
  ASSUME NEW q \in Seq(Request), NEW c
  PROVE  Cardinality({k \in DOMAIN q : q[k].rp = c}) = CountIn(q, By(c))
<1>1. \A k \in DOMAIN q : q[k] \in Request
  BY LenProperties
<1>2. {k \in DOMAIN q : q[k].rp = c} = {k \in DOMAIN q : q[k] \in By(c)}
  BY <1>1 DEF By
<1> QED BY <1>2 DEF CountIn

LEMMA RequestsNext ==
  ASSUME TypeOK, NEW c \in Client
  PROVE  /\ Requests(c) \in Nat
         /\ chan'[SERVER_PORT] = chan[SERVER_PORT] => Requests(c)' = Requests(c)
         /\ \A m \in Request : chan'[SERVER_PORT] = Append(chan[SERVER_PORT], m) =>
              Requests(c)' = Requests(c) + IF m.rp = c THEN 1 ELSE 0
         /\ chan[SERVER_PORT] # <<>> /\ chan'[SERVER_PORT] = Tail(chan[SERVER_PORT]) =>
              /\ Requests(c)' \in Nat
              /\ Requests(c) = Requests(c)' + IF Head(chan[SERVER_PORT]).rp = c THEN 1 ELSE 0
<1> DEFINE q == chan[SERVER_PORT]  q1 == chan'[SERVER_PORT]
<1>1. q \in Seq(Request)
  BY DEF TypeOK
<1>2. Requests(c) = CountIn(q, By(c))
  BY <1>1, CountRequests DEF Requests
<1>3. q1 \in Seq(Request) => Requests(c)' = CountIn(q1, By(c))
  BY CountRequests DEF Requests
<1> HIDE DEF q, q1
<1>4. Requests(c) \in Nat
  BY <1>1, <1>2, CountInType
<1>5. ASSUME q1 = q PROVE Requests(c)' = Requests(c)
  BY <1>1, <1>2, <1>3, <1>5
<1>6. ASSUME NEW m \in Request, q1 = Append(q, m)
      PROVE  Requests(c)' = Requests(c) + IF m.rp = c THEN 1 ELSE 0
  <2>1. Append(q, m) \in Seq(Request)
    BY <1>1, AppendProperties
  <2>2. CountIn(Append(q, m), By(c)) = CountIn(q, By(c)) + IF m \in By(c) THEN 1 ELSE 0
    BY <1>1, CountInAppend
  <2>3. m \in By(c) <=> m.rp = c
    BY DEF By
  <2> QED BY <1>2, <1>3, <1>6, <2>1, <2>2, <2>3
<1>7. ASSUME q # <<>>, q1 = Tail(q)
      PROVE  /\ Requests(c)' \in Nat
             /\ Requests(c) = Requests(c)' + IF Head(q).rp = c THEN 1 ELSE 0
  <2>1. Tail(q) \in Seq(Request) /\ Head(q) \in Request
    BY <1>1, <1>7, HeadTailProperties
  <2>2. CountIn(q, By(c)) = CountIn(Tail(q), By(c)) + IF Head(q) \in By(c) THEN 1 ELSE 0
    BY <1>1, <1>7, CountInTail
  <2>3. Head(q) \in By(c) <=> Head(q).rp = c
    BY <2>1 DEF By
  <2>4. CountIn(Tail(q), By(c)) \in Nat
    BY <2>1, CountInType
  <2> QED BY <1>2, <1>3, <1>7, <2>1, <2>2, <2>3, <2>4
<1> QED BY <1>4, <1>5, <1>6, <1>7 DEF q, q1

LEMMA RepliesNow ==
  ASSUME TypeOK, NEW c \in Client
  PROVE  /\ Replies(c) \in Seq(Reply)
         /\ server.at = "receive" \/ server.to # c => Replies(c) = chan[c]
         /\ server.at # "receive" /\ server.to = c =>
              server.reply \in Reply /\ Replies(c) = Append(chan[c], server.reply)
<1>1. chan[c] \in Seq(Reply)
  BY DEF TypeOK
<1>2. CASE server.at = "receive" \/ server.to # c
  BY <1>1, <1>2, ConcatEmptySeq DEF Replies
<1>3. CASE server.at # "receive" /\ server.to = c
  <2>1. server.reply \in Reply
    BY <1>3 DEF TypeOK, AtReceive
  <2>2. Replies(c) = chan[c] \o <<server.reply>>
    BY <1>3 DEF Replies
  <2> QED BY <1>1, <1>3, <2>1, <2>2, AppendIsConcat, AppendProperties
<1> QED BY <1>2, <1>3

\* The same in the next state, whose types are known.
LEMMA RepliesNext ==
  ASSUME TypeOK', NEW c \in Client
  PROVE  /\ server'.at = "receive" \/ server'.to # c => Replies(c)' = chan'[c]
         /\ server'.at # "receive" /\ server'.to = c =>
              Replies(c)' = Append(chan'[c], server'.reply)
<1>1. chan'[c] \in Seq(Reply)
  BY DEF TypeOK
<1>2. CASE server'.at = "receive" \/ server'.to # c
  BY <1>1, <1>2, ConcatEmptySeq DEF Replies
<1>3. CASE server'.at # "receive" /\ server'.to = c
  <2>1. server'.reply \in Reply
    BY <1>3 DEF TypeOK, AtReceive
  <2>2. Replies(c)' = chan'[c] \o <<server'.reply>>
    BY <1>3 DEF Replies
  <2> QED BY <1>1, <1>3, <2>1, <2>2, AppendIsConcat
<1> QED BY <1>2, <1>3

\* What was about to be sent is in the client's port.
LEMMA Delivered ==
  ASSUME TypeOK, server.at # "receive", server.to \in Client, server.reply \in Reply,
         chan' = [chan EXCEPT ![server.to] = Append(@, server.reply)],
         NEW c \in Client
  PROVE  chan'[c] = Replies(c)
BY ReplySent, RepliesNow
-----------------------------------------------------------------------------
(***************************************************************************)
(* The steps as OneAnswerEach sees them.                                   *)
(***************************************************************************)
LEMMA ServeView ==
  ASSUME TypeOK, ServeRequest, TypeOK', NEW r \in Reply, NEW t \in Then,
         Handled(Head(chan[SERVER_PORT]), r, t), NEW c \in Client
  PROVE  LET mine == c = Head(chan[SERVER_PORT]).rp IN
         /\ Requests(c)' \in Nat /\ Requests(c) = Requests(c)' + IF mine THEN 1 ELSE 0
         /\ Replies(c)' = IF mine THEN Append(Replies(c), r) ELSE Replies(c)
         /\ TimesQueued(c)' = TimesQueued(c) + IF mine /\ t = "queue" THEN 1 ELSE 0
         /\ dialogue' = dialogue
<1> DEFINE m == Head(chan[SERVER_PORT])
           mine == c = m.rp
<1>1. /\ m.rp \in Client /\ server.at = "receive" /\ chan[SERVER_PORT] # <<>>
      /\ chan' = [chan EXCEPT ![SERVER_PORT] = Tail(@)]
      /\ UNCHANGED <<queueVars, dialogue>>
  BY ServeFacts
<1>2. server' = AtReply(m.rp, r, t)
  BY DEF Handled
<1>3. /\ chan'[SERVER_PORT] = Tail(chan[SERVER_PORT]) /\ chan'[c] = chan[c]
  BY <1>1, RequestRead
<1>4. Requests(c)' \in Nat /\ Requests(c) = Requests(c)' + IF mine THEN 1 ELSE 0
  BY <1>1, <1>3, RequestsNext
<1>5. server'.at = "reply" /\ server'.to = m.rp /\ server'.reply = r /\ server'.then = t
  BY <1>2 DEF AtReply
<1> HIDE DEF m
<1>6. Replies(c)' = IF mine THEN Append(Replies(c), r) ELSE Replies(c)
  <2>1. Replies(c) = chan[c]
    BY <1>1, RepliesNow
  <2>2. CASE mine
    BY <1>3, <1>5, <2>1, <2>2, RepliesNext
  <2>3. CASE ~mine
    BY <1>3, <1>5, <2>1, <2>3, RepliesNext
  <2> QED BY <2>2, <2>3
<1>7. TimesQueued(c)' = TimesQueued(c) + IF mine /\ t = "queue" THEN 1 ELSE 0
  <2>1. TimesQueued(c)' = TimesQueued(c) - Flag(c) + Flag(c)' /\ TimesQueued(c) \in Nat
    BY <1>1, QueueUnchanged, QueuedNext, QueuedNow
  <2>2. Flag(c) = 0 /\ Flag(c)' = IF mine /\ t = "queue" THEN 1 ELSE 0
    BY <1>1, <1>5 DEF Flag
  <2> QED BY <2>1, <2>2
<1> QED BY <1>1, <1>4, <1>6, <1>7 DEF m

Same(c) == /\ Requests(c)' = Requests(c)
           /\ Replies(c)' = Replies(c)
           /\ TimesQueued(c)' = TimesQueued(c)

\* A client leaves the queue, or is not let in, and is to be told.
Notified(d, reply, c) ==
  /\ Requests(c)' = Requests(c)
  /\ Replies(c)' = IF c = d THEN Append(Replies(c), reply) ELSE Replies(c)
  /\ TimesQueued(c)' = TimesQueued(c) - IF c = d THEN 1 ELSE 0

LEMMA SendReplyView ==
  ASSUME TypeOK, SendReply, TypeOK', NEW c \in Client
  PROVE  /\ Returns \/ Pushes => Same(c)
         /\ Pops => \A r : r = "READY" => Notified(Head(Waiting), r, c)
         /\ Refuses => \A r : r = "WAIT_Q_FULL" => Notified(server.to, r, c)
<1>1. /\ server.at = "reply" /\ server.to \in Client /\ server.reply \in Reply
      /\ chan' = [chan EXCEPT ![server.to] = Append(@, server.reply)]
  BY SendReplyFacts
<1>2. chan'[c] = Replies(c)
  BY <1>1, Delivered
<1>3. Requests(c)' = Requests(c)
  BY <1>1, ReplySent, RequestsNext
<1>4. TimesQueued(c) \in Nat /\ Flag(c) = IF server.then = "queue" /\ server.to = c THEN 1 ELSE 0
  BY <1>1, QueuedNow DEF Flag
<1>5. ASSUME Returns \/ Pushes PROVE Same(c)
  <2>1. server'.at = "receive" /\ Flag(c)' = 0
    BY <1>5 DEF Returns, Pushes, AtReceive, Flag
  <2>2. Replies(c)' = Replies(c)
    BY <1>2, <2>1, RepliesNext
  <2>3. TimesQueued(c)' = TimesQueued(c)
    <3>1. CASE Returns
      <4>1. Waiting' = Waiting /\ Flag(c) = 0
        BY <1>4, <3>1 DEF Returns
      <4> QED BY <1>4, <2>1, <4>1, QueuedNext
    <3>2. CASE Pushes
      <4>1. Waiting' = Append(Waiting, server.to) /\ Flag(c) = IF c = server.to THEN 1 ELSE 0
        BY <1>4, <3>2 DEF Pushes
      <4>2. TimesQueued(c)' = TimesQueued(c) - Flag(c) + Flag(c)' + IF c = server.to THEN 1 ELSE 0
        BY <1>1, <4>1, QueuedNext
      <4> QED BY <1>4, <2>1, <4>1, <4>2
    <3> QED BY <1>5, <3>1, <3>2
  <2> QED BY <1>3, <2>2, <2>3 DEF Same
<1>6. ASSUME Pops, NEW r, r = "READY" PROVE Notified(Head(Waiting), r, c)
  <2>1. server'.at = "notify" /\ server'.to = Head(Waiting) /\ server'.reply = r /\ Flag(c)' = 0
    BY <1>6 DEF Pops, AtNotify, Flag
  <2>2. Flag(c) = 0 /\ Waiting # <<>> /\ Waiting' = Tail(Waiting)
    BY <1>4, <1>6 DEF Pops, AtNotify
  <2>3. Replies(c)' = IF c = Head(Waiting) THEN Append(Replies(c), r) ELSE Replies(c)
    BY <1>2, <2>1, RepliesNext
  <2>4. TimesQueued(c)' = TimesQueued(c) - Flag(c) + Flag(c)' - IF c = Head(Waiting) THEN 1 ELSE 0
    BY <2>2, QueuedNext
  <2>5. TimesQueued(c)' = TimesQueued(c) - IF c = Head(Waiting) THEN 1 ELSE 0
    BY <1>4, <2>1, <2>2, <2>4
  <2> QED BY <1>3, <2>3, <2>5, Zenon DEF Notified
<1>7. ASSUME Refuses, NEW r, r = "WAIT_Q_FULL" PROVE Notified(server.to, r, c)
  <2>1. server'.at = "notify" /\ server'.to = server.to /\ server'.reply = r /\ Flag(c)' = 0
    BY <1>7 DEF Refuses, AtNotify, Flag
  <2>2. Flag(c) = (IF c = server.to THEN 1 ELSE 0) /\ Waiting' = Waiting
    BY <1>4, <1>7 DEF Refuses, AtNotify
  <2>3. Replies(c)' = IF c = server.to THEN Append(Replies(c), r) ELSE Replies(c)
    BY <1>2, <2>1, RepliesNext
  <2>4. TimesQueued(c)' = TimesQueued(c) - Flag(c) + Flag(c)'
    BY <2>2, QueuedNext
  <2>5. TimesQueued(c)' = TimesQueued(c) - IF c = server.to THEN 1 ELSE 0
    BY <1>4, <2>1, <2>2, <2>4
  <2> QED BY <1>3, <2>3, <2>5, Zenon DEF Notified
<1> QED BY <1>5, <1>6, <1>7

LEMMA SendNoticeView ==
  ASSUME TypeOK, SendNotice, TypeOK', NEW c \in Client
  PROVE  Same(c)
<1>1. /\ server.at = "notify" /\ server.to \in Client /\ server.reply \in Reply
      /\ chan' = [chan EXCEPT ![server.to] = Append(@, server.reply)]
      /\ server' = AtReceive /\ UNCHANGED queueVars
  BY SendNoticeFacts
<1>2. chan'[c] = Replies(c)
  BY <1>1, Delivered
<1>3. Requests(c)' = Requests(c)
  BY <1>1, ReplySent, RequestsNext
<1>4. server'.at = "receive" /\ Flag(c)' = 0 /\ Flag(c) = 0
  BY <1>1 DEF AtReceive, Flag
<1>5. Replies(c)' = Replies(c)
  BY <1>2, <1>4, RepliesNext
<1>6. TimesQueued(c)' = TimesQueued(c) - Flag(c) + Flag(c)' /\ TimesQueued(c) \in Nat
  BY <1>1, QueueUnchanged, QueuedNext, QueuedNow
<1>7. TimesQueued(c)' = TimesQueued(c)
  BY <1>4, <1>6
<1> QED BY <1>3, <1>5, <1>7 DEF Same

LEMMA AskView ==
  ASSUME TypeOK, NEW d \in Client, NEW m \in RequestsOf(d), Ask(d, m), UNCHANGED serverVars,
         TypeOK', NEW c \in Client
  PROVE  /\ Requests(c)' = Requests(c) + IF c = d THEN 1 ELSE 0
         /\ Replies(c)' = Replies(c)
         /\ TimesQueued(c)' = TimesQueued(c)
<1>1. /\ m \in Request /\ m.rp = d /\ chan' = [chan EXCEPT ![SERVER_PORT] = Append(@, m)]
      /\ UNCHANGED <<clientList, queueVars, server>>
  BY AskFacts
<1>2. chan'[SERVER_PORT] = Append(chan[SERVER_PORT], m) /\ chan'[c] = chan[c]
  BY <1>1, RequestSent
<1>3. Requests(c)' = Requests(c) + IF c = d THEN 1 ELSE 0
  BY <1>1, <1>2, RequestsNext
<1>4. Replies(c)' = Replies(c)
  BY <1>1, <1>2 DEF Replies
<1>5. TimesQueued(c)' = TimesQueued(c)
  BY <1>1, QueueUnchanged DEF TimesQueued
<1> QED BY <1>3, <1>4, <1>5

LEMMA HearView ==
  ASSUME TypeOK, NEW d \in Client, NEW reply, Hear(d, reply), UNCHANGED serverVars,
         TypeOK', NEW c \in Client
  PROVE  /\ Requests(c)' = Requests(c)
         /\ Replies(d) # <<>> /\ reply = Head(Replies(d))
         /\ Replies(c)' = IF c = d THEN Tail(Replies(d)) ELSE Replies(c)
         /\ TimesQueued(c)' = TimesQueued(c)
<1>1. /\ chan[d] # <<>> /\ reply = Head(chan[d]) /\ chan' = [chan EXCEPT ![d] = Tail(@)]
      /\ UNCHANGED <<clientList, queueVars, server>>
  BY HearFacts DEF serverVars
<1>2. /\ chan'[SERVER_PORT] = chan[SERVER_PORT]
      /\ chan'[c] = IF c = d THEN Tail(chan[d]) ELSE chan[c]
      /\ chan'[d] = Tail(chan[d])
  BY <1>1, ReplyHeard
<1>3. Requests(c)' = Requests(c)
  BY <1>2, RequestsNext
<1>4. chan[d] \in Seq(Reply)
  BY DEF TypeOK
<1>5. /\ Replies(d) # <<>> /\ reply = Head(Replies(d)) /\ Replies(d)' = Tail(Replies(d))
  <2>1. CASE server.at = "receive" \/ server.to # d
    BY <1>1, <1>2, <2>1, RepliesNow, RepliesNext
  <2>2. CASE server.at # "receive" /\ server.to = d
    <3>1. Replies(d) = Append(chan[d], server.reply) /\ server.reply \in Reply
      BY <2>2, RepliesNow
    <3>2. Replies(d)' = Append(Tail(chan[d]), server.reply)
      BY <1>1, <1>2, <2>2, RepliesNext
    <3>3. /\ Head(Append(chan[d], server.reply)) = Head(chan[d])
          /\ Tail(Append(chan[d], server.reply)) = Append(Tail(chan[d]), server.reply)
      BY <1>1, <1>4, HeadTailAppend
    <3>4. Append(chan[d], server.reply) # <<>>
      BY <1>4, <3>1, AppendProperties
    <3> QED BY <1>1, <3>1, <3>2, <3>3, <3>4
  <2> QED BY <2>1, <2>2
<1>6. c # d => Replies(c)' = Replies(c)
  BY <1>1, <1>2 DEF Replies
<1>7. TimesQueued(c)' = TimesQueued(c)
  BY <1>1, QueueUnchanged DEF TimesQueued
<1> QED BY <1>3, <1>5, <1>6, <1>7
-----------------------------------------------------------------------------
(***************************************************************************)
(* OneAnswerEach says of a client that its state s, its n requests, the    *)
(* replies to it and the q times it is queued are consistent.              *)
(***************************************************************************)
Owed(rest, q) == \/ rest = <<>> /\ q = 1
                 \/ rest \in {<<"READY">>, <<"WAIT_Q_FULL">>} /\ q = 0

Consistent(s, n, replies, q) ==
  \/ s = "idle" /\ n = 0 /\ replies = <<>> /\ q = 0
  \/ /\ s = "asked"
     /\ \/ n = 1 /\ replies = <<>> /\ q = 0
        \/ n = 0 /\ q = 0 /\ replies \in {<<"OK">>, <<"NOT_OK">>}
        \/ n = 0 /\ replies # <<>> /\ Head(replies) = "FULL" /\ Owed(Tail(replies), q)
  \/ s = "full" /\ n = 0 /\ Owed(replies, q)

LEMMA AnswersNow ==
  OneAnswerEach <=>
    \A c \in Client : Consistent(dialogue[c].state, Requests(c), Replies(c), TimesQueued(c))
BY DEF OneAnswerEach, Consistent, Owed

LEMMA AnswersNext ==
  OneAnswerEach' <=>
    \A c \in Client :
      Consistent(dialogue'[c].state, Requests(c)', Replies(c)', TimesQueued(c)')
BY DEF OneAnswerEach, Consistent, Owed

LEMMA AppendToEmpty ==
  ASSUME NEW r
  PROVE  /\ Append(<<>>, r) = <<r>> /\ <<r>> # <<>>
         /\ Head(<<r>>) = r /\ Tail(<<r>>) = <<>>
<1>1. <<>> \in Seq({r})
  BY EmptySeq
<1>2. Head(Append(<<>>, r)) = r /\ Tail(Append(<<>>, r)) = <<>>
  BY <1>1, HeadTailAppend
<1>3. Append(<<>>, r) = <<r>>
  BY <1>1, AppendIsConcat, ConcatEmptySeq
<1> QED BY <1>2, <1>3

LEMMA ServeConsistent ==
  ASSUME NEW s, NEW n, NEW replies, NEW q, Consistent(s, n, replies, q), NEW n1 \in Nat,
         n = n1 + 1, NEW r, NEW q1,
         \/ r \in {"OK", "NOT_OK"} /\ q1 = q
         \/ r = "FULL" /\ q1 = q + 1
  PROVE  /\ Consistent(s, n1, Append(replies, r), q1)
         /\ s = "asked" /\ replies = <<>> /\ q = 0 /\ n1 = 0
<1>1. n # 0
  OBVIOUS
<1>2. s = "asked" /\ n = 1 /\ replies = <<>> /\ q = 0
  BY <1>1 DEF Consistent
<1>3. n1 = 0
  BY <1>2
<1>4. Append(replies, r) = <<r>> /\ <<r>> # <<>> /\ Head(<<r>>) = r /\ Tail(<<r>>) = <<>>
  BY <1>2, AppendToEmpty
<1>5. CASE r \in {"OK", "NOT_OK"} /\ q1 = q
  BY <1>2, <1>3, <1>4, <1>5 DEF Consistent
<1>6. CASE r = "FULL" /\ q1 = q + 1
  <2>1. q1 = 1
    BY <1>2, <1>6
  <2> QED BY <1>2, <1>3, <1>4, <1>6, <2>1 DEF Consistent, Owed
<1> QED BY <1>5, <1>6

LEMMA NotifyConsistent ==
  ASSUME NEW s, NEW n, NEW replies \in Seq(Reply), NEW q \in Nat,
         Consistent(s, n, replies, q), q # 0,
         NEW r, r = "READY" \/ r = "WAIT_Q_FULL"
  PROVE  /\ Consistent(s, n, Append(replies, r), q - 1)
         /\ q = 1 /\ n = 0
         /\ \/ s = "asked" /\ replies # <<>> /\ Head(replies) = "FULL" /\ Tail(replies) = <<>>
            \/ s = "full" /\ replies = <<>>
<1>1. /\ q = 1 /\ n = 0
      /\ \/ s = "asked" /\ replies # <<>> /\ Head(replies) = "FULL" /\ Tail(replies) = <<>>
         \/ s = "full" /\ replies = <<>>
  BY DEF Consistent, Owed
<1>2. q - 1 = 0
  BY <1>1
<1>3. <<r>> \in {<<"READY">>, <<"WAIT_Q_FULL">>}
  OBVIOUS
<1>4. CASE s = "asked" /\ replies # <<>> /\ Head(replies) = "FULL" /\ Tail(replies) = <<>>
  <2>1. /\ Append(replies, r) # <<>> /\ Head(Append(replies, r)) = "FULL"
        /\ Tail(Append(replies, r)) = <<r>>
    <3>1. r \in Reply
      BY DEF Reply
    <3>2. Append(replies, r) # <<>>
      BY <3>1, AppendProperties
    <3>3. /\ Head(Append(replies, r)) = Head(replies)
          /\ Tail(Append(replies, r)) = Append(Tail(replies), r)
      BY <1>4, HeadTailAppend
    <3>4. Append(<<>>, r) = <<r>>
      BY AppendToEmpty
    <3> QED BY <1>4, <3>2, <3>3, <3>4
  <2> QED BY <1>1, <1>2, <1>3, <1>4, <2>1 DEF Consistent, Owed
<1>5. CASE s = "full" /\ replies = <<>>
  BY <1>1, <1>2, <1>3, <1>5, AppendToEmpty DEF Consistent, Owed
<1> QED BY <1>1, <1>4, <1>5

LEMMA AskConsistent ==
  ASSUME NEW s, NEW n, NEW replies, NEW q, Consistent(s, n, replies, q), s = "idle"
  PROVE  \A a : a = "asked" => Consistent(a, n + 1, replies, q)
BY DEF Consistent

LEMMA HearConsistent ==
  ASSUME NEW s, NEW n, NEW replies, NEW q, Consistent(s, n, replies, q),
         replies # <<>>, NEW r, r = Head(replies), NEW s1,
         s1 = IF s = "asked" THEN IF r = "FULL" THEN "full" ELSE "idle"
                             ELSE IF r \in {"READY", "WAIT_Q_FULL"} THEN "idle" ELSE "full"
  PROVE  /\ Consistent(s1, n, Tail(replies), q)
         /\ \/ s = "asked" /\ replies \in {<<"OK">>, <<"NOT_OK">>}
            \/ s = "asked" /\ r = "FULL"
                 /\ Tail(replies) \in {<<>>, <<"READY">>, <<"WAIT_Q_FULL">>}
            \/ s = "full" /\ replies \in {<<"READY">>, <<"WAIT_Q_FULL">>}
<1>1. \A x : Head(<<x>>) = x /\ Tail(<<x>>) = <<>>
  BY AppendToEmpty
<1>2. CASE s = "asked" /\ n = 0 /\ q = 0 /\ replies \in {<<"OK">>, <<"NOT_OK">>}
  <2>1. r \in {"OK", "NOT_OK"} /\ Tail(replies) = <<>>
    BY <1>1, <1>2
  <2> QED BY <1>2, <2>1 DEF Consistent
<1>3. CASE s = "asked" /\ n = 0 /\ r = "FULL" /\ Owed(Tail(replies), q)
  BY <1>3 DEF Consistent, Owed
<1>4. CASE s = "full" /\ n = 0 /\ Owed(replies, q)
  <2>1. r \in {"READY", "WAIT_Q_FULL"} /\ Tail(replies) = <<>> /\ q = 0
        /\ replies \in {<<"READY">>, <<"WAIT_Q_FULL">>}
    BY <1>1, <1>4 DEF Owed
  <2> QED BY <1>4, <2>1 DEF Consistent
<1> QED BY <1>2, <1>3, <1>4 DEF Consistent

LEMMA QueuedHead ==
  ASSUME TypeOK, NEW c \in Client,
         \/ Waiting # <<>> /\ c = Head(Waiting)
         \/ server.at = "reply" /\ server.then = "queue" /\ server.to = c
  PROVE  TimesQueued(c) # 0
<1>1. /\ TimesQueued(c) = CountIn(Waiting, {c}) + Flag(c)
      /\ CountIn(Waiting, {c}) \in Nat /\ Flag(c) \in {0, 1}
  BY QueuedNow
<1>2. CASE Waiting # <<>> /\ c = Head(Waiting)
  <2>1. CountIn(Waiting, {c}) = CountIn(Tail(Waiting), {c}) + 1
    BY <1>2, WaitingFacts, CountInTail
  <2>2. CountIn(Tail(Waiting), {c}) \in Nat
    <3>1. Tail(Waiting) \in Seq(Port)
      BY <1>2, WaitingFacts, HeadTailProperties
    <3> QED BY <3>1, CountInType
  <2> HIDE DEF Flag
  <2> QED BY <1>1, <2>1, <2>2
<1>3. CASE server.at = "reply" /\ server.then = "queue" /\ server.to = c
  <2>1. Flag(c) = 1
    BY <1>3 DEF Flag
  <2> QED BY <1>1, <2>1
<1> QED BY <1>2, <1>3

LEMMA ServeAnswers ==
  ASSUME TypeOK, OneAnswerEach, ServeRequest, TypeOK'
  PROVE  OneAnswerEach'
<1> DEFINE m == Head(chan[SERVER_PORT])
<1>1. PICK r \in Reply, t \in Then : Handled(m, r, t)
  BY ServeFacts
<1>2. \/ r \in {"OK", "NOT_OK"} /\ t # "queue"
      \/ r = "FULL" /\ t = "queue"
  BY <1>1 DEF Handled
<1>3. SUFFICES ASSUME NEW c \in Client
               PROVE  Consistent(dialogue'[c].state, Requests(c)', Replies(c)', TimesQueued(c)')
  BY AnswersNext
<1>4. /\ Requests(c)' \in Nat /\ Requests(c) = Requests(c)' + IF c = m.rp THEN 1 ELSE 0
      /\ Replies(c)' = IF c = m.rp THEN Append(Replies(c), r) ELSE Replies(c)
      /\ TimesQueued(c)' = TimesQueued(c) + IF c = m.rp /\ t = "queue" THEN 1 ELSE 0
      /\ dialogue' = dialogue
  BY <1>1, ServeView
<1>5. Consistent(dialogue[c].state, Requests(c), Replies(c), TimesQueued(c))
  BY AnswersNow
<1>6. TimesQueued(c) \in Nat
  BY QueuedNow
<1> HIDE DEF m
<1>7. CASE c = m.rp
  <2>1. Requests(c) = Requests(c)' + 1 /\ Replies(c)' = Append(Replies(c), r)
    BY <1>4, <1>7
  <2>2. \/ r \in {"OK", "NOT_OK"} /\ TimesQueued(c)' = TimesQueued(c)
        \/ r = "FULL" /\ TimesQueued(c)' = TimesQueued(c) + 1
    BY <1>2, <1>4, <1>6, <1>7
  <2> QED BY <1>4, <1>5, <2>1, <2>2, ServeConsistent
<1>8. CASE c # m.rp
  <2>1. Requests(c)' = Requests(c) /\ Replies(c)' = Replies(c) /\ TimesQueued(c)' = TimesQueued(c)
    BY <1>4, <1>6, <1>8
  <2> QED BY <1>4, <1>5, <2>1
<1> QED BY <1>7, <1>8

\* A client that is told, and how it waits when it is.
LEMMA NotifiedConsistent ==
  ASSUME TypeOK, OneAnswerEach, NEW d \in Client, TimesQueued(d) # 0,
         NEW r, r = "READY" \/ r = "WAIT_Q_FULL",
         NEW c \in Client, Notified(d, r, c), dialogue' = dialogue
  PROVE  Consistent(dialogue'[c].state, Requests(c)', Replies(c)', TimesQueued(c)')
<1>1. /\ Requests(c)' = Requests(c)
      /\ Replies(c)' = IF c = d THEN Append(Replies(c), r) ELSE Replies(c)
      /\ TimesQueued(c)' = TimesQueued(c) - IF c = d THEN 1 ELSE 0
  BY DEF Notified
<1>2. Consistent(dialogue[c].state, Requests(c), Replies(c), TimesQueued(c))
  BY AnswersNow
<1>3. TimesQueued(c) \in Nat /\ Replies(c) \in Seq(Reply)
  BY QueuedNow, RepliesNow
<1>4. CASE c = d
  <2>1. /\ Replies(c)' = Append(Replies(c), r) /\ TimesQueued(c)' = TimesQueued(c) - 1
        /\ TimesQueued(c) # 0
    BY <1>1, <1>4
  <2>2. Consistent(dialogue[c].state, Requests(c), Append(Replies(c), r), TimesQueued(c) - 1)
    BY <1>2, <1>3, <2>1, NotifyConsistent
  <2> QED BY <1>1, <2>1, <2>2
<1>5. CASE c # d
  <2>1. Replies(c)' = Replies(c) /\ TimesQueued(c)' = TimesQueued(c)
    BY <1>1, <1>3, <1>5
  <2> QED BY <1>1, <1>2, <2>1
<1> QED BY <1>4, <1>5

LEMMA SameAnswers ==
  ASSUME OneAnswerEach, \A c \in Client : Same(c), dialogue' = dialogue
  PROVE  OneAnswerEach'
<1>1. SUFFICES ASSUME NEW c \in Client
               PROVE  Consistent(dialogue'[c].state, Requests(c)', Replies(c)', TimesQueued(c)')
  BY AnswersNext
<1>2. Consistent(dialogue[c].state, Requests(c), Replies(c), TimesQueued(c))
  BY AnswersNow
<1>3. Requests(c)' = Requests(c) /\ Replies(c)' = Replies(c) /\ TimesQueued(c)' = TimesQueued(c)
  BY DEF Same
<1> QED BY <1>2, <1>3

LEMMA SendReplyAnswers ==
  ASSUME TypeOK, ClientsWait, OneAnswerEach, SendReply, TypeOK'
  PROVE  OneAnswerEach'
<1>1. /\ server.at = "reply" /\ server.to \in Client /\ dialogue' = dialogue
      /\ Returns \/ Pops \/ Pushes \/ Refuses
  BY SendReplyFacts
<1>2. CASE Returns \/ Pushes
  BY <1>1, <1>2, SendReplyView, SameAnswers
<1>3. CASE Pops
  <2> DEFINE d == Head(Waiting)  ready == "READY"
  <2>1. Waiting # <<>>
    BY <1>3 DEF Pops, AtNotify
  <2>2. d \in Client /\ TimesQueued(d) # 0
    BY <2>1, HeadWaiting, QueuedHead
  <2>3. ready = "READY"
    OBVIOUS
  <2> HIDE DEF ready
  <2>4. SUFFICES ASSUME NEW c \in Client
                 PROVE  Consistent(dialogue'[c].state, Requests(c)', Replies(c)', TimesQueued(c)')
    BY AnswersNext
  <2>5. Notified(d, ready, c)
    BY <1>3, <2>3, SendReplyView
  <2> HIDE DEF d
  <2> QED BY <1>1, <2>2, <2>3, <2>5, NotifiedConsistent
<1>4. CASE Refuses
  <2> DEFINE d == server.to  full == "WAIT_Q_FULL"
  <2>1. server.then = "queue"
    BY <1>4 DEF Refuses, AtNotify
  <2>2. d \in Client /\ TimesQueued(d) # 0
    BY <1>1, <2>1, QueuedHead
  <2>3. full = "WAIT_Q_FULL"
    OBVIOUS
  <2> HIDE DEF full
  <2>4. SUFFICES ASSUME NEW c \in Client
                 PROVE  Consistent(dialogue'[c].state, Requests(c)', Replies(c)', TimesQueued(c)')
    BY AnswersNext
  <2>5. Notified(d, full, c)
    BY <1>4, <2>3, SendReplyView
  <2> HIDE DEF d
  <2> QED BY <1>1, <2>2, <2>3, <2>5, NotifiedConsistent
<1> QED BY <1>1, <1>2, <1>3, <1>4

LEMMA SendNoticeAnswers ==
  ASSUME TypeOK, OneAnswerEach, SendNotice, TypeOK'
  PROVE  OneAnswerEach'
BY SendNoticeFacts, SendNoticeView, SameAnswers

LEMMA AskAnswers ==
  ASSUME TypeOK, OneAnswerEach, NEW d \in Client, NEW m \in RequestsOf(d), Ask(d, m),
         UNCHANGED serverVars, TypeOK'
  PROVE  OneAnswerEach'
<1>1. SUFFICES ASSUME NEW c \in Client
               PROVE  Consistent(dialogue'[c].state, Requests(c)', Replies(c)', TimesQueued(c)')
  BY AnswersNext
<1>2. Consistent(dialogue[c].state, Requests(c), Replies(c), TimesQueued(c))
  BY AnswersNow
<1>3. /\ Requests(c)' = Requests(c) + IF c = d THEN 1 ELSE 0
      /\ Replies(c)' = Replies(c) /\ TimesQueued(c)' = TimesQueued(c)
  BY AskView
<1>4. /\ dialogue[d].state = "idle"
      /\ dialogue' = [dialogue EXCEPT ![d].state = "asked"]
  BY AskFacts
<1>5. /\ dialogue'[d].state = "asked"
      /\ c # d => dialogue'[c] = dialogue[c]
  BY <1>4, TypesNow DEF DialogueTypes
<1>6. CASE c = d
  BY <1>2, <1>3, <1>4, <1>5, <1>6, AskConsistent
<1>7. CASE c # d
  <2>1. Requests(c)' = Requests(c)
    BY <1>3, <1>7, RequestsNext
  <2> QED BY <1>2, <1>3, <1>5, <1>7, <2>1
<1> QED BY <1>6, <1>7

LEMMA HearAnswers ==
  ASSUME TypeOK, OneAnswerEach, NEW d \in Client, NEW reply, Hear(d, reply),
         UNCHANGED serverVars, TypeOK'
  PROVE  OneAnswerEach'
<1>1. SUFFICES ASSUME NEW c \in Client
               PROVE  Consistent(dialogue'[c].state, Requests(c)', Replies(c)', TimesQueued(c)')
  BY AnswersNext
<1>2. Consistent(dialogue[c].state, Requests(c), Replies(c), TimesQueued(c))
  BY AnswersNow
<1>3. /\ Requests(c)' = Requests(c)
      /\ Replies(d) # <<>> /\ reply = Head(Replies(d))
      /\ Replies(c)' = IF c = d THEN Tail(Replies(d)) ELSE Replies(c)
      /\ TimesQueued(c)' = TimesQueued(c)
  BY HearView
<1>4. /\ dialogue'[d].state = IF dialogue[d].state = "asked"
                              THEN IF reply = "FULL" THEN "full" ELSE "idle"
                              ELSE IF reply \in {"READY", "WAIT_Q_FULL"} THEN "idle" ELSE "full"
      /\ c # d => dialogue'[c] = dialogue[c]
  BY HearFacts, TypesNow DEF DialogueTypes
<1>5. CASE c = d
  <2>1. Consistent(dialogue'[d].state, Requests(d), Tail(Replies(d)), TimesQueued(d))
    BY <1>2, <1>3, <1>4, <1>5, HearConsistent
  <2> QED BY <1>3, <1>5, <2>1
<1>6. CASE c # d
  BY <1>2, <1>3, <1>4, <1>6
<1> QED BY <1>5, <1>6
-----------------------------------------------------------------------------
(***************************************************************************)
(* The entries.                                                            *)
(***************************************************************************)
Owner(i) == clientList[i].clientId

LEMMA Owners ==
  ASSUME TypeOK, NEW i \in Slot
  PROVE  Owner(i) \in Client \cup {SERVER_PORT}
BY DEF Owner, TypeOK, Entry

\* Of the entries, serving m changes the one that find_client() gives.
EntryOf(f, m, t) ==
  /\ \A i \in Slot \ {f} : clientList'[i] = clientList[i] /\ Owner(i) # m.rp
  /\ Owner(f) \in {m.rp, SERVER_PORT}
  /\ Owner(f)' \in {m.rp, SERVER_PORT}
  /\ Owner(f)' = SERVER_PORT => t = "revive"

LEMMA ServeOwners ==
  ASSUME TypeOK, OneSlotEach, NEW m \in Request, NEW r, NEW t, Handled(m, r, t)
  PROVE  \/ /\ clientList' = clientList /\ Free = {}
            /\ \A i \in Slot : Owner(i) # m.rp
         \/ t # "queue" /\ \E f \in Slot : EntryOf(f, m, t)
<1>1. m.rp \in Client /\ SERVER_PORT \notin Client
  BY RequestFacts, ServerAssumption
<1>2. CASE NoSlot(m.rp) /\ clientList' = clientList
  BY <1>1, <1>2, FindClient DEF Owns, Owner
<1>3. CASE ~NoSlot(m.rp) /\ t # "queue" /\ Changes(m.rp, t)
  <2>1. PICK f \in Slot : f = find_client(m.rp)
    BY <1>1, <1>3, FindClient
  <2>2. \/ Owner(f) = m.rp
        \/ Owner(f) = SERVER_PORT /\ \A i \in Slot : Owner(i) # m.rp
    BY <1>1, <1>3, <2>1, FindClient DEF Owns, Owner
  <2>3. PICK slot \in Entry :
          /\ slot.clientId = m.rp \/ (slot.clientId = SERVER_PORT /\ t = "revive")
          /\ clientList' = [clientList EXCEPT ![f] = slot]
    BY <1>3, <2>1 DEF Changes
  <2>4. /\ \A i \in Slot \ {f} : clientList'[i] = clientList[i]
        /\ clientList'[f] = slot
    BY <2>3 DEF TypeOK
  <2>5. \A i \in Slot \ {f} : Owner(i) # m.rp
    BY <1>1, <2>2 DEF OneSlotEach, Owner
  <2>6. Owner(f)' = slot.clientId
    BY <2>4 DEF Owner
  <2>7. EntryOf(f, m, t)
    BY <1>1, <2>2, <2>3, <2>4, <2>5, <2>6 DEF EntryOf
  <2> QED BY <1>3, <2>7
<1> QED BY <1>2, <1>3 DEF Handled

LEMMA SlotsNext ==
  ASSUME TypeOK',
         \A i \in Slot, c \in Client : Owner(i)' = c =>
           TimesQueued(c)' = 0 /\ \A j \in Slot \ {i} : Owner(j)' # c
  PROVE  OneSlotEach'
<1> SUFFICES ASSUME NEW i \in Slot, clientList'[i].clientId # SERVER_PORT
             PROVE  /\ TimesQueued(clientList[i].clientId)' = 0
                    /\ \A j \in Slot \ {i} : clientList'[j].clientId # clientList'[i].clientId
  BY DEF OneSlotEach
<1>1. PICK c \in Client : c = clientList'[i].clientId
  BY DEF TypeOK, Entry
<1>2. TimesQueued(c)' = 0 /\ \A j \in Slot \ {i} : clientList'[j].clientId # c
  BY <1>1 DEF Owner
<1>3. TimesQueued(clientList[i].clientId)' = TimesQueued(c)'
  BY <1>1 DEF TimesQueued
<1> QED BY <1>1, <1>2, <1>3

LEMMA SlotsNow ==
  ASSUME OneSlotEach, NEW i \in Slot, NEW c \in Client, Owner(i) = c
  PROVE  TimesQueued(c) = 0 /\ \A j \in Slot \ {i} : Owner(j) # c
BY ServerAssumption DEF OneSlotEach, Owner

LEMMA ServeSlots ==
  ASSUME TypeOK, OneAnswerEach, OneSlotEach, ServeRequest, TypeOK'
  PROVE  OneSlotEach'
<1> DEFINE m == Head(chan[SERVER_PORT])
<1>1. m \in Request /\ m.rp \in Client /\ SERVER_PORT \notin Client
  BY ServeFacts, ServerAssumption
<1>2. PICK r \in Reply, t \in Then : Handled(m, r, t)
  BY ServeFacts
<1>3. \A c \in Client :
        TimesQueued(c)' = TimesQueued(c) + IF c = m.rp /\ t = "queue" THEN 1 ELSE 0
  BY <1>2, ServeView
<1>4. TimesQueued(m.rp) = 0
  <2>0. PICK c \in Client : c = m.rp
    BY <1>1
  <2>1. /\ Requests(c)' \in Nat /\ Requests(c) = Requests(c)' + 1
    BY <1>2, <2>0, ServeView
  <2>2. Consistent(dialogue[c].state, Requests(c), Replies(c), TimesQueued(c))
    BY <1>1, AnswersNow
  <2> DEFINE s == dialogue[c].state  n == Requests(c)  n1 == Requests(c)'  a == Replies(c)
             q == TimesQueued(c)
  <2> HIDE DEF s, n, n1, a, q
  <2>3. n # 0
    BY <2>1 DEF n, n1
  <2>4. q = 0
    BY <2>2, <2>3 DEF Consistent, s, n, a, q
  <2> QED BY <2>0, <2>4 DEF q
<1> HIDE DEF m
<1>5. SUFFICES ASSUME NEW i \in Slot, NEW c \in Client, Owner(i)' = c
               PROVE  TimesQueued(c)' = 0 /\ \A j \in Slot \ {i} : Owner(j)' # c
  BY SlotsNext
<1>6. TimesQueued(c) \in Nat
  BY QueuedNow
<1>7. CASE clientList' = clientList /\ \A j \in Slot : Owner(j) # m.rp
  <2>1. \A j \in Slot : Owner(j)' = Owner(j)
    BY <1>7 DEF Owner
  <2>2. c # m.rp /\ TimesQueued(c) = 0 /\ \A j \in Slot \ {i} : Owner(j)' # c
    BY <1>5, <1>7, <2>1, SlotsNow
  <2> QED BY <1>3, <2>2
<1>8. ASSUME t # "queue", NEW f \in Slot, EntryOf(f, m, t)
      PROVE  TimesQueued(c)' = 0 /\ \A j \in Slot \ {i} : Owner(j)' # c
  <2>1. /\ \A j \in Slot \ {f} : Owner(j)' = Owner(j) /\ Owner(j) # m.rp
        /\ Owner(f)' \in {m.rp, SERVER_PORT}
    BY <1>8 DEF EntryOf, Owner
  <2>2. TimesQueued(c)' = TimesQueued(c)
    BY <1>3, <1>6, <1>8
  <2>3. CASE i = f
    <3>1. c = m.rp
      BY <1>1, <1>5, <2>1, <2>3
    <3> QED BY <1>4, <2>1, <2>2, <2>3, <3>1
  <2>4. CASE i # f
    <3>1. c # m.rp /\ Owner(i) = c
      BY <1>5, <2>1, <2>4
    <3>2. TimesQueued(c) = 0 /\ \A j \in Slot \ {i} : Owner(j) # c
      BY <3>1, SlotsNow
    <3>3. ASSUME NEW j \in Slot \ {i} PROVE Owner(j)' # c
      BY <1>1, <2>1, <3>1, <3>2
    <3> QED BY <2>2, <3>2, <3>3
  <2> QED BY <2>3, <2>4
<1> QED BY <1>1, <1>2, <1>7, <1>8, ServeOwners

\* Of the other steps, none lets a client into the queue.
LEMMA SlotsStay ==
  ASSUME TypeOK, OneSlotEach, TypeOK', clientList' = clientList,
         \A c \in Client : TimesQueued(c) = 0 => TimesQueued(c)' = 0
  PROVE  OneSlotEach'
<1>1. SUFFICES ASSUME NEW i \in Slot, NEW c \in Client, Owner(i)' = c
               PROVE  TimesQueued(c)' = 0 /\ \A j \in Slot \ {i} : Owner(j)' # c
  BY SlotsNext
<1>2. \A j \in Slot : Owner(j)' = Owner(j)
  BY DEF Owner
<1>3. TimesQueued(c) = 0 /\ \A j \in Slot \ {i} : Owner(j) # c
  BY <1>1, <1>2, SlotsNow
<1> QED BY <1>2, <1>3

LEMMA SendReplySlots ==
  ASSUME TypeOK, ClientsWait, OneSlotEach, SendReply, TypeOK'
  PROVE  OneSlotEach'
<1>1. /\ server.at = "reply" /\ server.to \in Client /\ clientList' = clientList
      /\ Returns \/ Pops \/ Pushes \/ Refuses
  BY SendReplyFacts
<1>2. SUFFICES ASSUME NEW c \in Client, TimesQueued(c) = 0 PROVE TimesQueued(c)' = 0
  BY <1>1, SlotsStay
<1>3. CASE Returns \/ Pushes
  BY <1>2, <1>3, SendReplyView DEF Same
<1>4. CASE Pops
  <2> DEFINE ready == "READY"
  <2>1. Head(Waiting) # c
    BY <1>2, <1>4, HeadWaiting, QueuedHead DEF Pops, AtNotify
  <2>2. ready = "READY"
    OBVIOUS
  <2> HIDE DEF ready
  <2>3. Notified(Head(Waiting), ready, c)
    BY <1>4, <2>2, SendReplyView
  <2>4. TimesQueued(c)' = TimesQueued(c) - 0
    BY <2>1, <2>3 DEF Notified
  <2> QED BY <1>2, <2>4
<1>5. CASE Refuses
  <2> DEFINE full == "WAIT_Q_FULL"
  <2>1. server.to # c
    <3>1. server.then = "queue"
      BY <1>5 DEF Refuses, AtNotify
    <3> QED BY <1>1, <1>2, <3>1, QueuedHead
  <2>2. full = "WAIT_Q_FULL"
    OBVIOUS
  <2> HIDE DEF full
  <2>3. Notified(server.to, full, c)
    BY <1>5, <2>2, SendReplyView
  <2>4. TimesQueued(c)' = TimesQueued(c) - 0
    BY <2>1, <2>3 DEF Notified
  <2> QED BY <1>2, <2>4
<1> QED BY <1>1, <1>3, <1>4, <1>5
-----------------------------------------------------------------------------
(***************************************************************************)
(* The clients that have been revived, and the free entries.               *)
(***************************************************************************)
HasReady(replies) == \E k \in DOMAIN replies : replies[k] = "READY"

\* Whether a client has been revived, by its dialogue and the replies to it.
WasRevived(d, replies) == HasReady(replies) \/ (d.revived /\ replies = <<>>)

LEMMA RevivedNow ==
  ASSUME NEW c \in Client
  PROVE  /\ c \in Revived <=> WasRevived(dialogue[c], Replies(c))
         /\ c \in Revived' <=> WasRevived(dialogue'[c], Replies(c)')
BY DEF Revived, WasRevived, HasReady

LEMMA ReadyEmpty == ~HasReady(<<>>)
BY EmptySeq DEF HasReady

LEMMA ReadyAppend ==
  ASSUME NEW replies \in Seq(Reply), NEW r \in Reply
  PROVE  /\ Append(replies, r) # <<>>
         /\ HasReady(Append(replies, r)) <=> HasReady(replies) \/ r = "READY"
<1> DEFINE a == Append(replies, r)
<1>1. /\ a # <<>> /\ Len(replies) \in Nat
      /\ DOMAIN replies = 1..Len(replies) /\ DOMAIN a = 1..(Len(replies) + 1)
      /\ \A k \in 1..Len(replies) : a[k] = replies[k]
      /\ a[Len(replies) + 1] = r
  BY AppendProperties, LenProperties
<1> HIDE DEF a
<1>2. HasReady(a) <=> HasReady(replies) \/ r = "READY"
  BY <1>1 DEF HasReady
<1> QED BY <1>1, <1>2 DEF a

LEMMA ReadyTail ==
  ASSUME NEW replies \in Seq(Reply), replies # <<>>
  PROVE  HasReady(replies) <=> HasReady(Tail(replies)) \/ Head(replies) = "READY"
<1> DEFINE a == Tail(replies)
<1>1. /\ Len(replies) \in Nat \ {0}
      /\ DOMAIN replies = 1..Len(replies) /\ DOMAIN a = 1..(Len(replies) - 1)
      /\ \A k \in 1..(Len(replies) - 1) : a[k] = replies[k + 1]
      /\ Head(replies) = replies[1]
  BY HeadTailProperties, LenProperties, EmptySeq
<1> HIDE DEF a
<1>2. ASSUME HasReady(replies) PROVE HasReady(a) \/ Head(replies) = "READY"
  <2>1. PICK k \in 1..Len(replies) : replies[k] = "READY"
    BY <1>1, <1>2 DEF HasReady
  <2>2. CASE k = 1
    BY <1>1, <2>1, <2>2
  <2>3. CASE k # 1
    <3>1. k - 1 \in 1..(Len(replies) - 1) /\ (k - 1) + 1 = k
      BY <1>1, <2>1, <2>3
    <3>2. a[k - 1] = "READY"
      BY <1>1, <2>1, <3>1
    <3> QED BY <1>1, <3>1, <3>2 DEF HasReady
  <2> QED BY <2>2, <2>3
<1>3. ASSUME HasReady(a) PROVE HasReady(replies)
  <2>1. PICK k \in 1..(Len(replies) - 1) : a[k] = "READY"
    BY <1>1, <1>3 DEF HasReady
  <2>2. k + 1 \in 1..Len(replies) /\ replies[k + 1] = "READY"
    BY <1>1, <2>1
  <2> QED BY <1>1, <2>2 DEF HasReady
<1>4. ASSUME Head(replies) = "READY" PROVE HasReady(replies)
  BY <1>1, <1>4 DEF HasReady
<1> QED BY <1>2, <1>3, <1>4 DEF a

LEMMA ServeRevived ==
  ASSUME TypeOK, OneAnswerEach, ServeRequest, TypeOK'
  PROVE  /\ Revived' = Revived \ {Head(chan[SERVER_PORT]).rp}
         /\ TimesQueued(Head(chan[SERVER_PORT]).rp) = 0
<1> DEFINE m == Head(chan[SERVER_PORT])
<1>1. PICK c \in Client : c = m.rp
  BY ServeFacts
<1>2. PICK r \in Reply, t \in Then : Handled(m, r, t)
  BY ServeFacts
<1>3. ASSUME NEW d \in Client, d # c PROVE d \in Revived' <=> d \in Revived
  BY <1>1, <1>2, <1>3, ServeView, RevivedNow
<1>4. /\ Requests(c)' \in Nat /\ Requests(c) = Requests(c)' + 1
      /\ Replies(c)' = Append(Replies(c), r)
  BY <1>1, <1>2, ServeView
<1>5. r # "READY"
  BY <1>2 DEF Handled
<1>6. Replies(c) = <<>> /\ TimesQueued(c) = 0
  <2> DEFINE s == dialogue[c].state  n == Requests(c)  n1 == Requests(c)'  a == Replies(c)
             q == TimesQueued(c)
  <2>1. Consistent(s, n, a, q)
    BY AnswersNow
  <2> HIDE DEF s, n, n1, a, q
  <2>2. n # 0
    BY <1>4 DEF n, n1
  <2>3. a = <<>> /\ q = 0
    BY <2>1, <2>2 DEF Consistent
  <2> QED BY <2>3 DEF a, q
<1>7. c \notin Revived'
  <2>1. Replies(c) \in Seq(Reply)
    BY RepliesNow
  <2>2. Replies(c)' # <<>> /\ ~HasReady(Replies(c)')
    BY <1>4, <1>5, <1>6, <2>1, ReadyAppend, ReadyEmpty
  <2> QED BY <2>2, RevivedNow DEF WasRevived
<1>8. Revived \in SUBSET Client /\ Revived' \in SUBSET Client
  BY DEF Revived
<1> HIDE DEF m
<1>9. Revived' = Revived \ {c}
  BY <1>3, <1>7, <1>8
<1> QED BY <1>1, <1>6, <1>9 DEF m

\* A client that is told has not been revived before.
LEMMA NotifiedRevived ==
  ASSUME TypeOK, OneAnswerEach, FullNotRevived, dialogue' = dialogue,
         NEW d \in Client, TimesQueued(d) # 0,
         NEW r, r = "READY" \/ r = "WAIT_Q_FULL",
         \A c \in Client : Notified(d, r, c)
  PROVE  /\ d \notin Revived
         /\ Revived' = IF r = "READY" THEN Revived \cup {d} ELSE Revived
<1> DEFINE s == dialogue[d].state  n == Requests(d)  a == Replies(d)  q == TimesQueued(d)
<1>1. Consistent(s, n, a, q) /\ a \in Seq(Reply) /\ q \in Nat /\ q # 0
  BY AnswersNow, RepliesNow, QueuedNow
<1>2. s = "full" => ~dialogue[d].revived
  BY DEF FullNotRevived
<1>3. r \in Reply
  BY DEF Reply
<1> HIDE DEF s, n, a, q
<1>4. \/ s = "asked" /\ a # <<>> /\ Head(a) = "FULL" /\ Tail(a) = <<>>
      \/ s = "full" /\ a = <<>>
  BY <1>1, NotifyConsistent
<1>5. ~HasReady(a)
  BY <1>1, <1>4, ReadyTail, ReadyEmpty
<1>6. ~WasRevived(dialogue[d], a)
  BY <1>2, <1>4, <1>5 DEF WasRevived
<1>7. d \notin Revived
  BY <1>6, RevivedNow DEF a
<1>8. Replies(d)' = Append(a, r)
  BY DEF Notified, a
<1>9. d \in Revived' <=> r = "READY"
  BY <1>1, <1>3, <1>5, <1>8, ReadyAppend, RevivedNow DEF WasRevived
<1>10. ASSUME NEW c \in Client, c # d PROVE c \in Revived' <=> c \in Revived
  BY <1>10, RevivedNow DEF Notified
<1>11. Revived \in SUBSET Client /\ Revived' \in SUBSET Client
  BY DEF Revived
<1> QED BY <1>7, <1>9, <1>10, <1>11

LEMMA SameRevived ==
  ASSUME \A c \in Client : Replies(c)' = Replies(c) /\ dialogue'[c].revived = dialogue[c].revived
  PROVE  Revived' = Revived
<1>1. \A c \in Client : c \in Revived' <=> c \in Revived
  BY RevivedNow DEF WasRevived
<1>2. Revived \in SUBSET Client /\ Revived' \in SUBSET Client
  BY DEF Revived
<1> QED BY <1>1, <1>2

LEMMA HearRevived ==
  ASSUME TypeOK, OneAnswerEach, NEW d \in Client, NEW reply, Hear(d, reply),
         UNCHANGED serverVars, TypeOK'
  PROVE  Revived' = Revived
<1> DEFINE s == dialogue[d].state  n == Requests(d)  a == Replies(d)  q == TimesQueued(d)
           s1 == IF s = "asked" THEN IF reply = "FULL" THEN "full" ELSE "idle"
                 ELSE IF reply \in {"READY", "WAIT_Q_FULL"} THEN "idle" ELSE "full"
<1>1. Consistent(s, n, a, q) /\ a \in Seq(Reply) /\ a # <<>> /\ reply = Head(a)
  BY AnswersNow, RepliesNow, HearView
<1>2. /\ dialogue'[d].revived <=> (s # "asked" /\ reply = "READY")
      /\ \A c \in Client \ {d} : dialogue'[c] = dialogue[c]
  <2>1. /\ s = "asked" => dialogue'[d].revived = FALSE
        /\ s # "asked" => dialogue'[d].revived = (reply = "READY")
        /\ \A c \in Client \ {d} : dialogue'[c] = dialogue[c]
    BY HearFacts, TypesNow DEF DialogueTypes
  <2> QED BY <2>1
<1>3. Replies(d)' = Tail(a) /\ \A c \in Client \ {d} : Replies(c)' = Replies(c)
  BY HearView
<1>4. \A x : Head(<<x>>) = x /\ Tail(<<x>>) = <<>>
  BY AppendToEmpty
<1> HIDE DEF n, a, q, s
<1>5. \/ s = "asked" /\ a \in {<<"OK">>, <<"NOT_OK">>}
      \/ s = "asked" /\ reply = "FULL" /\ Tail(a) \in {<<>>, <<"READY">>, <<"WAIT_Q_FULL">>}
      \/ s = "full" /\ a \in {<<"READY">>, <<"WAIT_Q_FULL">>}
  BY <1>1, HearConsistent
<1>6. HasReady(a) <=> HasReady(Tail(a)) \/ reply = "READY"
  BY <1>1, ReadyTail
<1>7. d \in Revived <=> HasReady(a)
  BY <1>1, RevivedNow DEF WasRevived, a
<1>8. d \in Revived' <=> HasReady(Tail(a)) \/ (s # "asked" /\ reply = "READY" /\ Tail(a) = <<>>)
  BY <1>2, <1>3, RevivedNow DEF WasRevived
<1>9. d \in Revived' <=> d \in Revived
  <2>1. CASE s = "asked" /\ a \in {<<"OK">>, <<"NOT_OK">>}
    <3>1. reply # "READY"
      BY <1>1, <1>4, <2>1
    <3> QED BY <1>6, <1>7, <1>8, <2>1, <3>1
  <2>2. CASE s = "asked" /\ reply = "FULL"
    BY <1>6, <1>7, <1>8, <2>2
  <2>3. CASE s = "full" /\ a \in {<<"READY">>, <<"WAIT_Q_FULL">>}
    <3>1. Tail(a) = <<>>
      BY <1>4, <2>3
    <3> QED BY <1>6, <1>7, <1>8, <2>3, <3>1, ReadyEmpty
  <2> QED BY <1>5, <2>1, <2>2, <2>3
<1>10. ASSUME NEW c \in Client \ {d} PROVE c \in Revived' <=> c \in Revived
  BY <1>2, <1>3, RevivedNow
<1>11. Revived \in SUBSET Client /\ Revived' \in SUBSET Client
  BY DEF Revived
<1> QED BY <1>9, <1>10, <1>11

Pending == IF server.at = "reply" /\ server.then = "revive" THEN 1 ELSE 0

LEMMA Sizes ==
  /\ \A T \in SUBSET Slot : IsFiniteSet(T) /\ Cardinality(T) \in Nat
  /\ \A T \in SUBSET Client : IsFiniteSet(T) /\ Cardinality(T) \in Nat
  /\ Cardinality({}) = 0
<1>1. IsFiniteSet(Slot) /\ IsFiniteSet(Client)
  <2>1. 0 \in Int /\ MAX_CLIENTS - 1 \in Int
    BY ServerAssumption
  <2>2. IsFiniteSet(0..(MAX_CLIENTS - 1))
    BY <2>1, FS_Interval
  <2> QED BY <2>2, ServerAssumption DEF Slot
<1>2. ASSUME NEW T \in SUBSET Slot PROVE IsFiniteSet(T) /\ Cardinality(T) \in Nat
  BY <1>1, FS_Subset, FS_CardinalityType
<1>3. ASSUME NEW T \in SUBSET Client PROVE IsFiniteSet(T) /\ Cardinality(T) \in Nat
  BY <1>1, FS_Subset, FS_CardinalityType
<1>4. Cardinality({}) = 0
  BY FS_EmptySet
<1> QED BY <1>2, <1>3, <1>4

LEMMA LostNow == NoLostRevival <=>
                   (Waiting # <<>> => Cardinality(Free) <= Cardinality(Revived) + Pending)
BY DEF NoLostRevival, Pending

LEMMA LostNext == NoLostRevival' <=>
                    (Waiting' # <<>> => Cardinality(Free') <= Cardinality(Revived') + Pending')
BY DEF NoLostRevival, Pending

LEMMA NoFreeNext ==
  ASSUME Free' = {}
  PROVE  NoLostRevival'
<1>1. Cardinality(Free') = 0 /\ Cardinality(Revived') \in Nat /\ Pending' \in {0, 1}
  BY Sizes DEF Revived, Pending
<1>2. Cardinality(Free') <= Cardinality(Revived') + Pending'
  BY <1>1
<1> QED BY <1>2, LostNext

LEMMA ServeNotLost ==
  ASSUME TypeOK, OneAnswerEach, OneSlotEach, NoLostRevival, RevivedOwnNothing,
         ServeRequest, TypeOK'
  PROVE  NoLostRevival'
<1> DEFINE m == Head(chan[SERVER_PORT])
<1>1. /\ m \in Request /\ m.rp \in Client /\ SERVER_PORT \notin Client
      /\ server.at = "receive" /\ UNCHANGED queueVars
  BY ServeFacts, ServerAssumption
<1>2. PICK r \in Reply, t \in Then : Handled(m, r, t)
  BY ServeFacts
<1>3. Waiting' = Waiting /\ Pending = 0 /\ Pending' = IF t = "revive" THEN 1 ELSE 0
  <2>1. server'.at = "reply" /\ server'.then = t
    BY <1>2 DEF Handled, AtReply
  <2> QED BY <1>1, <2>1, QueueUnchanged DEF Pending
<1>4. PICK c \in Client : c = m.rp
  BY <1>1
<1>5. Revived' = Revived \ {c}
  BY <1>4, ServeRevived
<1> HIDE DEF m
<1>6. CASE clientList' = clientList /\ Free = {}
  <2>1. Free' = {}
    BY <1>6 DEF Free
  <2> QED BY <2>1, NoFreeNext
<1>7. ASSUME NEW f \in Slot, EntryOf(f, m, t) PROVE NoLostRevival'
  <2>1. /\ \A i \in Slot \ {f} : Owner(i)' = Owner(i)
        /\ Owner(f) \in {c, SERVER_PORT}
        /\ Owner(f)' = SERVER_PORT => t = "revive"
    BY <1>4, <1>7 DEF EntryOf, Owner
  <2>2. Free \ {f} = Free' \ {f} /\ (f \in Free' => t = "revive")
    BY <2>1 DEF Free, Owner
  <2>3. c \in Revived => f \in Free
    <3>1. Owner(f) = c => c \notin Revived
      BY DEF RevivedOwnNothing, Owner
    <3> QED BY <2>1, <3>1 DEF Free, Owner
  <2> DEFINE free == Cardinality(Free)  free1 == Cardinality(Free')
             revived == Cardinality(Revived)  revived1 == Cardinality(Revived')
  <2>4. IsFiniteSet(Free) /\ IsFiniteSet(Revived)
    BY Sizes DEF Free, Revived
  <2>5. /\ free \in Nat /\ free1 \in Nat
        /\ f \in Free /\ f \notin Free' => free1 = free - 1
        /\ f \notin Free /\ f \in Free' => free1 = free + 1
        /\ (f \in Free <=> f \in Free') => free1 = free
    BY <2>2, <2>4, OneMoves
  <2>6. /\ revived \in Nat /\ revived1 \in Nat
        /\ c \in Revived => revived1 = revived - 1
        /\ c \notin Revived => revived1 = revived
    <3>1. Revived \ {c} = Revived' \ {c} /\ c \notin Revived'
      BY <1>5
    <3> QED BY <2>4, <3>1, OneMoves
  <2>7. Waiting' # <<>> => free <= revived
    <3>1. Waiting' # <<>> => free <= revived + Pending
      BY <1>3, LostNow
    <3> HIDE DEF free, revived
    <3> QED BY <1>3, <2>6, <3>1
  <2> HIDE DEF free, free1, revived, revived1
  <2>8. ASSUME free <= revived PROVE free1 <= revived1 + Pending'
    <3>1. CASE f \in Free'
      <4>1. Pending' = 1
        BY <1>3, <2>2, <3>1
      <4> QED BY <2>3, <2>5, <2>6, <2>8, <3>1, <4>1
    <3>2. CASE f \notin Free'
      <4>1. free1 <= revived1
        <5>1. CASE f \in Free
          <6>1. free1 = free - 1 /\ (revived1 = revived - 1 \/ revived1 = revived)
            BY <2>5, <2>6, <3>2, <5>1
          <6> QED BY <2>5, <2>6, <2>8, <6>1
        <5>2. CASE f \notin Free
          <6>1. free1 = free /\ revived1 = revived
            BY <2>3, <2>5, <2>6, <3>2, <5>2
          <6> QED BY <2>8, <6>1
        <5> QED BY <5>1, <5>2
      <4>2. Pending' \in {0, 1} /\ free1 \in Nat /\ revived1 \in Nat
        BY <1>3, <2>5, <2>6
      <4> DEFINE p == Pending'
      <4> HIDE DEF p
      <4>3. p \in {0, 1}
        BY <4>2 DEF p
      <4>4. free1 <= revived1 + p
        BY <4>1, <4>2, <4>3
      <4> QED BY <4>4 DEF p
    <3> QED BY <3>1, <3>2
  <2> QED BY <2>7, <2>8, LostNext DEF free1, revived1
<1> QED BY <1>1, <1>2, <1>6, <1>7, ServeOwners

LEMMA SendReplyNotLost ==
  ASSUME TypeOK, ClientsWait, OneAnswerEach, ServerSays, FullNotRevived, NoLostRevival,
         SendReply, TypeOK'
  PROVE  NoLostRevival'
<1>1. /\ server.at = "reply" /\ server.to \in Client
      /\ clientList' = clientList /\ dialogue' = dialogue
      /\ Returns \/ Pops \/ Pushes \/ Refuses
  BY SendReplyFacts
<1>2. Free' = Free
  BY <1>1 DEF Free
<1>3. CASE Pushes \/ Refuses
  <2>1. server.then = "queue"
    BY <1>3 DEF Pushes, Refuses, AtNotify
  <2>2. Free = {}
    BY <1>1, <2>1 DEF ServerSays
  <2> QED BY <1>2, <2>2, NoFreeNext
<1>4. CASE Returns
  <2>1. \/ Waiting' = <<>>
        \/ Waiting' = Waiting /\ Pending = 0 /\ Pending' = 0
    BY <1>4 DEF Returns, Pending, AtReceive
  <2>2. Revived' = Revived
    BY <1>1, <1>4, SendReplyView, SameRevived DEF Same
  <2> QED BY <1>2, <2>1, <2>2, LostNow, LostNext
<1>5. CASE Pops
  <2> DEFINE ready == "READY"
  <2>1. Waiting # <<>> /\ Pending = 1 /\ Pending' = 0
    BY <1>1, <1>5 DEF Pops, AtNotify, Pending
  <2>2. PICK d \in Client : d = Head(Waiting)
    BY <2>1, HeadWaiting
  <2>3. TimesQueued(d) # 0
    BY <2>1, <2>2, QueuedHead
  <2>4. ready = "READY"
    OBVIOUS
  <2> HIDE DEF ready
  <2>5. \A c \in Client : Notified(d, ready, c)
    BY <1>5, <2>2, <2>4, SendReplyView
  <2>6. d \notin Revived /\ Revived' = Revived \cup {d}
    BY <1>1, <2>3, <2>4, <2>5, NotifiedRevived
  <2> DEFINE free == Cardinality(Free)  revived == Cardinality(Revived)
             revived1 == Cardinality(Revived')
  <2>7. free \in Nat /\ revived \in Nat /\ revived1 = revived + 1
    <3>1. IsFiniteSet(Revived)
      BY Sizes DEF Revived
    <3>2. revived1 = revived + 1
      BY <2>6, <3>1, FS_AddElement
    <3> QED BY <3>2, Sizes DEF Free, Revived
  <2>8. free <= revived + Pending
    BY <2>1, LostNow
  <2> HIDE DEF free, revived, revived1
  <2>9. free <= revived1 + Pending'
    BY <2>1, <2>7, <2>8
  <2> QED BY <1>2, <2>9, LostNext DEF free, revived1
<1> QED BY <1>1, <1>3, <1>4, <1>5

\* The other steps change neither side.
LEMMA SameNotLost ==
  ASSUME NoLostRevival, Waiting' = Waiting, clientList' = clientList, Revived' = Revived,
         Pending' = Pending
  PROVE  NoLostRevival'
<1>1. Free' = Free
  BY DEF Free
<1> QED BY <1>1, LostNow, LostNext
-----------------------------------------------------------------------------
(***************************************************************************)
(* What the server may be about to send, and who has no entry.             *)
(***************************************************************************)
LEMMA OwnNothingNext ==
  ASSUME TypeOK', \A i \in Slot, c \in Client : Owner(i)' = c => c \notin Revived'
  PROVE  RevivedOwnNothing'
<1> SUFFICES ASSUME NEW i \in Slot, clientList'[i].clientId \in Revived'
             PROVE  FALSE
  BY DEF RevivedOwnNothing
<1>1. PICK c \in Client : c = clientList'[i].clientId
  BY DEF Revived
<1> QED BY <1>1 DEF Owner

LEMMA ServeOwnNothing ==
  ASSUME TypeOK, OneAnswerEach, OneSlotEach, RevivedOwnNothing, ServeRequest, TypeOK'
  PROVE  RevivedOwnNothing'
<1> DEFINE m == Head(chan[SERVER_PORT])
<1>1. m \in Request /\ m.rp \in Client /\ SERVER_PORT \notin Client
  BY ServeFacts, ServerAssumption
<1>2. PICK r \in Reply, t \in Then : Handled(m, r, t)
  BY ServeFacts
<1>3. PICK d \in Client : d = m.rp
  BY <1>1
<1>4. Revived' = Revived \ {d}
  BY <1>3, ServeRevived
<1> HIDE DEF m
<1>5. ASSUME NEW i \in Slot, NEW c \in Client, Owner(i)' = c PROVE c \notin Revived'
  <2>1. CASE Owner(i)' = Owner(i)
    BY <1>4, <1>5, <2>1 DEF RevivedOwnNothing, Owner
  <2>2. CASE Owner(i)' \in {d, SERVER_PORT}
    BY <1>1, <1>4, <1>5, <2>2
  <2>3. Owner(i)' = Owner(i) \/ Owner(i)' \in {d, SERVER_PORT}
    <3>1. CASE clientList' = clientList
      BY <3>1 DEF Owner
    <3>2. CASE \E f \in Slot : EntryOf(f, m, t)
      BY <1>3, <3>2 DEF EntryOf, Owner
    <3> QED BY <1>1, <1>2, <3>1, <3>2, ServeOwners
  <2> QED BY <2>1, <2>2, <2>3
<1> QED BY <1>5, OwnNothingNext

LEMMA SendReplyOwnNothing ==
  ASSUME TypeOK, ClientsWait, OneAnswerEach, OneSlotEach, FullNotRevived, RevivedOwnNothing,
         SendReply, TypeOK'
  PROVE  RevivedOwnNothing'
<1>1. /\ server.at = "reply" /\ server.to \in Client
      /\ clientList' = clientList /\ dialogue' = dialogue
      /\ Returns \/ Pops \/ Pushes \/ Refuses
  BY SendReplyFacts
<1>2. SUFFICES ASSUME NEW i \in Slot, NEW c \in Client, Owner(i)' = c PROVE c \notin Revived'
  BY OwnNothingNext
<1>3. Owner(i) = c /\ c \notin Revived
  BY <1>1, <1>2 DEF RevivedOwnNothing, Owner
<1>4. CASE Returns \/ Pushes
  <2>1. Revived' = Revived
    BY <1>1, <1>4, SendReplyView, SameRevived DEF Same
  <2> QED BY <1>3, <2>1
<1>5. CASE Pops
  <2> DEFINE ready == "READY"
  <2>1. Waiting # <<>>
    BY <1>5 DEF Pops, AtNotify
  <2>2. PICK d \in Client : d = Head(Waiting)
    BY <2>1, HeadWaiting
  <2>3. TimesQueued(d) # 0
    BY <2>1, <2>2, QueuedHead
  <2>4. ready = "READY"
    OBVIOUS
  <2> HIDE DEF ready
  <2>5. \A x \in Client : Notified(d, ready, x)
    BY <1>5, <2>2, <2>4, SendReplyView
  <2>6. Revived' = Revived \cup {d}
    BY <1>1, <2>3, <2>4, <2>5, NotifiedRevived
  <2>7. c # d
    BY <1>3, <2>3, SlotsNow
  <2> QED BY <1>3, <2>6, <2>7
<1>6. CASE Refuses
  <2> DEFINE full == "WAIT_Q_FULL"
  <2>1. PICK d \in Client : d = server.to
    BY <1>1
  <2>2. TimesQueued(d) # 0
    <3>1. server.then = "queue"
      BY <1>6 DEF Refuses, AtNotify
    <3> QED BY <1>1, <2>1, <3>1, QueuedHead
  <2>3. full = "WAIT_Q_FULL" /\ full # "READY"
    OBVIOUS
  <2> HIDE DEF full
  <2>4. \A x \in Client : Notified(d, full, x)
    BY <1>6, <2>1, <2>3, SendReplyView
  <2>5. Revived' = Revived
    BY <1>1, <2>2, <2>3, <2>4, NotifiedRevived
  <2> QED BY <1>3, <2>5
<1> QED BY <1>1, <1>4, <1>5, <1>6

LEMMA SameOwnNothing ==
  ASSUME RevivedOwnNothing, clientList' = clientList, Revived' = Revived
  PROVE  RevivedOwnNothing'
BY DEF RevivedOwnNothing

LEMMA ServeSays ==
  ASSUME TypeOK, OneSlotEach, ServeRequest
  PROVE  ServerSays'
<1> DEFINE m == Head(chan[SERVER_PORT])
<1>1. m \in Request
  BY ServeFacts
<1>2. PICK r \in Reply, t \in Then : Handled(m, r, t)
  BY ServeFacts
<1> HIDE DEF m
<1>3. server'.at = "reply" /\ server'.reply = r /\ server'.then = t
  BY <1>2 DEF Handled, AtReply
<1>4. r \in {"OK", "NOT_OK", "FULL"} /\ (r = "FULL" <=> t = "queue")
  BY <1>2 DEF Handled
<1>5. t = "queue" => Free' = {}
  <2>1. t = "queue" => clientList' = clientList /\ Free = {}
    BY <1>1, <1>2, ServeOwners
  <2> QED BY <2>1 DEF Free
<1> QED BY <1>3, <1>4, <1>5 DEF ServerSays

LEMMA SendReplySays ==
  ASSUME TypeOK, SendReply
  PROVE  ServerSays'
<1>1. \/ server' = AtReceive
      \/ server'.at = "notify" /\ server'.reply \in {"READY", "WAIT_Q_FULL"}
  BY SendReplyFacts DEF Returns, Pops, Pushes, Refuses, AtNotify
<1> QED BY <1>1 DEF ServerSays, AtReceive

LEMMA HearFull ==
  ASSUME TypeOK, FullNotRevived, NEW d \in Client, NEW reply, Hear(d, reply), OneAnswerEach,
         UNCHANGED serverVars, TypeOK'
  PROVE  FullNotRevived'
<1>1. /\ dialogue'[d] = IF dialogue[d].state = "asked"
                        THEN [state |-> IF reply = "FULL" THEN "full" ELSE "idle",
                              revived |-> FALSE]
                        ELSE [state |-> IF reply \in {"READY", "WAIT_Q_FULL"}
                                        THEN "idle" ELSE "full",
                              revived |-> reply = "READY"]
      /\ \A c \in Client \ {d} : dialogue'[c] = dialogue[c]
  BY HearFacts, TypesNow DEF DialogueTypes
<1>2. dialogue'[d].state = "full" => ~dialogue'[d].revived
  <2>1. CASE dialogue[d].state = "asked"
    BY <1>1, <2>1
  <2>2. CASE dialogue[d].state # "asked" /\ reply = "READY"
    BY <1>1, <2>2
  <2>3. CASE dialogue[d].state # "asked" /\ reply # "READY"
    <3>1. dialogue'[d].revived = (reply = "READY")
      BY <1>1, <2>3
    <3> QED BY <2>3, <3>1
  <2> QED BY <2>1, <2>2, <2>3
<1> QED BY <1>1, <1>2 DEF FullNotRevived

LEMMA AskFull ==
  ASSUME TypeOK, FullNotRevived, NEW d \in Client, NEW m \in RequestsOf(d), Ask(d, m),
         UNCHANGED serverVars
  PROVE  FullNotRevived' /\ \A c \in Client : dialogue'[c].revived = dialogue[c].revived
<1>1. /\ dialogue'[d].state = "asked" /\ dialogue'[d].revived = dialogue[d].revived
      /\ \A c \in Client \ {d} : dialogue'[c] = dialogue[c]
  BY AskFacts, TypesNow DEF DialogueTypes
<1> QED BY <1>1 DEF FullNotRevived
-----------------------------------------------------------------------------
(***************************************************************************)
(* The invariant holds in the initial state and every step preserves it.   *)
(***************************************************************************)
LEMMA InitIInv == Init => IInv
<1> SUFFICES ASSUME Init PROVE IInv
  OBVIOUS
<1>1. TypeOK /\ ClientsWait /\ Waiting = <<>>
  BY InitTypes
<1>2. /\ chan = [p \in Port |-> <<>>] /\ clientList = [i \in Slot |-> EmptySlot]
      /\ server = AtReceive /\ dialogue = [c \in Client |-> Idle]
  BY DEF Init, ChannelsInit
<1>3. /\ Port = Client \cup {SERVER_PORT} /\ \A c \in Client : chan[c] = <<>>
      /\ chan[SERVER_PORT] = <<>> /\ server.at = "receive"
      /\ \A c \in Client : dialogue[c].state = "idle" /\ ~dialogue[c].revived
      /\ \A i \in Slot : Owner(i) = SERVER_PORT
  BY <1>2, ServerAssumption DEF AtReceive, Idle, EmptySlot, Owner
<1>4. ASSUME NEW c \in Client
      PROVE  /\ Requests(c) = 0 /\ Replies(c) = <<>> /\ TimesQueued(c) = 0
             /\ c \notin Revived
  <2>1. Replies(c) = <<>>
    BY <1>1, <1>3, RepliesNow
  <2>2. \A q : q = <<>> => CountIn(q, {c}) = 0 /\ CountIn(q, By(c)) = 0
    <3>1. <<>> \in Seq({}) /\ \A k \in DOMAIN <<>> : FALSE
      BY EmptySeq
    <3> QED BY <3>1, CountInType
  <2>3. Requests(c) = 0
    <3>1. <<>> \in Seq(Request)
      BY EmptySeq
    <3> QED BY <1>3, <2>2, <3>1, CountRequests DEF Requests
  <2>4. TimesQueued(c) = 0
    <3>1. TimesQueued(c) = CountIn(Waiting, {c}) + Flag(c) /\ Flag(c) = 0
      BY <1>1, <1>3, QueuedNow DEF Flag
    <3>2. CountIn(Waiting, {c}) = 0
      BY <1>1, <2>2
    <3> QED BY <3>1, <3>2
  <2>5. c \notin Revived
    BY <1>3, <2>1, ReadyEmpty, RevivedNow DEF WasRevived
  <2> QED BY <2>1, <2>3, <2>4, <2>5
<1>5. OneAnswerEach
  BY <1>3, <1>4, AnswersNow DEF Consistent
<1>6. OneSlotEach
  BY <1>3 DEF OneSlotEach, Owner
<1>7. NoLostRevival
  BY <1>1, LostNow
<1>8. ServerSays /\ FullNotRevived
  BY <1>3 DEF ServerSays, FullNotRevived
<1>9. RevivedOwnNothing
  BY <1>3, ServerAssumption DEF RevivedOwnNothing, Owner, Revived
<1> QED BY <1>1, <1>5, <1>6, <1>7, <1>8, <1>9 DEF IInv

LEMMA ServePreserves ==
  ASSUME IInv, ServeRequest
  PROVE  IInv'
<1>1. /\ TypeOK /\ OneAnswerEach /\ OneSlotEach /\ NoLostRevival /\ ServerSays
      /\ RevivedOwnNothing /\ FullNotRevived /\ ClientsWait
  BY DEF IInv
<1>2. TypeOK'
  BY <1>1, ServeTypes
<1>3. Waiting' = Waiting /\ dialogue' = dialogue
  BY <1>1, ServeFacts, QueueUnchanged
<1>4. OneAnswerEach' /\ OneSlotEach'
  BY <1>1, <1>2, ServeAnswers, ServeSlots
<1>5. NoLostRevival' /\ RevivedOwnNothing'
  BY <1>1, <1>2, ServeNotLost, ServeOwnNothing
<1>6. ServerSays'
  BY <1>1, ServeSays
<1>7. FullNotRevived' /\ ClientsWait'
  BY <1>1, <1>3 DEF FullNotRevived, ClientsWait
<1> QED BY <1>2, <1>4, <1>5, <1>6, <1>7 DEF IInv

LEMMA SendReplyPreserves ==
  ASSUME IInv, SendReply
  PROVE  IInv'
<1>1. /\ TypeOK /\ OneAnswerEach /\ OneSlotEach /\ NoLostRevival /\ ServerSays
      /\ RevivedOwnNothing /\ FullNotRevived /\ ClientsWait
  BY DEF IInv
<1>2. TypeOK'
  BY <1>1, SendReplyTypes
<1>3. OneAnswerEach' /\ OneSlotEach'
  BY <1>1, <1>2, SendReplyAnswers, SendReplySlots
<1>4. NoLostRevival' /\ RevivedOwnNothing'
  BY <1>1, <1>2, SendReplyNotLost, SendReplyOwnNothing
<1>5. ServerSays'
  BY <1>1, SendReplySays
<1>6. server.to \in Client /\ dialogue' = dialogue /\ (Returns \/ Pops \/ Pushes \/ Refuses)
  BY <1>1, SendReplyFacts
<1>7. FullNotRevived'
  BY <1>1, <1>6 DEF FullNotRevived
<1>8. \/ Waiting' = Waiting
      \/ Waiting # <<>> /\ Waiting' = Tail(Waiting)
      \/ Waiting' = Append(Waiting, server.to)
  BY <1>6 DEF Returns, Pops, Pushes, Refuses, AtNotify
<1>9. ClientsWait'
  BY <1>1, <1>6, <1>8, ClientsWaitNext
<1> QED BY <1>2, <1>3, <1>4, <1>5, <1>7, <1>9 DEF IInv

LEMMA SendNoticePreserves ==
  ASSUME IInv, SendNotice
  PROVE  IInv'
<1>1. /\ TypeOK /\ OneAnswerEach /\ OneSlotEach /\ NoLostRevival /\ ServerSays
      /\ RevivedOwnNothing /\ FullNotRevived /\ ClientsWait
  BY DEF IInv
<1>2. TypeOK'
  BY <1>1, SendNoticeTypes
<1>3. /\ server.at = "notify" /\ server' = AtReceive
      /\ clientList' = clientList /\ dialogue' = dialogue /\ Waiting' = Waiting
  BY <1>1, SendNoticeFacts, QueueUnchanged
<1>4. \A c \in Client : Same(c)
  BY <1>1, <1>2, SendNoticeView
<1>5. OneAnswerEach' /\ OneSlotEach'
  BY <1>1, <1>2, <1>3, <1>4, SameAnswers, SlotsStay DEF Same
<1>6. Revived' = Revived
  BY <1>3, <1>4, SameRevived DEF Same
<1>7. Pending' = Pending
  BY <1>3 DEF Pending, AtReceive
<1>8. NoLostRevival' /\ RevivedOwnNothing'
  BY <1>1, <1>3, <1>6, <1>7, SameNotLost, SameOwnNothing
<1>9. ServerSays' /\ FullNotRevived' /\ ClientsWait'
  BY <1>1, <1>3 DEF ServerSays, AtReceive, FullNotRevived, ClientsWait
<1> QED BY <1>2, <1>5, <1>8, <1>9 DEF IInv

LEMMA AskPreserves ==
  ASSUME IInv, NEW d \in Client, NEW m \in RequestsOf(d), Ask(d, m), UNCHANGED serverVars
  PROVE  IInv'
<1>1. /\ TypeOK /\ OneAnswerEach /\ OneSlotEach /\ NoLostRevival /\ ServerSays
      /\ RevivedOwnNothing /\ FullNotRevived /\ ClientsWait
  BY DEF IInv
<1>2. TypeOK' /\ OneAnswerEach'
  BY <1>1, AskTypes, AskAnswers
<1>3. clientList' = clientList /\ server' = server /\ Waiting' = Waiting
  BY QueueUnchanged DEF serverVars
<1>4. OneSlotEach'
  BY <1>1, <1>2, <1>3, AskView, SlotsStay
<1>5. FullNotRevived' /\ Revived' = Revived
  BY <1>1, <1>2, AskFull, AskView, SameRevived
<1>6. NoLostRevival' /\ RevivedOwnNothing'
  BY <1>1, <1>3, <1>5, SameNotLost, SameOwnNothing DEF Pending
<1>7. ServerSays' /\ ClientsWait'
  BY <1>1, <1>3 DEF ServerSays, Free, ClientsWait
<1> QED BY <1>2, <1>4, <1>5, <1>6, <1>7 DEF IInv

LEMMA HearPreserves ==
  ASSUME IInv, NEW d \in Client, NEW reply, Hear(d, reply), UNCHANGED serverVars
  PROVE  IInv'
<1>1. /\ TypeOK /\ OneAnswerEach /\ OneSlotEach /\ NoLostRevival /\ ServerSays
      /\ RevivedOwnNothing /\ FullNotRevived /\ ClientsWait
  BY DEF IInv
<1>2. TypeOK'
  BY <1>1, HearTypes
<1>3. clientList' = clientList /\ server' = server /\ Waiting' = Waiting
  BY QueueUnchanged DEF serverVars
<1>4. OneAnswerEach' /\ FullNotRevived' /\ Revived' = Revived
  BY <1>1, <1>2, HearAnswers, HearFull, HearRevived
<1>5. OneSlotEach'
  BY <1>1, <1>2, <1>3, HearView, SlotsStay
<1>6. NoLostRevival' /\ RevivedOwnNothing'
  BY <1>1, <1>3, <1>4, SameNotLost, SameOwnNothing DEF Pending
<1>7. ServerSays' /\ ClientsWait'
  BY <1>1, <1>3 DEF ServerSays, Free, ClientsWait
<1> QED BY <1>2, <1>4, <1>5, <1>6, <1>7 DEF IInv

LEMMA StutterPreserves ==
  ASSUME IInv, UNCHANGED vars
  PROVE  IInv'
<1>1. /\ TypeOK /\ OneAnswerEach /\ OneSlotEach /\ NoLostRevival /\ ServerSays
      /\ RevivedOwnNothing /\ FullNotRevived /\ ClientsWait
  BY DEF IInv
<1>2. /\ chan' = chan /\ clientList' = clientList /\ server' = server /\ dialogue' = dialogue
      /\ waitingClientQ' = waitingClientQ /\ inQ' = inQ /\ outQ' = outQ /\ Waiting' = Waiting
  BY QueueUnchanged DEF vars, serverVars, queueVars
<1>3. TypeOK'
  BY <1>1, <1>2 DEF TypeOK
<1>4. \A c \in Client : Same(c)
  BY <1>2 DEF Same, Requests, Replies, TimesQueued
<1>5. OneAnswerEach' /\ OneSlotEach'
  BY <1>1, <1>2, <1>3, <1>4, SameAnswers, SlotsStay DEF Same
<1>6. Revived' = Revived
  BY <1>2, <1>4, SameRevived DEF Same
<1>7. NoLostRevival' /\ RevivedOwnNothing'
  BY <1>1, <1>2, <1>6, SameNotLost, SameOwnNothing DEF Pending
<1>8. ServerSays' /\ FullNotRevived' /\ ClientsWait'
  BY <1>1, <1>2 DEF ServerSays, Free, FullNotRevived, ClientsWait
<1> QED BY <1>3, <1>5, <1>7, <1>8 DEF IInv

\* One disjunct for every kind of step.
LEMMA Steps ==
  ASSUME [Next]_vars
  PROVE  \/ ServeRequest \/ SendReply \/ SendNotice
         \/ \E c \in Client : \E m \in RequestsOf(c) : Ask(c, m) /\ UNCHANGED serverVars
         \/ \E c \in Client, reply \in Reply : Hear(c, reply) /\ UNCHANGED serverVars
         \/ UNCHANGED vars
<1>1. \/ ServerNext \/ \E c \in Client : AnyClient(c)
      \/ UNCHANGED vars
  BY DEF Next
<1>2. CASE ServerNext
  BY <1>2 DEF ServerNext
<1>3. CASE \E c \in Client : AnyClient(c)
  BY <1>3, Zenon DEF AnyClient
<1> QED BY <1>1, <1>2, <1>3

LEMMA NextIInv == IInv /\ [Next]_vars => IInv'
<1> SUFFICES ASSUME IInv, [Next]_vars PROVE IInv'
  OBVIOUS
<1>1. CASE ServeRequest \/ SendReply \/ SendNotice
  BY <1>1, ServePreserves, SendReplyPreserves, SendNoticePreserves
<1>2. CASE \E c \in Client : \E m \in RequestsOf(c) : Ask(c, m) /\ UNCHANGED serverVars
  BY <1>2, AskPreserves
<1>3. CASE \E c \in Client, reply \in Reply : Hear(c, reply) /\ UNCHANGED serverVars
  BY <1>3, HearPreserves
<1>4. CASE UNCHANGED vars
  BY <1>4, StutterPreserves
<1> QED BY <1>1, <1>2, <1>3, <1>4, Steps

LEMMA Invariance == Spec => []IInv
BY InitIInv, NextIInv, PTL DEF Spec

(***************************************************************************)
(* The server's and the clients' variables keep their types: among them,   *)
(* indices of clientList and of the ring queue stay within their arrays,   *)
(* and a filename that is being received within its buffer.                *)
(***************************************************************************)
THEOREM FileServerTypes == Spec => []TypeOK
<1>1. IInv => TypeOK
  BY DEF IInv
<1> QED BY <1>1, Invariance, PTL

(***************************************************************************)
(* A client that waits for the server is going to be answered by exactly   *)
(* one thing, whatever the clients ask for and in whatever order.          *)
(***************************************************************************)
THEOREM FileServerOneAnswerEach == Spec => []OneAnswerEach
<1>1. IInv => OneAnswerEach
  BY DEF IInv
<1> QED BY <1>1, Invariance, PTL

(***************************************************************************)
(* find_client() never gives a client a second entry, and no client that   *)
(* waits in the queue has one.                                             *)
(***************************************************************************)
THEOREM FileServerOneSlotEach == Spec => []OneSlotEach
<1>1. IInv => OneSlotEach
  BY DEF IInv
<1> QED BY <1>1, Invariance, PTL

(***************************************************************************)
(* While clients wait, every free entry is matched by a client that was    *)
(* revived for it or is just about to be.                                  *)
(***************************************************************************)
THEOREM FileServerNoLostRevival == Spec => []NoLostRevival
<1>1. IInv => NoLostRevival
  BY DEF IInv
<1> QED BY <1>1, Invariance, PTL

(***************************************************************************)
(* pushQ and popQ: clients are revived in the order they were put in the   *)
(* queue, and the ring never overwrites one of them.                       *)
(***************************************************************************)
THEOREM FileServerRevivedInOrder == Spec => RevivedInOrder
<1>1. ASSUME IInv, [Next]_vars
      PROVE  \/ Waiting' = Waiting
             \/ Waiting # <<>> /\ Waiting' = Tail(Waiting)
             \/ \E c \in Client : Waiting' = Append(Waiting, c)
  <2>1. TypeOK
    BY <1>1 DEF IInv
  <2>2. CASE UNCHANGED queueVars
    BY <2>2, QueueUnchanged
  <2>3. CASE SendReply
    <3>1. server.to \in Client /\ (Returns \/ Pops \/ Pushes \/ Refuses)
      BY <2>1, <2>3, SendReplyFacts
    <3>2. \/ Waiting' = Waiting
          \/ Waiting # <<>> /\ Waiting' = Tail(Waiting)
          \/ Waiting' = Append(Waiting, server.to)
      BY <3>1 DEF Returns, Pops, Pushes, Refuses, AtNotify
    <3> QED BY <3>1, <3>2
  <2>4. SendReply \/ UNCHANGED queueVars
    BY <1>1, Steps DEF ServeRequest, SendNotice, serverVars, vars
  <2> QED BY <2>2, <2>3, <2>4
<1>2. [][\/ Waiting' = Waiting
         \/ Waiting # <<>> /\ Waiting' = Tail(Waiting)
         \/ \E c \in Client : Waiting' = Append(Waiting, c)]_vars <=> RevivedInOrder
  BY PTL DEF RevivedInOrder
<1> QED BY <1>1, <1>2, Invariance, PTL DEF Spec

(***************************************************************************)
(* Serving a client leaves the entries of the others alone.                *)
(***************************************************************************)
THEOREM FileServerEntriesArePrivate == Spec => EntriesArePrivate
<1>1. ASSUME IInv, [Next]_vars
      PROVE  \A i \in Slot : clientList[i].clientId # SERVER_PORT =>
               \/ clientList'[i] = clientList[i]
               \/ Head(chan[SERVER_PORT]).rp = clientList[i].clientId
  <2> DEFINE m == Head(chan[SERVER_PORT])
  <2>1. TypeOK /\ OneSlotEach
    BY <1>1 DEF IInv
  <2>2. CASE ServeRequest
    <3>1. m \in Request /\ \E r \in Reply, t \in Then : Handled(m, r, t)
      BY <2>1, <2>2, ServeFacts
    <3> HIDE DEF m
    <3>2. PICK r \in Reply, t \in Then : Handled(m, r, t)
      BY <3>1
    <3>3. clientList' = clientList \/ \E f \in Slot : EntryOf(f, m, t)
      BY <2>1, <3>1, <3>2, ServeOwners
    <3> QED BY <3>3 DEF EntryOf, Owner, m
  <2>3. CASE UNCHANGED clientList
    BY <2>3
  <2>4. ServeRequest \/ UNCHANGED clientList
    BY <1>1, Steps DEF SendReply, SendNotice, serverVars, vars
  <2> QED BY <2>2, <2>3, <2>4
<1> QED BY <1>1, Invariance, PTL DEF Spec, EntriesArePrivate
-----------------------------------------------------------------------------
(***************************************************************************)
(* PART 2.  THE CLIENTS OF file_test.c                                     *)
(***************************************************************************)

Sent == {"name sent", "data sent", "eof sent"}
Pc == Sent \cup {"name", "blocked", "data", "eof", "done"}

ClientTypes ==
  /\ file \in [Client -> File]
  /\ pc \in [Client -> Pc]
  /\ sentCount \in [Client -> Nat] /\ arr3 \in [Client -> Nat] /\ pos \in [Client -> Nat]
  /\ ret \in [Client -> {1, -1}]
  /\ DOMAIN disk = Client

\* What the three loops of a client keep true of its counters.
Loops(c) ==
  /\ arr3[c] <= sentCount[c] /\ sentCount[c] <= file[c].name
  /\ pc[c] = "name" => sentCount[c] # file[c].name
  /\ pc[c] \in {"name", "name sent", "blocked"} => pos[c] = 0
  /\ pc[c] = "data" => pos[c] < file[c].pieces
  /\ pc[c] = "data sent" => pos[c] \in 1..file[c].pieces
  /\ pc[c] \in {"eof", "eof sent"} => pos[c] = file[c].pieces

\* A client is where the server's protocol has it.
StateAt(p) == IF p \in Sent THEN "asked" ELSE IF p = "blocked" THEN "full" ELSE "idle"
InDialogue(c) == dialogue[c].state = StateAt(pc[c])

\* The characters that the server holds when it reads a name packet.
Before(c) == IF sentCount[c] > 12 THEN 12 ELSE sentCount[c] - arr3[c]

\* The request that a client has sent and the server has yet to read.
Expected(m, c) ==
  \/ /\ pc[c] = "name sent" /\ m.type = 0 /\ m.len = arr3[c]
     /\ m.left = 0 => sentCount[c] = file[c].name
     /\ ret[c] = 1 => m.left = (file[c].name - Before(c)) \div FILENAME_DATA_LEN
  \/ pc[c] = "data sent" /\ m = DataRequest(c, pos[c])
  \/ pc[c] = "eof sent" /\ m = EofRequest(c)
RequestsExpected ==
  \A k \in DOMAIN chan[SERVER_PORT] :
    Expected(chan[SERVER_PORT][k], chan[SERVER_PORT][k].rp)

(***************************************************************************)
(* The packets of a name, while nothing goes wrong: arr[3] is the count of *)
(* the first packet, which is the length of the second only by accident;   *)
(* the third comes with a length that the server refuses.                  *)
(***************************************************************************)
Packets(c) ==
  /\ pc[c] = "name" => \/ sentCount[c] = 0 /\ arr3[c] = 0
                       \/ sentCount[c] \in {6, 12} /\ arr3[c] = 6
  /\ pc[c] = "name sent" =>
       /\ arr3[c] >= 1
       /\ \/ /\ sentCount[c] <= 12 /\ sentCount[c] - arr3[c] \in {0, 6}
             /\ arr3[c] = 6 \/ sentCount[c] = file[c].name
          \/ /\ sentCount[c] > 12 /\ arr3[c] > 3
             /\ sentCount[c] = 18 \/ sentCount[c] = file[c].name

\* Among the entries is one of client c, whose name has f characters, with n of
\* these and k pieces of its file, in order; for n = 0 there is none.
Has(list, c, f, n, k) ==
  IF n = 0 THEN \A i \in Slot : list[i].clientId # c
  ELSE \E i \in Slot :
         /\ list[i].clientId = c
         /\ list[i].filenameLen = n
         /\ n = 6 => list[i].filenamePacketsLeft = f \div FILENAME_DATA_LEN
         /\ list[i].fp = [j \in 1..k |-> j]

SaysOK(c) == Replies(c) # <<>> /\ Head(Replies(c)) = "OK"
SaysNo(c) == Replies(c) # <<>> /\ Head(Replies(c)) = "NOT_OK"
SaysFull(c) == Replies(c) # <<>> /\ Head(Replies(c)) = "FULL"

\* What the server has of a client that has met no error; it does not refuse
\* the first two packets of a name.
NameArrives(c) ==
  /\ Requests(c) # 0 => Has(clientList, c, file[c].name, Before(c), 0)
  /\ SaysOK(c) => sentCount[c] <= 12 /\ Has(clientList, c, file[c].name, sentCount[c], 0)
  /\ SaysNo(c) => sentCount[c] > 12
  /\ SaysFull(c) => Has(clientList, c, file[c].name, 0, 0)
PieceArrives(c) ==
  /\ Requests(c) # 0 => Has(clientList, c, file[c].name, file[c].name, pos[c] - 1)
  /\ SaysOK(c) => Has(clientList, c, file[c].name, file[c].name, pos[c])
Whole(c) == disk[c] = [j \in 1..file[c].pieces |-> j]

Progress(c) ==
  /\ pc[c] = "name" => Has(clientList, c, file[c].name, sentCount[c], 0)
  /\ pc[c] = "name sent" => NameArrives(c)
  /\ pc[c] = "blocked" => Has(clientList, c, file[c].name, 0, 0)
  /\ pc[c] \in {"data", "eof"} => Has(clientList, c, file[c].name, file[c].name, pos[c])
  /\ pc[c] = "data sent" => PieceArrives(c)
  /\ pc[c] = "eof sent" => /\ Requests(c) # 0 => Has(clientList, c, file[c].name, file[c].name, pos[c])
                           /\ SaysOK(c) => Whole(c)
  /\ pc[c] = "done" => Whole(c)

\* A client that goes on with its name after an error has one over the limit.
GivesUp(c) == ret[c] = -1 /\ pc[c] \in {"name", "name sent", "blocked"}
                => file[c].name > MAX_FILENAME_LEN

Right(c) ==
  /\ Loops(c)
  /\ InDialogue(c)
  /\ GivesUp(c)
  /\ SaysFull(c) => pc[c] = "name sent"
  /\ ret[c] = 1 => Packets(c) /\ Progress(c)

FreeAreEmpty == \A i \in Slot : clientList[i].clientId = SERVER_PORT =>
                                 clientList[i] = EmptySlot

TransferInv ==
  /\ IInv /\ ClientTypes /\ FreeAreEmpty /\ NamesWholeOrRefused /\ RequestsExpected
  /\ \A c \in Client : Right(c)
-----------------------------------------------------------------------------
LEMMA FileFacts ==
  ASSUME ClientTypes, NEW c \in Client
  PROVE  /\ file[c].name \in Nat \ {0} /\ file[c].pieces \in Nat
         /\ 0..file[c].name \subseteq DataLen
         /\ 0..(file[c].name \div FILENAME_DATA_LEN) \subseteq PacketsLeft
         /\ 1..file[c].pieces \subseteq Piece
<1>1. file[c] \in File
  BY DEF ClientTypes
<1> QED BY <1>1, TransferAssumption

LEMMA CounterTypes ==
  ASSUME ClientTypes, NEW c \in Client
  PROVE  /\ sentCount[c] \in Nat /\ arr3[c] \in Nat /\ pos[c] \in Nat
         /\ ret[c] \in {1, -1} /\ pc[c] \in Pc
BY DEF ClientTypes

LEMMA HasKept ==
  ASSUME NEW l1, NEW l2, NEW c, NEW f, NEW n, NEW k,
         \A i \in Slot : l1[i].clientId = c \/ l2[i].clientId = c => l2[i] = l1[i]
  PROVE  Has(l2, c, f, n, k) <=> Has(l1, c, f, n, k)
BY DEF Has

(***************************************************************************)
(* A step that is none of c's leaves everything that Right(c) speaks of    *)
(* as it was.                                                              *)
(***************************************************************************)
Rests(c) == /\ pc'[c] = pc[c] /\ sentCount'[c] = sentCount[c] /\ arr3'[c] = arr3[c]
            /\ pos'[c] = pos[c] /\ ret'[c] = ret[c] /\ file'[c] = file[c]

Apart(c) ==
  /\ Rests(c) /\ disk'[c] = disk[c]
  /\ dialogue'[c].state = dialogue[c].state
  /\ Requests(c)' = Requests(c)
  /\ SaysOK(c)' <=> SaysOK(c)
  /\ SaysNo(c)' <=> SaysNo(c)
  /\ SaysFull(c)' <=> SaysFull(c)
  /\ \A i \in Slot : clientList[i].clientId = c \/ clientList'[i].clientId = c
                       => clientList'[i] = clientList[i]

LEMMA ApartRight ==
  ASSUME NEW c \in Client, Right(c), Apart(c)
  PROVE  Right(c)'
<1>1. \A f, n, k : Has(clientList', c, f, n, k) <=> Has(clientList, c, f, n, k)
  BY HasKept DEF Apart
<1>2. Rests(c) /\ disk'[c] = disk[c] /\ Requests(c)' = Requests(c)
  BY DEF Apart
<1>3. /\ (SaysOK(c)' <=> SaysOK(c)) /\ (SaysNo(c)' <=> SaysNo(c))
      /\ SaysFull(c)' <=> SaysFull(c)
  BY DEF Apart
<1>4. Loops(c)'
  BY <1>2 DEF Right, Loops, Rests
<1>5. InDialogue(c)'
  BY <1>2 DEF Right, Apart, InDialogue, Rests
<1>6. SaysFull(c)' => pc'[c] = "name sent"
  BY <1>2, <1>3 DEF Right, Rests
<1>7. GivesUp(c)'
  BY <1>2 DEF Right, GivesUp, Rests
<1>8. ASSUME ret'[c] = 1 PROVE Packets(c)' /\ Progress(c)'
  <2>1. Packets(c) /\ Progress(c)
    BY <1>2, <1>8 DEF Right, Rests
  <2>2. Packets(c)'
    BY <1>2, <2>1 DEF Packets, Rests
  <2>3. Before(c)' = Before(c) /\ (Whole(c)' <=> Whole(c))
    BY <1>2 DEF Before, Whole, Rests
  <2>4. NameArrives(c)' <=> NameArrives(c)
    BY <1>1, <1>2, <1>3, <2>3 DEF NameArrives, Rests
  <2>5. PieceArrives(c)' <=> PieceArrives(c)
    BY <1>1, <1>2, <1>3 DEF PieceArrives, Rests
  <2>6. Progress(c)'
    BY <1>1, <1>2, <1>3, <2>1, <2>3, <2>4, <2>5 DEF Progress, Rests
  <2> QED BY <2>2, <2>6
<1> QED BY <1>4, <1>5, <1>6, <1>8, <1>7 DEF Right

LEMMA ExpectedStays ==
  ASSUME NEW m, NEW c, Rests(c), Expected(m, c)
  PROVE  Expected(m, c)'
BY DEF Rests, Expected, Before

\* RequestsExpected, when a request is read and when one is sent.
LEMMA ReadExpected ==
  ASSUME TypeOK, RequestsExpected, UNCHANGED clientVars,
         \/ chan'[SERVER_PORT] = chan[SERVER_PORT]
         \/ /\ chan[SERVER_PORT] # <<>>
            /\ chan'[SERVER_PORT] = Tail(chan[SERVER_PORT])
  PROVE  RequestsExpected'
<1> DEFINE q == chan[SERVER_PORT]
<1>1. q \in Seq(Request)
  BY DEF TypeOK
<1>2. \A c : Rests(c)
  BY DEF Rests, clientVars
<1> SUFFICES ASSUME NEW k \in DOMAIN chan'[SERVER_PORT]
             PROVE  Expected(chan[SERVER_PORT][k], chan[SERVER_PORT][k].rp)'
  BY DEF RequestsExpected
<1>3. \E j \in DOMAIN q : chan'[SERVER_PORT][k] = q[j]
  <2>1. CASE chan'[SERVER_PORT] = q
    BY <2>1
  <2>2. CASE q # <<>> /\ chan'[SERVER_PORT] = Tail(q)
    <3>1. Len(Tail(q)) = Len(q) - 1 /\ \A j \in 1..Len(Tail(q)) : Tail(q)[j] = q[j + 1]
      BY <1>1, <2>2, HeadTailProperties, LenProperties
    <3>2. k \in 1..Len(Tail(q)) /\ Len(q) \in Nat /\ Tail(q) \in Seq(Request)
      BY <1>1, <2>2, HeadTailProperties, LenProperties
    <3>3. k + 1 \in 1..Len(q)
      BY <3>1, <3>2
    <3>4. DOMAIN q = 1..Len(q)
      BY <1>1, LenProperties
    <3> QED BY <2>2, <3>1, <3>2, <3>3, <3>4
  <2> QED BY <2>1, <2>2
<1>4. PICK m : m = chan'[SERVER_PORT][k] /\ Expected(m, m.rp)
  BY <1>3 DEF RequestsExpected
<1>5. Expected(m, m.rp)'
  BY <1>2, <1>4, ExpectedStays
<1> QED BY <1>4, <1>5
-----------------------------------------------------------------------------
LEMMA NoneOf ==
  ASSUME TypeOK, NEW c \in Client, Requests(c) = 0, NEW k \in DOMAIN chan[SERVER_PORT]
  PROVE  chan[SERVER_PORT][k].rp # c
<1>1. chan[SERVER_PORT] \in Seq(Request)
  BY DEF TypeOK
<1>2. chan[SERVER_PORT][k] \in Request
  BY <1>1, LenProperties
<1>3. CountIn(chan[SERVER_PORT], By(c)) = 0
  BY <1>1, CountRequests DEF Requests
<1>4. chan[SERVER_PORT][k] \notin By(c)
  BY <1>1, <1>3, CountInType
<1> QED BY <1>2, <1>4 DEF By

LEMMA ExpectedNext ==
  ASSUME TypeOK, RequestsExpected, NEW d \in Client, Requests(d) = 0,
         \A c \in Client \ {d} : Rests(c), NEW k \in DOMAIN chan[SERVER_PORT]
  PROVE  \A m : m = chan[SERVER_PORT][k] => Expected(m, m.rp)'
<1> SUFFICES ASSUME NEW m, m = chan[SERVER_PORT][k] PROVE Expected(m, m.rp)'
  OBVIOUS
<1>1. chan[SERVER_PORT] \in Seq(Request)
  BY DEF TypeOK
<1>2. m.rp \in Client /\ m.rp # d
  BY <1>1, NoneOf, LenProperties, RequestFacts
<1>3. Expected(m, m.rp)
  BY DEF RequestsExpected
<1> QED BY <1>2, <1>3, ExpectedStays

LEMMA AskExpected ==
  ASSUME TypeOK, RequestsExpected, NEW d \in Client, Requests(d) = 0,
         \A c \in Client \ {d} : Rests(c), NEW m \in Request, m.rp = d, Expected(m, d)',
         chan'[SERVER_PORT] = Append(chan[SERVER_PORT], m)
  PROVE  RequestsExpected'
<1> SUFFICES ASSUME NEW k \in DOMAIN chan'[SERVER_PORT]
             PROVE  Expected(chan[SERVER_PORT][k], chan[SERVER_PORT][k].rp)'
  BY DEF RequestsExpected
<1>1. chan[SERVER_PORT] \in Seq(Request)
  BY DEF TypeOK
<1> DEFINE q == chan[SERVER_PORT]
<1>2. /\ DOMAIN q = 1..Len(q) /\ Len(q) \in Nat
      /\ DOMAIN Append(q, m) = 1..(Len(q) + 1)
      /\ Append(q, m)[Len(q) + 1] = m
      /\ \A j \in 1..Len(q) : Append(q, m)[j] = q[j]
  BY <1>1, LenProperties, AppendProperties
<1>3. CASE k = Len(q) + 1
  <2>1. PICK x : x = chan'[SERVER_PORT][k] /\ x = m
    BY <1>2, <1>3
  <2>2. Expected(x, x.rp)'
    BY <2>1
  <2> QED BY <2>1, <2>2
<1>4. CASE k # Len(q) + 1
  <2>1. k \in DOMAIN q /\ chan'[SERVER_PORT][k] = q[k]
    BY <1>2, <1>4
  <2>2. PICK x : x = q[k] /\ x = chan'[SERVER_PORT][k]
    BY <2>1
  <2>3. Expected(x, x.rp)'
    BY <2>1, <2>2, ExpectedNext
  <2> QED BY <2>2, <2>3
<1> QED BY <1>3, <1>4

LEMMA HearExpected ==
  ASSUME TypeOK, RequestsExpected, NEW d \in Client, Requests(d) = 0,
         \A c \in Client \ {d} : Rests(c), chan'[SERVER_PORT] = chan[SERVER_PORT]
  PROVE  RequestsExpected'
<1> SUFFICES ASSUME NEW k \in DOMAIN chan'[SERVER_PORT]
             PROVE  Expected(chan[SERVER_PORT][k], chan[SERVER_PORT][k].rp)'
  BY DEF RequestsExpected
<1>1. PICK x : x = chan[SERVER_PORT][k] /\ x = chan'[SERVER_PORT][k]
  OBVIOUS
<1>2. Expected(x, x.rp)'
  BY <1>1, ExpectedNext
<1> QED BY <1>1, <1>2

\* NamesWholeOrRefused and FreeAreEmpty, when the entries stay as they are.
LEMMA NamesStay ==
  ASSUME TypeOK, FreeAreEmpty, NamesWholeOrRefused, clientList' = clientList,
         \A c \in Client : file'[c] = file[c] /\ (ret[c] = -1 => ret'[c] = -1)
  PROVE  FreeAreEmpty' /\ NamesWholeOrRefused'
<1>1. FreeAreEmpty'
  BY DEF FreeAreEmpty
<1>2. ASSUME NEW i \in Slot, clientList[i].filenameComplete PROVE clientList[i].clientId \in Client
  <2>1. clientList[i].clientId \in Client \cup {SERVER_PORT}
    BY DEF TypeOK, Entry
  <2> QED BY <1>2, <2>1 DEF FreeAreEmpty, EmptySlot
<1>3. NamesWholeOrRefused'
  BY <1>2 DEF NamesWholeOrRefused, RefusedForLength
<1> QED BY <1>1, <1>3

LEMMA ConsistentNow ==
  ASSUME TypeOK, OneAnswerEach, NEW c \in Client
  PROVE  /\ Consistent(dialogue[c].state, Requests(c), Replies(c), TimesQueued(c))
         /\ Replies(c) \in Seq(Reply) /\ Requests(c) \in Nat
BY AnswersNow, RepliesNow, RequestsNext
-----------------------------------------------------------------------------
(***************************************************************************)
(* What sending a request leaves of the invariant, whatever the client is  *)
(* about; and what receiving does.                                         *)
(***************************************************************************)
LEMMA OthersApart ==
  ASSUME NEW d \in Client, \A c \in Client : Right(c), disk' = disk, clientList' = clientList,
         \A c \in Client \ {d} : /\ Rests(c) /\ dialogue'[c].state = dialogue[c].state
                                 /\ Requests(c)' = Requests(c) /\ Replies(c)' = Replies(c)
  PROVE  \A c \in Client \ {d} : Right(c)'
<1> SUFFICES ASSUME NEW c \in Client \ {d} PROVE Right(c)'
  OBVIOUS
<1>1. /\ (SaysOK(c)' <=> SaysOK(c)) /\ (SaysNo(c)' <=> SaysNo(c))
      /\ SaysFull(c)' <=> SaysFull(c)
  BY DEF SaysOK, SaysNo, SaysFull
<1>2. Apart(c)
  BY <1>1 DEF Apart
<1> QED BY <1>2, ApartRight

LEMMA AskTransfer ==
  ASSUME TransferInv, NEW d \in Client, NEW m \in RequestsOf(d), Ask(d, m),
         UNCHANGED <<serverVars, disk, ret, file>>, \A c \in Client \ {d} : Rests(c),
         Expected(m, d)'
  PROVE  /\ IInv' /\ FreeAreEmpty' /\ NamesWholeOrRefused' /\ RequestsExpected'
         /\ \A c \in Client \ {d} : Right(c)'
         /\ clientList' = clientList /\ dialogue'[d].state = "asked"
         /\ ~SaysOK(d)' /\ ~SaysNo(d)' /\ ~SaysFull(d)'
<1>1. TypeOK /\ OneAnswerEach /\ UNCHANGED serverVars
  BY DEF TransferInv, IInv
<1>2. IInv'
  BY <1>1, AskPreserves DEF TransferInv
<1>3. TypeOK'
  BY <1>2 DEF IInv
<1>4. /\ m \in Request /\ m.rp = d /\ clientList' = clientList
      /\ chan' = [chan EXCEPT ![SERVER_PORT] = Append(@, m)]
      /\ dialogue[d].state = "idle"
      /\ dialogue' = [dialogue EXCEPT ![d].state = "asked"]
  BY <1>1, AskFacts
<1>5. dialogue \in [Client -> [state : {"idle", "asked", "full"}, revived : BOOLEAN]]
  BY <1>1 DEF TypeOK
<1>6. dialogue'[d].state = "asked" /\ \A c \in Client \ {d} : dialogue'[c] = dialogue[c]
  BY <1>4, <1>5
<1>7. Requests(d) = 0 /\ Replies(d) = <<>>
  BY <1>1, <1>4, ConsistentNow DEF Consistent
<1>8. \A c \in Client : Replies(c)' = Replies(c)
  BY <1>1, <1>3, AskView
<1>9. \A c \in Client \ {d} : Requests(c)' = Requests(c)
  <2> SUFFICES ASSUME NEW c \in Client \ {d} PROVE Requests(c)' = Requests(c)
    OBVIOUS
  <2>1. Requests(c)' = Requests(c) + 0
    BY <1>1, <1>3, AskView
  <2> QED BY <1>1, <2>1, ConsistentNow
<1>10. RequestsExpected'
  <2>1. chan'[SERVER_PORT] = Append(chan[SERVER_PORT], m)
    BY <1>1, <1>4, RequestSent
  <2> QED BY <1>1, <1>4, <1>7, <2>1, AskExpected DEF TransferInv
<1>11. FreeAreEmpty' /\ NamesWholeOrRefused'
  BY <1>1, <1>4, NamesStay DEF TransferInv
<1>12. \A c \in Client \ {d} : Right(c)'
  BY <1>4, <1>6, <1>8, <1>9, OthersApart DEF TransferInv
<1>13. ~SaysOK(d)' /\ ~SaysNo(d)' /\ ~SaysFull(d)'
  BY <1>7, <1>8 DEF SaysOK, SaysNo, SaysFull
<1> QED BY <1>2, <1>4, <1>6, <1>10, <1>11, <1>12, <1>13

LEMMA HearTransfer ==
  ASSUME TransferInv, NEW d \in Client, NEW reply, Hear(d, reply),
         UNCHANGED <<serverVars, disk, file>>, \A c \in Client \ {d} : Rests(c),
         ret[d] = -1 => ret'[d] = -1
  PROVE  /\ IInv' /\ FreeAreEmpty' /\ NamesWholeOrRefused' /\ RequestsExpected'
         /\ \A c \in Client \ {d} : Right(c)'
         /\ clientList' = clientList /\ Replies(d) # <<>> /\ reply = Head(Replies(d))
         /\ Requests(d)' = 0 /\ ~SaysOK(d)' /\ ~SaysNo(d)' /\ ~SaysFull(d)'
         /\ \/ /\ dialogue[d].state = "asked" /\ reply \in {"OK", "NOT_OK"}
               /\ dialogue'[d].state = "idle"
            \/ /\ dialogue[d].state = "asked" /\ reply = "FULL"
               /\ dialogue'[d].state = "full"
            \/ /\ dialogue[d].state = "full" /\ reply \in {"READY", "WAIT_Q_FULL"}
               /\ dialogue'[d].state = "idle"
<1>1. TypeOK /\ OneAnswerEach /\ UNCHANGED serverVars
  BY DEF TransferInv, IInv
<1>2. IInv'
  BY <1>1, HearPreserves DEF TransferInv
<1>3. TypeOK'
  BY <1>2 DEF IInv
<1>4. /\ chan[d] # <<>> /\ reply = Head(chan[d]) /\ reply \in Reply
      /\ chan' = [chan EXCEPT ![d] = Tail(@)]
      /\ dialogue[d].state # "idle"
      /\ dialogue' = [dialogue EXCEPT ![d] =
           IF dialogue[d].state = "asked"
           THEN [state |-> IF reply = "FULL" THEN "full" ELSE "idle", revived |-> FALSE]
           ELSE [state |-> IF reply \in {"READY", "WAIT_Q_FULL"} THEN "idle" ELSE "full",
                 revived |-> reply = "READY"]]
  BY <1>1, HearFacts
<1>5. dialogue \in [Client -> [state : {"idle", "asked", "full"}, revived : BOOLEAN]]
  BY <1>1 DEF TypeOK
<1>6. /\ dialogue'[d].state = IF dialogue[d].state = "asked"
                              THEN IF reply = "FULL" THEN "full" ELSE "idle"
                              ELSE IF reply \in {"READY", "WAIT_Q_FULL"} THEN "idle" ELSE "full"
      /\ \A c \in Client \ {d} : dialogue'[c] = dialogue[c]
  BY <1>4, <1>5
<1>7. /\ Replies(d) # <<>> /\ reply = Head(Replies(d)) /\ Replies(d)' = Tail(Replies(d))
      /\ \A c \in Client : Requests(c)' = Requests(c)
      /\ \A c \in Client \ {d} : Replies(c)' = Replies(c)
  BY <1>1, <1>3, HearView
<1>8. Consistent(dialogue[d].state, Requests(d), Replies(d), TimesQueued(d))
  BY <1>1, ConsistentNow
<1>9. /\ \/ dialogue[d].state = "asked" /\ Replies(d) \in {<<"OK">>, <<"NOT_OK">>}
         \/ /\ dialogue[d].state = "asked" /\ reply = "FULL"
            /\ Tail(Replies(d)) \in {<<>>, <<"READY">>, <<"WAIT_Q_FULL">>}
         \/ dialogue[d].state = "full" /\ Replies(d) \in {<<"READY">>, <<"WAIT_Q_FULL">>}
      /\ Requests(d) = 0
  BY <1>7, <1>8 DEF Consistent, Owed
<1>10. \A r : /\ Head(<<r>>) = r /\ Tail(<<r>>) = <<>> /\ <<r>> # <<>>
  BY AppendToEmpty
<1>11. Replies(d)' \in {<<>>, <<"READY">>, <<"WAIT_Q_FULL">>}
  BY <1>7, <1>9, <1>10
<1>12. ~SaysOK(d)' /\ ~SaysNo(d)' /\ ~SaysFull(d)'
  BY <1>10, <1>11 DEF SaysOK, SaysNo, SaysFull
<1>13. RequestsExpected'
  <2>1. chan'[SERVER_PORT] = chan[SERVER_PORT]
    BY <1>1, <1>4, ReplyHeard
  <2> QED BY <1>1, <1>9, <2>1, HearExpected DEF TransferInv
<1>14. FreeAreEmpty' /\ NamesWholeOrRefused' /\ clientList' = clientList
  <2>1. clientList' = clientList
    BY <1>1 DEF serverVars
  <2>2. \A c \in Client : file'[c] = file[c] /\ (ret[c] = -1 => ret'[c] = -1)
    BY DEF Rests
  <2> QED BY <1>1, <2>1, <2>2, NamesStay DEF TransferInv
<1>15. \A c \in Client \ {d} : Right(c)'
  BY <1>6, <1>7, <1>14, OthersApart DEF TransferInv
<1>16. \/ /\ dialogue[d].state = "asked" /\ reply \in {"OK", "NOT_OK"}
          /\ dialogue'[d].state = "idle"
       \/ /\ dialogue[d].state = "asked" /\ reply = "FULL"
          /\ dialogue'[d].state = "full"
       \/ /\ dialogue[d].state = "full" /\ reply \in {"READY", "WAIT_Q_FULL"}
          /\ dialogue'[d].state = "idle"
  BY <1>6, <1>7, <1>9, <1>10
<1> QED BY <1>2, <1>7, <1>9, <1>12, <1>13, <1>14, <1>15, <1>16
-----------------------------------------------------------------------------
LEMMA DivFacts ==
  ASSUME NEW x \in Nat, NEW y \in Nat, x <= y
  PROVE  x \div 6 \in 0..(y \div 6) /\ (x \div 6 = 0 => x < 6)
OBVIOUS

LEMMA TwoMin ==
  ASSUME NEW x \in Nat, NEW y \in Nat
  PROVE  Min({x, y}) = IF x <= y THEN x ELSE y
<1>1. \E z \in {x, y} : \A w \in {x, y} : z <= w
  OBVIOUS
<1>2. Min({x, y}) \in {x, y} /\ \A w \in {x, y} : Min({x, y}) <= w
  BY <1>1 DEF Min
<1> QED BY <1>2

\* The arithmetic of SendFilename: f characters, s of which were sent before.
LEMMA PacketFacts ==
  ASSUME NEW f \in Nat, NEW s \in Nat, NEW a \in Nat, a <= s, s < f, NEW sent, NEW left, NEW len,
         sent = Min({s + FILENAME_DATA_LEN, f}), left = (f - s) \div FILENAME_DATA_LEN,
         len = sent - a
  PROVE  /\ sent = (IF s + 6 <= f THEN s + 6 ELSE f) /\ sent \in Nat /\ sent > s /\ sent <= f
         /\ len \in 1..f /\ len <= sent
         /\ left \in 0..(f \div FILENAME_DATA_LEN)
         /\ left = 0 => sent = f
<1>1. FILENAME_DATA_LEN = 6
  BY DEF FILENAME_DATA_LEN
<1>2. sent = (IF s + 6 <= f THEN s + 6 ELSE f)
  BY <1>1, TwoMin
<1>3. f - s \in Nat /\ f - s <= f
  OBVIOUS
<1>4. left \in 0..(f \div FILENAME_DATA_LEN) /\ (left = 0 => f - s < 6)
  BY <1>1, <1>3, DivFacts
<1>5. /\ sent \in Nat /\ sent > s /\ sent <= f /\ len \in 1..f /\ len <= sent
      /\ f - s < 6 => sent = f
  BY <1>2
<1> QED BY <1>2, <1>4, <1>5

\* A client that takes a step moves its own variables only.
LEMMA NameAsked ==
  ASSUME TransferInv, NEW d \in Client, SendFilename(d), UNCHANGED <<serverVars, disk>>
  PROVE  TransferInv'
<1> DEFINE f == file[d].name
           s == sentCount[d]
           a == arr3[d]
           sent == Min({s + FILENAME_DATA_LEN, f})
           left == (f - s) \div FILENAME_DATA_LEN
           len == sent - a
<1>1. ClientTypes /\ Right(d)
  BY DEF TransferInv
<1>2. /\ pc[d] = "name" /\ Ask(d, NameRequest(d, left, len))
      /\ sentCount' = [sentCount EXCEPT ![d] = sent] /\ arr3' = [arr3 EXCEPT ![d] = len]
      /\ pc' = [pc EXCEPT ![d] = "name sent"] /\ UNCHANGED <<file, pos, ret>>
  BY DEF SendFilename
<1>3. f \in Nat /\ s \in Nat /\ a \in Nat /\ a <= s /\ s < f /\ pos[d] = 0
  <2>1. f \in Nat \ {0} /\ s \in Nat /\ a \in Nat
    BY <1>1, FileFacts, CounterTypes
  <2>2. a <= s /\ s <= f /\ s # f /\ pos[d] = 0
    BY <1>1, <1>2 DEF Right, Loops
  <2> QED BY <2>1, <2>2
<1>4. /\ sent = (IF s + 6 <= f THEN s + 6 ELSE f) /\ sent \in Nat /\ sent > s /\ sent <= f
      /\ len \in 1..f /\ len <= sent /\ left \in 0..(f \div FILENAME_DATA_LEN)
      /\ left = 0 => sent = f
  <2>1. /\ sent = Min({s + FILENAME_DATA_LEN, f}) /\ left = (f - s) \div FILENAME_DATA_LEN
        /\ len = sent - a
    OBVIOUS
  <2> HIDE DEF f, s, a, sent, left, len
  <2> QED BY <1>3, <2>1, PacketFacts
<1>5. NameRequest(d, left, len) \in RequestsOf(d)
  <2>1. len \in DataLen /\ left \in PacketsLeft
    BY <1>1, <1>4, FileFacts
  <2> QED BY <2>1 DEF RequestsOf
<1> HIDE DEF sent, left, len
<1>6. /\ sentCount'[d] = sent /\ arr3'[d] = len /\ pc'[d] = "name sent" /\ file'[d] = file[d]
      /\ pos'[d] = pos[d] /\ ret'[d] = ret[d]
      /\ \A c \in Client \ {d} : Rests(c)
  BY <1>1, <1>2 DEF ClientTypes, Rests
<1>7. PICK m : m = NameRequest(d, left, len)
  OBVIOUS
<1>8. m.type = 0 /\ m.len = len /\ m.left = left
  BY <1>7 DEF NameRequest
<1>9. ASSUME ret[d] = 1
      PROVE  /\ len >= 1
             /\ \/ sent <= 12 /\ sent - len \in {0, 6} /\ (len = 6 \/ sent = f)
                \/ sent > 12 /\ len > 3 /\ (sent = 18 \/ sent = f)
             /\ (IF sent > 12 THEN 12 ELSE sent - len) = s
  <2>1. (s = 0 /\ a = 0) \/ (s \in {6, 12} /\ a = 6)
    BY <1>1, <1>2, <1>9 DEF Right, Packets
  <2>2. len = sent - a
    BY DEF len
  <2> HIDE DEF f, s, a
  <2>3. CASE s = 0 /\ a = 0
    BY <1>3, <1>4, <2>2, <2>3
  <2>4. CASE s = 6 /\ a = 6
    BY <1>3, <1>4, <2>2, <2>4
  <2>5. CASE s = 12 /\ a = 6
    BY <1>3, <1>4, <2>2, <2>5
  <2> QED BY <2>1, <2>3, <2>4, <2>5
<1>10. ret[d] = 1 => Before(d)' = s
  BY <1>6, <1>9 DEF Before
<1>11. Expected(m, d)'
  <2>1. left = (f - s) \div FILENAME_DATA_LEN
    BY DEF left
  <2> QED BY <1>4, <1>6, <1>8, <1>10, <2>1 DEF Expected, f
<1>12. /\ IInv' /\ FreeAreEmpty' /\ NamesWholeOrRefused' /\ RequestsExpected'
       /\ \A c \in Client \ {d} : Right(c)'
       /\ clientList' = clientList /\ dialogue'[d].state = "asked"
       /\ ~SaysOK(d)' /\ ~SaysNo(d)' /\ ~SaysFull(d)'
  BY <1>2, <1>5, <1>6, <1>7, <1>11, AskTransfer
<1>13. ClientTypes'
  <2>1. sent \in Nat /\ len \in Nat
    BY <1>3, <1>4
  <2> QED BY <1>1, <1>2, <2>1 DEF ClientTypes, Pc, Sent
<1>14. Loops(d)'
  BY <1>3, <1>4, <1>6 DEF Loops, f
<1>15. InDialogue(d)'
  BY <1>6, <1>12 DEF InDialogue, StateAt, Sent
<1>16. ASSUME ret'[d] = 1 PROVE Packets(d)' /\ Progress(d)'
  <2>1. Packets(d) /\ Progress(d)
    BY <1>1, <1>6, <1>16 DEF Right
  <2>4. Packets(d)'
    BY <1>6, <1>9, <1>16 DEF Packets, f
  <2>5. Before(d)' = s
    BY <1>6, <1>16, <1>10
  <2>6. Has(clientList, d, file[d].name, s, 0)
    BY <1>2, <2>1 DEF Progress
  <2>7. Progress(d)'
    BY <1>6, <1>12, <2>5, <2>6 DEF Progress, NameArrives
  <2> QED BY <2>4, <2>7
<1>17. GivesUp(d)'
  BY <1>1, <1>2, <1>6 DEF Right, GivesUp
<1>18. Right(d)'
  BY <1>12, <1>14, <1>15, <1>16, <1>17 DEF Right
<1> QED BY <1>12, <1>13, <1>18 DEF TransferInv

LEMMA PieceAsked ==
  ASSUME TransferInv, NEW d \in Client, SendFiledata(d), UNCHANGED <<serverVars, disk>>
  PROVE  TransferInv'
<1> DEFINE k == pos[d] + 1
<1>1. ClientTypes /\ Right(d)
  BY DEF TransferInv
<1>2. /\ pc[d] = "data" /\ Ask(d, DataRequest(d, k)) /\ pos' = [pos EXCEPT ![d] = k]
      /\ pc' = [pc EXCEPT ![d] = "data sent"] /\ UNCHANGED <<file, sentCount, arr3, ret>>
  <2>1. [pos EXCEPT ![d] = @ + 1] = [pos EXCEPT ![d] = k]
    OBVIOUS
  <2> QED BY <2>1 DEF SendFiledata
<1>3. file[d].pieces \in Nat /\ pos[d] \in Nat /\ pos[d] < file[d].pieces
  BY <1>1, <1>2, FileFacts, CounterTypes DEF Right, Loops
<1>4. k \in 1..file[d].pieces /\ k \in Nat /\ k - 1 = pos[d]
  BY <1>3
<1>5. DataRequest(d, k) \in RequestsOf(d)
  BY <1>1, <1>4, FileFacts DEF RequestsOf
<1> HIDE DEF k
<1>6. /\ sentCount'[d] = sentCount[d] /\ arr3'[d] = arr3[d] /\ pc'[d] = "data sent"
      /\ pos'[d] = k /\ ret'[d] = ret[d] /\ file'[d] = file[d]
      /\ \A c \in Client \ {d} : Rests(c)
  BY <1>1, <1>2 DEF ClientTypes, Rests
<1>7. PICK m : m = DataRequest(d, k)
  OBVIOUS
<1>8. Expected(m, d)'
  BY <1>6, <1>7 DEF Expected, DataRequest
<1>9. /\ IInv' /\ FreeAreEmpty' /\ NamesWholeOrRefused' /\ RequestsExpected'
      /\ \A c \in Client \ {d} : Right(c)'
      /\ clientList' = clientList /\ dialogue'[d].state = "asked"
      /\ ~SaysOK(d)' /\ ~SaysNo(d)' /\ ~SaysFull(d)'
  BY <1>2, <1>5, <1>6, <1>7, <1>8, AskTransfer
<1>10. ClientTypes'
  BY <1>1, <1>2, <1>4 DEF ClientTypes, Pc, Sent
<1>11. Loops(d)'
  BY <1>1, <1>4, <1>6 DEF Right, Loops
<1>12. InDialogue(d)'
  BY <1>6, <1>9 DEF InDialogue, StateAt, Sent
<1>13. ASSUME ret'[d] = 1 PROVE Packets(d)' /\ Progress(d)'
  <2>1. Has(clientList, d, file[d].name, file[d].name, pos[d])
    BY <1>1, <1>2, <1>6, <1>13 DEF Right, Progress
  <2>2. Packets(d)'
    BY <1>6 DEF Packets
  <2>3. Progress(d)'
    BY <1>4, <1>6, <1>9, <2>1 DEF Progress, PieceArrives
  <2> QED BY <2>2, <2>3
<1>14. GivesUp(d)'
  BY <1>6 DEF GivesUp
<1>15. Right(d)'
  BY <1>9, <1>11, <1>12, <1>13, <1>14 DEF Right
<1> QED BY <1>9, <1>10, <1>15 DEF TransferInv

LEMMA EofAsked ==
  ASSUME TransferInv, NEW d \in Client, SendEof(d), UNCHANGED <<serverVars, disk>>
  PROVE  TransferInv'
<1>1. ClientTypes /\ Right(d)
  BY DEF TransferInv
<1>2. /\ pc[d] = "eof" /\ Ask(d, EofRequest(d))
      /\ pc' = [pc EXCEPT ![d] = "eof sent"] /\ UNCHANGED <<file, sentCount, arr3, pos, ret>>
  BY DEF SendEof
<1>3. EofRequest(d) \in RequestsOf(d)
  BY DEF RequestsOf
<1>4. /\ sentCount'[d] = sentCount[d] /\ arr3'[d] = arr3[d] /\ pc'[d] = "eof sent"
      /\ pos'[d] = pos[d] /\ ret'[d] = ret[d] /\ file'[d] = file[d]
      /\ \A c \in Client \ {d} : Rests(c)
  BY <1>1, <1>2 DEF ClientTypes, Rests
<1>5. PICK m : m = EofRequest(d)
  OBVIOUS
<1>6. Expected(m, d)'
  BY <1>4, <1>5 DEF Expected, EofRequest
<1>7. /\ IInv' /\ FreeAreEmpty' /\ NamesWholeOrRefused' /\ RequestsExpected'
      /\ \A c \in Client \ {d} : Right(c)'
      /\ clientList' = clientList /\ dialogue'[d].state = "asked"
      /\ ~SaysOK(d)' /\ ~SaysNo(d)' /\ ~SaysFull(d)'
  BY <1>2, <1>3, <1>4, <1>5, <1>6, AskTransfer
<1>8. ClientTypes'
  BY <1>1, <1>2 DEF ClientTypes, Pc, Sent
<1>9. Loops(d)'
  BY <1>1, <1>2, <1>4 DEF Right, Loops
<1>10. InDialogue(d)'
  BY <1>4, <1>7 DEF InDialogue, StateAt, Sent
<1>11. ASSUME ret'[d] = 1 PROVE Packets(d)' /\ Progress(d)'
  <2>1. Has(clientList, d, file[d].name, file[d].name, pos[d])
    BY <1>1, <1>2, <1>4, <1>11 DEF Right, Progress
  <2>2. Packets(d)'
    BY <1>4 DEF Packets
  <2>3. Progress(d)'
    BY <1>4, <1>7, <2>1 DEF Progress
  <2> QED BY <2>2, <2>3
<1>12. GivesUp(d)'
  BY <1>4 DEF GivesUp
<1>13. Right(d)'
  BY <1>7, <1>9, <1>10, <1>11, <1>12 DEF Right
<1> QED BY <1>7, <1>8, <1>13 DEF TransferInv
-----------------------------------------------------------------------------
(***************************************************************************)
(* What a client hears, by where it is: nobody is told FULL who did not    *)
(* send a name, and only a client that sleeps is told that it may go on.   *)
(***************************************************************************)
LEMMA HearsWhat ==
  ASSUME NEW d \in Client, Right(d), NEW reply, Replies(d) # <<>>, reply = Head(Replies(d)),
         \/ dialogue[d].state = "asked" /\ reply \in {"OK", "NOT_OK"}
         \/ dialogue[d].state = "asked" /\ reply = "FULL"
         \/ dialogue[d].state = "full" /\ reply \in {"READY", "WAIT_Q_FULL"}
  PROVE  /\ reply = "OK" <=> SaysOK(d)
         /\ reply = "NOT_OK" <=> SaysNo(d)
         /\ reply = "FULL" <=> SaysFull(d)
         /\ pc[d] = "name sent" => reply \in {"OK", "NOT_OK", "FULL"}
         /\ pc[d] \in {"data sent", "eof sent"} => reply \in {"OK", "NOT_OK"}
         /\ pc[d] = "blocked" => reply \in {"READY", "WAIT_Q_FULL"}
<1>1. /\ (reply = "OK" <=> SaysOK(d)) /\ (reply = "NOT_OK" <=> SaysNo(d))
      /\ reply = "FULL" <=> SaysFull(d)
  BY DEF SaysOK, SaysNo, SaysFull
<1>2. SaysFull(d) => pc[d] = "name sent"
  BY DEF Right
<1>3. /\ pc[d] \in {"name sent", "data sent", "eof sent"} => dialogue[d].state = "asked"
      /\ pc[d] = "blocked" => dialogue[d].state = "full"
  BY DEF Right, InDialogue, StateAt, Sent
<1> QED BY <1>1, <1>2, <1>3

\* A name of which the third packet is not the last.
LEMMA ThirdNotLast ==
  ASSUME NEW s \in Nat, NEW f \in Nat, s <= f, s # f, s > 12, s <= 12 \/ s = 18 \/ s = f
  PROVE  f > MAX_FILENAME_LEN
BY DEF MAX_FILENAME_LEN

LEMMA NameHeard ==
  ASSUME TransferInv, NEW d \in Client, NEW reply, FilenameReply(d, reply),
         UNCHANGED <<serverVars, disk>>
  PROVE  TransferInv'
<1> DEFINE s == sentCount[d]
           f == file[d].name
<1>1. ClientTypes /\ Right(d)
  BY DEF TransferInv
<1>2. /\ pc[d] = "name sent" /\ Hear(d, reply)
      /\ ret' = [ret EXCEPT ![d] = IF reply \in {"OK", "FULL"} THEN @ ELSE -1]
      /\ UNCHANGED <<file, sentCount, arr3, pos>>
  BY DEF FilenameReply
<1>3. pc' = [pc EXCEPT ![d] = IF reply = "FULL" THEN "blocked"
                              ELSE IF s # f THEN "name"
                              ELSE IF ret'[d] # 1 THEN "done"
                              ELSE IF file[d].pieces = 0 THEN "eof" ELSE "data"]
  BY DEF FilenameReply, AfterName
<1>4. /\ f \in Nat \ {0} /\ file[d].pieces \in Nat /\ s \in Nat /\ arr3[d] \in Nat
      /\ pos[d] \in Nat
  BY <1>1, FileFacts, CounterTypes
<1>5. /\ pc'[d] = (IF reply = "FULL" THEN "blocked"
                   ELSE IF s # f THEN "name"
                   ELSE IF ret'[d] # 1 THEN "done"
                   ELSE IF file[d].pieces = 0 THEN "eof" ELSE "data")
      /\ ret'[d] = IF reply \in {"OK", "FULL"} THEN ret[d] ELSE -1
      /\ sentCount'[d] = s /\ arr3'[d] = arr3[d] /\ file'[d] = file[d] /\ pos'[d] = pos[d]
      /\ \A c \in Client \ {d} : Rests(c)
  BY <1>1, <1>2, <1>3 DEF ClientTypes, Rests
<1>6. ret'[d] = 1 => ret[d] = 1 /\ reply \in {"OK", "FULL"}
  <2>1. CASE reply \in {"OK", "FULL"}
    BY <1>5, <2>1
  <2>2. CASE reply \notin {"OK", "FULL"}
    <3>1. ret'[d] = -1
      BY <1>5, <2>2
    <3> QED BY <3>1
  <2> QED BY <2>1, <2>2
<1>7. /\ IInv' /\ FreeAreEmpty' /\ NamesWholeOrRefused' /\ RequestsExpected'
      /\ \A c \in Client \ {d} : Right(c)'
      /\ clientList' = clientList /\ Replies(d) # <<>> /\ reply = Head(Replies(d))
      /\ Requests(d)' = 0 /\ ~SaysOK(d)' /\ ~SaysNo(d)' /\ ~SaysFull(d)'
      /\ \/ /\ dialogue[d].state = "asked" /\ reply \in {"OK", "NOT_OK"}
            /\ dialogue'[d].state = "idle"
         \/ /\ dialogue[d].state = "asked" /\ reply = "FULL"
            /\ dialogue'[d].state = "full"
         \/ /\ dialogue[d].state = "full" /\ reply \in {"READY", "WAIT_Q_FULL"}
            /\ dialogue'[d].state = "idle"
  BY <1>2, <1>5, HearTransfer
<1>8. /\ reply = "OK" <=> SaysOK(d)
      /\ reply = "NOT_OK" <=> SaysNo(d)
      /\ reply = "FULL" <=> SaysFull(d)
      /\ reply \in {"OK", "NOT_OK", "FULL"}
  BY <1>1, <1>2, <1>7, HearsWhat
<1>9. ClientTypes'
  <2>1. ret' \in [Client -> {1, -1}]
    BY <1>1, <1>2 DEF ClientTypes
  <2>2. pc' \in [Client -> Pc]
    BY <1>1, <1>3 DEF ClientTypes, Pc
  <2> QED BY <1>1, <1>2, <2>1, <2>2 DEF ClientTypes
<1>10. arr3[d] <= s /\ s <= f /\ pos[d] = 0
  BY <1>1, <1>2 DEF Right, Loops
<1>11. Loops(d)'
  BY <1>4, <1>5, <1>10 DEF Loops
<1>12. InDialogue(d)'
  <2>1. CASE reply = "FULL"
    BY <1>5, <1>7, <2>1 DEF InDialogue, StateAt, Sent
  <2>2. CASE reply # "FULL"
    <3>1. pc'[d] \in {"name", "done", "eof", "data"} /\ dialogue'[d].state = "idle"
      BY <1>5, <1>7, <1>8, <2>2
    <3> QED BY <3>1 DEF InDialogue, StateAt, Sent
  <2> QED BY <2>1, <2>2
<1>13. ASSUME ret'[d] = 1 PROVE Packets(d)' /\ Progress(d)'
  <2>1. ret[d] = 1 /\ reply \in {"OK", "FULL"} /\ Packets(d) /\ NameArrives(d)
    BY <1>1, <1>2, <1>6, <1>13 DEF Right, Progress
  <2>2. CASE reply = "FULL"
    <3>1. Has(clientList, d, file[d].name, 0, 0) /\ pc'[d] = "blocked"
      BY <1>5, <1>8, <2>1, <2>2 DEF NameArrives
    <3> QED BY <1>5, <1>7, <3>1 DEF Packets, Progress
  <2>3. CASE reply = "OK"
    <3>1. s <= 12 /\ Has(clientList, d, file[d].name, s, 0)
      BY <1>8, <2>1, <2>3 DEF NameArrives
    <3>2. s # f => s \in {6, 12} /\ arr3[d] = 6
      <4>1. s - arr3[d] \in {0, 6} /\ (arr3[d] = 6 \/ s = f)
        <5>1. \/ s - arr3[d] \in {0, 6} /\ (arr3[d] = 6 \/ s = f)
              \/ s > 12
          BY <1>2, <2>1 DEF Packets
        <5>2. ~(s > 12)
          BY <1>4, <3>1
        <5> QED BY <5>1, <5>2
      <4> HIDE DEF s, f
      <4>2. CASE s - arr3[d] = 0 /\ arr3[d] = 6
        BY <1>4, <4>2
      <4>3. CASE s - arr3[d] = 6 /\ arr3[d] = 6
        BY <1>4, <4>3
      <4> QED BY <4>1, <4>2, <4>3
    <3>3. CASE s # f
      <4>1. pc'[d] = "name"
        BY <1>5, <2>3, <3>3
      <4> QED BY <1>5, <1>7, <3>1, <3>2, <3>3, <4>1 DEF Packets, Progress
    <3>4. CASE s = f
      <4>1. pc'[d] \in {"eof", "data"}
        BY <1>5, <1>13, <2>3, <3>4
      <4>2. Has(clientList, d, file[d].name, file[d].name, pos[d])
        BY <1>10, <3>1, <3>4
      <4> QED BY <1>5, <1>7, <4>1, <4>2 DEF Packets, Progress
    <3> QED BY <3>3, <3>4
  <2> QED BY <2>1, <2>2, <2>3
<1>14. GivesUp(d)'
  <2> SUFFICES ASSUME ret'[d] = -1, pc'[d] \in {"name", "name sent", "blocked"}
               PROVE  f > MAX_FILENAME_LEN
    BY <1>5 DEF GivesUp
  <2>1. CASE ret[d] = -1
    BY <1>1, <1>2, <2>1 DEF Right, GivesUp
  <2>2. CASE ret[d] = 1
    <3>1. reply = "NOT_OK" /\ s # f
      BY <1>5, <1>8, <2>2
    <3>2. s > 12
      BY <1>1, <1>2, <1>8, <2>2, <3>1 DEF Right, Progress, NameArrives
    <3>3. s <= 12 \/ s = 18 \/ s = f
      BY <1>1, <1>2, <2>2 DEF Right, Packets
    <3>4. s \in Nat /\ f \in Nat /\ s <= f /\ s # f
      BY <1>4, <1>10, <3>1
    <3> HIDE DEF s, f
    <3> QED BY <3>2, <3>3, <3>4, ThirdNotLast, Zenon
  <2> QED BY <1>1, <2>1, <2>2, CounterTypes
<1>15. Right(d)'
  BY <1>7, <1>11, <1>12, <1>13, <1>14 DEF Right
<1> QED BY <1>7, <1>9, <1>15 DEF TransferInv

LEMMA Awoken ==
  ASSUME TransferInv, NEW d \in Client, NEW reply, Revival(d, reply),
         UNCHANGED <<serverVars, disk>>
  PROVE  TransferInv'
<1>1. ClientTypes /\ Right(d)
  BY DEF TransferInv
<1>2. /\ pc[d] = "blocked" /\ Hear(d, reply) /\ UNCHANGED <<file, pos, ret>>
  BY DEF Revival
<1>3. /\ file[d].name \in Nat \ {0} /\ sentCount[d] \in Nat /\ arr3[d] \in Nat
  BY <1>1, FileFacts, CounterTypes
<1>4. \A c \in Client \ {d} : Rests(c)
  BY <1>1 DEF ClientTypes, Rests, Revival
<1>5. /\ IInv' /\ FreeAreEmpty' /\ NamesWholeOrRefused' /\ RequestsExpected'
      /\ \A c \in Client \ {d} : Right(c)'
      /\ clientList' = clientList /\ Replies(d) # <<>> /\ reply = Head(Replies(d))
      /\ Requests(d)' = 0 /\ ~SaysOK(d)' /\ ~SaysNo(d)' /\ ~SaysFull(d)'
      /\ \/ /\ dialogue[d].state = "asked" /\ reply \in {"OK", "NOT_OK"}
            /\ dialogue'[d].state = "idle"
         \/ /\ dialogue[d].state = "asked" /\ reply = "FULL"
            /\ dialogue'[d].state = "full"
         \/ /\ dialogue[d].state = "full" /\ reply \in {"READY", "WAIT_Q_FULL"}
            /\ dialogue'[d].state = "idle"
  BY <1>2, <1>4, HearTransfer
<1>6. reply \in {"READY", "WAIT_Q_FULL"}
  BY <1>1, <1>2, <1>5, HearsWhat
<1>7. /\ sentCount' = [sentCount EXCEPT ![d] = 0] /\ arr3' = [arr3 EXCEPT ![d] = 0]
      /\ pc' = [pc EXCEPT ![d] = "name"]
  BY <1>6 DEF Revival
<1>8. /\ sentCount'[d] = 0 /\ arr3'[d] = 0 /\ pc'[d] = "name" /\ file'[d] = file[d]
      /\ pos'[d] = pos[d] /\ ret'[d] = ret[d]
  BY <1>1, <1>2, <1>7 DEF ClientTypes
<1>9. ClientTypes'
  BY <1>1, <1>2, <1>7 DEF ClientTypes, Pc
<1>10. Loops(d)'
  BY <1>1, <1>2, <1>3, <1>8 DEF Right, Loops
<1>11. InDialogue(d)'
  <2>1. dialogue'[d].state = "idle"
    BY <1>5, <1>6
  <2> QED BY <1>8, <2>1 DEF InDialogue, StateAt, Sent
<1>12. ASSUME ret'[d] = 1 PROVE Packets(d)' /\ Progress(d)'
  <2>1. Has(clientList, d, file[d].name, 0, 0)
    BY <1>1, <1>2, <1>8, <1>12 DEF Right, Progress
  <2> QED BY <1>5, <1>8, <2>1 DEF Packets, Progress
<1>13. GivesUp(d)'
  BY <1>1, <1>2, <1>8 DEF Right, GivesUp
<1>14. Right(d)'
  BY <1>5, <1>10, <1>11, <1>12, <1>13 DEF Right
<1> QED BY <1>5, <1>9, <1>14 DEF TransferInv

LEMMA PieceHeard ==
  ASSUME TransferInv, NEW d \in Client, NEW reply, FiledataReply(d, reply),
         UNCHANGED <<serverVars, disk>>
  PROVE  TransferInv'
<1>1. ClientTypes /\ Right(d)
  BY DEF TransferInv
<1>2. /\ pc[d] = "data sent" /\ Hear(d, reply)
      /\ ret' = [ret EXCEPT ![d] = IF reply = "OK" THEN @ ELSE -1]
      /\ UNCHANGED <<file, sentCount, arr3, pos>>
  BY DEF FiledataReply
<1>3. pc' = [pc EXCEPT ![d] = IF pos[d] # file[d].pieces THEN "data"
                              ELSE IF ret'[d] # 1 THEN "done" ELSE "eof"]
  BY DEF FiledataReply, AfterData
<1>4. file[d].pieces \in Nat /\ pos[d] \in 1..file[d].pieces
  BY <1>1, <1>2, FileFacts DEF Right, Loops
<1>5. /\ pc'[d] = (IF pos[d] # file[d].pieces THEN "data"
                   ELSE IF ret'[d] # 1 THEN "done" ELSE "eof")
      /\ ret'[d] = IF reply = "OK" THEN ret[d] ELSE -1
      /\ sentCount'[d] = sentCount[d] /\ arr3'[d] = arr3[d] /\ file'[d] = file[d]
      /\ pos'[d] = pos[d] /\ \A c \in Client \ {d} : Rests(c)
  BY <1>1, <1>2, <1>3 DEF ClientTypes, Rests
<1>6. ret'[d] = 1 => ret[d] = 1 /\ reply = "OK"
  <2>1. CASE reply = "OK"
    BY <1>5, <2>1
  <2>2. CASE reply # "OK"
    <3>1. ret'[d] = -1
      BY <1>5, <2>2
    <3> QED BY <3>1
  <2> QED BY <2>1, <2>2
<1>7. /\ IInv' /\ FreeAreEmpty' /\ NamesWholeOrRefused' /\ RequestsExpected'
      /\ \A c \in Client \ {d} : Right(c)'
      /\ clientList' = clientList /\ Replies(d) # <<>> /\ reply = Head(Replies(d))
      /\ Requests(d)' = 0 /\ ~SaysOK(d)' /\ ~SaysNo(d)' /\ ~SaysFull(d)'
      /\ \/ /\ dialogue[d].state = "asked" /\ reply \in {"OK", "NOT_OK"}
            /\ dialogue'[d].state = "idle"
         \/ /\ dialogue[d].state = "asked" /\ reply = "FULL"
            /\ dialogue'[d].state = "full"
         \/ /\ dialogue[d].state = "full" /\ reply \in {"READY", "WAIT_Q_FULL"}
            /\ dialogue'[d].state = "idle"
  BY <1>2, <1>5, HearTransfer
<1>8. /\ reply = "OK" <=> SaysOK(d)
      /\ reply \in {"OK", "NOT_OK"}
  BY <1>1, <1>2, <1>7, HearsWhat
<1>9. ClientTypes'
  <2>1. ret' \in [Client -> {1, -1}]
    BY <1>1, <1>2 DEF ClientTypes
  <2>2. pc' \in [Client -> Pc]
    BY <1>1, <1>3 DEF ClientTypes, Pc
  <2> QED BY <1>1, <1>2, <2>1, <2>2 DEF ClientTypes
<1>10. Loops(d)'
  <2>1. arr3[d] <= sentCount[d] /\ sentCount[d] <= file[d].name
    BY <1>1 DEF Right, Loops
  <2>2. /\ pc'[d] \in {"data", "done", "eof"}
        /\ pc'[d] = "data" => pos[d] # file[d].pieces
        /\ pc'[d] = "eof" => pos[d] = file[d].pieces
    BY <1>5
  <2>3. pos[d] # file[d].pieces => pos[d] < file[d].pieces
    BY <1>4
  <2> QED BY <1>5, <2>1, <2>2, <2>3 DEF Loops
<1>11. InDialogue(d)'
  <2>1. pc'[d] \in {"done", "eof", "data"} /\ dialogue'[d].state = "idle"
    BY <1>5, <1>7, <1>8
  <2> QED BY <2>1 DEF InDialogue, StateAt, Sent
<1>12. ASSUME ret'[d] = 1 PROVE Packets(d)' /\ Progress(d)'
  <2>1. Has(clientList, d, file[d].name, file[d].name, pos[d])
    BY <1>1, <1>2, <1>6, <1>8, <1>12 DEF Right, Progress, PieceArrives
  <2>2. pc'[d] \in {"data", "eof"}
    BY <1>5, <1>12
  <2> QED BY <1>5, <1>7, <2>1, <2>2 DEF Packets, Progress
<1>13. GivesUp(d)'
  <2>1. pc'[d] \in {"data", "done", "eof"}
    BY <1>5
  <2> QED BY <2>1 DEF GivesUp
<1>14. Right(d)'
  BY <1>7, <1>10, <1>11, <1>12, <1>13 DEF Right
<1> QED BY <1>7, <1>9, <1>14 DEF TransferInv

LEMMA EofHeard ==
  ASSUME TransferInv, NEW d \in Client, NEW reply, EofReply(d, reply),
         UNCHANGED <<serverVars, disk>>
  PROVE  TransferInv'
<1>1. ClientTypes /\ Right(d)
  BY DEF TransferInv
<1>2. /\ pc[d] = "eof sent" /\ Hear(d, reply)
      /\ ret' = [ret EXCEPT ![d] = IF reply = "OK" THEN @ ELSE -1]
      /\ pc' = [pc EXCEPT ![d] = "done"]
      /\ UNCHANGED <<file, sentCount, arr3, pos>>
  BY DEF EofReply
<1>3. /\ pc'[d] = "done" /\ ret'[d] = IF reply = "OK" THEN ret[d] ELSE -1
      /\ sentCount'[d] = sentCount[d] /\ arr3'[d] = arr3[d] /\ file'[d] = file[d]
      /\ pos'[d] = pos[d] /\ \A c \in Client \ {d} : Rests(c)
  BY <1>1, <1>2 DEF ClientTypes, Rests
<1>4. ret'[d] = 1 => ret[d] = 1 /\ reply = "OK"
  <2>1. CASE reply = "OK"
    BY <1>3, <2>1
  <2>2. CASE reply # "OK"
    <3>1. ret'[d] = -1
      BY <1>3, <2>2
    <3> QED BY <3>1
  <2> QED BY <2>1, <2>2
<1>5. /\ IInv' /\ FreeAreEmpty' /\ NamesWholeOrRefused' /\ RequestsExpected'
      /\ \A c \in Client \ {d} : Right(c)'
      /\ clientList' = clientList /\ Replies(d) # <<>> /\ reply = Head(Replies(d))
      /\ Requests(d)' = 0 /\ ~SaysOK(d)' /\ ~SaysNo(d)' /\ ~SaysFull(d)'
      /\ \/ /\ dialogue[d].state = "asked" /\ reply \in {"OK", "NOT_OK"}
            /\ dialogue'[d].state = "idle"
         \/ /\ dialogue[d].state = "asked" /\ reply = "FULL"
            /\ dialogue'[d].state = "full"
         \/ /\ dialogue[d].state = "full" /\ reply \in {"READY", "WAIT_Q_FULL"}
            /\ dialogue'[d].state = "idle"
  BY <1>2, <1>3, HearTransfer
<1>6. /\ reply = "OK" <=> SaysOK(d)
      /\ reply \in {"OK", "NOT_OK"}
  BY <1>1, <1>2, <1>5, HearsWhat
<1>7. ClientTypes'
  BY <1>1, <1>2 DEF ClientTypes, Pc
<1>8. Loops(d)'
  BY <1>1, <1>2, <1>3 DEF Right, Loops
<1>9. InDialogue(d)'
  <2>1. dialogue'[d].state = "idle"
    BY <1>5, <1>6
  <2> QED BY <1>3, <2>1 DEF InDialogue, StateAt, Sent
<1>10. ASSUME ret'[d] = 1 PROVE Packets(d)' /\ Progress(d)'
  <2>1. Whole(d)
    BY <1>1, <1>2, <1>4, <1>6, <1>10 DEF Right, Progress
  <2>2. Whole(d)'
    BY <1>3, <2>1 DEF Whole
  <2> QED BY <1>3, <2>2 DEF Packets, Progress
<1>11. GivesUp(d)'
  BY <1>3 DEF GivesUp
<1>12. Right(d)'
  BY <1>5, <1>8, <1>9, <1>10, <1>11 DEF Right
<1> QED BY <1>5, <1>7, <1>12 DEF TransferInv
-----------------------------------------------------------------------------
(***************************************************************************)
(* The server's second Send changes nothing for a client that waits for    *)
(* the reply: it goes to one that sleeps, or that has yet to hear FULL.    *)
(***************************************************************************)
LEMMA NotifiedSays ==
  ASSUME TypeOK, OneAnswerEach, NEW d \in Client, TimesQueued(d) # 0,
         NEW r, r = "READY" \/ r = "WAIT_Q_FULL", NEW c \in Client, Notified(d, r, c)
  PROVE  /\ Requests(c)' = Requests(c)
         /\ SaysOK(c)' <=> SaysOK(c)
         /\ SaysNo(c)' <=> SaysNo(c)
         /\ SaysFull(c)' <=> SaysFull(c)
<1>1. /\ Requests(c)' = Requests(c)
      /\ Replies(c)' = IF c = d THEN Append(Replies(c), r) ELSE Replies(c)
  BY DEF Notified
<1>2. CASE c # d
  BY <1>1, <1>2 DEF SaysOK, SaysNo, SaysFull
<1>3. CASE c = d
  <2>1. /\ Consistent(dialogue[d].state, Requests(d), Replies(d), TimesQueued(d))
        /\ Replies(d) \in Seq(Reply) /\ TimesQueued(d) \in Nat
    BY ConsistentNow, QueuedNow
  <2>2. Replies(d) = <<>> \/ Replies(d) # <<>>
    OBVIOUS
  <2>3. CASE Replies(d) = <<>>
    <3>1. Append(<<>>, r) # <<>> /\ Head(Append(<<>>, r)) = r
      BY AppendToEmpty
    <3> QED BY <1>1, <1>3, <2>3, <3>1 DEF SaysOK, SaysNo, SaysFull
  <2>4. CASE Replies(d) # <<>>
    <3>1. r \in Reply
      BY DEF Reply
    <3>2. /\ Append(Replies(d), r) # <<>>
          /\ Head(Append(Replies(d), r)) = Head(Replies(d))
      BY <2>1, <2>4, <3>1, AppendProperties, LenProperties, EmptySeq
    <3> QED BY <1>1, <1>3, <2>4, <3>2 DEF SaysOK, SaysNo, SaysFull
  <2> QED BY <2>3, <2>4
<1> QED BY <1>2, <1>3

LEMMA SendsTransfer ==
  ASSUME TransferInv, SendReply \/ SendNotice, UNCHANGED <<clientVars, disk>>
  PROVE  TransferInv'
<1>1. /\ TypeOK /\ OneAnswerEach /\ ClientsWait
      /\ UNCHANGED clientVars /\ disk' = disk
  BY DEF TransferInv, IInv
<1>2. IInv'
  BY SendReplyPreserves, SendNoticePreserves DEF TransferInv
<1>3. TypeOK'
  BY <1>2 DEF IInv
<1>4. /\ server.to \in Client /\ server.reply \in Reply
      /\ chan' = [chan EXCEPT ![server.to] = Append(@, server.reply)]
      /\ UNCHANGED <<clientList, dialogue>>
  BY <1>1, SendReplyFacts, SendNoticeFacts
<1>5. chan'[SERVER_PORT] = chan[SERVER_PORT]
  BY <1>1, <1>4, ReplySent
<1>6. ASSUME NEW c \in Client
      PROVE  /\ Requests(c)' = Requests(c)
             /\ SaysOK(c)' <=> SaysOK(c)
             /\ SaysNo(c)' <=> SaysNo(c)
             /\ SaysFull(c)' <=> SaysFull(c)
  <2>1. CASE Same(c)
    BY <2>1 DEF Same, SaysOK, SaysNo, SaysFull
  <2>2. CASE SendNotice
    BY <1>1, <1>3, <2>1, <2>2, SendNoticeView
  <2>3. CASE SendReply
    <3>1. CASE Returns \/ Pushes
      BY <1>1, <1>3, <2>1, <2>3, <3>1, SendReplyView
    <3>2. CASE Pops
      <4>1. PICK r : r = "READY"
        OBVIOUS
      <4>2. Waiting # <<>>
        BY <3>2 DEF Pops
      <4>3. PICK d \in Client : d = Head(Waiting)
        BY <1>1, <4>2, HeadWaiting
      <4>4. Notified(d, r, c)
        BY <1>1, <1>3, <2>3, <3>2, <4>1, <4>3, SendReplyView
      <4>5. TimesQueued(d) # 0
        BY <1>1, <4>2, <4>3, QueuedHead
      <4> QED BY <1>1, <4>1, <4>4, <4>5, NotifiedSays
    <3>3. CASE Refuses
      <4>1. PICK r : r = "WAIT_Q_FULL"
        OBVIOUS
      <4>2. server.at = "reply" /\ server.then = "queue"
        BY <1>1, <2>3, <3>3, SendReplyFacts DEF Refuses
      <4>3. PICK d \in Client : d = server.to
        BY <1>4
      <4>4. Notified(d, r, c)
        BY <1>1, <1>3, <2>3, <3>3, <4>1, <4>3, SendReplyView
      <4>5. TimesQueued(d) # 0
        BY <1>1, <4>2, <4>3, QueuedHead
      <4> QED BY <1>1, <4>1, <4>4, <4>5, NotifiedSays
    <3> QED BY <1>1, <2>3, <3>1, <3>2, <3>3, SendReplyFacts
  <2> QED BY <2>2, <2>3
<1>7. \A c \in Client : Rests(c) /\ file'[c] = file[c] /\ ret'[c] = ret[c]
  BY <1>1 DEF clientVars, Rests
<1>8. \A c \in Client : Right(c)'
  <2> SUFFICES ASSUME NEW c \in Client PROVE Right(c)'
    OBVIOUS
  <2>1. Apart(c)
    BY <1>1, <1>4, <1>6, <1>7 DEF Apart
  <2> QED BY <2>1, ApartRight DEF TransferInv
<1>9. RequestsExpected'
  BY <1>1, <1>5, ReadExpected DEF TransferInv
<1>10. FreeAreEmpty' /\ NamesWholeOrRefused'
  BY <1>1, <1>4, <1>7, NamesStay DEF TransferInv
<1>11. ClientTypes'
  BY <1>1 DEF TransferInv, ClientTypes, clientVars
<1> QED BY <1>2, <1>8, <1>9, <1>10, <1>11 DEF TransferInv
-----------------------------------------------------------------------------
(***************************************************************************)
(* What serving a request does to its client's entry, with the reply.      *)
(***************************************************************************)
Becomes(c, slot) == /\ ~NoSlot(c)
                    /\ clientList' = [clientList EXCEPT ![find_client(c)] = slot]

Named(m) == [Found(m.rp) EXCEPT !.filenamePacketsLeft = m.left,
                                !.filenameLen = @ + m.len,
                                !.filenameComplete = (m.left = 0)]

Written(m) == [Found(m.rp) EXCEPT !.fp = Append(@, m.piece)]

Refused(m, r) == /\ r = "NOT_OK"
                 /\ \/ clientList' = clientList
                    \/ Becomes(m.rp, EmptySlot)
                    \/ Becomes(m.rp, Found(m.rp))
                 /\ m.type = 0 => ~NoSlot(m.rp) /\ BadName(Found(m.rp), m)
Queued(m, r) == r = "FULL" /\ m.type = 0 /\ NoSlot(m.rp) /\ clientList' = clientList
NameTaken(m, r) == /\ r = "OK" /\ m.type = 0
                   /\ ~BadName(Found(m.rp), m) /\ Becomes(m.rp, Named(m))
PieceTaken(m, r) == r = "OK" /\ m.type = 1 /\ Uploading(m) /\ Becomes(m.rp, Written(m))
FileTaken(m, r) == r = "OK" /\ m.type = 2 /\ Uploading(m) /\ Becomes(m.rp, EmptySlot)

Outcome(m, r) == \/ Refused(m, r) \/ Queued(m, r)
                 \/ NameTaken(m, r) \/ PieceTaken(m, r) \/ FileTaken(m, r)

LEMMA Outcomes ==
  ASSUME NEW m, NEW r, server'.reply = r, Filename(m) \/ Filedata(m) \/ EndOfFile(m) \/ Invalid(m)
  PROVE  Outcome(m, r)
<1>1. ASSUME NEW reply, NEW then, TurnAway(m, reply, then)
      PROVE  r = reply /\ clientList' = clientList /\ NoSlot(m.rp)
  BY <1>1 DEF TurnAway, AtReply
<1>2. ASSUME ~NoSlot(m.rp), NEW slot, NEW reply, NEW then, Settle(m, slot, reply, then)
      PROVE  r = reply /\ Becomes(m.rp, slot)
  BY <1>2 DEF Settle, AtReply, Becomes
<1>3. ASSUME ~NoSlot(m.rp), TurnDown(m), m.type = 0 => BadName(Found(m.rp), m)
      PROVE  Refused(m, r)
  BY <1>2, <1>3 DEF TurnDown, Refused
<1>4. CASE Filename(m)
  BY <1>1, <1>2, <1>3, <1>4 DEF Filename, Outcome, Queued, NameTaken, Named
<1>5. CASE Filedata(m)
  BY <1>1, <1>2, <1>3, <1>5
     DEF Filedata, Outcome, Refused, PieceTaken, Written, NotUploading, Uploading
<1>6. CASE EndOfFile(m)
  BY <1>1, <1>2, <1>3, <1>6 DEF EndOfFile, Outcome, Refused, FileTaken, NotUploading, Uploading
<1>7. CASE Invalid(m)
  BY <1>1, <1>2, <1>7 DEF Invalid, Outcome, Refused
<1> QED BY <1>4, <1>5, <1>6, <1>7

\* What find_client() finds for a client that has n characters and k pieces.
LEMMA FoundHas ==
  ASSUME TypeOK, OneSlotEach, FreeAreEmpty, NEW c \in Client, ~NoSlot(c), NEW g, NEW n, NEW k,
         Has(clientList, c, g, n, k)
  PROVE  /\ Found(c).filenameLen = n
         /\ n = 0 => Found(c).filenamePacketsLeft = -1
         /\ n = 6 => Found(c).filenamePacketsLeft = g \div FILENAME_DATA_LEN
         /\ n # 0 \/ k = 0 => Found(c).fp = [j \in 1..k |-> j]
<1> DEFINE f == find_client(c)
<1>1. /\ f \in Slot
      /\ \/ Owns(f, c)
         \/ Owns(f, SERVER_PORT) /\ \A i \in Slot : ~Owns(i, c)
  BY FindClient
<1>2. clientList[f] \in Entry
  BY <1>1 DEF TypeOK
<1>3. /\ Found(c).filenameLen = clientList[f].filenameLen /\ Found(c).fp = clientList[f].fp
      /\ Found(c).filenamePacketsLeft = clientList[f].filenamePacketsLeft
  BY <1>2 DEF Found, Entry
<1> HIDE DEF f
<1>4. CASE n = 0
  <2>1. clientList[f] = EmptySlot
    BY <1>1, <1>4 DEF Has, Owns, FreeAreEmpty
  <2>2. /\ EmptySlot.filenameLen = 0 /\ EmptySlot.fp = <<>>
        /\ EmptySlot.filenamePacketsLeft = -1
    BY DEF EmptySlot
  <2>3. k = 0 => [j \in 1..k |-> j] = <<>>
    OBVIOUS
  <2> QED BY <1>3, <1>4, <2>1, <2>2, <2>3
<1>5. CASE n # 0
  <2>1. PICK i \in Slot : /\ clientList[i].clientId = c /\ clientList[i].filenameLen = n
                          /\ n = 6 => clientList[i].filenamePacketsLeft
                                        = g \div FILENAME_DATA_LEN
                          /\ clientList[i].fp = [j \in 1..k |-> j]
    BY <1>5 DEF Has
  <2>2. Owns(f, c)
    BY <1>1, <2>1 DEF Owns
  <2>3. i = f
    BY <1>1, <2>1, <2>2, SlotsNow DEF Owner, Owns
  <2> QED BY <1>3, <1>5, <2>1, <2>3
<1> QED BY <1>4, <1>5

\* Pieces and ends of files are no name packets.
LEMMA TypedRequests ==
  ASSUME NEW m, NEW c, m.type = 0
  PROVE  /\ \A k : m # DataRequest(c, k)
         /\ m # EofRequest(c)
BY DEF DataRequest, EofRequest

\* What the server has when it reads a name packet of a client without an error.
LEMMA NameFound ==
  ASSUME TransferInv, NEW m \in Request, NEW d \in Client, d = m.rp, Expected(m, d),
         Requests(d) # 0, ret[d] = 1, m.type = 0, ~NoSlot(d)
  PROVE  /\ pc[d] = "name sent" /\ Packets(d)
         /\ m.len = arr3[d] /\ m.left = (file[d].name - Before(d)) \div FILENAME_DATA_LEN
         /\ m.left = 0 => sentCount[d] = file[d].name
         /\ Found(d).filenameLen = Before(d) /\ Found(d).fp = [j \in 1..0 |-> j]
         /\ Before(d) = 0 => Found(d).filenamePacketsLeft = -1
         /\ Before(d) = 6 => Found(d).filenamePacketsLeft
                               = file[d].name \div FILENAME_DATA_LEN
<1>1. /\ TypeOK /\ OneSlotEach /\ FreeAreEmpty /\ ClientTypes /\ Right(d)
  BY DEF TransferInv, IInv
<1>2. /\ pc[d] = "name sent" /\ m.len = arr3[d] /\ (m.left = 0 => sentCount[d] = file[d].name)
      /\ m.left = (file[d].name - Before(d)) \div FILENAME_DATA_LEN
  BY TypedRequests DEF Expected
<1>3. Packets(d) /\ Has(clientList, d, file[d].name, Before(d), 0)
  BY <1>1, <1>2 DEF Right, Progress, NameArrives
<1>4. PICK n, k, g : n = Before(d) /\ k = 0 /\ g = file[d].name
  OBVIOUS
<1>5. Has(clientList, d, g, n, k)
  BY <1>3, <1>4
<1>6. /\ Found(d).filenameLen = n
      /\ n = 0 => Found(d).filenamePacketsLeft = -1
      /\ n = 6 => Found(d).filenamePacketsLeft = g \div FILENAME_DATA_LEN
      /\ n # 0 \/ k = 0 => Found(d).fp = [j \in 1..k |-> j]
  BY <1>1, <1>5, FoundHas
<1> QED BY <1>2, <1>3, <1>4, <1>6

\* A name that the server takes, of a client without an error, adds up.
LEMMA NameAddsUp ==
  ASSUME TransferInv, NEW m \in Request, NEW d \in Client, d = m.rp, Expected(m, d),
         Requests(d) # 0, ret[d] = 1, m.type = 0, ~NoSlot(d), ~BadName(Found(d), m)
  PROVE  /\ pc[d] = "name sent" /\ sentCount[d] \in 1..12
         /\ Found(d).filenameLen + m.len = sentCount[d]
         /\ m.left = 0 => sentCount[d] = file[d].name
         /\ sentCount[d] = 6 => m.left = file[d].name \div FILENAME_DATA_LEN
         /\ Found(d).fp = [j \in 1..0 |-> j]
<1>1. ClientTypes /\ Right(d)
  BY DEF TransferInv
<1>2. /\ pc[d] = "name sent" /\ Packets(d)
      /\ m.len = arr3[d] /\ m.left = (file[d].name - Before(d)) \div FILENAME_DATA_LEN
      /\ m.left = 0 => sentCount[d] = file[d].name
      /\ Found(d).filenameLen = Before(d) /\ Found(d).fp = [j \in 1..0 |-> j]
  BY NameFound
<1>3. /\ sentCount[d] \in Nat /\ arr3[d] \in Nat /\ arr3[d] <= sentCount[d]
      /\ sentCount[d] <= file[d].name /\ file[d].name \in Nat
  BY <1>1, CounterTypes, FileFacts DEF Right, Loops
<1>4. ~(arr3[d] + Before(d) > 15)
  BY <1>2 DEF BadName, TooLong, MAX_FILENAME_LEN
<1>5. /\ arr3[d] >= 1
      /\ \/ sentCount[d] <= 12 /\ (arr3[d] = 6 \/ sentCount[d] = file[d].name)
            /\ sentCount[d] - arr3[d] \in {0, 6}
         \/ sentCount[d] > 12 /\ arr3[d] > 3
  BY <1>2 DEF Packets
<1>6. sentCount[d] <= 12
  <2>1. CASE sentCount[d] > 12
    <3>1. Before(d) = 12
      BY <2>1 DEF Before
    <3>2. FALSE
      BY <1>3, <1>4, <1>5, <2>1, <3>1
    <3> QED BY <3>2
  <2> QED BY <1>3, <2>1
<1>7. Before(d) = sentCount[d] - arr3[d]
  BY <1>3, <1>6 DEF Before
<1>8. sentCount[d] \in 1..12 /\ Before(d) + arr3[d] = sentCount[d]
  BY <1>3, <1>5, <1>6, <1>7
<1>9. sentCount[d] = 6 => m.left = file[d].name \div FILENAME_DATA_LEN
  <2>1. sentCount[d] = 6 => Before(d) = 0
    BY <1>3, <1>5, <1>6, <1>7
  <2>2. file[d].name - 0 = file[d].name
    BY <1>3
  <2> QED BY <1>2, <2>1, <2>2
<1> QED BY <1>2, <1>8, <1>9

\* A complete name in the entry that find_client() finds for a client.
LEMMA FoundWhole ==
  ASSUME TypeOK, FreeAreEmpty, NamesWholeOrRefused, NEW d \in Client, ~NoSlot(d)
  PROVE  Found(d).filenameComplete
           => Found(d).filenameLen = file[d].name \/ RefusedForLength(d)
<1> DEFINE f == find_client(d)
<1>1. f \in Slot /\ (Owns(f, d) \/ Owns(f, SERVER_PORT))
  BY FindClient
<1>2. clientList[f] \in Entry
  BY <1>1 DEF TypeOK
<1>3. /\ Found(d).filenameLen = clientList[f].filenameLen
      /\ Found(d).filenameComplete = clientList[f].filenameComplete
  BY <1>2 DEF Found, Entry
<1> HIDE DEF f
<1>4. Found(d).filenameComplete => Owns(f, d)
  <2>1. ASSUME Owns(f, SERVER_PORT) PROVE ~clientList[f].filenameComplete
    <3>1. clientList[f] = EmptySlot
      BY <1>1, <2>1 DEF FreeAreEmpty, Owns
    <3> QED BY <3>1 DEF EmptySlot
  <2> QED BY <1>1, <1>3, <2>1
<1> QED BY <1>1, <1>3, <1>4 DEF NamesWholeOrRefused, Owns

\* With y characters to go, one packet is one less to come.
LEMMA OnePacketLess ==
  ASSUME NEW y \in Nat, y >= 6
  PROVE  (y - 6) \div 6 = (y \div 6) - 1
OBVIOUS

(***************************************************************************)
(* The server refuses no packet before the third of a client that has met  *)
(* no error: the lengths do not exceed the limit, the name is not complete *)
(* yet, and the packets come in order.                                     *)
(***************************************************************************)
LEMMA RefusedLate ==
  ASSUME TransferInv, NEW m \in Request, NEW d \in Client, d = m.rp, Expected(m, d),
         Requests(d) # 0, ret[d] = 1, m.type = 0, ~NoSlot(d), BadName(Found(d), m)
  PROVE  sentCount[d] > 12
<1>1. TypeOK /\ FreeAreEmpty /\ NamesWholeOrRefused /\ ClientTypes /\ Right(d)
  BY DEF TransferInv, IInv
<1>2. /\ pc[d] = "name sent" /\ Packets(d)
      /\ m.len = arr3[d] /\ m.left = (file[d].name - Before(d)) \div FILENAME_DATA_LEN
      /\ Found(d).filenameLen = Before(d)
      /\ Before(d) = 0 => Found(d).filenamePacketsLeft = -1
      /\ Before(d) = 6 => Found(d).filenamePacketsLeft
                            = file[d].name \div FILENAME_DATA_LEN
  BY NameFound
<1>3. PICK s, a, f, b : s = sentCount[d] /\ a = arr3[d] /\ f = file[d].name /\ b = Before(d)
  OBVIOUS
<1>4. s \in Nat /\ a \in Nat /\ f \in Nat /\ s <= f
  BY <1>1, <1>3, CounterTypes, FileFacts DEF Right, Loops
<1> SUFFICES ASSUME s <= 12 PROVE FALSE
  BY <1>3, <1>4
<1>5. b = s - a
  BY <1>3, <1>4 DEF Before
<1>6. a >= 1 /\ s - a \in {0, 6}
  <2>1. a >= 1 /\ ((s <= 12 /\ s - a \in {0, 6}) \/ s > 12)
    BY <1>2, <1>3 DEF Packets
  <2> QED BY <1>4, <2>1
<1>7. b \in {0, 6} /\ b < f /\ a + b = s
  BY <1>4, <1>5, <1>6
<1>8. ~TooLong(Found(d), m)
  <2>1. TooLong(Found(d), m) <=> a + b > 15
    BY <1>2, <1>3 DEF TooLong, MAX_FILENAME_LEN
  <2> QED BY <1>4, <1>7, <2>1
<1>9. ~Found(d).filenameComplete
  <2>1. b # f
    BY <1>4, <1>7
  <2>2. ~RefusedForLength(d)
    BY DEF RefusedForLength
  <2> QED BY <1>1, <1>2, <1>3, <2>1, <2>2, FoundWhole
<1>10. ~(m.len < 1)
  <2>1. m.len = a
    BY <1>2, <1>3
  <2> QED BY <1>4, <1>6, <2>1
<1>11. m.left # -1 /\ ~OutOfOrder(Found(d), m)
  <2>1. PICK p, q : p = Found(d).filenamePacketsLeft /\ q = m.left
    OBVIOUS
  <2>2. q = (f - b) \div 6 /\ (b = 0 => p = -1) /\ (b = 6 => p = f \div 6)
    BY <1>2, <1>3, <2>1 DEF FILENAME_DATA_LEN
  <2>3. CASE b = 0
    BY <1>4, <2>2, <2>3, <2>1 DEF OutOfOrder
  <2>4. CASE b = 6
    <3>1. f >= 6 /\ (f - 6) \div 6 \in Nat
      BY <1>4, <1>7, <2>4
    <3>2. (f - 6) \div 6 = (f \div 6) - 1
      BY <1>4, <3>1, OnePacketLess
    <3>3. q # -1 /\ q = p - 1
      BY <2>2, <2>4, <3>1, <3>2
    <3> QED BY <2>1, <3>3 DEF OutOfOrder
  <2> QED BY <1>7, <2>3, <2>4
<1> QED BY <1>8, <1>9, <1>10, <1>11 DEF BadName

\* Entries of other clients, and free ones, through the outcomes.
LEMMA OutcomeEntries ==
  ASSUME TransferInv, NEW m \in Request, NEW d \in Client, d = m.rp, Expected(m, d),
         Requests(d) # 0, NEW r, Outcome(m, r), UNCHANGED clientVars
  PROVE  FreeAreEmpty' /\ NamesWholeOrRefused'
<1>1. /\ TypeOK /\ OneSlotEach /\ FreeAreEmpty /\ NamesWholeOrRefused
      /\ \A c \in Client : file'[c] = file[c] /\ ret'[c] = ret[c]
  BY DEF TransferInv, IInv, clientVars
<1>2. CASE clientList' = clientList
  BY <1>1, <1>2, NamesStay
<1>3. ASSUME NEW slot, Becomes(d, slot), slot = EmptySlot \/ slot.clientId = d,
             slot.filenameComplete
               => slot.filenameLen = file[d].name \/ RefusedForLength(d)
      PROVE  FreeAreEmpty' /\ NamesWholeOrRefused'
  <2> DEFINE f == find_client(d)
  <2>1. f \in Slot /\ clientList' = [clientList EXCEPT ![f] = slot]
    BY <1>1, <1>3, FindClient DEF Becomes
  <2> HIDE DEF f
  <2>2. clientList'[f] = slot /\ \A i \in Slot \ {f} : clientList'[i] = clientList[i]
    BY <1>1, <2>1 DEF TypeOK
  <2>3. EmptySlot.clientId = SERVER_PORT /\ ~EmptySlot.filenameComplete
    BY DEF EmptySlot
  <2>4. FreeAreEmpty'
    BY <1>1, <1>3, <2>2, ServerAssumption DEF FreeAreEmpty
  <2>5. ASSUME NEW i \in Slot, NEW c, c = clientList'[i].clientId,
               clientList'[i].filenameComplete
        PROVE  clientList'[i].filenameLen = file'[c].name \/ RefusedForLength(c)'
    <3>1. CASE i = f
      BY <1>1, <1>3, <2>2, <2>3, <2>5, <3>1 DEF RefusedForLength
    <3>2. CASE i # f
      <4>1. c \in Client
        <5>1. clientList[i].clientId \in Client \cup {SERVER_PORT}
          BY <1>1 DEF TypeOK, Entry
        <5> QED BY <1>1, <2>2, <2>3, <2>5, <3>2, <5>1 DEF FreeAreEmpty
      <4> QED BY <1>1, <2>2, <2>5, <3>2, <4>1 DEF NamesWholeOrRefused, RefusedForLength
    <3> QED BY <3>1, <3>2
  <2>6. NamesWholeOrRefused'
    BY <2>5 DEF NamesWholeOrRefused
  <2> QED BY <2>4, <2>6
<1>4. ASSUME ~NoSlot(d)
      PROVE  /\ Found(d) \in Entry /\ Found(d).clientId = d
             /\ Found(d).filenameComplete
                  => Found(d).filenameLen = file[d].name \/ RefusedForLength(d)
  BY <1>1, <1>4, EntryFacts, FoundWhole
<1>5. ASSUME Becomes(d, EmptySlot) PROVE FreeAreEmpty' /\ NamesWholeOrRefused'
  <2>1. ~EmptySlot.filenameComplete
    BY DEF EmptySlot
  <2> QED BY <1>3, <1>5, <2>1
<1>6. CASE Refused(m, r)
  <2>1. CASE Becomes(d, Found(d))
    <3>1. ~NoSlot(d)
      BY <2>1 DEF Becomes
    <3> QED BY <1>3, <1>4, <2>1, <3>1
  <2> QED BY <1>2, <1>5, <1>6, <2>1 DEF Refused
<1>7. CASE Queued(m, r)
  BY <1>2, <1>7 DEF Queued
<1>8. CASE NameTaken(m, r)
  <2>1. m.type = 0 /\ ~BadName(Found(d), m) /\ Becomes(d, Named(m)) /\ ~NoSlot(d)
    BY <1>8 DEF NameTaken, Becomes
  <2>2. /\ Named(m).clientId = d /\ Named(m).filenameComplete = (m.left = 0)
        /\ Named(m).filenameLen = Found(d).filenameLen + m.len
    BY <1>4, <2>1 DEF Named, Entry
  <2>3. Named(m).filenameComplete
          => Named(m).filenameLen = file[d].name \/ RefusedForLength(d)
    <3>1. CASE ret[d] = 1
      BY <2>1, <2>2, <3>1, NameAddsUp
    <3>2. CASE ret[d] = -1
      <4>1. pc[d] = "name sent"
        BY <2>1, TypedRequests DEF Expected
      <4>2. GivesUp(d)
        BY DEF TransferInv, Right
      <4> QED BY <3>2, <4>1, <4>2 DEF GivesUp, RefusedForLength
    <3> QED BY <3>1, <3>2, CounterTypes DEF TransferInv
  <2> QED BY <1>3, <2>1, <2>2, <2>3
<1>9. CASE PieceTaken(m, r)
  <2>1. Becomes(d, Written(m)) /\ ~NoSlot(d)
    BY <1>9 DEF PieceTaken, Becomes
  <2>2. /\ Written(m).clientId = d /\ Written(m).filenameComplete = Found(d).filenameComplete
        /\ Written(m).filenameLen = Found(d).filenameLen
    BY <1>4, <2>1 DEF Written, Entry
  <2> QED BY <1>3, <1>4, <2>1, <2>2
<1>10. CASE FileTaken(m, r)
  BY <1>5, <1>10 DEF FileTaken
<1> QED BY <1>6, <1>7, <1>8, <1>9, <1>10 DEF Outcome

LEMMA OneMore ==
  ASSUME NEW k \in Nat
  PROVE  Append([j \in 1..k |-> j], k + 1) = [j \in 1..(k + 1) |-> j]
OBVIOUS

\* The client whose request was served.
LEMMA ServedRight ==
  ASSUME TransferInv, NEW m \in Request, NEW d \in Client, d = m.rp, Expected(m, d),
         Requests(d) # 0, NEW r, Outcome(m, r), Rests(d), TypeOK',
         dialogue'[d].state = dialogue[d].state, Requests(d)' = 0, Replies(d)' = <<r>>,
         Closes(m) => disk'[d] = Found(d).fp
  PROVE  Right(d)'
<1>1. TypeOK /\ OneSlotEach /\ FreeAreEmpty /\ ClientTypes /\ Right(d)
  BY DEF TransferInv, IInv
<1>2. (SaysOK(d)' <=> r = "OK") /\ (SaysNo(d)' <=> r = "NOT_OK") /\ (SaysFull(d)' <=> r = "FULL")
  <2>1. <<r>> # <<>> /\ Head(<<r>>) = r
    BY AppendToEmpty
  <2> QED BY <2>1 DEF SaysOK, SaysNo, SaysFull
<1>3. pc[d] \in Sent
  BY DEF Expected, Sent
<1>4. Loops(d)'
  BY <1>1 DEF Right, Loops, Rests
<1>5. InDialogue(d)'
  BY <1>1 DEF Right, InDialogue, Rests
<1>6. /\ m.type = 0 => pc[d] = "name sent"
      /\ m.type = 1 => pc[d] = "data sent" /\ m.piece = pos[d]
      /\ m.type = 2 => pc[d] = "eof sent"
  <2>1. ASSUME NEW k, m = DataRequest(d, k) PROVE m.type = 1 /\ m.piece = k
    BY <2>1 DEF DataRequest
  <2>2. ASSUME m = EofRequest(d) PROVE m.type = 2
    BY <2>2 DEF EofRequest
  <2>3. CASE pc[d] = "name sent" /\ m.type = 0
    <3>1. m.type = 0
      BY <2>3, Zenon
    <3>2. m.type # 1 /\ m.type # 2
      BY <3>1
    <3> QED BY <2>3, <3>2, Zenon
  <2>4. CASE pc[d] = "data sent" /\ m = DataRequest(d, pos[d])
    <3>1. PICK k : k = pos[d]
      OBVIOUS
    <3>2. m.type = 1 /\ m.piece = k
      BY <2>1, <2>4, <3>1
    <3>3. m.type # 0 /\ m.type # 2
      BY <3>2
    <3> QED BY <2>4, <3>1, <3>2, <3>3, Zenon
  <2>5. CASE pc[d] = "eof sent" /\ m = EofRequest(d)
    <3>1. m.type = 2
      BY <2>2, <2>5
    <3>2. m.type # 0 /\ m.type # 1
      BY <3>1
    <3> QED BY <2>5, <3>2, Zenon
  <2> QED BY <2>3, <2>4, <2>5 DEF Expected
<1>7. SaysFull(d)' => pc'[d] = "name sent"
  <2>1. r = "FULL" => m.type = 0
    BY DEF Outcome, Refused, Queued, NameTaken, PieceTaken, FileTaken
  <2> QED BY <1>2, <1>6, <2>1 DEF Rests
<1>8. ASSUME ret'[d] = 1 PROVE Packets(d)' /\ Progress(d)'
  <2>1. ret[d] = 1 /\ Packets(d) /\ Progress(d)
    BY <1>1, <1>8 DEF Right, Rests
  <2>2. Packets(d)'
    BY <2>1 DEF Packets, Rests
  <2>3. /\ pc'[d] = pc[d] /\ sentCount'[d] = sentCount[d] /\ pos'[d] = pos[d]
        /\ file'[d] = file[d]
    BY DEF Rests
  <2>4. ASSUME NEW slot, Becomes(d, slot), slot.clientId = d, NEW n, n # 0, NEW k,
               slot.filenameLen = n, slot.fp = [j \in 1..k |-> j],
               n = 6 => slot.filenamePacketsLeft = file[d].name \div FILENAME_DATA_LEN
        PROVE  Has(clientList', d, file[d].name, n, k)
    <3>1. find_client(d) \in Slot /\ clientList'[find_client(d)] = slot
      BY <1>1, <2>4, FindClient DEF Becomes, TypeOK
    <3> QED BY <2>4, <3>1 DEF Has
  <2>5. CASE Refused(m, r)
    <3>1. r # "OK" /\ r # "FULL"
      BY <2>5 DEF Refused
    <3>2. pc[d] = "name sent" => sentCount[d] > 12
      <4> SUFFICES ASSUME pc[d] = "name sent" PROVE sentCount[d] > 12
        OBVIOUS
      <4>1. m.type = 0
        BY DEF Expected
      <4>2. ~NoSlot(d) /\ BadName(Found(d), m)
        BY <2>5, <4>1 DEF Refused
      <4> QED BY <2>1, <4>1, <4>2, RefusedLate
    <3> QED BY <1>2, <1>3, <2>2, <2>3, <3>1, <3>2
            DEF Progress, NameArrives, PieceArrives, Sent
  <2>6. CASE Queued(m, r)
    <3>1. r = "FULL" /\ pc[d] = "name sent" /\ NoSlot(d) /\ clientList' = clientList
      BY <1>6, <2>6 DEF Queued
    <3>2. Has(clientList', d, file[d].name, 0, 0)
      BY <1>1, <3>1, FindClient DEF Has, Owns
    <3> QED BY <1>2, <2>2, <2>3, <3>1, <3>2 DEF Progress, NameArrives
  <2>7. CASE NameTaken(m, r)
    <3>1. /\ r = "OK" /\ m.type = 0 /\ ~BadName(Found(d), m) /\ Becomes(d, Named(m))
          /\ ~NoSlot(d)
      BY <2>7 DEF NameTaken, Becomes
    <3>2. /\ pc[d] = "name sent" /\ sentCount[d] \in 1..12
          /\ Found(d).filenameLen + m.len = sentCount[d]
          /\ sentCount[d] = 6 => m.left = file[d].name \div FILENAME_DATA_LEN
          /\ Found(d).fp = [j \in 1..0 |-> j]
      BY <2>1, <3>1, NameAddsUp
    <3>3. Found(d) \in Entry /\ Found(d).clientId = d
      BY <1>1, <3>1, EntryFacts
    <3>4. /\ Named(m).clientId = d /\ Named(m).filenameLen = Found(d).filenameLen + m.len
          /\ Named(m).fp = Found(d).fp /\ Named(m).filenamePacketsLeft = m.left
      BY <3>3 DEF Named, Entry
    <3>5. PICK n : n = sentCount[d]
      OBVIOUS
    <3>6. PICK k : k = 0
      OBVIOUS
    <3>7. n # 0 /\ n <= 12
      <4>1. n \in 1..12
        BY <3>2, <3>5
      <4> QED BY <4>1
    <3>8. Named(m).fp = [j \in 1..k |-> j] /\ Named(m).filenameLen = n
      BY <3>2, <3>4, <3>5, <3>6
    <3>9. n = 6 => Named(m).filenamePacketsLeft = file[d].name \div FILENAME_DATA_LEN
      BY <3>2, <3>4, <3>5
    <3>10. Has(clientList', d, file[d].name, n, k)
      BY <2>4, <3>1, <3>4, <3>7, <3>8, <3>9
    <3> QED BY <1>2, <2>2, <2>3, <3>1, <3>2, <3>5, <3>6, <3>7, <3>10 DEF Progress, NameArrives
  <2>8. CASE PieceTaken(m, r)
    <3>1. r = "OK" /\ m.type = 1 /\ Becomes(d, Written(m)) /\ ~NoSlot(d)
      BY <2>8 DEF PieceTaken, Becomes
    <3>2. pc[d] = "data sent" /\ m.piece = pos[d]
      BY <1>6, <3>1
    <3>3. PICK n : n = file[d].name
      OBVIOUS
    <3>4. PICK p : p = pos[d]
      OBVIOUS
    <3>5. n # 0 /\ p \in Nat /\ p - 1 \in Nat
      <4>1. n # 0 /\ file[d].pieces \in Nat
        BY <1>1, <3>3, FileFacts
      <4>2. p \in 1..file[d].pieces
        BY <1>1, <3>2, <3>4 DEF Right, Loops
      <4> QED BY <4>1, <4>2
    <3>6. PICK k : k = p - 1
      OBVIOUS
    <3>7. Has(clientList, d, n, n, k)
      BY <2>1, <3>2, <3>3, <3>4, <3>6 DEF Progress, PieceArrives
    <3>8. /\ Found(d).filenameLen = n /\ (n # 0 \/ k = 0 => Found(d).fp = [j \in 1..k |-> j])
          /\ n = 6 => Found(d).filenamePacketsLeft = n \div FILENAME_DATA_LEN
      BY <1>1, <3>1, <3>7, FoundHas
    <3>9. Found(d) \in Entry /\ Found(d).clientId = d
      BY <1>1, <3>1, EntryFacts
    <3>10. /\ Written(m).clientId = d /\ Written(m).filenameLen = Found(d).filenameLen
           /\ Written(m).fp = Append(Found(d).fp, m.piece)
          /\ Written(m).filenamePacketsLeft = Found(d).filenamePacketsLeft
      BY <3>9 DEF Written, Entry
    <3>11. k \in Nat /\ k + 1 = p
      BY <3>5, <3>6
    <3>12. Append([j \in 1..k |-> j], p) = [j \in 1..p |-> j]
      BY <3>11, OneMore
    <3>13. Written(m).fp = [j \in 1..p |-> j]
      BY <3>2, <3>4, <3>5, <3>8, <3>10, <3>12
    <3>14. Has(clientList', d, file[d].name, n, p)
      BY <2>4, <3>1, <3>3, <3>5, <3>8, <3>10, <3>13
    <3> QED BY <1>2, <2>2, <2>3, <3>1, <3>2, <3>3, <3>4, <3>14 DEF Progress, PieceArrives
  <2>9. CASE FileTaken(m, r)
    <3>1. r = "OK" /\ m.type = 2 /\ Uploading(m) /\ ~NoSlot(d)
      BY <2>9 DEF FileTaken, Becomes
    <3>2. pc[d] = "eof sent" /\ disk'[d] = Found(d).fp
      BY <1>6, <3>1 DEF Closes
    <3>3. PICK n : n = file[d].name
      OBVIOUS
    <3>4. PICK k : k = pos[d]
      OBVIOUS
    <3>5. n # 0 /\ k = file[d].pieces
      BY <1>1, <3>2, <3>3, <3>4, FileFacts DEF Right, Loops
    <3>6. Has(clientList, d, n, n, k)
      BY <2>1, <3>2, <3>3, <3>4 DEF Progress
    <3>7. n # 0 \/ k = 0 => Found(d).fp = [j \in 1..k |-> j]
      BY <1>1, <3>1, <3>6, FoundHas
    <3>8. Whole(d)'
      BY <2>3, <3>2, <3>5, <3>7 DEF Whole
    <3> QED BY <1>2, <2>2, <2>3, <3>2, <3>8 DEF Progress
  <2> QED BY <2>5, <2>6, <2>7, <2>8, <2>9 DEF Outcome
<1>9. GivesUp(d)'
  BY <1>1 DEF Right, GivesUp, Rests
<1> QED BY <1>4, <1>5, <1>7, <1>8, <1>9 DEF Right

LEMMA ServeTransfer ==
  ASSUME TransferInv, ServerStep, ServeRequest
  PROVE  TransferInv'
<1>1. TypeOK /\ OneAnswerEach /\ OneSlotEach /\ RequestsExpected /\ ClientTypes
  BY DEF TransferInv, IInv
<1>2. IInv'
  BY ServePreserves DEF TransferInv
<1>3. TypeOK'
  BY <1>2 DEF IInv
<1>4. PICK m : m = Head(chan[SERVER_PORT])
  OBVIOUS
<1>5. /\ m \in Request /\ m.rp \in Client /\ server.at = "receive" /\ chan[SERVER_PORT] # <<>>
      /\ chan' = [chan EXCEPT ![SERVER_PORT] = Tail(@)] /\ dialogue' = dialogue
      /\ \E r \in Reply, t \in Then : Handled(m, r, t)
  BY <1>1, <1>4, ServeFacts
<1>6. PICK d \in Client : d = m.rp
  BY <1>5
<1>7. PICK r \in Reply, t \in Then : Handled(m, r, t)
  BY <1>5
<1>8. Filename(m) \/ Filedata(m) \/ EndOfFile(m) \/ Invalid(m)
  BY <1>4 DEF ServeRequest
<1>9. Outcome(m, r)
  <2>1. server'.reply = r
    BY <1>7 DEF Handled, AtReply
  <2> QED BY <1>8, <2>1, Outcomes
<1>10. /\ disk' = IF Closes(m) THEN [disk EXCEPT ![d] = Found(d).fp] ELSE disk
       /\ UNCHANGED clientVars
  BY <1>4, <1>5, <1>6 DEF ServerStep
<1>11. /\ DOMAIN disk' = Client
       /\ Closes(m) => disk'[d] = Found(d).fp
       /\ \A c \in Client \ {d} : disk'[c] = disk[c]
  <2>1. CASE Closes(m)
    BY <1>1, <1>10, <2>1 DEF ClientTypes
  <2>2. CASE ~Closes(m)
    BY <1>1, <1>10, <2>2 DEF ClientTypes
  <2> QED BY <2>1, <2>2
<1>12. \A c \in Client : Rests(c)
  BY <1>10 DEF clientVars, Rests
<1>13. Expected(m, d)
  <2>1. chan[SERVER_PORT] \in Seq(Request)
    BY <1>1 DEF TypeOK
  <2>2. 1 \in DOMAIN chan[SERVER_PORT] /\ m = chan[SERVER_PORT][1]
    BY <1>4, <1>5, <2>1, HeadTailProperties, LenProperties, EmptySeq
  <2> QED BY <1>1, <1>6, <2>2 DEF RequestsExpected
<1>14. ASSUME NEW c \in Client
       PROVE  /\ Requests(c)' \in Nat /\ Requests(c) \in Nat
              /\ Requests(c) = Requests(c)' + IF c = d THEN 1 ELSE 0
              /\ Replies(c)' = IF c = d THEN Append(Replies(c), r) ELSE Replies(c)
  BY <1>1, <1>3, <1>4, <1>6, <1>7, ServeView, RequestsNext
<1>15. Requests(d) # 0 /\ Requests(d)' = 0 /\ Replies(d)' = <<r>>
  <2>1. Requests(d)' \in Nat /\ Requests(d) = Requests(d)' + 1
    BY <1>14
  <2>2. Requests(d) # 0
    BY <2>1
  <2>3. Consistent(dialogue[d].state, Requests(d), Replies(d), TimesQueued(d))
    BY <1>1, ConsistentNow
  <2>4. Requests(d) = 1 /\ Replies(d) = <<>>
    BY <2>2, <2>3 DEF Consistent
  <2>5. Append(<<>>, r) = <<r>>
    BY AppendToEmpty
  <2>6. Replies(d)' = Append(Replies(d), r)
    BY <1>14
  <2>7. Requests(d)' = 0
    BY <2>1, <2>4
  <2> QED BY <2>2, <2>4, <2>5, <2>6, <2>7
<1>16. ASSUME NEW c \in Client \ {d} PROVE Right(c)'
  <2>1. ASSUME NEW i \in Slot, clientList[i].clientId = c \/ clientList'[i].clientId = c
        PROVE  clientList'[i] = clientList[i]
    <3>1. CASE clientList' = clientList
      BY <3>1
    <3>2. ASSUME NEW f \in Slot, EntryOf(f, m, t) PROVE clientList'[i] = clientList[i]
      BY <1>6, <2>1, <3>2, ServerAssumption DEF EntryOf, Owner
    <3> QED BY <1>1, <1>5, <1>7, <3>1, <3>2, ServeOwners
  <2>2. Requests(c)' = Requests(c) /\ Replies(c)' = Replies(c)
    <3>1. Requests(c)' \in Nat /\ Requests(c) = Requests(c)' + 0 /\ Replies(c)' = Replies(c)
      BY <1>14
    <3> QED BY <3>1
  <2>3. Apart(c)
    BY <1>5, <1>11, <1>12, <2>1, <2>2 DEF Apart, SaysOK, SaysNo, SaysFull
  <2> QED BY <2>3, ApartRight DEF TransferInv
<1>17. Right(d)'
  <2>1. Rests(d) /\ dialogue'[d].state = dialogue[d].state
    BY <1>5, <1>12
  <2>2. m \in Request /\ (Closes(m) => disk'[d] = Found(d).fp)
    BY <1>5, <1>11
  <2> QED BY <1>3, <1>6, <1>9, <1>13, <1>15, <2>1, <2>2, ServedRight
<1>18. FreeAreEmpty' /\ NamesWholeOrRefused'
  BY <1>5, <1>6, <1>9, <1>10, <1>13, <1>15, OutcomeEntries
<1>19. RequestsExpected'
  <2>1. chan'[SERVER_PORT] = Tail(chan[SERVER_PORT])
    BY <1>1, <1>5, RequestRead
  <2> QED BY <1>1, <1>5, <1>10, <2>1, ReadExpected
<1>20. ClientTypes'
  BY <1>1, <1>10, <1>11 DEF ClientTypes, clientVars
<1> QED BY <1>2, <1>16, <1>17, <1>18, <1>19, <1>20 DEF TransferInv
-----------------------------------------------------------------------------
(***************************************************************************)
(* Together.                                                               *)
(***************************************************************************)
LEMMA InitTransfer == TransferInit => TransferInv
<1> SUFFICES ASSUME TransferInit PROVE TransferInv
  OBVIOUS
<1>1. Init /\ IInv
  BY InitIInv DEF TransferInit
<1>2. ClientTypes
  BY DEF TransferInit, ClientTypes, Pc
<1>3. clientList = [i \in Slot |-> EmptySlot] /\ chan[SERVER_PORT] = <<>>
  BY <1>1, ServerAssumption DEF Init, ChannelsInit
<1>4. FreeAreEmpty /\ RequestsExpected
  BY <1>3 DEF FreeAreEmpty, RequestsExpected
<1>5. NamesWholeOrRefused
  <2>1. EmptySlot.filenameComplete = FALSE
    BY DEF EmptySlot
  <2> QED BY <1>3, <2>1 DEF NamesWholeOrRefused
<1>6. ASSUME NEW c \in Client PROVE Right(c)
  <2>1. /\ pc[c] = "name" /\ sentCount[c] = 0 /\ arr3[c] = 0 /\ pos[c] = 0
        /\ dialogue[c].state = "idle"
    BY <1>1 DEF TransferInit, Init, Idle
  <2>2. file[c].name \in Nat \ {0}
    BY <1>2, FileFacts
  <2>3. Loops(c)
    BY <2>1, <2>2 DEF Loops
  <2>4. InDialogue(c)
    BY <2>1 DEF InDialogue, StateAt, Sent
  <2>5. ~SaysFull(c)
    <3>1. Replies(c) = <<>>
      BY <1>1, <2>1, ConsistentNow DEF IInv, Consistent
    <3> QED BY <3>1 DEF SaysFull
  <2>6. Has(clientList, c, file[c].name, 0, 0)
    BY <1>3, ServerAssumption DEF Has, EmptySlot
  <2>7. Packets(c) /\ Progress(c)
    BY <2>1, <2>6 DEF Packets, Progress
  <2>8. GivesUp(c)
    BY DEF TransferInit, GivesUp
  <2> QED BY <2>3, <2>4, <2>5, <2>7, <2>8 DEF Right
<1> QED BY <1>1, <1>2, <1>4, <1>5, <1>6 DEF TransferInv

LEMMA StutterTransfer ==
  ASSUME TransferInv, UNCHANGED allVars
  PROVE  TransferInv'
<1>1. UNCHANGED vars /\ UNCHANGED clientVars /\ disk' = disk
  BY DEF allVars
<1>2. IInv'
  BY <1>1, StutterPreserves DEF TransferInv
<1>3. \A c \in Client : Rests(c) /\ file'[c] = file[c] /\ ret'[c] = ret[c]
  BY <1>1 DEF clientVars, Rests
<1>4. chan' = chan /\ clientList' = clientList /\ server' = server /\ dialogue' = dialogue
  BY <1>1 DEF vars, serverVars
<1>5. ASSUME NEW c \in Client PROVE Right(c)'
  <2>1. Requests(c)' = Requests(c) /\ Replies(c)' = Replies(c)
    BY <1>4 DEF Requests, Replies
  <2>2. Apart(c)
    BY <1>1, <1>3, <1>4, <2>1 DEF Apart, SaysOK, SaysNo, SaysFull
  <2> QED BY <2>2, ApartRight DEF TransferInv
<1>6. FreeAreEmpty' /\ NamesWholeOrRefused' /\ RequestsExpected'
  <2>1. TypeOK
    BY DEF TransferInv, IInv
  <2> QED BY <1>1, <1>3, <1>4, <2>1, NamesStay, ReadExpected DEF TransferInv
<1>7. ClientTypes'
  BY <1>1 DEF TransferInv, ClientTypes, clientVars
<1> QED BY <1>2, <1>5, <1>6, <1>7 DEF TransferInv

LEMMA NextTransfer == TransferInv /\ [TransferNext]_allVars => TransferInv'
<1> SUFFICES ASSUME TransferInv, [TransferNext]_allVars PROVE TransferInv'
  OBVIOUS
<1>1. CASE ServerStep
  <2>1. CASE ServeRequest
    BY <1>1, <2>1, ServeTransfer
  <2>2. CASE SendReply \/ SendNotice
    <3>1. server.at # "receive"
      BY <2>2 DEF SendReply, SendNotice
    <3>2. UNCHANGED <<clientVars, disk>>
      BY <1>1, <3>1 DEF ServerStep
    <3> QED BY <2>2, <3>2, SendsTransfer
  <2> QED BY <1>1, <2>1, <2>2 DEF ServerStep, ServerNext
<1>2. ASSUME NEW c \in Client, ClientSends(c) PROVE TransferInv'
  BY <1>2, NameAsked, PieceAsked, EofAsked DEF ClientSends
<1>3. ASSUME NEW c \in Client, ClientHears(c) PROVE TransferInv'
  BY <1>3, NameHeard, Awoken, PieceHeard, EofHeard DEF ClientHears
<1>4. ASSUME NEW c \in Client, Terminal(c), UNCHANGED disk PROVE TransferInv'
  BY <1>4, StutterTransfer DEF Terminal, allVars
<1>5. CASE UNCHANGED allVars
  BY <1>5, StutterTransfer
<1> QED BY <1>1, <1>2, <1>3, <1>4, <1>5 DEF TransferNext

LEMMA TransferInvariance == TransferSpec => []TransferInv
BY InitTransfer, NextTransfer, PTL DEF TransferSpec

(***************************************************************************)
(* A name that the server takes for complete has arrived whole, unless it  *)
(* is over the limit and its client has been told NOT_OK: for files with   *)
(* names of any length.  So no name within the limit is cut short.         *)
(***************************************************************************)
THEOREM FileTransferNamesWholeOrRefused == TransferSpec => []NamesWholeOrRefused
<1>1. TransferInv => NamesWholeOrRefused
  BY DEF TransferInv
<1> QED BY <1>1, TransferInvariance, PTL

(***************************************************************************)
(* A client that ends without an error has its whole file on the server,   *)
(* every piece once and in order: for files of any size.                   *)
(***************************************************************************)
THEOREM FileTransferFilesArriveWhole == TransferSpec => []FilesArriveWhole
<1>1. TransferInv => FilesArriveWhole
  BY DEF TransferInv, FilesArriveWhole, Right, Progress, Whole
<1> QED BY <1>1, TransferInvariance, PTL

\* What the two loops ask for are requests as FileServer means them.
LEMMA NameRequested ==
  ASSUME ClientTypes, NEW d \in Client, Right(d), SendFilename(d)
  PROVE  \E m \in RequestsOf(d) : Ask(d, m)
<1> DEFINE f == file[d].name
           s == sentCount[d]
           a == arr3[d]
           sent == Min({s + FILENAME_DATA_LEN, f})
           left == (f - s) \div FILENAME_DATA_LEN
           len == sent - a
<1>1. pc[d] = "name" /\ Ask(d, NameRequest(d, left, len))
  BY DEF SendFilename
<1>2. f \in Nat /\ s \in Nat /\ a \in Nat /\ a <= s /\ s < f
  <2>1. f \in Nat \ {0} /\ s \in Nat /\ a \in Nat
    BY FileFacts, CounterTypes
  <2>2. a <= s /\ s <= f /\ s # f
    BY <1>1 DEF Right, Loops
  <2> QED BY <2>1, <2>2
<1>3. len \in 1..f /\ left \in 0..(f \div FILENAME_DATA_LEN)
  <2>1. /\ sent = Min({s + FILENAME_DATA_LEN, f}) /\ left = (f - s) \div FILENAME_DATA_LEN
        /\ len = sent - a
    OBVIOUS
  <2> HIDE DEF f, s, a, sent, left, len
  <2> QED BY <1>2, <2>1, PacketFacts
<1> HIDE DEF sent, left, len
<1>4. len \in DataLen /\ left \in PacketsLeft
  BY <1>2, <1>3, FileFacts
<1> QED BY <1>1, <1>4 DEF RequestsOf

LEMMA PieceRequested ==
  ASSUME ClientTypes, NEW d \in Client, Right(d), SendFiledata(d)
  PROVE  \E m \in RequestsOf(d) : Ask(d, m)
<1>1. pc[d] = "data" /\ Ask(d, DataRequest(d, pos[d] + 1))
  BY DEF SendFiledata
<1>2. file[d].pieces \in Nat /\ pos[d] \in Nat /\ pos[d] < file[d].pieces
  BY <1>1, FileFacts, CounterTypes DEF Right, Loops
<1>3. pos[d] + 1 \in Piece
  <2>1. pos[d] + 1 \in 1..file[d].pieces
    BY <1>2
  <2> QED BY <2>1, FileFacts
<1> QED BY <1>1, <1>3 DEF RequestsOf

(***************************************************************************)
(* The clients of file_test.c are clients as FileServer means them, so     *)
(* that the theorems of part 1 hold of the program: among them, of every   *)
(* upload, that the server answers each client once, that no revival is    *)
(* lost, and that a client has one entry, which is its own.                *)
(***************************************************************************)
THEOREM FileTransferUsesFileServer == TransferSpec => Spec
<1>1. TransferInit => Init
  BY DEF TransferInit
<1>2. ASSUME TransferInv, [TransferNext]_allVars PROVE [Next]_vars
  <2>1. CASE ServerStep
    BY <2>1 DEF ServerStep, Next
  <2>2. ASSUME NEW c \in Client, ClientSends(c) PROVE [Next]_vars
    <3>1. ClientTypes /\ Right(c)
      BY <1>2 DEF TransferInv
    <3>2. ASSUME NEW m \in RequestsOf(c), Ask(c, m) PROVE [Next]_vars
      BY <2>2, <3>2 DEF ClientSends, Next, AnyClient
    <3>3. CASE SendFilename(c)
      BY <3>1, <3>2, <3>3, NameRequested
    <3>4. CASE SendFiledata(c)
      BY <3>1, <3>2, <3>4, PieceRequested
    <3>5. CASE SendEof(c)
      <4>1. EofRequest(c) \in RequestsOf(c)
        BY DEF RequestsOf
      <4> QED BY <3>2, <3>5, <4>1 DEF SendEof
    <3> QED BY <2>2, <3>3, <3>4, <3>5 DEF ClientSends
  <2>3. ASSUME NEW c \in Client, ClientHears(c) PROVE [Next]_vars
    <3>1. PICK reply \in Reply : Hear(c, reply)
      BY <2>3 DEF ClientHears, FilenameReply, Revival, FiledataReply, EofReply
    <3> QED BY <2>3, <3>1 DEF ClientHears, Next, AnyClient
  <2>4. ASSUME NEW c \in Client, Terminal(c) PROVE [Next]_vars
    BY <2>4 DEF Terminal
  <2>5. CASE UNCHANGED allVars
    BY <2>5 DEF allVars
  <2> QED BY <1>2, <2>1, <2>2, <2>3, <2>4, <2>5 DEF TransferNext
<1> QED BY <1>1, <1>2, TransferInvariance, PTL DEF TransferSpec, Spec
=============================================================================
