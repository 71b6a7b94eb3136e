# CSE531: threads, semaphores, message ports and a file server in TLA+

The repository is a sequence of course projects in C.  Project 2 builds a
non-preemptive thread scheduler, Project 3 puts semaphores on it, Project 4
message ports on those, and Project 5 a file server with its clients on the
ports.  `EnhancingThreads/` is a variant of the scheduler whose threads may
return.  Project 1 is older: semaphores, monitors and examples on pthreads.

This directory holds a TLA+ model of the stack, layer by layer, with the
configurations that TLC checks and proofs, checked by TLAPS, about the kernel and
the linked lists under it, the threads that return, the ports, the file server and
its clients, the readers and writers, and the example programs.

## 1. Inventory

| component | source | state | operations |
|---|---|---|---|
| queues | `q.h` (the same file in Projects 2 to 5 and `EnhancingThreads/`) | head pointers; the `next` and `prev` of every item | `NewItem`, `NewQueue`, `AddQueue`, `DelQueue`, `PrintQueue`, `FreeItem` |
| scheduler | `threads.h`, `TCB.h` | `ReadyQ`, `Curr_Thread` | `start_thread`, `run`, `yield` |
| semaphores | `sem.h` | `count` and `TCB_Q` of each semaphore | `CreateSem`, `P`, `V`, `Block` |
| message ports, Strategy 2 | `msgs.h`, `msgs_test.c` | per port: `buffer[N]`, `in`, `out`, three semaphores | `initPort`, `Send`, `Receive` |
| file server | `Project5/file_test.c`, `file_test_updates.c` | `clientList[MAX_CLIENTS]`, the ring queue of waiting clients | one iteration of `Server` per request: filename, file data, end of file, invalid |
| file clients | the same | `sentCount`, `data.arr[3]`, the file, `ret` | the three loops of `Client` |
| threads that return | `EnhancingThreads/threads.h` | + `Parent_Thread`, `thread_count` | + `cleanup`, `initThreads`, `getThreadCount` |
| readers and writers | `read_write_s.c` of Projects 1 and 3, `Project3/Submission/read_write.c` | `rwc`, `wwc`, `rc`, `wc` | `reader_entry`, `reader_exit`, `writer_entry`, `writer_exit` |
| producer and consumer | `Project3/prod_cons.c`, `Project2/src/thread_test.c` | `buffer`, `buffer_pointer` | `producer`, `consumer` |
| message ports, Strategy 1 | `Project4/msgs1.h` (no program includes it) | per port: `buffer[N]`, `bufferCount`, two semaphores; one global `mutex` | `initPort`, `Send`, `Receive` |
| pthread semaphores and barrier | `Project1/P-threads/sem.h`, `barrier.h` | `count` and the threads that wait; `actual_count` | `init_sem`, `P`, `V`, `barrier` |
| pthread examples | `Project1/P-threads/prod_cons_s.c`, `proj-1.c`, `proj_alt.c` | a ring of slots; an array updated in rounds | `prod`, `cons`, `child`, `main` |
| monitors | `Project1/P-threads/monitor.h`, `read_write_m.c`, `prod_cons_m.c` | the threads that wait on each condition; `rwc`, `wwc`, `rc`, `wc`; `in`, `out`, `count` | `monitor_*`, `reader_entry`, `reader_exit`, `writer_entry`, `writer_exit`, `prod`, `cons` |
| race demonstrations | `Project1/P-threads/race-p.c`, `race-c.c` | `x` | `func1`, `func2` |

How they interact: `Server` and `Client` call `Send` and `Receive` of the
ports; these call `P` and `V` of the port's semaphores; these move TCBs between
the queue of the semaphore and `ReadyQ` and switch contexts.  Nothing is
preempted: the processor changes hands only inside `yield`, `V` and a `P` that
blocks.  Everything between two such calls is atomic, which is what decides the
size of the actions in the models.  `main()` is not a thread: `run()` gives the
processor away and never gets it back (in `EnhancingThreads/` it does).

What is hard about it:

* the links of a queue live in the items, so a TCB in two queues, or one that
  leaves a queue with stale links, corrupts lists far away;
* `V` takes a thread out of a queue without testing that there is one, trusting
  the sign of a counter;
* a switch on an empty ready queue dereferences NULL: the process dies;
* the buffer of a port is never tested for room, in either strategy; only tokens
  keep it from overrunning, and two `V`s with a switch between them follow each
  update;
* the server is one thread: if it ever blocked on a client's full port, or
  forgot to revive one waiting client on one of its nine ways out of a request,
  the others would wait for ever;
* the client's loop conditions and length arithmetic decide what a client sends
  after an error, and the server has to survive it;
* `cleanup()` finds the next thread through a stale link;
* the programs of Project 1 are preempted anywhere, a woken thread does not look
  at its condition again, and some of their data is changed outside of any mutex.

What makes each part correct: a queue is a ring and behaves as a sequence; a TCB
is in one place; counts agree with queues; `sem.h` gives first-come, first-served
counting semaphores; a port of either strategy is a bounded FIFO channel without
lost wake-ups; a filename that the server takes for complete is the one that was sent,
unless its client has been told that it is too long; a waiting client is owed exactly one answer and no revival is lost; uploads are
private, arrive whole and end; the live threads are those queued or running;
writers are in alone and the mutex is handed on exactly once; nobody passes the
barrier early; items are consumed once and in order; an array is printed only when
every child has done its part.

## 2. Modules

| module | models | how |
|---|---|---|
| `Threads` | `threads.h` on sequences | `ReadyQ`, `Curr_Thread`; one action per function; `Dispatch` is "DelQueue, swapcontext", and leaves `Curr_Thread = NULL` on an empty queue |
| `Sem` | `sem.h` | `count`, `TCB_Q`; `P` and `V` are one action each, up to the switch |
| `Kernel` | the two under any program | `Start`, `Run`, `Yield`, `P`, `V` at any time; all the kernel properties |
| `Semaphores` | abstract | counting semaphores with FIFO waiting and direct hand-off |
| `Queue` | `q.h` on the real pointers | a value `[head, next, prev]`; `AddQueue` and `DelQueue` are functions of it; `Contents` is the walk of `PrintQueue` |
| `LinkedKernel` | `threads.h` and `sem.h` on `Queue` | refines `Kernel`: `ReadyQ <- Contents(lists, Ready)` |
| `Channels`, `BoundedFifo` | abstract | ports as bounded FIFO channels; the operations, and threads that use them freely |
| `PortCalls` | what `msgs.h` and `msgs1.h` share, on `Sem` | `Send` and `Receive` are four steps each, one per call of `P` or `V`; refines `BoundedFifo` and `Kernel` |
| `Msgs` | the buffer of `msgs.h` | a ring from `out` up to `in`: `Put`, `Take` |
| `Msgs1` | the buffer of `msgs1.h` | the oldest message in slot 0, the others moved down: `PutLast`, `TakeFirst` |
| `Ports` | composes the three | the initial state chooses which file is included |
| `FileServer` | `Server` of `file_test.c` on `Channels` | `ServeRequest` is an iteration of the loop up to its first `Send`; `SendReply` is that `Send` with the `popQ` or `pushQ` after it; `SendNotice` the second `Send` |
| `FileTransfer` | `Client` and `main` of `file_test.c`, with `FileServer` | one action for each `Send` and each `Receive` of the client |
| `EnhancedThreads` | `EnhancingThreads/` on `Queue` | `cleanup`, `run` with `Parent_Thread`, under any program |
| `ReadersWriters` | `read_write_s.c` on `Semaphores` | one step per `P` or `V`, threads in any order; the initial state chooses whether `V` lets the first waiting thread go (Project 3) or any (Project 1) |
| `PthreadSem` | Project 1's `sem.h` | `P` and `V` are one step each, since they work under the mutex; a signal wakes any waiting thread |
| `Barrier` | `barrier.h`, `barrier_test.c` on `PthreadSem` | a step per call of `P` and `V`, each round of the releasing loop included |
| `ProdCons` | `prod_cons_s.c` on `PthreadSem` | also splits the critical sections: inserting, advancing |
| `Rounds` | `proj-1.c` on `PthreadSem` | the increment outside of the mutex is a step of its own |
| `ProducerConsumer` | `Project3/prod_cons.c`, `Project2/src/thread_test.c` | a step from one `P`, `V` or `yield` to the next |
| `Monitor`, `MonitorReaders` | `monitor.h`, `read_write_m.c` | a step from entry, or the return of a wait, to the next wait or the exit |
| `MonitorBuffer` | `prod_cons_m.c` on `Monitor` | the same; the indices are those of `ProdCons`, the contents of the slots are left out |
| `Race` | `race-p.c`, `race-c.c` | an increment of `x` is a load and a store |
| `Programs` | composes `Barrier`, `ProdCons`, `MonitorBuffer`, `Rounds`, `ProducerConsumer` and `Race` | the initial state chooses which `main()` runs |
| `KernelProofs`, `LinkedKernelProofs`, `EnhancedThreadsProofs`, `PortsProofs`, `FileTransferProofs`, `ReadersWritersProofs`, `ProgramsProofs` | | the theorems about the module of that name, their inductive invariants and lemmas; `FileTransferProofs` has those about `FileServer` too |
| `DataFacts` | | what these proofs share: facts about sequences, finite sets and the slots of a ring |

`MCKernel`, `MCLinkedKernel`, `MCPorts`, `MCFileServer`, `MCFileTransfer`,
`MCEnhancedThreads` and `MCPrograms` only give the constants their values.  In the modules, an
operator whose name has a suffix (`V_WakesNobody`, `Put_WithoutWrap`, ...) is not
part of the system: it is a slip that somebody could make in that operator, and
for each property one of them is known to break it.

The layers fit together by refinement: `LinkedKernel` implements `Kernel`, which
implements `Semaphores`; `Ports` is a program of `Kernel` and implements
`BoundedFifo`.  So the server is modelled on `Channels` and the readers and
writers on `Semaphores`, and neither carries the scheduler along.

Abstractions, where the code has more detail:

* a context switch is the change of `Curr_Thread`; stacks and contexts are not
  modelled, and a thread resumes at its next step;
* a message is what the receiver tells apart; a filename is its length, a piece
  of a file its number, the size of a file is counted in pieces, and clients
  name different files, which exist and can be opened;
* `FILENAME_DATA_LEN` and `MAX_FILENAME_LEN` have their real values, because the
  arithmetic of the name packets depends on them; `N`, `MAX_CLIENTS`,
  `MAX_FILESIZE` and `WAITING_QUEUE_LEN` are constants, small in the runs;
* `file_test_updates.c` is `file_test.c` with two globals more and three `break`s
  less: after `NOT_OK` a client falls through to `OK`, which does nothing, so that
  both are the same program and one model; the line numbers in PROJECT.json's map
  are those of `file_test_updates.c`, line numbers in comments and in this text
  those of `file_test.c`;
* `x` of `Race` counts from 0, as in `race-p.c`; in `race-c.c` it starts at 1;
* the contents that `Server` reads beyond the end of a message whose length
  field is too large are not modelled, only the length is.

## 3. Runs

Every run but the last three passes.

| run | instance | question |
|---|---|---|
| `Kernel` | 5 threads, 2 semaphores with counts 1 and 0, `V` up to 3 | Is every TCB in one place (`OnePlace`), does the count tell the length of the queue (`CountMatchesWaiters`), does the process die only in a deadlock of all threads (`DiesOnlyWhenAllBlocked`), is the ready queue served in order, with a thread that gives the processor away behind all others and behind the one that its `V` woke (`ReadyInOrder`), are these semaphores (`ImplementsSemaphores`), and does every ready thread run (`ReadyRuns`)? |
| `LinkedKernel` | 5 items, 2 semaphores | Are the lists rings with right `prev` links (`Rings`), and do they behave as the sequences of `Kernel` (`ImplementsKernel`)? |
| `Ports` | 3 threads, a port of 2 slots, 2 messages, either strategy | Does the ring or the shifted buffer hold the messages in transit (`RingHoldsChannel`, `BufferHoldsChannel`), has every message and free slot its token (`TokensAccounted`), is the port a FIFO channel (`ImplementsChannels`), is it a program of `Kernel` (`UsesKernel`), do blocked threads get on (`BlockedGetOn`)? |
| `AnyClients` | 3 clients, 1 entry, 1 place to wait | Clients that send anything, in any order: is a waiting client owed exactly one answer (`OneAnswerEach`), is no revival lost (`NoLostRevival`)? |
| `FileTransfer` | 3 clients, 2 entries; names of 5, 6, 11, 14 and 20 characters; up to 3 pieces, of which 2 fit | The program's own clients, good and mishandled names mixed: has a name that the server takes for complete arrived whole, unless it is over the limit and its client was told `NOT_OK` (`NamesWholeOrRefused`), has the file of a client without an error (`FilesArriveWhole`), is there one entry for each (`OneSlotEach`), and are entries left alone (`EntriesArePrivate`)? |
| `FileTransferLiveness` | 4 clients, 1 entry, 2 places to wait; one name of 16 characters, which is refused, and names of 5 | Does every upload end although two clients wait and another finds the waiting queue full and starts again after `WAIT_Q_FULL` (`EveryoneFinishes`), and are those that wait revived in order (`RevivedInOrder`)? |
| `EnhancedThreads` | 4 threads, 2 calls of `run`, 1 semaphore | `CountsLiveThreads`, `EveryoneAccounted`, `CleanupRunsNext`. |
| `ReadersWriters` | 2 readers, 2 writers, the semaphores of either project | Are writers in alone (`Exclusion`), is there one baton (`OneBaton`), are the counters exact (`CountersExact`), does nobody wait behind an open door (`NobodyForgotten`), and does neither side starve the other, and with Project 3's queues no thread (`NobodyStarves`)? |
| `Programs` | 4 children and `main()`; a ring of 2 slots; a buffer of 4; orders of 0, 2, 6 items and without end; 3 increments | One program at a time: does the barrier hold everybody and let everybody go (`NobodyPassesEarly`, `EveryonePasses`), do items arrive once and in order, for ever (`ItemsInOrder`, `ItemsFlow`), is a printed array that of a whole round (`OncePerRound`), do buffer, pointer and tokens agree (`BufferExact`), how far does `count` leave the buffer in the monitor (`DamageBounded`), and what may the race print (`FinalValue`)? |
| `LeakedSlot` | names of 5 and 20 characters, 1 entry | Violated: what is sent of the long name after it was refused opens a new entry, which nobody frees, and the other client waits for ever (`EveryoneFinishes`). |
| `FullBuffer` | the programs of `Programs`, a buffer of 4 | Violated: the producer of Project 3 waits although a slot is left (`ProducerFillsBuffer`). |
| `MonitorReaders` | 2 readers, 2 writers | Violated: two writers are in together (`Exclusion`). |

The three violations are disagreements between the code and what its messages and
comments say; PROJECT.json quotes both sides.  Each was also seen on the compiled
program, with larger stacks and, for the one in the monitor, shorter sleeps.

* `LeakedSlot`: `ret`, which becomes -1 on an error, is tested as a truth value
  (`file_test.c` l. 129 and 186).  A client whose name was refused with its third packet
  sends the fourth all the same, and the server takes it for the first and last packet
  of a name: it gives it an entry and opens a file (the compiled program leaves a file
  `stopqr.server` for a name of 20 characters that ends in `opqrst`).  Then the
  client ends without an end of file, and the entry stays taken.  This is also why
  `NamesWholeOrRefused` has its exception.
* `FullBuffer`: in Project 3 `prod` starts at `BUFFER_LEN - 1`, so that the producer
  stops at nine items where the comment and the printed example have ten.  (It comes
  to that only if the consumer takes nothing meanwhile: each `V` yields.)
* `MonitorReaders`: a thread that entered between a signal and the return of the wait
  is not noticed.

Four more things that the code does, without a run of their own:

* `data.arr[3]` serves as the count sent before and as the length of the packet
  (`file_test.c` l. 139), so that the third packet of a name carries a length that is
  too large, and a name of 13 to 15 characters is turned down with the message
  "Filename length exceeds MAX_FILENAME_LEN" (l. 309) although the limit is 15.  That
  every third packet is refused is part of the proof of `NamesWholeOrRefused`;
* packets-left is not rounded down for names whose length is a multiple of six
  (`file_test.c` l. 131), and the server never completes such a name;
* `cleanup()`, when the thread that returns was alone in the queue, follows a link
  to that very thread and dispatches it again; `EnhancedThreads` with
  `MinReady = 1` violates `CleanupRunsNext`;
* the last thread at the barrier calls `V` once for itself too and leaves
  `actual_count` at -1, so that the barrier can be used once only.

Bounds.  Five threads make queues of four in every arrangement of ready queue and
two semaphores, so that items leave the middle, the end and the single-item form
of a ring; `MaxCount` only stops `V` from counting up for ever.  Two slots make a
port empty, half full and full, with `in` and `out` wrapping, and three threads
contend on both sides of it.  With one entry and one place to wait, three clients
meet every outcome: accepted, queued, sent away.  (`WAITING_QUEUE_LEN` is one more than
the places, since the ring queue keeps one free.)  For the liveness there are two places
and a fourth client, so that two of them wait at once, there is an order to keep, and
the last is sent away; the client with a refused name is any one of the four, since
nothing tells them apart.  Two entries show that clients
do not touch each other's.  One port is enough
because ports share nothing but, in Strategy 1, the mutex; with two ports it would be
contended more often and not differently.  Names of 5, 6, 11, 14, 16 and 20 characters are one
packet, an exact multiple, two packets, a wrongly refused name, a name too long in
its third packet and one too long with a packet to spare.  Three pieces with a limit
of two make an upload that exceeds the limit.  In `Programs`, four children are two
producers and two consumers, or three of one kind, and one more than `proj-1.c`
has; orders beyond the size of the buffer block in the middle.  Three increments are
enough for the least final value, 2, to differ from that of an increment lost now and
then.  `Wrap` keeps item
numbers and array elements finite; it exceeds what can be in the ring.

Deadlock.  `Kernel`, `LinkedKernel`, `Ports` and `EnhancedThreads` stop by nature
(a process whose threads are all blocked dies, and `main()` may return), so
deadlock is not checked there; `DiesOnlyWhenAllBlocked` says when.  It is checked
for the server, the transfer, the readers and writers and the example programs
(`Spin` is `main()`'s empty loop behind the barrier, `Ended` the end of the race).

Fairness.
* `Kernel` and `Ports`: `WF(Next)`: the running thread goes on making calls.
  Nothing else is assumed, and the round-robin order does the rest.
* `FileTransfer`: weak fairness for the server and for a client that can receive,
  which `ReadyRuns` justifies.  Strong fairness for a client that sends: other
  clients may fill the server's port again and again while it waits for room, and
  the semaphore `ps` is first-come, first-served (`ImplementsSemaphores`), so that it
  gets its turn.
* `ReadersWriters` and `Programs`: weak fairness of every thread.  For the pthread
  programs this asks only that the system runs a thread that can go on; who gets a
  mutex or a signal is left open: with Project 1's semaphores a reader or a writer may
  be passed over for ever, and `NobodyStarves` then only says that its side gets in.

What a run assumes: in `Ports`, that a program that includes `msgs1.h` creates the
global mutex with `CreateSem(1)`, which no file does; in `EnhancedThreads`, that two threads at least are ready when
`main()` calls `run()` and that `main()` never blocks on a semaphore, as in
`thread_test.c`.  In `Programs`, that no thread wakes without a signal: POSIX allows
it, and `P` would let the thread through.

## 4. Proofs

Every theorem is of the form "every behaviour of the specification satisfies the
property", for every value of the constants; TLC checks the same property on the
run of section 3.  The pattern is always the same: an inductive invariant, one
lemma for each action that says the invariant survives it, and then each property
from the invariant.  TLC agrees on the instances of the runs, where the inductive
invariants hold in every reachable state.

**`KernelProofs`**, for every finite or infinite set of threads and of semaphores
and for every initial count:

* `KernelTypeOK`, `KernelOnePlace`, `KernelCountMatchesWaiters`: the three
  invariants.  Their conjunction `Inv` is inductive and none of the last two is on
  its own: `V` dequeues without a test, and only `CountMatchesWaiters` shows that
  somebody is there; that the thread it puts into the ready queue is not yet there
  follows from `OnePlace`; and for both the queues have to be sequences of threads.
* `KernelDiesOnlyWhenAllBlocked` and `KernelReadyInOrder`: action properties, from
  `Inv` in the state before the step.  That a caller which is ready afterwards is
  the last needs `Inv` too: a `P` that blocks must leave it out of the ready queue, and a
  `V` that wakes must find a thread to wake.
* `KernelImplementsSemaphores`: the refinement.  A `P` is an `Acquire` or a `Wait`, a
  `V` a `Release` or a `Grant`, by the sign of the count before the step, and
  everything else stutters.  `CountMatchesWaiters` is what makes the two agree.

**`LinkedKernelProofs`**, for every finite set of items and every set of semaphores:

* `LinkedRings` and `LinkedImplementsKernel`: the pointers of `q.h` are always rings,
  and the scheduler and the semaphores on them implement `Kernel`, so that all of
  `KernelProofs` holds of the program's linked lists.
* The invariant `IInv` says that the lists hold the sequences (`Holds`: every queue is
  a ring of different items, and no item is in two), that the running thread has been
  linked before, and that the sequences satisfy `Inv` of `KernelProofs`.  The two
  levels need each other: `AddQueue` is right only for an item that is in no ring, which
  `OnePlace` says of the sequences; `OnePlace` says it of the lists only as long as they
  hold those sequences.  And `start_thread` may take an item whose `next` is NULL for a
  new one only because an item never loses its links again (`Linked`).
* `ContentsOfRing`: the walk of `PrintQueue`, a recursive function, goes round the ring
  whatever links the other items have.  Induction over the steps of the walk is a
  least counterexample here (`LeastNatural` of `DataFacts`): the least step at which the
  walk leaves the ring follows one at which it does not.
* `HoldsAdd` and `HoldsDel`: what `AddQueue` and `DelQueue` make of all the queues, link
  by link, with the single-item ring as a case of its own.

**`EnhancedThreadsProofs`**, for every finite set of threads and of calls of `run`,
every set of semaphores, and every program whose `main()` starts two threads before
each `run` and never waits for a semaphore, as `main()` in `thread_test.c`
(`MainStaysReady`, a hypothesis of the three theorems):

* `EnhancedCountsLiveThreads`, `EnhancedEveryoneAccounted` and
  `EnhancedCleanupRunsNext`.  The lists are those of `LinkedKernelProofs`, instantiated,
  with one thing more to know of `AddQueue` and `DelQueue`: which links they leave
  alone (`StaleAfterAdd`, `StaleAfterDel`), because `cleanup()` follows a link of an
  item that is in no queue.
* The invariant has to say where that link leads: to the head of the ready queue
  (`LinkToNext`).  It stays right because new items go to the end of a ready queue
  that is not empty, and it is not empty because `main()` is in it whenever a thread
  runs (`Placed`).  That is where the hypothesis comes in: without it a thread may be
  alone when it returns, and `cleanup()` dispatches it again (section 3).
* `SomebodyRuns`: such a program never switches on an empty ready queue, so that
  it does not die.

**`PortsProofs`**, for every capacity `N`, every set of ports and of messages and
every finite set of threads, in both strategies:

* `PortsUseKernel`: the senders and receivers make only the calls that `Kernel` has,
  so that what is proved of the kernel holds under them (`Sched!Inv`).
* `PortsTokensAccounted`.  The property is not inductive: it counts threads by where
  they are in `Send` and `Receive`, and a `V` moves another thread, the first of a
  queue.  `BlockedWhere` says that a thread in the queue of a port's semaphore is in
  the call that waits for it and at that port, and `OnePlace` that it is in no other
  queue.  `MutexAccounted`, the same bookkeeping for the mutex, shows that a port
  has one thread inside at most.
* `PortsRingHoldsChannel` and `PortsBufferHoldsChannel`: the buffer is never full
  when a thread puts nor empty when one takes, by `TokensAccounted`; the rest is
  arithmetic modulo `N` (`DataFacts`: appending at `in`, removing at `out`).
* `PortsImplementChannels`: the refinement to `BoundedFifo`; a step that puts is its
  `Send`, a step that takes its `Receive`, everything else stutters.

**`FileTransferProofs`, part 1**: `FileServer`, for every finite set of clients that
send anything, every number of entries, every length of the waiting queue and every
file size:

* `FileServerTypes`, `FileServerOneAnswerEach`, `FileServerOneSlotEach`,
  `FileServerNoLostRevival`.  The four need each other, and four facts more: what
  the server may be about to send, a `FULL` only while all entries are taken
  (`ServerSays`); that a revived client owns no entry yet (`RevivedOwnNothing`), or it would be counted
  for two; that `revived` is reset by the next reply (`FullNotRevived`); that the
  places of the ring between `inQ` and `outQ` hold clients (`ClientsWait`).
  `NoLostRevival` needs the counting: of the entries of `clientList` those that are
  free are as many as the revived clients while somebody waits.
* `FileServerRevivedInOrder` and `FileServerEntriesArePrivate`: action properties.
* Lemmas on the way: what `find_client` returns (`FindClient`), and what `pushQ`
  and `popQ` do to the ring with the C code's full and empty tests.

**`FileTransferProofs`, part 2**: `FileTransfer`, for files with names and contents of
any length:

* `FileTransferUsesFileServer`: the clients of `file_test.c` are clients as
  `FileServer` means them, so that all the theorems above hold of the program.
* `FileTransferNamesWholeOrRefused` and `FileTransferFilesArriveWhole`.  The invariant
  `TransferInv` relates, for every client, the loop it is in and its counters
  (`Loops`), the request in the server's port and the reply in its own
  (`RequestsExpected`, `Progress`), and what the server has of it (`Has`).  It shows
  what the reuse of `data.arr[3]` comes to: as long as no error has been met, the
  first packet sets it to the true count and the second is sent with the right
  length for that reason only (`Packets`); the third goes out with a length that is
  too large, and whatever the name, the server refuses it.  So a name of more than
  twelve characters never arrives.  Nothing is refused before the third packet, because
  the packets arrive in order and the first two are within the limit; so a name of
  fifteen characters or less is refused with its last packet, and a client that has more
  to send after an error (`GivesUp`) has a name over the limit.  That is the exception
  in the first theorem, and `LeakedSlot` passes through a state that needs it.

**`ReadersWritersProofs`**, for every finite number of readers and of writers, and
for either kind of semaphore:

* `ReadersWritersCountersExact`, `ReadersWritersOneBaton`, `ReadersWritersExclusion`,
  `ReadersWritersNobodyForgotten`.  `OneBaton` says how many tokens there are; the
  induction needs to know where (`Baton`), and what each of the three semaphores may
  take for granted when it is passed the baton (`Doors`): that no writer is in for
  `r_sem`, that nobody is for `w_sem`, and for `mutex` that nobody waits behind an
  open door.  `V(r_sem)` and `V(w_sem)` name the next holder only by the queue, so
  that the invariant has to say which code a thread in a queue continues with
  (`Places`).

**`ProgramsProofs`**, for every finite set of threads, every size of ring, buffer and
order, and every number of increments.  Only one program runs (`StepMoves`: a thread
stays at the points of its own), so that each of the six has an invariant to itself:

* `BarrierNobodyPassesEarly`.  As long as nobody is released, `actual_count` counts the
  threads that are past the test, and all of those wait (`Closed`).  The thread that
  finds all the others there is the last, and from its first `V` on nobody is
  before the test any more (`Opened`), so that it does not matter that `actual_count`
  is wrong afterwards.
* `RaceFinalValue`.  `x` is at most the number of stores, and what a thread has loaded
  at most the number there were.  That 1 is not the result of two whole loops takes
  more: a thread that has stored once loads at least 1 from then on, so that `x` is 1
  only because of some thread's first store (`RaceInv`), and each makes two at least.
* `MonitorDamageBounded`.  A producer that a signal has taken from the queue but that
  has not run yet counts as if its item were in the buffer, and a consumer as if its
  item were gone (`NotTooMany`, `NotTooFew`).  Only a producer that looks at `count`
  adds to that sum, and it is not among those that were called.
* `ProducerConsumerBufferExact`.  With one thread on each semaphore, it waits exactly
  while the count is -1 (`Alone`), and the counts tell the room that `FillFacts` and
  `DrainFacts` need.  Project 2 has no semaphores: there, `Part` keeps the pointer in.
* `RoundsOncePerRound`.  The mutex keeps everybody else out between a test and the
  update that follows it (`Exclusion`: the count and the threads that hold a token,
  `HasToken`, add up to one).  Outside a round either
  every child is done or none has begun (`RoundsInv`), and an element is one ahead of
  what was printed last exactly from its child's increment to the next printing.
* `ProdConsItemsInOrder`.  A producer holds a token of `empty` until its item is in the
  ring, a consumer one of `full` until its item is out (`RingTokens`), so that neither
  room nor items run out (`RoomAndItems`).  What is in the ring is then consecutive
  items, beginning with the one that is expected next (`RingHolds`, `Inserted`), and
  the numbers of items wrap late enough to keep them apart.

Assumptions.  `Main` and `NULL` are no threads and differ; `Ready` is no semaphore;
semaphores start at natural numbers; items are finitely many, so that the walk along
a list has a bound; `N`, `MAX_CLIENTS` and `WAITING_QUEUE_LEN` are positive; threads,
clients, readers, writers and children are finitely many, because the properties count
them; `BUFFER_LEN`, the ring of `prod_cons_s.c` and the number of increments are at least 2; the sets of lengths, packets-left and pieces that bound what a request may
hold are large enough for the files that are uploaded (`TransferAssumption`).

Every invariant and every action property of the runs that pass is a theorem above.
Only model-checked are the liveness properties, since fairness and ENABLED are beyond
the prover, and with them that no client is forgotten, beyond what `OneAnswerEach` and
`NoLostRevival` say of each state.

## 5. Not modelled

* `proj_alt.c`: an unfinished version of `proj-1.c` whose threads wait for each other
  by spinning on plain variables.  Whether a thread ever sees a change is up to the
  compiler, so that there is no program to model.
* Spurious wake-ups of a condition variable.
* Progress of `proj-1.c`: `main()` and the children take a mutex in busy loops, and
  neither the mutex nor the condition variable promises anybody a turn.
* A second use of the barrier, which no program makes.
* The demonstrations `thread_test.c` and `lock_test.c` of Project 1, which call
  pthread functions and print; `getPortVal` and what else only prints.
* The size of stacks, `malloc` failing, files that do not exist, two clients that
  upload the same name, the characters that the server copies when a length field is
  too large, and what the C library does.

## 6. Plan

1. (done) `Threads`, `Sem`, `Kernel`, `Queue`, `LinkedKernel`, the proofs about
   `Kernel`.
2. (done) The ports in both strategies and the channels; the file server and its
   clients; `EnhancedThreads`; `ReadersWriters` for Projects 1 and 3.
3. (done) The example programs: `PthreadSem`, `Barrier`, `ProdCons`, `MonitorBuffer`,
   `Rounds`, `ProducerConsumer`, `Race`, `Programs`; `Monitor`, `MonitorReaders`.
4. (done) Proofs about `LinkedKernel`, `EnhancedThreads`, `Ports`, `FileServer`,
   `FileTransfer`, `ReadersWriters` and `Programs`.
5. (done) Proofs of `ItemsInOrder` and `OncePerRound`; liveness stays with TLC.
