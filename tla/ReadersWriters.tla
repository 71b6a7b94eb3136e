--------------------------- MODULE ReadersWriters ---------------------------
(***************************************************************************)
(* The readers and writers of Projects 1 and 3: read_write_s.c, which is   *)
(* the same code on pthread semaphores and, with Submission/read_write.c,  *)
(* on those that Kernel is proved to implement.  The mutex is a baton:     *)
(* whoever leaves a section of code either gives it back with V(mutex), or *)
(* hands it on with V(r_sem) or V(w_sem) to a thread that waits, which     *)
(* then goes on without P(mutex).                                          *)
(*                                                                         *)
(* A step ends in one call of P or V.  Threads take their steps in any     *)
(* order, which includes what the round-robin scheduler does.  A thread    *)
(* that waits in P has the pc it is going to have when P returns.          *)
(***************************************************************************)
EXTENDS Integers, FiniteSets, SequencesExt

CONSTANTS Reader, Writer

ASSUME ThreadAssumption == /\ Reader \cap Writer = {}
                           /\ IsFiniteSet(Reader \cup Writer)

Thread == Reader \cup Writer
Semaphore == {"mutex", "r_sem", "w_sem"}

\* main(): CreateSem(1), CreateSem(0) and CreateSem(0).
InputValue == [s \in Semaphore |-> IF s = "mutex" THEN 1 ELSE 0]

VARIABLES project,              \* 1 or 3: whose semaphores they are
          available, waiting,   \* of the semaphores
          pc,
          rwc, wwc,             \* readers and writers that wait
          rc, wc                \* readers and writers that are in

counters == <<rwc, wwc, rc, wc>>
vars == <<project, available, waiting, pc, counters>>

Counting == INSTANCE Semaphores

Init == /\ project \in {1, 3}
        /\ Counting!Init
        /\ pc = [t \in Thread |-> "start"]
        /\ rwc = 0 /\ wwc = 0 /\ rc = 0 /\ wc = 0

\* Project 1's V signals a condition variable, which wakes any thread.
GrantAny(s) == /\ \E i \in DOMAIN waiting[s] :
                    waiting' = [waiting EXCEPT ![s] = RemoveAt(@, i)]
               /\ UNCHANGED available

P(t, s) == Counting!Acquire(s) \/ Counting!Wait(t, s)
V(s) == \/ Counting!Release(s)
        \/ project = 3 /\ Counting!Grant(s)
        \/ project = 1 /\ GrantAny(s)

\* Thread t goes from one point of its program to another.
Goto(t, from, to) == /\ t \notin Counting!Waiters
                     /\ pc[t] = from
                     /\ pc' = [pc EXCEPT ![t] = to]
                     /\ UNCHANGED project

(***************************************************************************)
(* reader() and writer(): an ID from global_ID, then round and round.      *)
(***************************************************************************)
TakeId(t) == \/ Goto(t, "start", "id") /\ P(t, "mutex") /\ UNCHANGED counters
             \/ Goto(t, "id", "outside") /\ V("mutex") /\ UNCHANGED counters

\* A reader gets in; if n readers still wait, it takes one of them along.
GetIn(n) == /\ rwc' = n
            /\ rc' = rc + 1
            /\ \/ n > 0 /\ V("r_sem")
               \/ n <= 0 /\ V("mutex")
            /\ UNCHANGED <<wwc, wc>>

\* A slip in reader_entry: a waiting reader that gets in is still counted.
reader_entry_StillWaits(t) ==
  \/ Goto(t, "outside", "reader entry") /\ P(t, "mutex") /\ UNCHANGED counters
  \/ /\ wwc > 0 \/ wc > 0
     /\ Goto(t, "reader entry", "reader blocks")
     /\ rwc' = rwc + 1
     /\ V("mutex")
     /\ UNCHANGED <<wwc, rc, wc>>
  \/ /\ wwc = 0 /\ wc = 0
     /\ Goto(t, "reader entry", "reading")
     /\ GetIn(rwc)
  \/ Goto(t, "reader blocks", "reader woken") /\ P(t, "r_sem") /\ UNCHANGED counters
  \/ /\ Goto(t, "reader woken", "reading")
     /\ GetIn(rwc)

\* A slip in reader_entry: waiting writers are not looked at.
reader_entry_Overtakes(t) ==
  \/ Goto(t, "outside", "reader entry") /\ P(t, "mutex") /\ UNCHANGED counters
  \/ /\ wc > 0
     /\ Goto(t, "reader entry", "reader blocks")
     /\ rwc' = rwc + 1
     /\ V("mutex")
     /\ UNCHANGED <<wwc, rc, wc>>
  \/ /\ wc = 0
     /\ Goto(t, "reader entry", "reading")
     /\ GetIn(rwc)
  \/ Goto(t, "reader blocks", "reader woken") /\ P(t, "r_sem") /\ UNCHANGED counters
  \/ /\ Goto(t, "reader woken", "reading")
     /\ GetIn(rwc - 1)

reader_entry(t) ==
  \/ Goto(t, "outside", "reader entry") /\ P(t, "mutex") /\ UNCHANGED counters
  \/ /\ wwc > 0 \/ wc > 0
     /\ Goto(t, "reader entry", "reader blocks")
     /\ rwc' = rwc + 1
     /\ V("mutex")
     /\ UNCHANGED <<wwc, rc, wc>>
  \/ /\ wwc = 0 /\ wc = 0
     /\ Goto(t, "reader entry", "reading")
     /\ GetIn(rwc)
  \/ Goto(t, "reader blocks", "reader woken") /\ P(t, "r_sem") /\ UNCHANGED counters
  \/ /\ Goto(t, "reader woken", "reading")
     /\ GetIn(rwc - 1)

\* A slip in reader_exit: the writers are woken before the last reader is out.
reader_exit_WakesEarly(t) ==
  \/ Goto(t, "reading", "reader exit") /\ P(t, "mutex") /\ UNCHANGED counters
  \/ /\ Goto(t, "reader exit", "outside")
     /\ rc' = rc - 1
     /\ \/ wwc > 0 /\ V("w_sem")
        \/ wwc = 0 /\ V("mutex")
     /\ UNCHANGED <<rwc, wwc, wc>>

\* A slip in reader_exit: the last reader leaves the writers where they are.
reader_exit_WakesNobody(t) ==
  \/ Goto(t, "reading", "reader exit") /\ P(t, "mutex") /\ UNCHANGED counters
  \/ /\ Goto(t, "reader exit", "outside")
     /\ rc' = rc - 1
     /\ V("mutex")
     /\ UNCHANGED <<rwc, wwc, wc>>

reader_exit(t) ==
  \/ Goto(t, "reading", "reader exit") /\ P(t, "mutex") /\ UNCHANGED counters
  \/ /\ Goto(t, "reader exit", "outside")
     /\ rc' = rc - 1
     /\ \/ rc' = 0 /\ wwc > 0 /\ V("w_sem")
        \/ (rc' > 0 \/ wwc = 0) /\ V("mutex")
     /\ UNCHANGED <<rwc, wwc, wc>>

\* A slip in writer_entry: a woken writer takes the mutex, which it has.
writer_entry_Relocks(t) ==
  \/ Goto(t, "outside", "writer entry") /\ P(t, "mutex") /\ UNCHANGED counters
  \/ /\ rc > 0 \/ wc > 0
     /\ Goto(t, "writer entry", "writer blocks")
     /\ wwc' = wwc + 1
     /\ V("mutex")
     /\ UNCHANGED <<rwc, rc, wc>>
  \/ /\ rc = 0 /\ wc = 0
     /\ Goto(t, "writer entry", "writing")
     /\ wc' = wc + 1
     /\ V("mutex")
     /\ UNCHANGED <<rwc, wwc, rc>>
  \/ Goto(t, "writer blocks", "writer woken") /\ P(t, "w_sem") /\ UNCHANGED counters
  \/ /\ Goto(t, "writer woken", "writing")
     /\ wwc' = wwc - 1
     /\ wc' = wc + 1
     /\ P(t, "mutex")
     /\ UNCHANGED <<rwc, rc>>

writer_entry(t) ==
  \/ Goto(t, "outside", "writer entry") /\ P(t, "mutex") /\ UNCHANGED counters
  \/ /\ rc > 0 \/ wc > 0
     /\ Goto(t, "writer entry", "writer blocks")
     /\ wwc' = wwc + 1
     /\ V("mutex")
     /\ UNCHANGED <<rwc, rc, wc>>
  \/ /\ rc = 0 /\ wc = 0
     /\ Goto(t, "writer entry", "writing")
     /\ wc' = wc + 1
     /\ V("mutex")
     /\ UNCHANGED <<rwc, wwc, rc>>
  \/ Goto(t, "writer blocks", "writer woken") /\ P(t, "w_sem") /\ UNCHANGED counters
  \/ /\ Goto(t, "writer woken", "writing")
     /\ wwc' = wwc - 1
     /\ wc' = wc + 1
     /\ V("mutex")
     /\ UNCHANGED <<rwc, rc>>

writer_exit(t) ==
  \/ Goto(t, "writing", "writer exit") /\ P(t, "mutex") /\ UNCHANGED counters
  \/ /\ Goto(t, "writer exit", "outside")
     /\ wc' = wc - 1
     /\ \/ rwc > 0 /\ V("r_sem")
        \/ rwc = 0 /\ wwc > 0 /\ V("w_sem")
        \/ rwc = 0 /\ wwc = 0 /\ V("mutex")
     /\ UNCHANGED <<rwc, wwc, rc>>

ReaderStep(t) == TakeId(t) \/ reader_entry(t) \/ reader_exit(t)
WriterStep(t) == TakeId(t) \/ writer_entry(t) \/ writer_exit(t)

Next == \/ \E t \in Reader : ReaderStep(t)
        \/ \E t \in Writer : WriterStep(t)

Spec == Init /\ [][Next]_vars

\* Every thread that can go on does: the ready queue is round robin.
FairSpec == /\ Spec
            /\ \A t \in Reader : WF_vars(ReaderStep(t))
            /\ \A t \in Writer : WF_vars(WriterStep(t))
-----------------------------------------------------------------------------
At(points) == {t \in Thread : pc[t] \in points}

\* In a section of code that is entered with the baton, P having returned.
Holds(t) == /\ t \notin Counting!Waiters
            /\ pc[t] \in {"id", "reader entry", "reader woken", "reader exit",
                          "writer entry", "writer woken", "writer exit"}

(***************************************************************************)
(* A writer is in alone.  A reader or a writer is in from the V at the end *)
(* of its entry up to the P of its exit and the change of the counter.     *)
(***************************************************************************)
Exclusion == LET readers == At({"reading", "reader exit"})
                 writers == At({"writing", "writer exit"})
             IN \/ writers = {}
                \/ Cardinality(writers) = 1 /\ readers = {}

(***************************************************************************)
(* There is one baton: a token of one of the three semaphores, or a thread *)
(* in a section of code, never two of them and never none.                 *)
(***************************************************************************)
OneBaton == available["mutex"] + available["r_sem"] + available["w_sem"]
              + Cardinality({t \in Thread : Holds(t)}) = 1

(***************************************************************************)
(* The counters tell who waits and who is in, and nobody waits behind an   *)
(* open door: while the baton is free, a waiting reader has a writer in    *)
(* front of it, and a waiting writer has somebody who is in.               *)
(***************************************************************************)
CountersExact ==
  /\ rwc = Cardinality(At({"reader blocks", "reader woken"}))
  /\ wwc = Cardinality(At({"writer blocks", "writer woken"}))
  /\ rc = Cardinality(At({"reading", "reader exit"}))
  /\ wc = Cardinality(At({"writing", "writer exit"}))
NobodyForgotten ==
  available["mutex"] = 1 => /\ rwc > 0 => wc > 0 \/ wwc > 0
                            /\ wwc > 0 => rc > 0 \/ wc > 0

(***************************************************************************)
(* A side that has been told to wait is let in: readers although writers   *)
(* go on coming, and writers although readers do.  With the queues of      *)
(* Project 3 every single thread gets in; with Project 1's condition       *)
(* variables a thread may be passed over for ever.                         *)
(***************************************************************************)
NobodyStarves ==
  /\ rwc > 0 ~> rc > 0
  /\ wwc > 0 ~> wc > 0
  /\ project = 3 => /\ \A t \in Reader : pc[t] = "outside" ~> pc[t] = "reading"
                    /\ \A t \in Writer : pc[t] = "outside" ~> pc[t] = "writing"
=============================================================================
