------------------------------ MODULE PortCalls ------------------------------
(***************************************************************************)
(* What the two implementations of message ports share: Send and Receive   *)
(* are a P, a P, work on the buffer, a V and a V.  Strategy 1 (msgs1.h)    *)
(* keeps the oldest message in front and has one mutex for all the ports,  *)
(* Strategy 2 (msgs.h, used by Project 5) has a ring and a mutex for each. *)
(*                                                                         *)
(* Any program may run on them: main() starts the threads, and each of     *)
(* them sends and receives any message at any port, again and again.  A    *)
(* call of P or V ends a step, since the processor may change hands only   *)
(* there; a thread's pc names what it does when it next has the processor. *)
(***************************************************************************)
EXTENDS Sem, FiniteSets

CONSTANTS Port, N, Msg,
          NoMsg        \* what a slot or a Msg_t holds before its first use

cs(p) == <<"cs", p>>
ps(p) == <<"ps", p>>
own(p) == <<"mutex", p>>     \* Port_t.mutex of Strategy 2
all == <<"mutex">>           \* the global mutex, which Strategy 1 uses

(***************************************************************************)
(* initPort(): CreateSem(0), CreateSem(N) and CreateSem(1).  No file of    *)
(* the repository creates the global mutex; a program that includes        *)
(* msgs1.h has to, with CreateSem(1).  start_thread allocates every TCB,   *)
(* so that there are finitely many.                                        *)
(***************************************************************************)
ASSUME PortAssumption ==
  /\ N \in Nat \ {0}
  /\ IsFiniteSet(Thread)
  /\ NoMsg \notin Msg
  /\ Semaphore = ({"cs", "ps", "mutex"} \X Port) \cup {all}
  /\ InputValue[all] = 1
  /\ \A p \in Port : /\ InputValue[cs(p)] = 0
                     /\ InputValue[ps(p)] = N
                     /\ InputValue[own(p)] = 1

VARIABLES strategy,          \* which of the two files is included
          buffer,            \* of every port
          pc,                \* of every thread
          at, msg,           \* its arguments to Send and Receive
          got,               \* the message it received last
          chan               \* history: what was put and not taken yet

callVars == <<semVars, strategy, buffer, pc, at, msg, got, chan>>

mutex(p) == IF strategy = 1 THEN all ELSE own(p)

CallsInit == /\ SemInit
             /\ strategy \in {1, 2}
             /\ buffer = [p \in Port |-> [i \in 0..(N - 1) |-> NoMsg]]
             /\ pc = [t \in Thread |-> "idle"]
             /\ at = [t \in Thread |-> NULL]
             /\ msg = [t \in Thread |-> NoMsg]
             /\ got = [t \in Thread |-> NoMsg]
             /\ chan = [p \in Port |-> <<>>]

\* The running thread is about to return from its call.
Return == /\ at' = [at EXCEPT ![Curr_Thread] = NULL]
          /\ msg' = [msg EXCEPT ![Curr_Thread] = NoMsg]

\* The running thread goes from one point of its call to another.
Goto(from, to) == /\ Curr_Thread \in Thread
                  /\ pc[Curr_Thread] = from
                  /\ pc' = [pc EXCEPT ![Curr_Thread] = to]
                  /\ UNCHANGED strategy

NoWork == UNCHANGED <<buffer, chan, got>>

Start(t) == /\ Curr_Thread = Main
            /\ t \notin Started
            /\ start_thread(t)
            /\ UNCHANGED <<count, TCB_Q, strategy, pc, at, msg>> /\ NoWork

Run == run /\ UNCHANGED <<count, TCB_Q, strategy, pc, at, msg>> /\ NoWork

(***************************************************************************)
(* Send(): P(ps), P(mutex), the work on the buffer, V(mutex), V(cs).       *)
(* Before an action stand the slips in it that the invariants would catch. *)
(***************************************************************************)
Send_WithoutP(p, m) == /\ Goto("idle", "lock to put")
                       /\ at' = [at EXCEPT ![Curr_Thread] = p]
                       /\ msg' = [msg EXCEPT ![Curr_Thread] = m]
                       /\ UNCHANGED semVars /\ NoWork

Send(p, m) == /\ Goto("idle", "lock to put")
              /\ at' = [at EXCEPT ![Curr_Thread] = p]
              /\ msg' = [msg EXCEPT ![Curr_Thread] = m]
              /\ P(ps(p))
              /\ NoWork

LockToPut == /\ Goto("lock to put", "put")
             /\ P(mutex(at[Curr_Thread]))
             /\ UNCHANGED <<at, msg>> /\ NoWork

\* The work of Send is done: the slots of port p become slots.
PutInto(p, slots) == /\ Goto("put", "tell")
                     /\ p = at[Curr_Thread]
                     /\ buffer' = [buffer EXCEPT ![p] = slots]
                     /\ chan' = [chan EXCEPT ![p] = Append(@, msg[Curr_Thread])]
                     /\ V(mutex(p))
                     /\ UNCHANGED <<at, msg, got>>

Tell == /\ Goto("tell", "idle")
        /\ V(cs(at[Curr_Thread]))
        /\ Return
        /\ NoWork

(***************************************************************************)
(* Receive(): P(cs), P(mutex), the work on the buffer, V(mutex), V(ps).    *)
(***************************************************************************)
Receive(p) == /\ Goto("idle", "lock to take")
              /\ at' = [at EXCEPT ![Curr_Thread] = p]
              /\ P(cs(p))
              /\ UNCHANGED msg /\ NoWork

LockToTake == /\ Goto("lock to take", "take")
              /\ P(mutex(at[Curr_Thread]))
              /\ UNCHANGED <<at, msg>> /\ NoWork

\* The work of Receive is done: m was taken from port p, whose slots become slots.
TakeFrom(p, m, slots) == /\ Goto("take", "free")
                         /\ p = at[Curr_Thread]
                         /\ got' = [got EXCEPT ![Curr_Thread] = m]
                         /\ buffer' = [buffer EXCEPT ![p] = slots]
                         /\ chan' = [chan EXCEPT ![p] = Tail(@)]
                         /\ V(mutex(p))
                         /\ UNCHANGED <<at, msg>>

Free_WrongSemaphore == /\ Goto("free", "idle")
                       /\ V(cs(at[Curr_Thread]))
                       /\ Return
                       /\ NoWork

Free_WithoutV == /\ Goto("free", "idle")
                 /\ Return
                 /\ UNCHANGED semVars /\ NoWork

Free == /\ Goto("free", "idle")
        /\ V(ps(at[Curr_Thread]))
        /\ Return
        /\ NoWork

\* Any program: Client of msgs_test.c sends and receives, Server the other way round.
Call == \/ \E t \in Thread : Start(t)
        \/ Run
        \/ \E p \in Port, m \in Msg : Send(p, m)
        \/ LockToPut \/ Tell
        \/ \E p \in Port : Receive(p)
        \/ LockToTake \/ Free
-----------------------------------------------------------------------------
(***************************************************************************)
(* No wake-up is lost: a message in the channel is either a token of cs,   *)
(* or was taken a token for by a receiver that has not taken it yet, or is *)
(* about to be told by its sender; and a free slot likewise for ps.  (A    *)
(* blocked thread has taken its token in advance: the count is negative.)  *)
(***************************************************************************)
Doing(p, points) == Cardinality({t \in Thread : at[t] = p /\ pc[t] \in points})
TokensAccounted ==
  \A p \in Port :
    /\ Len(chan[p]) = count[cs(p)] + Doing(p, {"lock to take", "take"})
                                   + Doing(p, {"tell"})
    /\ N - Len(chan[p]) = count[ps(p)] + Doing(p, {"lock to put", "put"})
                                       + Doing(p, {"free"})

(***************************************************************************)
(* The ports implement the channels: what a thread receives is the oldest  *)
(* message of the port.                                                    *)
(***************************************************************************)
Fifo == INSTANCE BoundedFifo
ImplementsChannels == Fifo!Spec

(***************************************************************************)
(* The ports use the kernel as any program may, and never raise a count    *)
(* above N: what is proved of Kernel holds here.                           *)
(***************************************************************************)
AnyProgram == INSTANCE Kernel WITH MaxCount <- N
UsesKernel == AnyProgram!Spec

(***************************************************************************)
(* A thread that is blocked in Receive while there are messages, or in     *)
(* Send while there is room, gets on or the port changes to empty or full. *)
(***************************************************************************)
BlockedGetOn ==
  \A t \in Thread, p \in Port :
    /\ t \in Blocked(cs(p)) /\ chan[p] # <<>>
         ~> t \notin Blocked(cs(p)) \/ chan[p] = <<>>
    /\ t \in Blocked(ps(p)) /\ Len(chan[p]) < N
         ~> t \notin Blocked(ps(p)) \/ Len(chan[p]) = N
=============================================================================
