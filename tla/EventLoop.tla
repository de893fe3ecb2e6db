------------------------------ MODULE EventLoop ------------------------------
(***************************************************************************)
(* EventLoop of Reactor_http/source/server.hpp (571-676): one thread runs  *)
(* Start() - epoll_wait, the handlers of the active channels, RunAllTask - *)
(* and any other thread hands it tasks with RunInLoop, which pushes under  *)
(* _mutex and then writes to the eventfd to end a blocking epoll_wait.     *)
(*                                                                         *)
(* A push and a swap are each one critical section of _mutex, hence one    *)
(* step; the write to the eventfd is outside it, hence a step of its own.  *)
(***************************************************************************)
EXTENDS Naturals, Sequences, FiniteSets, SequenceTheorems, TLAPS

CONSTANTS Threads,    \* the threads other than the loop's
          MaxCalls    \* bound on the RunInLoop calls of each thread

ASSUME MaxCallsAssumption == MaxCalls \in Nat

VARIABLES pc,         \* where the loop is: "poll", "handle", "swap" or "run"
          actives,    \* the channels Poll returned
          tasks,      \* _tasks
          functor,    \* the batch RunAllTask swapped out and has not finished
          eventfd,    \* the counter of _event_fd
          timerfd,    \* whether the timerfd of the wheel has expired
          io,         \* whether a socket is ready
          calls,      \* RunInLoop calls each thread has made
          waking,     \* threads between the push and the eventfd write
          executed    \* history: the tasks executed, oldest first

vars == <<pc, actives, tasks, functor, eventfd, timerfd, io, calls, waking, executed>>

Channels == {"event", "timer", "socket"}

\* A task is named by the thread that handed it over and the number of the call.
Tasks == Threads \X (1 .. MaxCalls)

\* RunAllTask finishes the batch it has swapped out; the next swap would
\* overwrite what is left of it.
BatchInv == pc # "run" => functor = <<>>

(* The types, and no batch outside RunAllTask.                             *)
TypeOK ==
  /\ pc \in {"poll", "handle", "swap", "run"}
  /\ actives \subseteq Channels
  /\ tasks \in Seq(Tasks)
  /\ functor \in Seq(Tasks)
  /\ eventfd \in Nat
  /\ timerfd \in BOOLEAN
  /\ io \in BOOLEAN
  /\ calls \in [Threads -> 0 .. MaxCalls]
  /\ waking \subseteq Threads
  /\ executed \in Seq(Tasks)
  /\ BatchInv

Init ==
  /\ pc = "poll"
  /\ actives = {}
  /\ tasks = <<>>
  /\ functor = <<>>
  /\ eventfd = 0
  /\ timerfd = FALSE
  /\ io = FALSE
  /\ calls = [p \in Threads |-> 0]
  /\ waking = {}
  /\ executed = <<>>

-----------------------------------------------------------------------------
\* RunInLoop on another thread goes to QueueInLoop: push_back under _mutex.
QueueInLoop(p) ==
  /\ p \notin waking
  /\ calls[p] < MaxCalls
  /\ calls' = [calls EXCEPT ![p] = @ + 1]
  /\ tasks' = Append(tasks, <<p, calls[p] + 1>>)
  /\ waking' = waking \union {p}
  /\ UNCHANGED <<pc, actives, functor, eventfd, timerfd, io, executed>>

\* The value WeakUpdateFd writes: it is added to the eventfd's counter.
WakeValue == 0

WeakUpdateFd(p) ==
  /\ p \in waking
  /\ eventfd' = eventfd + WakeValue
  /\ waking' = waking \ {p}
  /\ UNCHANGED <<pc, actives, tasks, functor, timerfd, io, calls, executed>>

\* The kernel: the one-second timerfd expires; a socket becomes ready.
TimerExpires ==
  /\ ~timerfd
  /\ timerfd' = TRUE
  /\ UNCHANGED <<pc, actives, tasks, functor, eventfd, io, calls, waking, executed>>

SocketReady ==
  /\ ~io
  /\ io' = TRUE
  /\ UNCHANGED <<pc, actives, tasks, functor, eventfd, timerfd, calls, waking, executed>>

-----------------------------------------------------------------------------
Readable ==
  {c \in Channels : \/ c = "event" /\ eventfd > 0
                    \/ c = "timer" /\ timerfd
                    \/ c = "socket" /\ io}

\* epoll_wait with an infinite timeout: it returns when a channel is ready...
Poll ==
  /\ pc = "poll"
  /\ Readable # {}
  /\ actives' = Readable
  /\ pc' = "handle"
  /\ UNCHANGED <<tasks, functor, eventfd, timerfd, io, calls, waking, executed>>

\* ... or when a signal interrupts it, with nothing active.
PollInterrupted ==
  /\ pc = "poll"
  /\ actives' = {}
  /\ pc' = "handle"
  /\ UNCHANGED <<tasks, functor, eventfd, timerfd, io, calls, waking, executed>>

\* HandleEvent of one active channel: ReadEventFd and ReadTimerfd take the
\* whole counter, a socket's handler reads what there is.
HandleEvent(c) ==
  /\ pc = "handle"
  /\ c \in actives
  /\ actives' = actives \ {c}
  /\ eventfd' = IF c = "event" THEN 0 ELSE eventfd
  /\ timerfd' = (timerfd /\ c # "timer")
  /\ io' = (io /\ c # "socket")
  /\ UNCHANGED <<pc, tasks, functor, calls, waking, executed>>

\* Variant of HandledAll: back to epoll_wait without RunAllTask.
HandledAllSkips ==
  /\ pc = "handle"
  /\ actives = {}
  /\ pc' = "poll"
  /\ UNCHANGED <<actives, tasks, functor, eventfd, timerfd, io, calls, waking, executed>>

HandledAll ==
  /\ pc = "handle"
  /\ actives = {}
  /\ pc' = "swap"
  /\ UNCHANGED <<actives, tasks, functor, eventfd, timerfd, io, calls, waking, executed>>

\* Variant of Swap: the pool is copied, not swapped.
SwapCopies ==
  /\ pc = "swap"
  /\ functor' = tasks
  /\ pc' = "run"
  /\ UNCHANGED <<actives, tasks, eventfd, timerfd, io, calls, waking, executed>>

\* RunAllTask: swap under _mutex, then run the batch without the lock.
Swap ==
  /\ pc = "swap"
  /\ functor' = tasks
  /\ tasks' = <<>>
  /\ pc' = "run"
  /\ UNCHANGED <<actives, eventfd, timerfd, io, calls, waking, executed>>

\* Variant of RunTask: the batch is run from its end.
RunTaskLast ==
  /\ pc = "run"
  /\ functor # <<>>
  /\ executed' = Append(executed, functor[Len(functor)])
  /\ functor' = SubSeq(functor, 1, Len(functor) - 1)
  /\ UNCHANGED <<pc, actives, tasks, eventfd, timerfd, io, calls, waking>>

RunTask ==
  /\ pc = "run"
  /\ functor # <<>>
  /\ executed' = Append(executed, Head(functor))
  /\ functor' = Tail(functor)
  /\ UNCHANGED <<pc, actives, tasks, eventfd, timerfd, io, calls, waking>>

\* Variant of RanAll: the loop over the batch is left too early.
RanAllEarly ==
  /\ pc = "run"
  /\ Len(functor) <= 1
  /\ pc' = "poll"
  /\ UNCHANGED <<actives, tasks, functor, eventfd, timerfd, io, calls, waking, executed>>

RanAll ==
  /\ pc = "run"
  /\ functor = <<>>
  /\ pc' = "poll"
  /\ UNCHANGED <<actives, tasks, functor, eventfd, timerfd, io, calls, waking, executed>>

\* What the loop's thread does on its own; a signal is not its doing.
Turn ==
  \/ Poll
  \/ \E c \in Channels : HandleEvent(c)
  \/ HandledAll
  \/ Swap
  \/ RunTask
  \/ RanAll

Start == Turn \/ PollInterrupted

RunInLoop(p) == QueueInLoop(p) \/ WeakUpdateFd(p)

Next ==
  \/ Start
  \/ TimerExpires
  \/ SocketReady
  \/ \E p \in Threads : RunInLoop(p)

Spec == Init /\ [][Next]_vars

\* The scheduler runs the loop's thread, and the timerfd is periodic.  Neither
\* a signal nor a ready socket is promised.
FairSpec == Spec /\ WF_vars(Turn) /\ WF_vars(TimerExpires)

-----------------------------------------------------------------------------
\* All tasks of the loop, in the order in which they are executed.
Handed == executed \o functor \o tasks

(* Every task a thread handed over is exactly once in the pool, in the     *)
(* batch or executed, and the calls of one thread stay in order across the *)
(* swap of RunAllTask.                                                     *)
NoneLostOrReordered ==
  /\ \A p \in Threads : \A n \in 1 .. calls[p] : \E k \in DOMAIN Handed : Handed[k] = <<p, n>>
  /\ \A k \in DOMAIN Handed : Handed[k][2] <= calls[Handed[k][1]]
  /\ \A i, j \in DOMAIN Handed : i < j /\ Handed[i][1] = Handed[j][1] => Handed[i][2] < Handed[j][2]

\* The loop as a queue of tasks: what RunAllTask swapped out comes first.
Queue == INSTANCE TaskQueue WITH queue <- functor \o tasks

(* The swap of RunAllTask does not show: the loop implements the queue.    *)
ImplementsQueue == Queue!Spec

(* Every task handed over is executed in the end (RunAllTask).             *)
EveryTaskRuns ==
  \A t \in Tasks : t[2] <= calls[t[1]] ~> \E k \in DOMAIN executed : executed[k] = t

(* Comment at 575: the eventfd wakes an epoll_wait that would block.  When *)
(* the loop is about to wait and no thread is between its push and its     *)
(* write, a pending task has made the eventfd readable (WeakUpdateFd).     *)
(* It does not hold: README, section 6.                                    *)
PendingTaskWakes ==
  pc = "poll" /\ waking = {} /\ tasks # <<>> => "event" \in Readable

-----------------------------------------------------------------------------
(***************************************************************************)
(* For any number of threads and of calls: the loop executes what it is    *)
(* handed once each and in order, in spite of the swap of RunAllTask.      *)
(***************************************************************************)
(* The initial state.                                                      *)
LEMMA InvInit == Init => TypeOK
<1> SUFFICES ASSUME Init PROVE TypeOK
  OBVIOUS
<1>1. calls \in [Threads -> 0 .. MaxCalls]
  BY MaxCallsAssumption DEF Init
<1>2. timerfd \in BOOLEAN /\ io \in BOOLEAN
  BY DEF Init
<1>3. tasks \in Seq(Tasks) /\ functor \in Seq(Tasks) /\ executed \in Seq(Tasks)
  BY DEF Init
<1> QED
  BY <1>1, <1>2, <1>3 DEF Init, TypeOK, BatchInv

(* Every step keeps the types and an empty batch outside RunAllTask.       *)
LEMMA InvStep ==
  ASSUME TypeOK, [Next]_vars
  PROVE  TypeOK'
<1> USE MaxCallsAssumption DEF TypeOK, BatchInv
<1>1. CASE Poll
  BY <1>1 DEF Poll, Readable
<1>2. CASE PollInterrupted
  BY <1>2 DEF PollInterrupted
<1>3. ASSUME NEW c \in Channels, HandleEvent(c)
      PROVE  TypeOK'
  <2>1. timerfd' \in BOOLEAN /\ io' \in BOOLEAN
    BY <1>3 DEF HandleEvent
  <2>2. eventfd' \in Nat /\ actives' \subseteq Channels
    BY <1>3 DEF HandleEvent
  <2> QED
    BY <1>3, <2>1, <2>2 DEF HandleEvent
<1>4. CASE HandledAll
  BY <1>4 DEF HandledAll
<1>5. CASE Swap
  BY <1>5 DEF Swap
<1>6. CASE RunTask
  <2>1. Head(functor) \in Tasks /\ Tail(functor) \in Seq(Tasks)
    BY <1>6 DEF RunTask
  <2> QED
    BY <1>6, <2>1 DEF RunTask
<1>7. CASE RanAll
  BY <1>7 DEF RanAll
<1>8. CASE TimerExpires
  BY <1>8 DEF TimerExpires
<1>9. CASE SocketReady
  BY <1>9 DEF SocketReady
<1>10. ASSUME NEW p \in Threads, QueueInLoop(p)
       PROVE  TypeOK'
  <2>1. <<p, calls[p] + 1>> \in Tasks
    BY <1>10 DEF QueueInLoop, Tasks
  <2>2. tasks' \in Seq(Tasks)
    BY <1>10, <2>1 DEF QueueInLoop
  <2>3. calls' \in [Threads -> 0 .. MaxCalls]
    BY <1>10 DEF QueueInLoop
  <2> QED
    BY <1>10, <2>2, <2>3 DEF QueueInLoop
<1>11. ASSUME NEW p \in Threads, WeakUpdateFd(p)
       PROVE  TypeOK'
  BY <1>11 DEF WeakUpdateFd, WakeValue
<1>12. CASE UNCHANGED vars
  BY <1>12 DEF vars
<1> QED
  BY <1>1, <1>2, <1>3, <1>4, <1>5, <1>6, <1>7, <1>8, <1>9, <1>10, <1>11, <1>12
     DEF Next, Start, Turn, RunInLoop

(* The state of the loop is well typed in every reachable state.           *)
THEOREM LoopTypeCorrect == Spec => []TypeOK
<1> QED
  BY InvInit, InvStep, PTL DEF Spec

(* Seen from outside, every step of the loop or of a thread leaves the     *)
(* queue alone, appends to it, or executes its head.                       *)
LEMMA QueueStep ==
  ASSUME TypeOK, [Next]_vars
  PROVE  [Queue!Next]_(Queue!vars)
<1>1. CASE RunTask
  <2>1. functor \in Seq(Tasks) /\ tasks \in Seq(Tasks) /\ functor # <<>>
    BY <1>1 DEF RunTask, TypeOK
  <2>2. functor \o tasks # <<>>
    BY <2>1
  <2>3. Head(functor \o tasks) = Head(functor)
    BY <2>1
  <2>4. Tail(functor \o tasks) = Tail(functor) \o tasks
    BY <2>1, HeadTailProperties, ConcatProperties
  <2> QED
    BY <1>1, <2>2, <2>3, <2>4 DEF RunTask, Queue!Next, Queue!Execute
<1>2. CASE Swap
  <2>1. functor = <<>> /\ tasks \in Seq(Tasks)
    BY <1>2 DEF Swap, TypeOK, BatchInv
  <2>2. functor' \o tasks' = functor \o tasks
    BY <1>2, <2>1 DEF Swap
  <2> QED
    BY <1>2, <2>2 DEF Swap, Queue!vars
<1>3. ASSUME NEW p \in Threads, QueueInLoop(p)
      PROVE  Queue!Next
  <2>1. <<p, calls[p] + 1>> \in Tasks
    BY <1>3, MaxCallsAssumption DEF QueueInLoop, Tasks, TypeOK
  <2>2. functor \o Append(tasks, <<p, calls[p] + 1>>) = Append(functor \o tasks, <<p, calls[p] + 1>>)
    BY <2>1 DEF TypeOK
  <2> QED
    BY <1>3, <2>1, <2>2 DEF QueueInLoop, Queue!Next, Queue!Put
<1>4. ASSUME UNCHANGED <<functor, tasks, executed>>
      PROVE  UNCHANGED Queue!vars
  BY <1>4 DEF Queue!vars
<1> QED
  BY <1>1, <1>2, <1>3, <1>4 DEF Next, Start, Turn, RunInLoop, Poll, PollInterrupted, HandleEvent,
     HandledAll, RanAll, TimerExpires, SocketReady, WeakUpdateFd, vars

(* The loop implements the task queue: no interleaving of RunInLoop calls  *)
(* with the swap and the execution of a batch loses, repeats or reorders a *)
(* task (RunAllTask, QueueInLoop).                                         *)
THEOREM LoopImplementsQueue == Spec => ImplementsQueue
<1>1. Init => Queue!Init
  BY DEF Init, Queue!Init
<1> QED
  BY <1>1, InvInit, InvStep, QueueStep, PTL DEF Spec, ImplementsQueue, Queue!Spec

-----------------------------------------------------------------------------
(* A step appends to the sequence of all tasks the next call of a thread,  *)
(* or leaves it as it is: the swap and the execution only move the borders *)
(* within it.                                                              *)
LEMMA HandedStep ==
  ASSUME TypeOK, [Next]_vars
  PROVE  \/ Handed' = Handed /\ calls' = calls
         \/ \E p \in Threads : /\ calls' = [calls EXCEPT ![p] = @ + 1]
                               /\ Handed' = Append(Handed, <<p, calls[p] + 1>>)
<1> USE DEF Handed
<1>0. executed \in Seq(Tasks) /\ functor \in Seq(Tasks) /\ tasks \in Seq(Tasks)
  BY DEF TypeOK
<1>1. CASE RunTask
  <2>1. functor # <<>> /\ Head(functor) \in Tasks /\ Tail(functor) \in Seq(Tasks)
    BY <1>0, <1>1 DEF RunTask
  <2>2. Append(executed, Head(functor)) \o Tail(functor) = executed \o functor
    BY <1>0, <2>1
  <2> QED
    BY <1>1, <2>2 DEF RunTask
<1>2. CASE Swap
  <2>1. functor = <<>>
    BY <1>2 DEF Swap, TypeOK, BatchInv
  <2>2. executed \o functor = executed
    BY <1>0, <2>1
  <2>3. executed \o tasks \o <<>> = executed \o tasks
    BY <1>0
  <2> QED
    BY <1>2, <2>2, <2>3 DEF Swap
<1>3. ASSUME NEW p \in Threads, QueueInLoop(p)
      PROVE  /\ calls' = [calls EXCEPT ![p] = @ + 1]
             /\ Handed' = Append(Handed, <<p, calls[p] + 1>>)
  <2>1. <<p, calls[p] + 1>> \in Tasks
    BY <1>3, MaxCallsAssumption DEF QueueInLoop, Tasks, TypeOK
  <2>2. executed \o functor \in Seq(Tasks)
    BY <1>0
  <2>3. executed \o functor \o Append(tasks, <<p, calls[p] + 1>>)
          = Append(executed \o functor \o tasks, <<p, calls[p] + 1>>)
    BY <1>0, <2>1, <2>2
  <2> QED
    BY <1>3, <2>3 DEF QueueInLoop
<1>4. ASSUME UNCHANGED <<functor, tasks, executed, calls>>
      PROVE  Handed' = Handed /\ calls' = calls
  BY <1>4
<1> QED
  BY <1>1, <1>2, <1>3, <1>4 DEF Next, Start, Turn, RunInLoop, Poll, PollInterrupted, HandleEvent,
     HandledAll, RanAll, TimerExpires, SocketReady, WeakUpdateFd, vars, Swap, RunTask

(* Every call of every thread is in the sequence once, and the calls of    *)
(* one thread are there in order, for any number of threads (RunInLoop,    *)
(* RunAllTask).                                                            *)
THEOREM LoopKeepsEveryCall == Spec => []NoneLostOrReordered
<1>1. Init => NoneLostOrReordered
  <2> SUFFICES ASSUME Init PROVE NoneLostOrReordered
    OBVIOUS
  <2>1. Handed = <<>> /\ DOMAIN Handed = {}
    BY DEF Init, Handed
  <2>2. \A p \in Threads : calls[p] = 0
    BY DEF Init
  <2> QED
    BY <2>1, <2>2 DEF NoneLostOrReordered
<1>2. ASSUME TypeOK, NoneLostOrReordered, [Next]_vars
      PROVE  NoneLostOrReordered'
  <2>0. Handed \in Seq(Tasks) /\ calls \in [Threads -> Nat]
    BY <1>2, MaxCallsAssumption DEF TypeOK, Handed
  <2>1. CASE Handed' = Handed /\ calls' = calls
    BY <1>2, <2>1 DEF NoneLostOrReordered
  <2>2. ASSUME NEW p \in Threads, calls' = [calls EXCEPT ![p] = @ + 1],
               Handed' = Append(Handed, <<p, calls[p] + 1>>)
        PROVE  NoneLostOrReordered'
    <3> DEFINE n == Len(Handed)
    <3>1. /\ n \in Nat /\ DOMAIN Handed = 1 .. n /\ DOMAIN Handed' = 1 .. n + 1
          /\ \A k \in 1 .. n : Handed'[k] = Handed[k] /\ Handed[k] \in Tasks
          /\ Handed'[n + 1] = <<p, calls[p] + 1>>
      BY <2>0, <2>2
    <3>2. \A k \in 1 .. n : Handed[k][1] \in Threads /\ Handed[k][2] \in Nat
      BY <3>1, MaxCallsAssumption DEF Tasks
    <3>3. /\ calls'[p] = calls[p] + 1 /\ calls[p] \in Nat
          /\ \A r \in Threads : r # p => calls'[r] = calls[r]
          /\ \A r \in Threads : calls'[r] >= calls[r]
      BY <2>0, <2>2
    <3>4. ASSUME NEW r \in Threads, NEW m \in 1 .. calls'[r]
          PROVE  \E k \in DOMAIN Handed' : Handed'[k] = <<r, m>>
      <4>1. CASE m \in 1 .. calls[r]
        <5>1. PICK k \in DOMAIN Handed : Handed[k] = <<r, m>>
          BY <1>2, <4>1 DEF NoneLostOrReordered
        <5>2. k \in DOMAIN Handed' /\ Handed'[k] = <<r, m>>
          BY <3>1, <5>1
        <5> QED
          BY <5>2
      <4>2. CASE m \notin 1 .. calls[r]
        <5>1. r = p /\ m = calls[p] + 1
          BY <2>0, <3>3, <4>2
        <5> QED
          BY <3>1, <5>1
      <4> QED
        BY <4>1, <4>2
    <3>5. ASSUME NEW k \in DOMAIN Handed'
          PROVE  Handed'[k][2] <= calls'[Handed'[k][1]]
      <4>1. CASE k \in 1 .. n
        BY <1>2, <2>0, <3>1, <3>2, <3>3, <4>1, SMTT(60) DEF NoneLostOrReordered
      <4>2. CASE k = n + 1
        BY <3>1, <3>3, <4>2
      <4> QED
        BY <3>1, <4>1, <4>2
    <3>6. ASSUME NEW i \in DOMAIN Handed', NEW j \in DOMAIN Handed', i < j,
                 Handed'[i][1] = Handed'[j][1]
          PROVE  Handed'[i][2] < Handed'[j][2]
      <4>1. i \in 1 .. n
        BY <3>1, <3>6
      <4>2. CASE j \in 1 .. n
        BY <1>2, <3>1, <3>6, <4>1, <4>2 DEF NoneLostOrReordered
      <4>3. CASE j = n + 1
        <5>1. Handed[i][1] = p /\ Handed'[j][2] = calls[p] + 1
          BY <3>1, <3>6, <4>1, <4>3
        <5>2. Handed[i][2] <= calls[p]
          BY <1>2, <3>1, <4>1, <5>1 DEF NoneLostOrReordered
        <5> QED
          BY <3>1, <3>2, <3>3, <4>1, <5>1, <5>2
      <4> QED
        BY <3>1, <4>2, <4>3
    <3> QED
      BY <3>4, <3>5, <3>6 DEF NoneLostOrReordered
  <2> QED
    BY <1>2, <2>1, <2>2, HandedStep
<1> QED
  BY <1>1, <1>2, InvInit, InvStep, PTL DEF Spec
==============================================================================
