------------------------------ MODULE LoopPool ------------------------------
(***************************************************************************)
(* LoopThread, LoopThreadPool, Acceptor and TcpServer of                   *)
(* Reactor_http/source/server.hpp: the start of the sub-loop threads, the  *)
(* handshake by which the main thread gets each one's EventLoop, the round *)
(* robin over them, and the table _conns, which only the base loop touches *)
(* while connections live and end on their own loops.                      *)
(*                                                                         *)
(* EventLoop models how a task gets from one thread to another; here a     *)
(* task queue is first-in first-out and its loop runs it in the end.       *)
(***************************************************************************)
EXTENDS Integers, Sequences, FiniteSets

CONSTANTS ThreadCount,   \* _thread_count; at least 1, see the README for 0
          MaxId          \* bound on _conn_id

VARIABLES main,          \* main thread: <<statement, i>>
          thread,        \* each LoopThread: "none", "new" or "loop"
          loops,         \* _loops, filled by Create; 0 is nullptr
          next_loop_idx, \* _next_loop_idx
          conn_id,       \* _conn_id
          conns,         \* keys of _conns
          owner,         \* loop of each connection, 0 when there is none
          statu,         \* of each connection: CONNECTED stands for DISCONNECTING
                         \* too, DISCONNECTED for all that comes after a release
          tasks,         \* tasks queued for each loop; 0 is the base loop
          timers         \* ids of the timers RunAfter put on the base loop

vars == <<main, thread, loops, next_loop_idx, conn_id, conns, owner, statu, tasks, timers>>

Threads == 1 .. ThreadCount
Ids == 1 .. MaxId

Init ==
  /\ main = <<"new", 1>>
  /\ thread = [i \in Threads |-> "none"]
  /\ loops = [i \in Threads |-> 0]
  /\ next_loop_idx = 0 /\ conn_id = 0
  /\ conns = {} /\ timers = {}
  /\ owner = [id \in Ids |-> 0] /\ statu = [id \in Ids |-> "none"]
  /\ tasks = [l \in 0 .. ThreadCount |-> <<>>]

server == <<next_loop_idx, conn_id, conns, owner, statu, tasks, timers>>

-----------------------------------------------------------------------------
\* Create: new LoopThread, then its GetLoop.
NewThread(i) ==
  /\ main = <<"new", i>>
  /\ thread' = [thread EXCEPT ![i] = "new"]
  /\ main' = <<"test", i>>
  /\ UNCHANGED <<loops, server>>

\* GetLoop under _mutex: the predicate, then the pointer or the wait.
GetLoop(i) ==
  /\ main = <<"test", i>>
  /\ IF thread[i] = "loop"
       THEN /\ loops' = [loops EXCEPT ![i] = i]
            /\ main' = IF i = ThreadCount THEN <<"start", 0>> ELSE <<"new", i + 1>>
       ELSE main' = <<"wait", i>> /\ UNCHANGED loops
  /\ UNCHANGED <<thread, server>>

Notified(i) == IF main = <<"wait", i>> THEN <<"test", i>> ELSE main

\* ThreadEntry: the loop exists, _loop is set and the waiting thread woken.
ThreadEntry(i) ==
  /\ thread[i] = "new"
  /\ thread' = [thread EXCEPT ![i] = "loop"]
  /\ main' = Notified(i)
  /\ UNCHANGED <<loops, server>>

Running == main = <<"start", 0>>

-----------------------------------------------------------------------------
Queue(l, task) == tasks' = [tasks EXCEPT ![l] = Append(@, task)]

NextLoop ==
  LET idx == (next_loop_idx + 1) % ThreadCount IN [idx |-> idx, loop |-> loops[idx + 1]]

\* Acceptor::HandleRead and NewConnection.  EsTablished queues on the
\* connection's loop, since that is never the base loop.
NewConnection ==
  /\ Running /\ conn_id < MaxId
  /\ conn_id' = conn_id + 1
  /\ next_loop_idx' = NextLoop.idx
  /\ owner' = [owner EXCEPT ![conn_id + 1] = NextLoop.loop]
  /\ statu' = [statu EXCEPT ![conn_id + 1] = "CONNECTING"]
  /\ Queue(NextLoop.loop, <<"EsTablished", conn_id + 1>>)
  /\ conns' = conns \union {conn_id + 1}
  /\ UNCHANGED <<main, thread, loops, timers>>

\* RunAfter, called on another thread.
RunAfter ==
  /\ Running /\ Len(tasks[0]) < MaxId
  /\ Queue(0, <<"RunAfter", 0>>)
  /\ UNCHANGED <<main, thread, loops, next_loop_idx, conn_id, conns, owner, statu, timers>>

\* A sub-loop runs its next task.
RunTask(l) ==
  /\ l # 0 /\ thread[l] = "loop" /\ tasks[l] # <<>>
  /\ tasks' = [tasks EXCEPT ![l] = Tail(@)]
  /\ statu' = [statu EXCEPT ![Head(tasks[l])[2]] = "CONNECTED"]
  /\ UNCHANGED <<main, thread, loops, next_loop_idx, conn_id, conns, owner, timers>>

\* ReleaseInLoop of a connection on its loop, which ends in RemoveConnection.
\* It does not test the state: after a reset it runs again.  MaxId bounds
\* the tasks that wait when it does.
Release(id) ==
  /\ statu[id] = "CONNECTED" \/ (statu[id] = "DISCONNECTED" /\ Len(tasks[0]) < MaxId)
  /\ statu' = [statu EXCEPT ![id] = "DISCONNECTED"]
  /\ Queue(0, <<"Remove", id>>)
  /\ UNCHANGED <<main, thread, loops, next_loop_idx, conn_id, conns, owner, timers>>

RunAfterInLoop ==
  /\ conn_id < MaxId
  /\ conn_id' = conn_id + 1
  /\ timers' = timers \union {conn_id + 1}
  /\ UNCHANGED conns

\* Variant of RemoveConnectionInLoop: it erases the newest connection.
RemoveNewest(id) ==
  /\ conns' = conns \ {conn_id}
  /\ UNCHANGED <<conn_id, timers>>

RemoveConnectionInLoop(id) ==
  /\ conns' = conns \ {id}
  /\ UNCHANGED <<conn_id, timers>>

\* The base loop runs its next task.
RunBaseTask ==
  /\ Running /\ tasks[0] # <<>>
  /\ tasks' = [tasks EXCEPT ![0] = Tail(@)]
  /\ IF Head(tasks[0])[1] = "Remove" THEN RemoveConnectionInLoop(Head(tasks[0])[2])
                                     ELSE RunAfterInLoop
  /\ UNCHANGED <<main, thread, loops, next_loop_idx, owner, statu>>

Next ==
  \/ \E i \in Threads : NewThread(i) \/ GetLoop(i) \/ ThreadEntry(i) \/ RunTask(i)
  \/ NewConnection \/ RunAfter \/ RunBaseTask
  \/ \E id \in Ids : Release(id)

\* The kernel runs every thread, and a loop runs its tasks.
Fairness ==
  /\ WF_vars(\E i \in Threads : NewThread(i) \/ GetLoop(i))
  /\ \A i \in Threads : WF_vars(ThreadEntry(i)) /\ WF_vars(RunTask(i))
  /\ WF_vars(RunBaseTask)

Spec == Init /\ [][Next]_vars /\ Fairness

-----------------------------------------------------------------------------
Load(l) == Cardinality({id \in Ids : owner[id] = l})

(* Connections are spread evenly over the sub-loops, and none is given to  *)
(* a loop that does not exist yet (Create, NextLoop).                      *)
SpreadEvenly ==
  /\ \A id \in Ids : statu[id] # "none" => owner[id] \in Threads
  /\ \A k, l \in Threads : Load(k) <= Load(l) + 1

(* The timers of RunAfter and those of the connections never share an id   *)
(* (RunAfterInLoop, NewConnection: one counter for both).                  *)
IdsAreDistinct == \A id \in Ids : id \in timers => statu[id] = "none"

(* _conns holds the connections that have not ended: one that has is       *)
(* erased, or the task that erases it is queued behind its insertion, and  *)
(* a second release erases no other.                                       *)
TableMatches ==
  \A id \in Ids :
    /\ statu[id] \in {"CONNECTING", "CONNECTED"} => id \in conns
    /\ id \in conns =>
         \/ statu[id] \in {"CONNECTING", "CONNECTED"}
         \/ \E i \in DOMAIN tasks[0] : tasks[0][i] = <<"Remove", id>>

(* The loops share the connections out evenly, timers and connections      *)
(* never have the same id, and the table holds the connections that have   *)
(* not ended (LoopThreadPool, TcpServer).                                  *)
LoopsConsistent == SpreadEvenly /\ IdsAreDistinct /\ TableMatches

(* The server gets to its loop: no start of a thread is waited for in vain *)
(* (ThreadEntry notifies under the mutex after it has set _loop).          *)
StartsUp == <>Running
=============================================================================
