---------------------------- MODULE LessonQueues ----------------------------
(***************************************************************************)
(* The bounded queues of the lessons: BlockQueue of lesson6, with a mutex  *)
(* and condition variables, and ring_queue of lesson7, with semaphores.    *)
(* Both are to be bounded FIFO buffers.                                    *)
(***************************************************************************)
EXTENDS Sequences, FiniteSets, Integers

-----------------------------------------------------------------------------
(***************************************************************************)
(* BlockQueue of lesson6/BlockQueue/BlockQueue.hpp in the pipeline of its  *)
(* main.cc: producers push tasks to c_bq, workers pop them and push the    *)
(* results to s_bq, savers pop those.                                      *)
(*                                                                         *)
(* push and pop are critical sections that end at unlock or at the wait,   *)
(* so one step is one of them.  A signal wakes one waiting thread, if any, *)
(* and a woken thread tests its condition again when it gets the mutex;    *)
(* meanwhile any other thread may have been faster.                        *)
(***************************************************************************)
CONSTANTS Producers, Workers, Savers,  \* threads; main.cc starts one of each
          Cap,                         \* _cap
          MaxTasks                     \* bound on the tasks made

VARIABLES q,       \* _q of the two queues
          made,    \* tasks produced so far
          pc,      \* what each thread does next: "push", "pop" or, on which
                   \* condition variable it waits, "full" or "empty"
          hand,    \* the item a thread holds, 0 when none
          saved    \* items saved, in order

blockVars == <<q, made, pc, hand, saved>>

QueueThreads == Producers \union Workers \union Savers
Queues == {"c_bq", "s_bq"}

BlockInit ==
  /\ q = [b \in Queues |-> <<>>]
  /\ made = 0
  /\ pc = [t \in QueueThreads |-> IF t \in Producers THEN "push" ELSE "pop"]
  /\ hand = [t \in QueueThreads |-> 0]
  /\ saved = <<>>

\* The queue a thread uses for what it does.
QueueOf(t, op) ==
  IF t \in Producers \/ (t \in Workers /\ op \in {"pop", "empty"}) THEN "c_bq" ELSE "s_bq"

Waiting(b, cond) == {t \in QueueThreads : pc[t] = cond /\ QueueOf(t, cond) = b}

\* pthread_cond_signal on the given condition, after the caller's own pc.
Signal(b, cond, self, next) ==
  IF Waiting(b, cond) = {}
    THEN pc' = [pc EXCEPT ![self] = next]
    ELSE \E t \in Waiting(b, cond) :
           pc' = [pc EXCEPT ![self] = next, ![t] = IF cond = "full" THEN "push" ELSE "pop"]

is_full(b) == Len(q[b]) = Cap
is_empty(b) == q[b] = <<>>

push(t, item, next) ==
  LET b == QueueOf(t, "push") IN
    IF is_full(b)
      THEN pc' = [pc EXCEPT ![t] = "full"] /\ UNCHANGED <<q, hand, made>>
      ELSE /\ q' = [q EXCEPT ![b] = Append(@, item)]
           /\ Signal(b, "empty", t, next)
           /\ hand' = [hand EXCEPT ![t] = 0]
           /\ made' = IF t \in Producers THEN made + 1 ELSE made

pop(t, next) ==
  LET b == QueueOf(t, "pop") IN
    IF is_empty(b)
      THEN pc' = [pc EXCEPT ![t] = "empty"] /\ UNCHANGED <<q, hand>>
      ELSE /\ hand' = [hand EXCEPT ![t] = Head(q[b])]
           /\ q' = [q EXCEPT ![b] = Tail(@)]
           /\ Signal(b, "full", t, next)

\* The loops of produce, consume and saver.
produce(t) ==
  /\ t \in Producers /\ pc[t] = "push"
  /\ made < MaxTasks
  /\ push(t, made + 1, "push")
  /\ UNCHANGED saved

consume(t) ==
  /\ t \in Workers
  /\ \/ pc[t] = "pop" /\ pop(t, "push") /\ UNCHANGED made
     \/ pc[t] = "push" /\ push(t, hand[t], "pop")
  /\ UNCHANGED saved

saver(t) ==
  /\ t \in Savers
  /\ \/ pc[t] = "pop" /\ pop(t, "save") /\ UNCHANGED <<made, saved>>
     \/ /\ pc[t] = "save"
        /\ saved' = Append(saved, hand[t])
        /\ hand' = [hand EXCEPT ![t] = 0]
        /\ pc' = [pc EXCEPT ![t] = "pop"]
        /\ UNCHANGED <<q, made>>

\* pthread_cond_wait may return without a signal.
SpuriousWakeup(t) ==
  /\ pc[t] \in {"full", "empty"}
  /\ pc' = [pc EXCEPT ![t] = IF @ = "full" THEN "push" ELSE "pop"]
  /\ UNCHANGED <<q, made, hand, saved>>

Step(t) == produce(t) \/ consume(t) \/ saver(t)

BlockNext == \E t \in QueueThreads : Step(t) \/ SpuriousWakeup(t)

\* The kernel schedules every thread that can run.
BlockFairness == \A t \in QueueThreads : WF_blockVars(Step(t))

BlockSpec == BlockInit /\ [][BlockNext]_blockVars /\ BlockFairness

-----------------------------------------------------------------------------
CBuffer == INSTANCE BoundedBuffer WITH buf <- q["c_bq"], Items <- 1 .. MaxTasks
SBuffer == INSTANCE BoundedBuffer WITH buf <- q["s_bq"], Items <- 1 .. MaxTasks

(* Each of the two queues is a bounded FIFO buffer, whatever the threads'  *)
(* order (push and pop test their condition again after each wait).        *)
BlocksAreBuffers == CBuffer!Spec /\ SBuffer!Spec

(* Every task produced is saved in the end: no thread stays blocked on a   *)
(* condition that another one has made true (the signals of push and pop). *)
EveryTaskIsSaved ==
  []<>(\A n \in 1 .. made : \E i \in DOMAIN saved : saved[i] = n)

-----------------------------------------------------------------------------
(***************************************************************************)
(* ring_queue of lesson7/RingQueue.hpp with the producer and the consumer  *)
(* of its main.cc.  Two semaphores and no mutex: the statements of Push    *)
(* and Pop interleave, and only the semaphores keep the two threads from   *)
(* using one slot at the same time.                                        *)
(***************************************************************************)
CONSTANT MaxItems   \* bound on the items produced

VARIABLES queue,           \* _queue, slots 0 .. Cap - 1
          space_sem, data_sem,
          productor_step, consumer_step,
          ppc, cpc,        \* next statement of Push and of Pop
          ring_made,            \* items produced so far
          got              \* items consumed, in order

ringVars == <<queue, space_sem, data_sem, productor_step, consumer_step, ppc, cpc, ring_made, got>>

producer == <<queue, productor_step, ppc, ring_made>>
consumer == <<consumer_step, cpc, got>>

Slots == 0 .. (Cap - 1)

RingInit ==
  /\ queue = [i \in Slots |-> 0]
  /\ space_sem = Cap /\ data_sem = 0
  /\ productor_step = 0 /\ consumer_step = 0
  /\ ppc = "P" /\ cpc = "P"
  /\ ring_made = 0 /\ got = <<>>

\* P(_space_sem); _queue[productor_step++] = val; productor_step %= _cap;
\* V(_data_sem)
Push ==
  \/ /\ ppc = "P" /\ ring_made < MaxItems /\ space_sem > 0
     /\ space_sem' = space_sem - 1
     /\ ppc' = "write"
     /\ UNCHANGED <<queue, data_sem, productor_step, ring_made, consumer>>
  \/ /\ ppc = "write"
     /\ queue' = [queue EXCEPT ![productor_step] = ring_made + 1]
     /\ ring_made' = ring_made + 1
     /\ productor_step' = productor_step + 1
     /\ ppc' = "wrap"
     /\ UNCHANGED <<space_sem, data_sem, consumer>>
  \/ /\ ppc = "wrap"
     /\ productor_step' = productor_step % Cap
     /\ ppc' = "V"
     /\ UNCHANGED <<queue, space_sem, data_sem, ring_made, consumer>>
  \/ /\ ppc = "V"
     /\ data_sem' = data_sem + 1
     /\ ppc' = "P"
     /\ UNCHANGED <<queue, space_sem, productor_step, ring_made, consumer>>

\* Variant of Pop: the slot is given back before it is read.
PopEarlyPost ==
  \/ /\ cpc = "P" /\ data_sem > 0
     /\ data_sem' = data_sem - 1
     /\ space_sem' = space_sem + 1
     /\ cpc' = "read"
     /\ UNCHANGED <<consumer_step, got, producer>>
  \/ /\ cpc = "read"
     /\ got' = Append(got, queue[consumer_step])
     /\ consumer_step' = (consumer_step + 1) % Cap
     /\ cpc' = "P"
     /\ UNCHANGED <<space_sem, data_sem, producer>>

\* P(_data_sem); *out = _queue[consumer_step++]; consumer_step %= _cap;
\* V(_space_sem)
Pop ==
  \/ /\ cpc = "P" /\ data_sem > 0
     /\ data_sem' = data_sem - 1
     /\ cpc' = "read"
     /\ UNCHANGED <<space_sem, consumer_step, got, producer>>
  \/ /\ cpc = "read"
     /\ got' = Append(got, queue[consumer_step])
     /\ consumer_step' = consumer_step + 1
     /\ cpc' = "wrap"
     /\ UNCHANGED <<space_sem, data_sem, producer>>
  \/ /\ cpc = "wrap"
     /\ consumer_step' = consumer_step % Cap
     /\ cpc' = "V"
     /\ UNCHANGED <<space_sem, data_sem, got, producer>>
  \/ /\ cpc = "V"
     /\ space_sem' = space_sem + 1
     /\ cpc' = "P"
     /\ UNCHANGED <<data_sem, consumer_step, got, producer>>

RingNext == Push \/ Pop

RingSpec == RingInit /\ [][RingNext]_ringVars

-----------------------------------------------------------------------------
\* The items written and not yet read, oldest first.
Held ==
  LET n == ring_made - Len(got) IN
    [i \in 1 .. n |-> queue[(consumer_step + i - 1) % Cap]]

Buffer == INSTANCE BoundedBuffer WITH buf <- Held, Items <- 1 .. MaxItems

(* The ring is a bounded FIFO buffer: no slot is overwritten before it is  *)
(* read and none is read before it is written, with the semaphores alone   *)
(* (Push, Pop).                                                            *)
RingIsBuffer == Buffer!Spec

(* The queues of the lessons are bounded FIFO buffers: the two of the      *)
(* pipeline of lesson6, and the ring of lesson7 (push and pop).            *)
ImplementsBuffers == BlocksAreBuffers /\ RingIsBuffer
=============================================================================
