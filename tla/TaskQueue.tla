----------------------------- MODULE TaskQueue -----------------------------
(***************************************************************************)
(* What EventLoop promises to the threads that hand it work: the tasks are *)
(* executed once each, one at a time, in the order in which they were      *)
(* handed over.                                                            *)
(***************************************************************************)
EXTENDS Naturals, Sequences

CONSTANT Tasks

VARIABLES queue,     \* handed over, not executed
          executed   \* executed, oldest first

vars == <<queue, executed>>

Init == queue = <<>> /\ executed = <<>>

Put(t) ==
  /\ queue' = Append(queue, t)
  /\ UNCHANGED executed

Execute ==
  /\ queue # <<>>
  /\ executed' = Append(executed, Head(queue))
  /\ queue' = Tail(queue)

Next == Execute \/ \E t \in Tasks : Put(t)

Spec == Init /\ [][Next]_vars
=============================================================================
