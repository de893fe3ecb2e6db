------------------------------ MODULE SharedPtr ------------------------------
(***************************************************************************)
(* shared_ptr of Algorithm/SmartPtr.hpp, used by one thread: the pointer,  *)
(* the counter it shares with its copies, and the deleter that runs when   *)
(* the counter reaches 0.  A counter is a block of its own, which a null   *)
(* pointer has too.                                                        *)
(***************************************************************************)
EXTENDS Integers, FiniteSets

CONSTANTS Handles,   \* shared_ptr variables
          Objects,   \* objects that can be new'd, once each
          Blocks,    \* bound on the counters
          Null

VARIABLES ptr,       \* each handle: _ptr and _count_ptr; Dead when destroyed
          count,     \* counters allocated
          made,      \* objects constructed
          deleted    \* how often the deleter ran on each object
vars == <<ptr, count, made, deleted>>

Dead == [obj |-> Null, block |-> 0]
Live(p) == ptr[p].block # 0

Init ==
  /\ ptr = [p \in Handles |-> Dead]
  /\ count = [b \in Blocks |-> 0]
  /\ made = {} /\ deleted = [o \in Objects |-> 0]

\* --(*_count_ptr), and at 0 the deleter and the counter's delete.
Less(p) == [count EXCEPT ![ptr[p].block] = @ - 1]
Release(p) ==
  deleted' = [o \in Objects |->
    deleted[o] + IF o = ptr[p].obj /\ Less(p)[ptr[p].block] = 0 THEN 1 ELSE 0]

\* shared_ptr(T*): of a new object, or of a null pointer.
Construct(p, o) ==
  /\ ~Live(p) /\ (o = Null \/ o \notin made)
  /\ \E b \in Blocks :
       /\ count[b] = 0 /\ \A c \in Blocks : count[c] = 0 => b <= c
       /\ ptr' = [ptr EXCEPT ![p] = [obj |-> o, block |-> b]]
       /\ count' = [count EXCEPT ![b] = 1]
  /\ made' = made \union ({o} \ {Null})
  /\ UNCHANGED deleted

\* shared_ptr(shared_ptr&)
Copy(p, q) ==
  /\ ~Live(p) /\ Live(q)
  /\ ptr' = [ptr EXCEPT ![p] = ptr[q]]
  /\ count' = [count EXCEPT ![ptr[q].block] = @ + 1]
  /\ UNCHANGED <<made, deleted>>

\* Variant of Assign: what the handle had is forgotten.
AssignOver(p, q) ==
  /\ Live(p) /\ Live(q) /\ ptr[p].obj # ptr[q].obj
  /\ ptr' = [ptr EXCEPT ![p] = ptr[q]]
  /\ count' = [count EXCEPT ![ptr[q].block] = @ + 1]
  /\ UNCHANGED <<made, deleted>>

\* operator=, which does nothing if both point to the same object.
Assign(p, q) ==
  /\ Live(p) /\ Live(q) /\ ptr[p].obj # ptr[q].obj
  /\ Release(p)
  /\ count' = [Less(p) EXCEPT ![ptr[q].block] = @ + 1]
  /\ ptr' = [ptr EXCEPT ![p] = ptr[q]]
  /\ UNCHANGED made

\* ~shared_ptr
Destroy(p) ==
  /\ Live(p)
  /\ Release(p) /\ count' = Less(p)
  /\ ptr' = [ptr EXCEPT ![p] = Dead]
  /\ UNCHANGED made

Next ==
  \E p \in Handles :
    \/ \E o \in Objects \union {Null} : Construct(p, o)
    \/ \E q \in Handles : Copy(p, q) \/ Assign(p, q)
    \/ Destroy(p)

Spec == Init /\ [][Next]_vars

-----------------------------------------------------------------------------
(* Every counter is the number of handles that share it, and an object is  *)
(* deleted once, when and only when no handle points to it (copies,        *)
(* operator=, ~shared_ptr).                                                *)
DeletedOnce ==
  /\ \A b \in Blocks : count[b] = Cardinality({p \in Handles : ptr[p].block = b})
  /\ \A o \in made : deleted[o] = IF \E p \in Handles : ptr[p].obj = o THEN 0 ELSE 1
=============================================================================
