--------------------------- MODULE BoundedBuffer ---------------------------
(***************************************************************************)
(* What BlockQueue and ring_queue promise their threads: a first-in        *)
(* first-out buffer that never holds more than Cap items.                  *)
(***************************************************************************)
EXTENDS Naturals, Sequences

CONSTANTS Items, Cap

VARIABLE buf

Put(item) == Len(buf) < Cap /\ buf' = Append(buf, item)
Get == buf # <<>> /\ buf' = Tail(buf)

Init == buf = <<>>
Next == Get \/ \E item \in Items : Put(item)
Spec == Init /\ [][Next]_buf
=============================================================================
