------------------------------- MODULE KeySet -------------------------------
(***************************************************************************)
(* What the containers of Algorithm/ promise: a set of keys.  insert says  *)
(* whether the key was new, erase whether it was there, and nothing comes  *)
(* or goes otherwise.                                                      *)
(***************************************************************************)
CONSTANTS Keys, Null

VARIABLES keys,   \* the keys in the set
          last    \* the last call: its name, its key and its answer

vars == <<keys, last>>

Init == keys = {} /\ last = <<"insert", Null, FALSE>>

Insert(k) ==
  /\ last' = <<"insert", k, k \notin keys>>
  /\ keys' = keys \union {k}

Erase(k) ==
  /\ last' = <<"erase", k, k \in keys>>
  /\ keys' = keys \ {k}

Next == \E k \in Keys : Insert(k) \/ Erase(k)

Spec == Init /\ [][Next]_vars
=============================================================================
