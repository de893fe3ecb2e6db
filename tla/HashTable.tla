----------------------------- MODULE HashTable ------------------------------
(***************************************************************************)
(* The hash tables of Algorithm/HashTable.hpp, one chained and one with    *)
(* open addressing: two machines with the same keys.                       *)
(***************************************************************************)
EXTENDS Naturals, SequencesExt

CONSTANTS Keys,       \* the keys
          HashOf,     \* HashFunc
          Null,       \* no key, end()
          FirstSize   \* resize(10) of both constructors

VARIABLES table,   \* _stable, _hs
          n,       \* _size, _n
          last     \* the last call, its key and its answer

Size(t) == Cardinality(DOMAIN t)

-----------------------------------------------------------------------------
(***************************************************************************)
(* Hash::HashTable of Algorithm/HashTable.hpp: buckets of linked nodes,    *)
(* doubled when there are as many nodes as buckets.  zhc_hash::HashTable   *)
(* keeps its nodes in the same way and adds the iterator modelled here.    *)
(* A bucket is the sequence of the keys on its list, first node first.     *)
(***************************************************************************)
ChainedInit ==
  /\ table = [i \in 0 .. FirstSize - 1 |-> <<>>]
  /\ n = 0
  /\ last = <<"insert", Null, FALSE>>

-----------------------------------------------------------------------------
Bucket(t, k) == HashOf[k] % Size(t)

find(k) == Contains(table[Bucket(table, k)], k)

\* Variant of Grown: the nodes stay where they are.
GrownInPlace(t) ==
  [j \in 0 .. 2 * Size(t) - 1 |-> IF j < Size(t) THEN t[j] ELSE <<>>]

\* Twice as many buckets.  The nodes of a list are taken from its head and put
\* at the head of their new list, so they end up in reverse order.
Grown(t) ==
  [j \in 0 .. 2 * Size(t) - 1 |->
     LET stays(k) == HashOf[k] % (2 * Size(t)) = j
     IN  Reverse(SelectSeq(t[j % Size(t)], stays))]

insert(k) ==
  LET roomy == IF n = Size(table) THEN Grown(table) ELSE table IN
  /\ last' = <<"insert", k, ~find(k)>>
  /\ IF find(k)
       THEN UNCHANGED <<table, n>>
       ELSE /\ table' = [roomy EXCEPT ![Bucket(roomy, k)] = <<k>> \o @]
            /\ n' = n + 1

\* erase unlinks and deletes the node; _size stays as it is.
erase(k) ==
  /\ last' = <<"erase", k, find(k)>>
  /\ table' = IF find(k) THEN [table EXCEPT ![Bucket(table, k)] = RemoveFirst(@, k)]
              ELSE table
  /\ UNCHANGED n

\* The iterator: begin(), and operator++ along the list and then to the next
\* bucket that is not empty.
FirstFrom(t, i) ==
  LET rest == {j \in DOMAIN t : j >= i /\ t[j] # <<>>}
  IN  IF rest = {} THEN Null ELSE Head(t[Min(rest)])

begin(t) == FirstFrom(t, 0)

Forward(t, k) ==
  LET b == Bucket(t, k)
      p == CHOOSE i \in DOMAIN t[b] : t[b][i] = k
  IN  IF p < Len(t[b]) THEN t[b][p + 1] ELSE FirstFrom(t, b + 1)

-----------------------------------------------------------------------------
ChainedStored == UNION {Range(table[i]) : i \in DOMAIN table}

(* There are never more nodes than buckets, so that lists stay short on    *)
(* average, although erase does not count down (insert, erase).            *)
LoadBounded == Cardinality(ChainedStored) <= n /\ n <= Size(table)

(* From begin() to end() the iterator meets every key exactly once, in a   *)
(* table grown in any way (operator++).  The erase of the class with the   *)
(* iterator does not compile, so this is about tables nothing was erased   *)
(* from.                                                                   *)
IteratesOnce ==
  n = Cardinality(ChainedStored) =>
    LET walk[i \in 0 .. Cardinality(ChainedStored)] ==
          IF i = 0 THEN begin(table)
          ELSE IF walk[i - 1] = Null THEN Null ELSE Forward(table, walk[i - 1])
        met == {walk[i] : i \in 0 .. Cardinality(ChainedStored)}
    IN  met = ChainedStored \union {Null} /\ walk[Cardinality(ChainedStored)] = Null

-----------------------------------------------------------------------------
(***************************************************************************)
(* zhc_test1::Hash of Algorithm/HashTable.hpp: open addressing.  A slot is *)
(* EMPTY, EXIST or DELETE; a search passes over deleted slots and stops at *)
(* an empty one.  The key a deleted slot still holds is never looked at    *)
(* and is left out.                                                        *)
(***************************************************************************)
CONSTANTS EMPTY, DELETE   \* what a slot of _hs is, when it is no key

VARIABLE hung   \* find goes round a table without an empty slot

OpenInit ==
  /\ table = [i \in 0 .. FirstSize - 1 |-> EMPTY]
  /\ n = 0
  /\ last = <<"insert", Null, FALSE>>
  /\ hung = FALSE

-----------------------------------------------------------------------------
\* The d-th slot that a search for k looks at.
Slot(t, k, d) == (HashOf[k] + d) % Size(t)

\* Where the loop of find stops, and what it finds there.
Stops(t, k) == {d \in 0 .. Size(t) - 1 : t[Slot(t, k, d)] \in {EMPTY, k}}

Position(k) == Slot(table, k, Min(Stops(table, k)))

OpenFind(k) == table[Position(k)] = k

\* The first slot for k that holds no key: deleted ones are used again.
Put(t, k) ==
  LET free == {d \in 0 .. Size(t) - 1 : t[Slot(t, k, d)] \in {EMPTY, DELETE}}
  IN  [t EXCEPT ![Slot(t, k, Min(free))] = k]

\* Twice as many slots, the keys inserted slot by slot.
OpenGrown(t) ==
  LET filled[i \in 0 .. Size(t)] ==
        IF i = 0 THEN [j \in 0 .. 2 * Size(t) - 1 |-> EMPTY]
        ELSE IF t[i - 1] \in Keys THEN Put(filled[i - 1], t[i - 1]) ELSE filled[i - 1]
  IN  filled[Size(t)]

Full == (n * 10) \div Size(table) > 7

OpenInsert(k) ==
  /\ ~hung
  /\ Stops(table, k) # {}
  /\ last' = <<"insert", k, ~OpenFind(k)>>
  /\ IF OpenFind(k)
       THEN UNCHANGED <<table, n>>
       ELSE /\ table' = Put(IF Full THEN OpenGrown(table) ELSE table, k)
            /\ n' = n + 1
  /\ UNCHANGED hung

\* Variant of OpenErase: the slot becomes empty.
OpenEraseEmpties(k) ==
  /\ ~hung
  /\ Stops(table, k) # {}
  /\ last' = <<"erase", k, OpenFind(k)>>
  /\ IF OpenFind(k)
       THEN table' = [table EXCEPT ![Position(k)] = EMPTY] /\ n' = n - 1
       ELSE UNCHANGED <<table, n>>
  /\ UNCHANGED hung

OpenErase(k) ==
  /\ ~hung
  /\ Stops(table, k) # {}
  /\ last' = <<"erase", k, OpenFind(k)>>
  /\ IF OpenFind(k)
       THEN table' = [table EXCEPT ![Position(k)] = DELETE] /\ n' = n - 1
       ELSE UNCHANGED <<table, n>>
  /\ UNCHANGED hung

\* No stop on the whole ring: the call never returns.
Hang(k) ==
  /\ ~hung
  /\ Stops(table, k) = {}
  /\ hung' = TRUE
  /\ UNCHANGED <<table, n, last>>

-----------------------------------------------------------------------------
OpenStored == {k \in Keys : \E i \in DOMAIN table : table[i] = k}

(* Every key is in one slot only, and a search for it gets there, whatever *)
(* was deleted or moved on its way (insert, erase, find).                  *)
EveryKeyIsFound ==
  \A i \in DOMAIN table : table[i] \in Keys =>
    LET k == table[i] IN Stops(table, k) # {} /\ Position(k) = i

(* As long as nothing is marked deleted, a search for an absent key ends:  *)
(* the table grows while a slot is still empty (insert).                   *)
SearchEnds ==
  (\A i \in DOMAIN table : table[i] # DELETE) => ~hung /\ \A k \in Keys : Stops(table, k) # {}
=============================================================================
