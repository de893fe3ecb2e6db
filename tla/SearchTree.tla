----------------------------- MODULE SearchTree -----------------------------
(***************************************************************************)
(* What AVLTree.hpp and RBTree.hpp of Algorithm/ share, text included:     *)
(* nodes with left, right and parent pointers, the search for the place of *)
(* a new key, and the two rotations, pointer by pointer.  A node is named  *)
(* by its key, a tree is a record of functions, Null is nullptr.  insert   *)
(* is modelled one loop iteration at a time.                               *)
(***************************************************************************)
EXTENDS Integers, FiniteSets, FiniteSetsExt

CONSTANTS Keys, Null

ASSUME KeysAssumption == Keys \subseteq Int
ASSUME NullAssumption == Null \notin Keys

VARIABLES tree,    \* _root and the fields of the nodes
          pc,      \* "idle", or in the first or second loop of insert
          key,     \* the key being inserted
          cur, par,\* cur and parent of insert
          last     \* the last call of insert and its result

vars == <<tree, pc, key, cur, par, last>>

Pointer == Keys \union {Null}

TreeTypeOK ==
  /\ tree.root \in Pointer
  /\ tree.left \in [Keys -> Pointer]
  /\ tree.right \in [Keys -> Pointer]
  /\ tree.parent \in [Keys -> Pointer]
  /\ pc \in {"idle", "seek", "climb"}
  /\ {key, cur, par} \subseteq Pointer
  /\ last \in {"insert"} \X Pointer \X BOOLEAN

\* Every node freshly constructed, none linked.
NoLinks == [k \in Keys |-> Null]

\* The side of p on which k belongs, and the new leaf k there.
Link(t, p, k) ==
  [t EXCEPT !.left = IF p > k THEN [@ EXCEPT ![p] = k] ELSE @,
            !.right = IF p > k THEN @ ELSE [@ EXCEPT ![p] = k],
            !.parent = [@ EXCEPT ![k] = p]]

\* The child pointer of pp that led to p leads to s; p was the root if pp is
\* null.
Hang(t, pp, p, s) ==
  IF pp = Null THEN [t EXCEPT !.root = s, !.parent[s] = Null]
  ELSE IF t.left[pp] = p
    THEN [t EXCEPT !.left[pp] = s, !.parent[s] = pp]
    ELSE [t EXCEPT !.right[pp] = s, !.parent[s] = pp]

\* A child, if there is one, is told its parent.
Adopt(t, p, c) == IF c = Null THEN t ELSE [t EXCEPT !.parent[c] = p]

\* Variant of TurnLeft: the inner subtree is dropped.
TurnLeftDropsInner(t, p) ==
  LET subR == t.right[p]
      down == [t EXCEPT !.right[p] = Null, !.left[subR] = p, !.parent[p] = subR]
  IN  Hang(down, t.parent[p], p, subR)

TurnLeft(t, p) ==
  LET subR  == t.right[p]
      subRL == t.left[subR]
      moved == Adopt([t EXCEPT !.right[p] = subRL], p, subRL)
      down  == [moved EXCEPT !.left[subR] = p, !.parent[p] = subR]
  IN  Hang(down, t.parent[p], p, subR)

TurnRight(t, p) ==
  LET subL  == t.left[p]
      subLR == t.right[subL]
      moved == Adopt([t EXCEPT !.left[p] = subLR], p, subLR)
      down  == [moved EXCEPT !.right[subL] = p, !.parent[p] = subL]
  IN  Hang(down, t.parent[p], p, subL)

-----------------------------------------------------------------------------
\* insert into a tree that is not empty: the first loop looks for the place.
Start(k) ==
  /\ pc = "idle"
  /\ tree.root # Null
  /\ pc' = "seek" /\ key' = k /\ cur' = tree.root /\ par' = Null
  /\ UNCHANGED <<tree, last>>

\* The locals of insert go out of scope.
Return ==
  pc' = "idle" /\ key' = Null /\ cur' = Null /\ par' = Null

\* Variant of Seek: one branch forgets to go on.
SeekStays ==
  /\ pc = "seek"
  /\ cur \notin {Null, key}
  /\ par' = cur
  /\ cur' = IF cur < key THEN tree.right[cur] ELSE cur
  /\ UNCHANGED <<tree, pc, key, last>>

Seek ==
  /\ pc = "seek"
  /\ cur \notin {Null, key}
  /\ par' = cur
  /\ cur' = IF cur < key THEN tree.right[cur] ELSE tree.left[cur]
  /\ UNCHANGED <<tree, pc, key, last>>

Found ==
  /\ pc = "seek"
  /\ cur = key
  /\ last' = <<"insert", key, FALSE>>
  /\ Return
  /\ UNCHANGED tree

\* The new leaf; the second loop starts from it.
NewNode ==
  /\ pc = "seek"
  /\ cur = Null
  /\ tree' = Link(tree, par, key)
  /\ last' = <<"insert", key, TRUE>>
  /\ pc' = "climb"
  /\ cur' = key
  /\ UNCHANGED <<key, par>>

Place == Seek \/ Found \/ NewNode

-----------------------------------------------------------------------------
\* Readings of a tree, for the properties.  Depths are bounded by the number
\* of keys, so that they are defined for a spoilt tree too.
MaxDepth == Cardinality(Keys)

Children(t, n) == {t.left[n], t.right[n]} \ {Null}

\* The nodes that can be reached from the root.
Reached(t) ==
  LET level[d \in 0 .. MaxDepth] ==
        IF d = 0 THEN {t.root} \ {Null} ELSE UNION {Children(t, n) : n \in level[d - 1]}
  IN  UNION {level[d] : d \in 0 .. MaxDepth}

\* The length of the longest way down from n, counting the nodes of Count.
Longest(t, Count, n) ==
  LET way[d \in 0 .. MaxDepth, m \in Pointer] ==
        IF d = 0 \/ m = Null THEN 0
        ELSE (IF m \in Count THEN 1 ELSE 0)
               + Max({way[d - 1, t.left[m]], way[d - 1, t.right[m]]})
  IN  way[MaxDepth, n]

\* The nodes below n, n included.
Below(t, n) == Reached([t EXCEPT !.root = n])

\* Parent pointers are the inverse of child pointers, and the subtrees of a
\* node hold smaller keys on the left and greater ones on the right.
WellFormed(t) ==
  /\ t.root # Null => t.parent[t.root] = Null
  /\ \A n \in Reached(t) :
       /\ \A c \in Children(t, n) : t.parent[c] = n
       /\ \A k \in Below(t, t.left[n]) : k < n
       /\ \A k \in Below(t, t.right[n]) : k > n

-----------------------------------------------------------------------------
(* After every iteration, rotations included, it is a search tree whose    *)
(* parent pointers are right (RotateL, RotateR).                           *)
Shape == WellFormed(tree)

(* insert always returns: neither loop goes round in circles.              *)
InsertReturns == pc # "idle" ~> pc = "idle"
=============================================================================
