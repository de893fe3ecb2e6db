---------------------------- MODULE MCContainers ----------------------------
(***************************************************************************)
(* The search trees and the hash tables of Algorithm/, each on a few keys. *)
(* They know nothing of each other: a behaviour uses one of them, named by *)
(* which, and leaves the state of the others alone.  What they share is    *)
(* the promise of KeySet.                                                  *)
(***************************************************************************)
EXTENDS SearchTree

CONSTANTS HashKeys, HashOf, FirstSize, EMPTY, DELETE,
          MaxCount   \* bound on _size of the chained table, which only grows

ASSUME HashAssumption == HashOf \in [HashKeys -> Nat]
ASSUME FirstSizeAssumption == FirstSize \in Nat \ {0}
ASSUME MarksAssumption == {Null, EMPTY, DELETE} \intersect HashKeys = {}

VARIABLES which, table, n, hung

A == INSTANCE AVLTree
R == INSTANCE RBTree
H == INSTANCE HashTable WITH Keys <- HashKeys

\* Eight keys: enough for a red-black insert that recolours, goes up and
\* rotates there, and for double rotations with subtrees in an AVL tree.
EightKeys == 1 .. 8

\* Integers hash to themselves.  Six keys for five buckets or slots: both
\* tables grow, and most keys collide before and some after.
SixKeys == {0, 1, 5, 6, 10, 12}
ToItself == [k \in HashKeys |-> k]

treeVars == vars
hashVars == <<table, n, hung>>
allVars == <<which, treeVars, hashVars>>

Init ==
  \/ which = "avl" /\ A!Init /\ table = <<>> /\ n = 0 /\ hung = FALSE
  \/ which = "bit" /\ A!BitInit /\ table = <<>> /\ n = 0 /\ hung = FALSE
  \/ which = "rb" /\ R!Init /\ table = <<>> /\ n = 0 /\ hung = FALSE
  \/ which = "chained" /\ A!Init /\ H!ChainedInit /\ hung = FALSE
  \/ which = "open" /\ A!Init /\ H!OpenInit

\* An iteration of a loop of insert.
Step ==
  /\ (which = "avl" /\ A!Step) \/ (which = "bit" /\ A!BitStep) \/ (which = "rb" /\ R!Step)
  /\ UNCHANGED <<which, hashVars>>

\* A call: the trees go on with Step, the hash tables answer at once.
TreeCall(k) ==
  /\ \/ which = "avl" /\ A!insert(k)
     \/ which = "bit" /\ A!Insert(k)
     \/ which = "rb" /\ R!insert(k)
  /\ UNCHANGED <<which, hashVars>>

HashCall(k) ==
  /\ \/ which = "chained" /\ n < MaxCount /\ H!insert(k) /\ UNCHANGED hung
     \/ which = "chained" /\ H!erase(k) /\ UNCHANGED hung
     \/ which = "open" /\ (H!OpenInsert(k) \/ H!OpenErase(k) \/ H!Hang(k))
  /\ UNCHANGED <<which, tree, pc, key, cur, par>>

Next == Step \/ (\E k \in Keys : TreeCall(k)) \/ (\E k \in HashKeys : HashCall(k))

\* A loop that can go on does.
FairSpec == Init /\ [][Next]_allVars /\ WF_allVars(Step)

-----------------------------------------------------------------------------
(* The trees stay what they have to be through every rotation: search      *)
(* trees of nodes that know their parents, the AVL trees with balance      *)
(* factors that are right and at most one, the red-black tree with its     *)
(* rules kept between two calls and its iterators in order both ways; and  *)
(* no assert(false) of an insert is reached.                               *)
TreesSound ==
  /\ which \in {"avl", "bit", "rb"} => Shape
  /\ which = "avl" => A!TypeOK /\ A!Balanced /\ A!AssertionsHold
  /\ which = "bit" => A!TypeOK /\ A!BitBalanced /\ A!BitAssertionsHold
  /\ which = "rb" => R!TypeOK /\ R!RedBlack /\ R!IteratesInOrder /\ R!GrandfatherExists

(* The chained table never holds more nodes than buckets and its iterator  *)
(* meets every key once; in the open table every key is in one slot and is *)
(* found there, and searches end as long as nothing was deleted.           *)
TablesSound ==
  /\ which = "chained" => H!LoadBounded /\ H!IteratesOnce
  /\ which = "open" => H!EveryKeyIsFound /\ H!SearchEnds

Stored ==
  CASE which = "chained" -> H!ChainedStored
    [] which = "open"    -> H!OpenStored
    [] OTHER             -> Reached(tree)

Set == INSTANCE KeySet WITH keys <- Stored, Keys <- Keys \union HashKeys

\* All of them are sets: no rotation and no growing loses a key, and insert
\* and erase answer truthfully.
ImplementsSet == Set!Spec
=============================================================================
