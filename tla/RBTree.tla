------------------------------- MODULE RBTree -------------------------------
(***************************************************************************)
(* RBTree of Algorithm/RBTree.hpp, the tree under its Map and Set: insert, *)
(* iteration by iteration, and the iterators.                              *)
(***************************************************************************)
EXTENDS SearchTree

Color == {"RED", "BLACK"}

TypeOK == TreeTypeOK /\ tree.col \in [Keys -> Color]

Init ==
  /\ tree = [root |-> Null, left |-> NoLinks, right |-> NoLinks, parent |-> NoLinks,
             col |-> [k \in Keys |-> "RED"]]
  /\ pc = "idle"
  /\ key = Null /\ cur = Null /\ par = Null
  /\ last = <<"insert", Null, FALSE>>

-----------------------------------------------------------------------------
\* RBTree_iterator and _reverse_iterator: the end of the way down to one side,
\* and one step forward or back.  Null is end().
begin(t, from) ==
  LET down[n \in Keys] == IF t.left[n] = Null THEN n ELSE down[t.left[n]]
  IN  IF from = Null THEN Null ELSE down[from]

rbegin(t, from) ==
  LET down[n \in Keys] == IF t.right[n] = Null THEN n ELSE down[t.right[n]]
  IN  IF from = Null THEN Null ELSE down[from]

Forward(t, n) ==
  LET up[m \in Keys] ==
        LET p == t.parent[m] IN
        IF p # Null /\ t.right[p] = m THEN up[p] ELSE p
  IN  IF t.right[n] # Null THEN begin(t, t.right[n]) ELSE up[n]

Back(t, n) ==
  LET up[m \in Keys] ==
        LET p == t.parent[m] IN
        IF p # Null /\ t.left[p] = m THEN up[p] ELSE p
  IN  IF t.left[n] # Null THEN rbegin(t, t.left[n]) ELSE up[n]

-----------------------------------------------------------------------------
Paint(t, nodes, color) ==
  [t EXCEPT !.col = [k \in Keys |-> IF k \in nodes THEN color ELSE @[k]]]

RotateL(t, p) == TurnLeft(t, p)
RotateR(t, p) == TurnRight(t, p)

\* insert: the first node, or the search for the place of the key.
insert(k) ==
  \/ /\ pc = "idle"
     /\ tree.root = Null
     /\ tree' = Paint([tree EXCEPT !.root = k], {k}, "BLACK")
     /\ last' = <<"insert", k, TRUE>>
     /\ UNCHANGED <<pc, key, cur, par>>
  \/ Start(k)

\* The loop runs while the parent is red; it has a parent then.
RedParent == pc = "climb" /\ par # Null /\ tree.col[par] = "RED"

Grandfather == tree.parent[par]

Uncle ==
  IF tree.left[Grandfather] = par THEN tree.right[Grandfather] ELSE tree.left[Grandfather]

RedUncle == Uncle # Null /\ tree.col[Uncle] = "RED"

Recolor ==
  /\ RedParent
  /\ RedUncle
  /\ tree' = Paint(Paint(tree, {par, Uncle}, "BLACK"), {Grandfather}, "RED")
  /\ cur' = Grandfather
  /\ par' = tree.parent[Grandfather]
  /\ UNCHANGED <<pc, key, last>>

\* Variant of Rotated: the double rotation is left out.
RotatedSingly ==
  IF tree.left[Grandfather] = par
    THEN Paint(Paint(RotateR(tree, Grandfather), {par}, "BLACK"), {cur, Grandfather}, "RED")
    ELSE Paint(Paint(RotateL(tree, Grandfather), {par}, "BLACK"), {cur, Grandfather}, "RED")

\* The rotations of a red parent with a black uncle: single when cur and
\* parent lie on the same side, double otherwise.
Rotated ==
  IF tree.left[Grandfather] = par
    THEN IF tree.left[par] = cur
           THEN Paint(Paint(RotateR(tree, Grandfather), {par}, "BLACK"),
                      {cur, Grandfather}, "RED")
           ELSE Paint(Paint(RotateR(RotateL(tree, par), Grandfather), {cur}, "BLACK"),
                      {par, Grandfather}, "RED")
    ELSE IF tree.right[par] = cur
           THEN Paint(Paint(RotateL(tree, Grandfather), {par}, "BLACK"),
                      {cur, Grandfather}, "RED")
           ELSE Paint(Paint(RotateL(RotateR(tree, par), Grandfather), {cur}, "BLACK"),
                      {par, Grandfather}, "RED")

\* "break", then the root is painted black.
Rotate ==
  /\ RedParent
  /\ ~RedUncle
  /\ tree' = Paint(Rotated, {Rotated.root}, "BLACK")
  /\ Return
  /\ UNCHANGED last

LoopEnds ==
  /\ pc = "climb"
  /\ ~RedParent
  /\ tree' = Paint(tree, {tree.root}, "BLACK")
  /\ Return
  /\ UNCHANGED last

Step ==
  \/ Place
  \/ Recolor
  \/ Rotate
  \/ LoopEnds

Next == Step \/ \E k \in Keys : insert(k)

Spec == Init /\ [][Next]_vars

\* A loop that can go on does.
FairSpec == Spec /\ WF_vars(Step)

\* The class's own test: the black nodes of every way down, counted against
\* those of the leftmost, and no red child of a red node.
check(t, ref) ==
  LET ok[n \in Keys \union {Null}, blacks \in 0 .. Cardinality(Keys)] ==
        IF n = Null THEN blacks = ref
        ELSE LET more == blacks + (IF t.col[n] = "BLACK" THEN 1 ELSE 0) IN
             /\ ~(t.col[n] = "RED" /\ t.col[t.parent[n]] = "RED")
             /\ ok[t.left[n], more] /\ ok[t.right[n], more]
  IN  ok[t.root, 0]
IsRBTree(t) ==
  LET leftmost[n \in Keys \union {Null}] ==
        IF n = Null THEN 0 ELSE leftmost[t.left[n]] + (IF t.col[n] = "BLACK" THEN 1 ELSE 0)
  IN  t.root = Null \/ (t.col[t.root] # "RED" /\ check(t, leftmost[t.root]))

-----------------------------------------------------------------------------
Black(t) == {k \in Keys : t.col[k] = "BLACK"}

(* Between two calls the root is black, no red node has a red child, and   *)
(* all ways down from a node count the same black nodes; the class's test  *)
(* agrees (insert, IsRBTree, check).                                       *)
RedBlack ==
  pc = "idle" /\ tree.root # Null =>
    /\ tree.col[tree.root] = "BLACK"
    /\ \A n \in Reached(tree) :
         LET blacks(m) == Longest(tree, Black(tree), m) IN
         /\ tree.col[n] = "RED" => \A c \in Children(tree, n) : tree.col[c] = "BLACK"
         /\ blacks(tree.left[n]) = blacks(tree.right[n])
    /\ IsRBTree(tree)

(* The assertion in the loop of insert holds: a red parent is not the      *)
(* root, so there is a grandfather of which it is a child.                 *)
GrandfatherExists ==
  RedParent => Grandfather # Null /\ par \in Children(tree, Grandfather)

\* The least and the greatest of a set of keys, Null if there is none.
Least(S) == IF S = {} THEN Null ELSE Min(S)
Greatest(S) == IF S = {} THEN Null ELSE Max(S)

(* Wherever an iterator stands, and however the tree was turned since it   *)
(* got there, ++ takes it to the next greater key and -- to the next       *)
(* smaller one; begin and rbegin are the ends (RBTree_iterator,            *)
(* _reverse_iterator).                                                     *)
IteratesInOrder ==
  pc = "idle" =>
    LET keys == Reached(tree) IN
    /\ begin(tree, tree.root) = Least(keys)
    /\ rbegin(tree, tree.root) = Greatest(keys)
    /\ \A n \in keys : /\ Forward(tree, n) = Least({k \in keys : k > n})
                       /\ Back(tree, n) = Greatest({k \in keys : k < n})
=============================================================================
