------------------------------ MODULE AVLTree -------------------------------
(***************************************************************************)
(* The two AVL trees of Algorithm/AVLTree.hpp, zhc::AVLTree and            *)
(* bit::AVLTree: insert, iteration by iteration, with the balance factors  *)
(* and the four rotations.                                                 *)
(***************************************************************************)
EXTENDS SearchTree

-----------------------------------------------------------------------------
(***************************************************************************)
(* zhc::AVLTree of Algorithm/AVLTree.hpp: insert, iteration by iteration,  *)
(* with the balance factors and the four rotations.                        *)
(***************************************************************************)
TypeOK == TreeTypeOK /\ tree.bf \in [Keys -> -1 .. 1]

Init ==
  /\ tree = [root |-> Null, left |-> NoLinks, right |-> NoLinks, parent |-> NoLinks,
             bf |-> [k \in Keys |-> 0]]
  /\ pc = "idle"
  /\ key = Null /\ cur = Null /\ par = Null
  /\ last = <<"insert", Null, FALSE>>

-----------------------------------------------------------------------------
SetBf(t, nodes, value) ==
  [t EXCEPT !.bf = [k \in Keys |-> IF k \in nodes THEN value ELSE @[k]]]

RotateL(t, p) == SetBf(TurnLeft(t, p), {p, t.right[p]}, 0)
RotateR(t, p) == SetBf(TurnRight(t, p), {p, t.left[p]}, 0)

RotateLR(t, p) ==
  LET subL  == t.left[p]
      subLR == t.right[subL]
      bf    == t.bf[subLR]
      u     == SetBf(RotateR(RotateL(t, subL), p), {p, subL, subLR}, 0)
  IN  IF bf = -1 THEN SetBf(u, {p}, 1)
      ELSE IF bf = 1 THEN SetBf(u, {subL}, -1) ELSE u

RotateRL(t, p) ==
  LET subR  == t.right[p]
      subRL == t.left[subR]
      bf    == t.bf[subRL]
      u     == SetBf(RotateL(RotateR(t, subR), p), {p, subR, subRL}, 0)
  IN  IF bf = 1 THEN SetBf(u, {p}, -1)
      ELSE IF bf = -1 THEN SetBf(u, {subR}, 1) ELSE u

\* insert: the first node, or the search for the place of the key.
insert(k) ==
  \/ /\ pc = "idle"
     /\ tree.root = Null
     /\ tree' = [tree EXCEPT !.root = k]
     /\ last' = <<"insert", k, TRUE>>
     /\ UNCHANGED <<pc, key, cur, par>>
  \/ Start(k)

\* The balance factor of parent with the growth of cur counted in.
Counted == [tree EXCEPT !.bf[par] = IF cur = tree.left[par] THEN @ - 1 ELSE @ + 1]

\* The rotation insert chooses for a parent out of balance.
Rotated(t) ==
  CASE t.bf[par] = 2 /\ t.bf[t.right[par]] = 1   -> RotateL(t, par)
    [] t.bf[par] = -2 /\ t.bf[t.left[par]] = -1  -> RotateR(t, par)
    [] t.bf[par] = 2 /\ t.bf[cur] = -1           -> RotateRL(t, par)
    [] t.bf[par] = -2 /\ t.bf[cur] = 1           -> RotateLR(t, par)

\* assert(false): the factor is out of range, or no rotation fits.
Asserts(t) ==
  \/ t.bf[par] \notin -2 .. 2
  \/ t.bf[par] \in {2, -2} /\ t.bf[cur] = 0

\* Variant of ClimbOn: a factor of two is not told from a factor of one.
ClimbOnAlways ==
  /\ pc = "climb" /\ par # Null
  /\ Counted.bf[par] # 0
  /\ tree' = Counted
  /\ cur' = par
  /\ par' = tree.parent[par]
  /\ UNCHANGED <<pc, key, last>>

ClimbOn ==
  /\ pc = "climb" /\ par # Null
  /\ Counted.bf[par] \in {1, -1}
  /\ tree' = Counted
  /\ cur' = par
  /\ par' = tree.parent[par]
  /\ UNCHANGED <<pc, key, last>>

ClimbEnds ==
  /\ pc = "climb" /\ par # Null
  /\ Counted.bf[par] = 0
  /\ tree' = Counted
  /\ Return
  /\ UNCHANGED last

ClimbRotates ==
  /\ pc = "climb" /\ par # Null
  /\ Counted.bf[par] \in {2, -2}
  /\ ~Asserts(Counted)
  /\ tree' = Rotated(Counted)
  /\ Return
  /\ UNCHANGED last

AtRoot ==
  /\ pc = "climb" /\ par = Null
  /\ Return
  /\ UNCHANGED <<tree, last>>

Step ==
  \/ Place
  \/ ClimbOn
  \/ ClimbEnds
  \/ ClimbRotates
  \/ AtRoot

Next == Step \/ \E k \in Keys : insert(k)

Spec == Init /\ [][Next]_vars

\* A loop that can go on does.
FairSpec == Spec /\ WF_vars(Step)

\* The class's own test.
Hight(t, root) ==
  LET h[n \in Keys \union {Null}] ==
        IF n = Null THEN 0
        ELSE IF h[t.left[n]] > h[t.right[n]] THEN h[t.left[n]] + 1 ELSE h[t.right[n]] + 1
  IN  h[root]
IsBalance(t) ==
  \A n \in Reached(t) : Hight(t, t.right[n]) - Hight(t, t.left[n]) \in -1 .. 1

-----------------------------------------------------------------------------
(* Between two calls every balance factor is the difference of the heights *)
(* of the subtrees, and is at most one, as the class's test confirms       *)
(* (insert, RotateL, RotateR, RotateLR, RotateRL, IsBalance).              *)
Balanced ==
  pc = "idle" =>
    /\ \A n \in Reached(tree) :
         LET height(m) == Longest(tree, Keys, m) IN
         tree.bf[n] = height(tree.right[n]) - height(tree.left[n])
    /\ IsBalance(tree)

(* The assertions of insert hold.                                          *)
AssertionsHold == pc = "climb" /\ par # Null => ~Asserts(Counted)

-----------------------------------------------------------------------------
(***************************************************************************)
(* bit::AVLTree of Algorithm/AVLTree.hpp, the second AVL tree of the file: *)
(* Insert, iteration by iteration, its rotations, which it chooses by the  *)
(* factor of the child it climbed from, and its own test, which compares   *)
(* the stored factors with the heights as well.                            *)
(***************************************************************************)
BitInit ==
  /\ tree = [root |-> Null, left |-> NoLinks, right |-> NoLinks, parent |-> NoLinks,
             bf |-> [k \in Keys |-> 0]]
  /\ pc = "idle"
  /\ key = Null /\ cur = Null /\ par = Null
  /\ last = <<"insert", Null, FALSE>>

BitRotateL(t, parent) ==
  [TurnLeft(t, parent) EXCEPT !.bf[parent] = 0, !.bf[t.right[parent]] = 0]

BitRotateR(t, parent) ==
  [TurnRight(t, parent) EXCEPT !.bf[t.left[parent]] = 0, !.bf[parent] = 0]

BitRotateLR(t, parent) ==
  LET subL  == t.left[parent]
      subLR == t.right[subL]
      bf    == t.bf[subLR]
  IN  [BitRotateR(BitRotateL(t, subL), parent) EXCEPT
         !.bf[subL]   = IF bf = 1 THEN -1 ELSE 0,
         !.bf[parent] = IF bf = -1 THEN 1 ELSE 0,
         !.bf[subLR]  = 0]

\* Variant of RotateRL: the factors are left as the two rotations set them.
BitRotateRLUnset(t, parent) == BitRotateL(BitRotateR(t, t.right[parent]), parent)

BitRotateRL(t, parent) ==
  LET subR  == t.right[parent]
      subRL == t.left[subR]
      bf    == t.bf[subRL]
  IN  [BitRotateL(BitRotateR(t, subR), parent) EXCEPT
         !.bf[subR]   = IF bf = -1 THEN 1 ELSE 0,
         !.bf[parent] = IF bf = 1 THEN -1 ELSE 0,
         !.bf[subRL]  = 0]

-----------------------------------------------------------------------------
\* Insert: the first node, or the search for the place of the key, which is
\* that of SearchTree.
Insert(k) ==
  \/ /\ pc = "idle" /\ tree.root = Null
     /\ tree' = [tree EXCEPT !.root = k]
     /\ last' = <<"insert", k, TRUE>>
     /\ UNCHANGED <<pc, key, cur, par>>
  \/ Start(k)

\* The balance factor of parent with the growth of cur counted in.
BitCounted == [tree EXCEPT !.bf[par] = IF cur = tree.left[par] THEN @ - 1 ELSE @ + 1]

\* The rotations by the factors of parent and cur; none for any others.
Turned(t) ==
  CASE t.bf[par] = 2 /\ t.bf[cur] = 1   -> BitRotateL(t, par)
    [] t.bf[par] = -2 /\ t.bf[cur] = -1 -> BitRotateR(t, par)
    [] t.bf[par] = -2 /\ t.bf[cur] = 1  -> BitRotateLR(t, par)
    [] t.bf[par] = 2 /\ t.bf[cur] = -1  -> BitRotateRL(t, par)

\* assert(false) of Insert, or of a double rotation.
BitAsserts(t) ==
  \/ t.bf[par] \notin -2 .. 2
  \/ t.bf[par] \in {2, -2} /\ t.bf[cur] \notin {1, -1}
  \/ t.bf[par] = -2 /\ t.bf[cur] = 1 /\ t.bf[t.right[cur]] \notin -1 .. 1
  \/ t.bf[par] = 2 /\ t.bf[cur] = -1 /\ t.bf[t.left[cur]] \notin -1 .. 1

\* One turn of the second loop: done, one level up, or a rotation.
Climb ==
  /\ pc = "climb" /\ par # Null
  /\ ~BitAsserts(BitCounted)
  /\ \/ /\ BitCounted.bf[par] = 0
        /\ tree' = BitCounted
        /\ Return
     \/ /\ BitCounted.bf[par] \in {1, -1}
        /\ tree' = BitCounted
        /\ cur' = par /\ par' = tree.parent[par]
        /\ UNCHANGED <<pc, key>>
     \/ /\ BitCounted.bf[par] \in {2, -2}
        /\ tree' = Turned(BitCounted)
        /\ Return
  /\ UNCHANGED last

BitAtRoot == pc = "climb" /\ par = Null /\ Return /\ UNCHANGED <<tree, last>>

BitStep == Place \/ Climb \/ BitAtRoot

\* Height and IsBalance.
Height(t, root) ==
  LET h[n \in Keys \union {Null}] ==
        IF n = Null THEN 0
        ELSE LET lh == h[t.left[n]]
                 rh == h[t.right[n]]
             IN  IF lh > rh THEN lh + 1 ELSE rh + 1
  IN  h[root]
BitIsBalance(t) ==
  \A n \in Reached(t) :
    LET difference == Height(t, t.right[n]) - Height(t, t.left[n])
    IN  difference = t.bf[n] /\ difference \in -1 .. 1

-----------------------------------------------------------------------------
(* Between two calls the class's own test is passed: factors are what the  *)
(* heights say, and at most one (Insert, the rotations, IsBalance).        *)
BitBalanced == pc = "idle" => BitIsBalance(tree)

(* The assertions of Insert and of the double rotations hold.              *)
BitAssertionsHold == pc = "climb" /\ par # Null => ~BitAsserts(BitCounted)
=============================================================================
