------------------------- MODULE AlgorithmSequences -------------------------
(***************************************************************************)
(* The sequences of Algorithm/: list, vector and string, three machines    *)
(* that share no state.                                                    *)
(***************************************************************************)
EXTENDS Integers, Sequences, SequencesExt, FiniteSetsExt, TLC

(***************************************************************************)
(* The doubly linked list of Algorithm/List.hpp: a ring of nodes with a    *)
(* head that holds no element.  Two lists share the heap, so that copying, *)
(* assigning and swapping between them can be told from sharing nodes.     *)
(***************************************************************************)
CONSTANTS ListData,  \* elements
          MaxList    \* bound on the elements of a list

VARIABLES heap,      \* nodes allocated: their _next, _prev and _data
          list,      \* _head and _size of each of the two lists
          list_ref   \* history: the elements each list should have
listVars == <<heap, list, list_ref>>

Lists == {1, 2}
Other(l) == 3 - l   \* of two lists, or of two vectors

\* new node(x)
Fresh(h) == Min((1 .. (3 * MaxList + 5)) \ DOMAIN h)

empty_initialize(h) ==
  [heap |-> (Fresh(h) :> [next |-> Fresh(h), prev |-> Fresh(h), data |-> 0]) @@ h,
   head |-> Fresh(h)]

-----------------------------------------------------------------------------
\* Operations on a heap h; pos is the node of an iterator.
begin(h, head) == h[head].next
last(h, head) == h[head].prev

list_insert(h, pos, x) ==
  LET n == Fresh(h)
      new == (n :> [next |-> pos, prev |-> h[pos].prev, data |-> x]) @@ h IN
    [new EXCEPT ![h[pos].prev].next = n, ![pos].prev = n]

list_erase(h, pos) ==
  LET linked == [h EXCEPT ![h[pos].prev].next = h[pos].next,
                          ![h[pos].next].prev = h[pos].prev] IN
    [i \in DOMAIN h \ {pos} |-> linked[i]]

list_clear(h, head, size) ==
  FoldLeft(LAMBDA g, i : list_erase(g, begin(g, head)), h, [i \in 1 .. size |-> i])

\* list(first, last) of the elements s: an empty list, then push_back of each.
ListFromRange(h, s) ==
  LET e == empty_initialize(h) IN
    [heap |-> FoldLeft(LAMBDA g, x : list_insert(g, e.head, x), e.heap, s), head |-> e.head]

\* ~list
Destroyed(h, head, size) ==
  LET c == list_clear(h, head, size) IN [i \in DOMAIN c \ {head} |-> c[i]]

\* The nodes met from the head, in either direction, up to the head again.
Walk(h, head, dir, n) ==
  LET at[k \in 0 .. n] == IF k = 0 THEN head ELSE h[at[k - 1]][dir] IN [k \in 1 .. n |-> at[k]]
ListElements(h, l) == LET w == Walk(h, l.head, "next", l.size) IN [k \in DOMAIN w |-> h[w[k]].data]

-----------------------------------------------------------------------------
ListInit ==
  LET one == empty_initialize(<<>>)
      two == empty_initialize(one.heap) IN
    /\ heap = two.heap
    /\ list = <<[head |-> one.head, size |-> 0], [head |-> two.head, size |-> 0]>>
    /\ list_ref = <<<<>>, <<>>>>

\* An insertion before the k-th element, or at the end: push_front, push_back.
ListInsert(l, k, x) ==
  /\ list[l].size < MaxList
  /\ heap' = list_insert(heap, Walk(heap, list[l].head, "next", list[l].size + 1)[k], x)
  /\ list' = [list EXCEPT ![l].size = @ + 1]
  /\ list_ref' = [list_ref EXCEPT ![l] = InsertAt(@, k, x)]

\* erase asserts that its position is not the end; pop_front and pop_back.
ListErase(l, k) ==
  /\ heap' = list_erase(heap, Walk(heap, list[l].head, "next", k)[k])
  /\ list' = [list EXCEPT ![l].size = @ - 1]
  /\ list_ref' = [list_ref EXCEPT ![l] = RemoveAt(@, k)]

pop_back(l) ==
  /\ list[l].size > 0
  /\ heap' = list_erase(heap, last(heap, list[l].head))
  /\ list' = [list EXCEPT ![l].size = @ - 1]
  /\ list_ref' = [list_ref EXCEPT ![l] = Front(@)]

ListClear(l) ==
  /\ heap' = list_clear(heap, list[l].head, list[l].size)
  /\ list' = [list EXCEPT ![l].size = 0]
  /\ list_ref' = [list_ref EXCEPT ![l] = <<>>]

\* Variant of Assign: the list takes over the nodes of the other.
AssignShared(l) ==
  /\ heap' = heap /\ list' = [list EXCEPT ![l] = list[Other(l)]]
  /\ list_ref' = [list_ref EXCEPT ![l] = list_ref[Other(l)]]

\* lt = other: the parameter is a copy (a list of the same elements, swapped
\* with an empty one that dies), swapped with *this; it dies with the old nodes.
Assign(l) ==
  LET empty == empty_initialize(heap)
      copy == ListFromRange(empty.heap, ListElements(heap, list[Other(l)]))
      settled == Destroyed(copy.heap, empty.head, 0) IN
    /\ heap' = Destroyed(settled, list[l].head, list[l].size)
    /\ list' = [list EXCEPT ![l] = [head |-> copy.head, size |-> list[Other(l)].size]]
    /\ list_ref' = [list_ref EXCEPT ![l] = list_ref[Other(l)]]

\* The first list is edited; either is assigned to the other.
ListNext ==
  \/ \E x \in ListData, k \in 1 .. (list[1].size + 1) : ListInsert(1, k, x)
  \/ \E k \in 1 .. list[1].size : ListErase(1, k)
  \/ pop_back(1) \/ ListClear(1)
  \/ \E l \in Lists : Assign(l)

-----------------------------------------------------------------------------
(* Each list has its elements in order, the links backwards mirror those   *)
(* forwards and close the ring after _size steps, the two lists share no   *)
(* node and no node is lost (insert, erase, operator=, ~list).             *)
RingsAreWhole ==
  /\ \A l \in Lists :
       LET n == list[l].size
           w == Walk(heap, list[l].head, "next", n + 1) IN
         /\ ListElements(heap, list[l]) = list_ref[l]
         /\ w[n + 1] = list[l].head
         /\ Walk(heap, list[l].head, "prev", n + 1) = Reverse(Front(w)) \o <<list[l].head>>
  /\ DOMAIN heap = UNION {ToSet(Walk(heap, list[l].head, "next", list[l].size + 1)) : l \in Lists}
  /\ list[1].head # list[2].head

-----------------------------------------------------------------------------
(***************************************************************************)
(* The vector of Algorithm/Vector.hpp: _start, _finish and _endofstorage   *)
(* as a storage of some length and the number of elements in use.  Two of  *)
(* them, for copying and moving.  A slot that was never assigned is "?".   *)
(***************************************************************************)
CONSTANTS Data,      \* elements; the last one is T()
          First,     \* first capacity of a vector or string that grows, 4 in the code
          MaxVector  \* bound on the elements of a vector

VARIABLES vec,       \* the two vectors
          vec_ref    \* history: the elements each should have
vectorVars == <<vec, vec_ref>>

Vectors == {1, 2}
Empty == [start |-> <<>>, size |-> 0]

capacity(v) == Len(v.start)
VectorElements(v) == SubSeq(v.start, 1, v.size)

vector_reserve(v, n) ==
  IF n <= capacity(v) THEN v
  ELSE [v EXCEPT !.start = [i \in 1 .. n |-> IF i <= v.size THEN v.start[i] ELSE "?"]]

VectorGrown(v) ==
  IF v.size < capacity(v) THEN v
  ELSE vector_reserve(v, IF capacity(v) = 0 THEN First ELSE capacity(v) * 2)

vector_push_back(v, x) ==
  LET g == VectorGrown(v) IN [start |-> [g.start EXCEPT ![v.size + 1] = x], size |-> v.size + 1]

vector_resize(v, n, x) ==
  LET g == vector_reserve(v, n) IN
    [start |-> [i \in DOMAIN g.start |-> IF i > v.size /\ i <= n THEN x ELSE g.start[i]], size |-> n]

\* pos is the same element after the storage has moved; the elements behind
\* it move up one by one, the last one first.
vector_insert(v, pos, x) ==
  LET g == VectorGrown(v)
      moved == FoldLeft(LAMBDA s, end : [s EXCEPT ![end + 1] = s[end]], g.start,
                        Reverse([i \in 1 .. (v.size - pos + 1) |-> pos + i - 1])) IN
    [start |-> [moved EXCEPT ![pos] = x], size |-> v.size + 1]

vector_erase(v, pos) ==
  [start |-> FoldLeft(LAMBDA s, at : [s EXCEPT ![at - 1] = s[at]], v.start,
                      [i \in 1 .. (v.size - pos) |-> pos + i]),
   size |-> v.size - 1]

\* vector(first, last)
VectorFromRange(s) == FoldLeft(vector_push_back, Empty, s)

-----------------------------------------------------------------------------
VectorInit == vec = <<Empty, Empty>> /\ vec_ref = <<<<>>, <<>>>>

SetVector(v, new, elements) ==
  /\ vec' = [vec EXCEPT ![v] = new]
  /\ vec_ref' = [vec_ref EXCEPT ![v] = elements]

Edit(v, x) ==
  \/ /\ Len(vec_ref[v]) < MaxVector
     /\ SetVector(v, vector_push_back(vec[v], x), Append(vec_ref[v], x))
  \/ /\ Len(vec_ref[v]) < MaxVector
     /\ \E pos \in 1 .. vec[v].size :
          SetVector(v, vector_insert(vec[v], pos, x), InsertAt(vec_ref[v], pos, x))
  \/ \E n \in 0 .. MaxVector :
       SetVector(v, vector_resize(vec[v], n, x),
                 [i \in 1 .. n |-> IF i <= Len(vec_ref[v]) THEN vec_ref[v][i] ELSE x])

\* erase, and pop_back, which asserts that there is an element.
VectorErase(v) ==
  \E pos \in 1 .. vec[v].size :
    \/ SetVector(v, vector_erase(vec[v], pos), RemoveAt(vec_ref[v], pos))
    \/ pos = vec[v].size /\ SetVector(v, [vec[v] EXCEPT !.size = @ - 1], Front(vec_ref[v]))

vector_clear(v) == SetVector(v, [vec[v] EXCEPT !.size = 0], <<>>)

\* v = other: a copy, which push_back fills, is swapped with *this.
Copy(v) == SetVector(v, VectorFromRange(VectorElements(vec[Other(v)])), vec_ref[Other(v)])

\* v = move(other): swapped with *this.
swap == vec' = Reverse(vec) /\ vec_ref' = Reverse(vec_ref)

VectorNext ==
  \/ \E x \in Data : Edit(1, x)
  \/ VectorErase(1) \/ vector_clear(1) \/ swap
  \/ \E v \in Vectors : Copy(v)

-----------------------------------------------------------------------------
(* Both vectors hold the elements they should, all of them assigned and    *)
(* inside the storage, through growing, shifting and copying (reserve,     *)
(* insert, erase, resize).                                                 *)
VectorHolds ==
  \A v \in Vectors : vec[v].size <= capacity(vec[v]) /\ VectorElements(vec[v]) = vec_ref[v]

-----------------------------------------------------------------------------
(***************************************************************************)
(* The string of Algorithm/String.hpp: _str has _capacity + 1 characters,  *)
(* of which the one after the _size in use is '\0', since strcpy is what   *)
(* moves them.  A character that was never assigned is "?".                *)
(***************************************************************************)
CONSTANTS Chars,     \* characters other than '\0'
          MaxString, \* bound on the size
          BuffSize   \* size of buff in operator>>, 128 in the code

VARIABLES str,       \* _str, _size and _capacity; history: zero, a '\0' was stored in it
          str_ref    \* history: the characters it should have
stringVars == <<str, str_ref>>

NUL == "NUL"
npos == -1
Words(n) == UNION {[1 .. k -> Chars] : k \in 0 .. n}

\* The C string that begins at i.
CString(s, i) ==
  LET ends == {k \in i .. Len(s) : s[k] = NUL} IN
    IF ends = {} THEN SubSeq(s, i, Len(s))
    ELSE SubSeq(s, i, CHOOSE k \in ends : \A j \in ends : k <= j)

\* strcpy(to + at - 1, c), where c ends with its '\0'.
strcpy(to, at, c) ==
  [k \in DOMAIN to |-> IF k >= at /\ k < at + Len(c) THEN c[k - at + 1] ELSE to[k]]

\* string(const char*)
FromC(c) == [s |-> c \o <<NUL>>, size |-> Len(c), capacity |-> Len(c), zero |-> FALSE]

string_reserve(t, n) ==
  IF n <= t.capacity THEN t
  ELSE [t EXCEPT !.s = strcpy([k \in 1 .. (n + 1) |-> "?"], 1, CString(t.s, 1)), !.capacity = n]

StringGrown(t) ==
  IF t.size < t.capacity THEN t
  ELSE string_reserve(t, IF t.capacity = 0 THEN First ELSE t.capacity * 2)

string_push_back(t, ch) ==
  LET g == StringGrown(t) IN
    [g EXCEPT !.s = [@ EXCEPT ![t.size + 1] = ch, ![t.size + 2] = NUL], !.size = @ + 1]

append(t, c) ==
  LET g == string_reserve(t, t.size + Len(c)) IN
    [g EXCEPT !.s = strcpy(@, t.size + 1, c \o <<NUL>>), !.size = @ + Len(c)]

\* The default of ch is '\0'.
string_resize(t, n, ch) ==
  IF n > t.size
  THEN LET g == string_reserve(t, n) IN
         [g EXCEPT !.s = [k \in DOMAIN @ |-> IF k > t.size /\ k <= n THEN ch
                                             ELSE IF k = n + 1 THEN NUL ELSE @[k]],
                   !.size = n]
  ELSE [t EXCEPT !.s = [@ EXCEPT ![n + 1] = NUL], !.size = n]

\* The characters from pos on, the '\0' too, move up by len.
Shifted(t, pos, len) ==
  [k \in DOMAIN t.s |-> IF k > pos + len /\ k <= t.size + 1 + len THEN t.s[k - len] ELSE t.s[k]]

insert_char(t, pos, ch) ==
  LET g == StringGrown(t) IN
    [g EXCEPT !.s = [Shifted(g, pos, 1) EXCEPT ![pos + 1] = ch], !.size = @ + 1]

\* With an empty c, pos + len - 1 wraps for pos 0 and nothing moves.
string_insert(t, pos, c) ==
  LET g == string_reserve(t, t.size + Len(c))
      up == Shifted(g, pos, Len(c)) IN
    [g EXCEPT !.s = [k \in DOMAIN up |-> IF k > pos /\ k <= pos + Len(c) THEN c[k - pos] ELSE up[k]],
              !.size = @ + Len(c)]

string_erase(t, pos, len) ==
  IF len = npos \/ pos + len >= t.size
  THEN [t EXCEPT !.s = [@ EXCEPT ![pos + 1] = NUL], !.size = pos]
  ELSE [t EXCEPT !.s = strcpy(@, pos + 1, CString(t.s, pos + len + 1)), !.size = @ - len]

find(t, ch) ==
  LET hits == {k \in 1 .. t.size : t.s[k] = ch} IN
    IF hits = {} THEN npos ELSE (CHOOSE k \in hits : \A j \in hits : k <= j) - 1

string_clear(t) == [t EXCEPT !.s = [@ EXCEPT ![1] = NUL], !.size = 0]

\* operator>>: word by way of buff, which is appended when it is full.
OneMore(b, ch) ==
  IF b.i = BuffSize - 1
  THEN [t |-> append(b.t, Front(CString(b.buff, 1))), buff |-> [b.buff EXCEPT ![1] = ch], i |-> 1]
  ELSE [b EXCEPT !.buff = [@ EXCEPT ![b.i + 1] = ch], !.i = @ + 1]
read(t, word) ==
  LET empty == [t |-> string_clear(t), buff |-> [k \in 1 .. BuffSize |-> NUL], i |-> 0]
      b == FoldLeft(OneMore, empty, word) IN
    IF b.i > 0 THEN append(b.t, SubSeq(b.buff, 1, b.i)) ELSE b.t

-----------------------------------------------------------------------------
StringInit == \E c \in Words(2) : str = FromC(c) /\ str_ref = c

StringBecomes(t, c, zero) == Len(c) <= MaxString /\ str' = [t EXCEPT !.zero = zero] /\ str_ref' = c
SetString(t, c) == StringBecomes(t, c, str.zero \/ NUL \in ToSet(c))
Cut(pos, len) == SubSeq(str_ref, 1, pos) \o SubSeq(str_ref, pos + len + 1, Len(str_ref))

StringNext ==
  \/ \E ch \in Chars \union {NUL} : SetString(string_push_back(str, ch), Append(str_ref, ch))
  \/ \E c \in Words(2) : SetString(append(str, c), str_ref \o c)
  \/ \E n \in 0 .. MaxString, ch \in Chars \union {NUL} :
       SetString(string_resize(str, n, ch),
                 [k \in 1 .. n |-> IF k <= Len(str_ref) THEN str_ref[k] ELSE ch])
  \/ \E pos \in 0 .. str.size, ch \in Chars \union {NUL} :
       SetString(insert_char(str, pos, ch), InsertAt(str_ref, pos + 1, ch))
  \/ \E pos \in 0 .. str.size, c \in Words(2) :
       SetString(string_insert(str, pos, c),
                 SubSeq(str_ref, 1, pos) \o c \o SubSeq(str_ref, pos + 1, Len(str_ref)))
  \/ \E pos \in 0 .. (str.size - 1), len \in 0 .. MaxString :
       SetString(string_erase(str, pos, len), Cut(pos, len))
  \/ \E pos \in 0 .. (str.size - 1) :
       SetString(string_erase(str, pos, npos), SubSeq(str_ref, 1, pos))
  \/ \E n \in 0 .. MaxString : SetString(string_reserve(str, n), str_ref)
  \/ \E word \in Words(MaxString) : StringBecomes(read(str, word), word, FALSE)
  \/ LET c == Front(CString(str.s, 1)) IN                    \* a copy
       SetString(FromC(c), IF str.zero THEN c ELSE str_ref)
  \/ StringBecomes(string_clear(str), <<>>, FALSE)

-----------------------------------------------------------------------------
(* The size is that of the characters put in, and within the capacity;     *)
(* unless a '\0' was among them, the string has those characters and ends  *)
(* for C where it ends for size(), so that no strcpy leaves its buffer     *)
(* (reserve, insert, erase, operator>>).                                   *)
StringHolds ==
  /\ str.size <= str.capacity /\ Len(str.s) = str.capacity + 1 /\ str.size = Len(str_ref)
  /\ ~str.zero =>
       /\ CString(str.s, 1) = str_ref \o <<NUL>>
       /\ \A ch \in Chars : find(str, ch) = npos <=> ch \notin ToSet(str_ref)

(* That the characters are kept whatever they are is false of the code:    *)
(* resize(n) fills up with '\0' by default, and the next reserve copies    *)
(* with strcpy what is before it (resize, reserve).                        *)
ZerosKept == SubSeq(str.s, 1, str.size) = str_ref
=============================================================================
