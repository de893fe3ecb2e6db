--------------------------- MODULE MatcherProofs ---------------------------
(***************************************************************************)
(* For any users, tiers and number of requests: a player who waits for an  *)
(* opponent is never forgotten, and no request puts him into two rooms.    *)
(***************************************************************************)
EXTENDS Matcher, FiniteSetTheorems, SequenceTheorems, TLAPS

-----------------------------------------------------------------------------
(* A one-to-one map into a finite set bounds the size of where it starts,  *)
(* and reaches everything if the sizes are the same.                       *)
LEMMA OneToOne ==
  ASSUME NEW A, NEW B, IsFiniteSet(B), NEW f \in [A -> B],
         \A x, y \in A : f[x] = f[y] => x = y
  PROVE  /\ IsFiniteSet(A) /\ Cardinality(A) <= Cardinality(B)
         /\ Cardinality(A) = Cardinality(B) => \A b \in B : \E a \in A : f[a] = b
<1>1. f \in Injection(A, B)
  BY DEF Injection, IsInjective
<1> QED
  BY <1>1, FS_Injection DEF Surjection

(* The positions of a sequence at which a user stands are finitely many.   *)
LEMMA CountType ==
  ASSUME NEW S, NEW q \in Seq(S), NEW v
  PROVE  /\ IsFiniteSet({k \in DOMAIN q : q[k] = v})
         /\ Count(v, q) \in Nat
<1>1. DOMAIN q = 1 .. Len(q) /\ Len(q) \in Nat
  OBVIOUS
<1>2. IsFiniteSet(1 .. Len(q))
  BY <1>1, FS_Interval
<1>3. {k \in DOMAIN q : q[k] = v} \in SUBSET (1 .. Len(q))
  BY <1>1
<1>4. IsFiniteSet({k \in DOMAIN q : q[k] = v})
  BY <1>2, <1>3, FS_Subset
<1> QED
  BY <1>4, FS_CardinalityType DEF Count

One(x, v) == IF x = v THEN 1 ELSE 0

(* push_back adds one occurrence of what it pushes.                        *)
LEMMA CountAppend ==
  ASSUME NEW S, NEW q \in Seq(S), NEW x \in S, NEW v
  PROVE  Count(v, Append(q, x)) = Count(v, q) + One(x, v)
<1> DEFINE n == Len(q)
           old == {k \in DOMAIN q : q[k] = v}
           new == {k \in DOMAIN Append(q, x) : Append(q, x)[k] = v}
<1>1. /\ DOMAIN q = 1 .. n /\ n \in Nat
      /\ DOMAIN Append(q, x) = 1 .. n + 1
      /\ \A k \in 1 .. n : Append(q, x)[k] = q[k]
      /\ Append(q, x)[n + 1] = x
  OBVIOUS
<1>2. new = IF x = v THEN old \cup {n + 1} ELSE old
  BY <1>1
<1>3. n + 1 \notin old
  BY <1>1
<1>4. IsFiniteSet(old) /\ Cardinality(old) \in Nat
  BY CountType DEF Count
<1>5. Cardinality(old \cup {n + 1}) = Cardinality(old) + 1
  BY <1>3, <1>4, FS_AddElement
<1>6. Count(v, q) = Cardinality(old) /\ Count(v, Append(q, x)) = Cardinality(new)
  BY DEF Count
<1> HIDE DEF old, new
<1> QED
  BY <1>2, <1>4, <1>5, <1>6 DEF One

(* pop_front takes one occurrence of the head.                             *)
LEMMA CountTail ==
  ASSUME NEW S, NEW q \in Seq(S), q # <<>>, NEW v
  PROVE  Count(v, q) = Count(v, Tail(q)) + One(Head(q), v)
<1> DEFINE n == Len(Tail(q))
           rest == {k \in DOMAIN Tail(q) : Tail(q)[k] = v}
           later == {k \in DOMAIN q : q[k] = v /\ k # 1}
           all == {k \in DOMAIN q : q[k] = v}
           f == [k \in rest |-> k + 1]
<1>1. /\ Tail(q) \in Seq(S) /\ n \in Nat /\ DOMAIN Tail(q) = 1 .. n
      /\ DOMAIN q = 1 .. n + 1 /\ Head(q) = q[1]
      /\ \A k \in 1 .. n : Tail(q)[k] = q[k + 1]
  BY HeadTailProperties
<1>2. IsFiniteSet(rest) /\ Cardinality(rest) \in Nat
  BY <1>1, CountType DEF Count
<1>3. f \in Bijection(rest, later)
  <2>1. f \in [rest -> later]
    BY <1>1
  <2>2. \A j, k \in rest : f[j] = f[k] => j = k
    BY <1>1
  <2>3. \A k \in later : \E j \in rest : f[j] = k
    <3> SUFFICES ASSUME NEW k \in later PROVE k - 1 \in rest /\ f[k - 1] = k
      OBVIOUS
    <3>1. k \in 1 .. n + 1 /\ k # 1 /\ q[k] = v
      BY <1>1
    <3>2. k - 1 \in 1 .. n /\ (k - 1) + 1 = k
      BY <1>1, <3>1
    <3> QED
      BY <1>1, <3>1, <3>2
  <2> HIDE DEF f, rest, later
  <2> QED
    BY <2>1, <2>2, <2>3 DEF Bijection, Injection, IsInjective, Surjection
<1>4. IsFiniteSet(later) /\ Cardinality(later) = Cardinality(rest)
  BY <1>2, <1>3, FS_Bijection, ZenonT(60) DEF ExistsBijection
<1>5. 1 \notin later /\ all = IF Head(q) = v THEN later \cup {1} ELSE later
  BY <1>1
<1>6. Cardinality(later \cup {1}) = Cardinality(later) + 1
  BY <1>4, <1>5, FS_AddElement
<1>7. Count(v, q) = Cardinality(all) /\ Count(v, Tail(q)) = Cardinality(rest)
  BY DEF Count
<1> HIDE DEF all, rest, later
<1> QED
  BY <1>2, <1>4, <1>5, <1>6, <1>7 DEF One

(* The short sequences handle_match works with.                            *)
LEMMA CountShort ==
  ASSUME NEW v, NEW a, NEW b
  PROVE  /\ Count(v, <<>>) = 0
         /\ Count(v, <<a>>) = One(a, v)
         /\ Count(v, <<a, b>>) = One(a, v) + One(b, v)
<1> DEFINE S == {a, b}
<1>1. Count(v, <<>>) = 0
  <2>1. {k \in DOMAIN <<>> : <<>>[k] = v} = {}
    OBVIOUS
  <2> QED
    BY <2>1, FS_EmptySet DEF Count
<1>2. <<>> \in Seq(S) /\ <<a>> \in Seq(S) /\ a \in S /\ b \in S
  OBVIOUS
<1>a. <<a>> = Append(<<>>, a) /\ <<a, b>> = Append(<<a>>, b)
  OBVIOUS
<1> HIDE DEF S
<1>b. \A s \in Seq(S), x \in S : Count(v, Append(s, x)) = Count(v, s) + One(x, v)
  BY CountAppend
<1>3. Count(v, <<a>>) = Count(v, <<>>) + One(a, v)
  BY <1>2, <1>a, <1>b, Zenon
<1>4. Count(v, <<a, b>>) = Count(v, <<a>>) + One(b, v)
  BY <1>2, <1>a, <1>b, Zenon
<1> QED
  BY <1>1, <1>3, <1>4 DEF One

(* list::remove: every position of what is left stands for a position of   *)
(* the list, each for another one, and every position of another user has  *)
(* one.                                                                    *)
LEMMA RemovePositions ==
  ASSUME NEW S, NEW q \in Seq(S), NEW u
  PROVE  /\ remove(q, u) \in Seq(S)
         /\ \E f \in [DOMAIN remove(q, u) -> DOMAIN q] :
              /\ \A i \in DOMAIN remove(q, u) : remove(q, u)[i] = q[f[i]]
              /\ \A i, j \in DOMAIN remove(q, u) : f[i] = f[j] => i = j
              /\ \A k \in DOMAIN q : q[k] # u => \E i \in DOMAIN remove(q, u) : f[i] = k
<1> DEFINE kept == {k \in DOMAIN q : q[k] # u}
           upto(k) == {j \in kept : j <= k}
           place(k) == Cardinality(upto(k))
           n == Cardinality(kept)
           at(i) == CHOOSE k \in kept : place(k) = i
           f == [i \in 1 .. n |-> at(i)]
           r == [i \in 1 .. n |-> q[at(i)]]
<1>1. /\ DOMAIN q = 1 .. Len(q) /\ Len(q) \in Nat
      /\ kept \in SUBSET (1 .. Len(q))
      /\ \A k \in kept : q[k] \in S
  OBVIOUS
<1>2. IsFiniteSet(kept) /\ n \in Nat
  <2>1. IsFiniteSet(1 .. Len(q))
    BY <1>1, FS_Interval
  <2> QED
    BY <1>1, <2>1, FS_Subset, FS_CardinalityType
<1>3. ASSUME NEW k \in kept
      PROVE  IsFiniteSet(upto(k)) /\ place(k) \in 1 .. n
  <2>1. upto(k) \in SUBSET kept /\ k \in upto(k)
    BY <1>1
  <2>2. IsFiniteSet(upto(k)) /\ place(k) <= n
    BY <1>2, <2>1, FS_Subset
  <2>3. place(k) \in Nat /\ place(k) # 0
    BY <2>1, <2>2, FS_CardinalityType, FS_EmptySet
  <2> QED
    BY <1>2, <2>2, <2>3
<1>4. ASSUME NEW j \in kept, NEW k \in kept, place(j) = place(k)
      PROVE  j = k
  <2>1. ASSUME NEW x \in kept, NEW y \in kept, x < y
        PROVE  place(x) # place(y)
    <3>1. x \in 1 .. Len(q) /\ y \in 1 .. Len(q)
      BY <1>1
    <3>2. upto(x) \in SUBSET upto(y) /\ y \in upto(y) /\ y \notin upto(x)
      BY <1>1, <2>1, <3>1
    <3>3. IsFiniteSet(upto(y))
      BY <1>3
    <3> QED
      BY <3>2, <3>3, FS_Subset
  <2>2. j \in Nat /\ k \in Nat
    BY <1>1
  <2> QED
    BY <1>4, <2>1, <2>2
<1>5. \A i \in 1 .. n : \E k \in kept : place(k) = i
  <2> DEFINE p == [k \in kept |-> place(k)]
             I == 1 .. n
  <2>1. p \in [kept -> I]
    BY <1>3
  <2>2. \A j, k \in kept : p[j] = p[k] => j = k
    BY <1>4
  <2>3. IsFiniteSet(I) /\ Cardinality(kept) = Cardinality(I)
    BY <1>2, FS_Interval
  <2>4. \A k \in kept : p[k] = place(k)
    OBVIOUS
  <2> HIDE DEF p, kept, I
  <2>5. \A i \in I : \E k \in kept : p[k] = i
    BY <2>1, <2>2, <2>3, OneToOne
  <2> QED
    BY <2>4, <2>5 DEF I
<1>6. \A i \in 1 .. n : at(i) \in kept /\ place(at(i)) = i
  BY <1>5
<1>7. remove(q, u) = r
  BY DEF remove
<1> HIDE DEF at, place, kept, n
<1>8. \A i \in 1 .. n : f[i] = at(i) /\ r[i] = q[f[i]]
  OBVIOUS
<1>9. f \in [1 .. n -> DOMAIN q] /\ DOMAIN r = 1 .. n
  BY <1>6 DEF kept
<1>10. \A i \in 1 .. n : f[i] \in kept /\ place(f[i]) = i
  BY <1>6, <1>8
<1>11. ASSUME NEW k \in DOMAIN q, q[k] # u
       PROVE  \E i \in 1 .. n : f[i] = k
  <2>1. k \in kept /\ place(k) \in 1 .. n
    BY <1>3, <1>11 DEF kept
  <2>2. at(place(k)) = k
    BY <1>4, <1>6, <2>1
  <2> QED
    BY <1>8, <2>1, <2>2
<1>12. r \in Seq(S)
  <2>1. r \in [1 .. n -> S]
    BY <1>1, <1>8, <1>10
  <2> HIDE DEF r
  <2> QED
    BY <1>2, <2>1
<1> HIDE DEF f, r
<1>13. \A i, j \in 1 .. n : f[i] = f[j] => i = j
  BY <1>10
<1>14. /\ f \in [DOMAIN r -> DOMAIN q]
       /\ \A i \in DOMAIN r : r[i] = q[f[i]]
       /\ \A i, j \in DOMAIN r : f[i] = f[j] => i = j
       /\ \A k \in DOMAIN q : q[k] # u => \E i \in DOMAIN r : f[i] = k
  BY <1>8, <1>9, <1>11, <1>13
<1> QED
  BY <1>7, <1>12, <1>14

(* Who is left after list::remove was in the list, and who is not removed  *)
(* is left.                                                                *)
LEMMA RemoveMembers ==
  ASSUME NEW S, NEW q \in Seq(S), NEW u
  PROVE  /\ remove(q, u) \in Seq(S)
         /\ \A i \in DOMAIN remove(q, u) : \E k \in DOMAIN q : remove(q, u)[i] = q[k]
         /\ \A k \in DOMAIN q : q[k] # u => \E i \in DOMAIN remove(q, u) : remove(q, u)[i] = q[k]
<1> DEFINE r == remove(q, u)
<1>1. PICK f \in [DOMAIN r -> DOMAIN q] :
        /\ \A i \in DOMAIN r : r[i] = q[f[i]]
        /\ \A k \in DOMAIN q : q[k] # u => \E i \in DOMAIN r : f[i] = k
  BY RemovePositions, SMTT(60)
<1>2. r \in Seq(S)
  BY RemovePositions
<1> HIDE DEF r
<1>3. \A i \in DOMAIN r : f[i] \in DOMAIN q
  OBVIOUS
<1>4. \A k \in DOMAIN q : q[k] # u => \E i \in DOMAIN r : r[i] = q[k]
  BY <1>1
<1> QED
  BY <1>1, <1>2, <1>3, <1>4 DEF r

(* After list::remove(u) every other user is as often in the list as       *)
(* before or, counting all users, not more often.                          *)
LEMMA RemoveCount ==
  ASSUME NEW S, NEW q \in Seq(S), NEW u, NEW v
  PROVE  Count(v, remove(q, u)) <= Count(v, q)
<1> DEFINE r == remove(q, u)
           old == {k \in DOMAIN q : q[k] = v}
           new == {i \in DOMAIN r : r[i] = v}
<1>1. PICK f \in [DOMAIN r -> DOMAIN q] :
        /\ \A i \in DOMAIN r : r[i] = q[f[i]]
        /\ \A i, j \in DOMAIN r : f[i] = f[j] => i = j
  BY RemovePositions
<1> DEFINE g == [i \in new |-> f[i]]
<1>2. g \in [new -> old] /\ \A i, j \in new : g[i] = g[j] => i = j
  BY <1>1
<1>3. IsFiniteSet(old)
  BY CountType
<1>4. Count(v, q) = Cardinality(old) /\ Count(v, remove(q, u)) = Cardinality(new)
  BY DEF Count
<1> HIDE DEF g, old, new
<1> QED
  BY <1>2, <1>3, <1>4, OneToOne

-----------------------------------------------------------------------------
\* The values the variables take, with what a thread holds at each step of
\* handle_match; a user who waits for an opponent is in the hall.
Free == {"size", "wait", "waiting", "pop1"}
Paired == {"conn1", "conn2", "hall1", "hall2", "create"}

TypeInv ==
  /\ hall \subseteq Users
  /\ expecting \subseteq hall
  /\ queue \in [Tiers -> Seq(Users)]
  /\ pc \in [Tiers -> Free \cup Paired \cup {"pop2", "add"}]
  /\ uid1 \in [Tiers -> Users \cup {NoUser}]
  /\ uid2 \in [Tiers -> Users \cup {NoUser}]
  /\ back \in [Tiers -> Seq(Users)]
  /\ rooms \in Seq(Users \X Users)
  /\ starts \in [Users -> Nat]

Holds(step, a, b, w) ==
  /\ step \in Free => a = NoUser /\ b = NoUser /\ w = <<>>
  /\ step = "pop2" => a \in Users /\ b = NoUser /\ w = <<>>
  /\ step \in Paired => a \in Users /\ b \in Users /\ w = <<>>
  /\ step = "add" => a = NoUser /\ b = NoUser /\ w # <<>>

HandInv == \A t \in Tiers : Holds(pc[t], uid1[t], uid2[t], back[t])

\* A thread meets only users of its own tier.
OfTier(t, q) == \A k \in DOMAIN q : TierOf[q[k]] = t

TierInv ==
  \A t \in Tiers :
    /\ OfTier(t, queue[t]) /\ OfTier(t, back[t])
    /\ uid1[t] \in Users => TierOf[uid1[t]] = t
    /\ uid2[t] \in Users => TierOf[uid2[t]] = t

IInv == TypeInv /\ HandInv /\ TierInv

(* The initial state.                                                      *)
LEMMA InvInit == Init => IInv
<1> SUFFICES ASSUME Init PROVE IInv
  OBVIOUS
<1>1. TypeInv
  BY DEF Init, TypeInv, Free
<1>2. HandInv
  BY NoUserAssumption DEF Init, HandInv, Holds, Free, Paired
<1>3. TierInv
  BY NoUserAssumption DEF Init, TierInv, OfTier
<1> QED
  BY <1>1, <1>2, <1>3 DEF IInv

\* What handle_match changes of a tier: where its thread is, its queue and
\* the thread's locals.  Fits: the values suit the step the thread goes to.
Fits(t, step, q, a, b, w) ==
  /\ step \in Free \cup Paired \cup {"pop2", "add"}
  /\ q \in Seq(Users) /\ w \in Seq(Users)
  /\ a \in Users \cup {NoUser} /\ b \in Users \cup {NoUser}
  /\ Holds(step, a, b, w) /\ OfTier(t, q) /\ OfTier(t, w)
  /\ a \in Users => TierOf[a] = t
  /\ b \in Users => TierOf[b] = t

Sets(t, step, q, a, b, w) ==
  /\ pc' = [pc EXCEPT ![t] = step]
  /\ queue' = [queue EXCEPT ![t] = q]
  /\ uid1' = [uid1 EXCEPT ![t] = a]
  /\ uid2' = [uid2 EXCEPT ![t] = b]
  /\ back' = [back EXCEPT ![t] = w]

(* The values a thread has fit where it is.                                *)
LEMMA ThreadFits ==
  ASSUME IInv, NEW t \in Tiers
  PROVE  Fits(t, pc[t], queue[t], uid1[t], uid2[t], back[t])
BY DEF IInv, TypeInv, HandInv, TierInv, Fits

(* Values that fit keep the invariant: the other threads are as before.    *)
LEMMA SetThread ==
  ASSUME IInv, NEW t \in Tiers, NEW step, NEW q, NEW a, NEW b, NEW w,
         Fits(t, step, q, a, b, w), Sets(t, step, q, a, b, w),
         hall' \subseteq Users, expecting' \subseteq hall', starts' \in [Users -> Nat],
         rooms' \in Seq(Users \X Users)
  PROVE  IInv'
<1>1. TypeInv'
  BY DEF IInv, TypeInv, Fits, Sets
<1>2. HandInv'
  BY DEF IInv, TypeInv, HandInv, Fits, Sets
<1>3. TierInv'
  BY DEF IInv, TypeInv, TierInv, Fits, Sets
<1> QED
  BY <1>1, <1>2, <1>3 DEF IInv

\* How often a user is in the hands and the queue of a tier, and in rooms.
Held(v, q, a, b, w) == Count(v, q) + Count(v, <<a, b>>) + Count(v, w)
HeldBy(v, t) == Held(v, queue[t], uid1[t], uid2[t], back[t])
Seats(v, r) ==
  Cardinality({k \in DOMAIN r : r[k][1] = v}) + Cardinality({k \in DOMAIN r : r[k][2] = v})

(* A room for a and b has one seat for each.                               *)
LEMMA SeatsAppend ==
  ASSUME NEW r \in Seq(Users \X Users), NEW a \in Users, NEW b \in Users, NEW v
  PROVE  /\ Seats(v, r) \in Nat
         /\ Seats(v, Append(r, <<a, b>>)) = Seats(v, r) + Count(v, <<a, b>>)
<1> DEFINE s == Append(r, <<a, b>>)
           left(x) == [k \in DOMAIN x |-> x[k][1]]
           right(x) == [k \in DOMAIN x |-> x[k][2]]
<1>1. s \in Seq(Users \X Users)
  OBVIOUS
<1>2. /\ left(r) \in Seq(Users) /\ right(r) \in Seq(Users)
      /\ left(s) = Append(left(r), a) /\ right(s) = Append(right(r), b)
  <2>1. /\ DOMAIN r = 1 .. Len(r) /\ Len(r) \in Nat
        /\ DOMAIN s = 1 .. Len(r) + 1 /\ s[Len(r) + 1] = <<a, b>>
        /\ \A k \in 1 .. Len(r) : s[k] = r[k]
    OBVIOUS
  <2>2. \A k \in DOMAIN r : r[k] \in Users \X Users
    OBVIOUS
  <2>3. /\ left(r) \in [1 .. Len(r) -> Users]
        /\ right(r) \in [1 .. Len(r) -> Users]
    BY <2>1, <2>2
  <2>4. left(r) \in Seq(Users) /\ right(r) \in Seq(Users)
    BY <2>1, <2>3
  <2>5. Len(left(r)) = Len(r) /\ Len(right(r)) = Len(r)
    BY <2>1, <2>3, <2>4
  <2>6. ASSUME NEW p \in Seq(Users), Len(p) = Len(r), NEW x \in Users, NEW z,
               z = [k \in DOMAIN s |-> IF k = Len(r) + 1 THEN x ELSE p[k]]
        PROVE  z = Append(p, x)
    <3>1. /\ DOMAIN Append(p, x) = 1 .. Len(r) + 1
          /\ \A k \in 1 .. Len(r) : Append(p, x)[k] = p[k]
          /\ Append(p, x)[Len(r) + 1] = x
      BY <2>6
    <3>2. Append(p, x) \in [1 .. Len(r) + 1 -> Users]
      <4>1. Append(p, x) \in Seq(Users) /\ Len(Append(p, x)) = Len(r) + 1
        BY <2>6, AppendProperties
      <4> QED
        BY <4>1, LenProperties
    <3>3. /\ DOMAIN z = 1 .. Len(r) + 1
          /\ \A k \in 1 .. Len(r) + 1 : z[k] = Append(p, x)[k]
      BY <2>1, <2>6, <3>1
    <3>4. z \in [1 .. Len(r) + 1 -> Users]
      <4>1. \A k \in 1 .. Len(r) + 1 : z[k] \in Users
        BY <3>2, <3>3
      <4>2. z = [k \in DOMAIN z |-> z[k]]
        BY <2>6
      <4> QED
        BY <3>3, <4>1, <4>2
    <3> HIDE DEF s
    <3> QED
      BY <3>2, <3>3, <3>4
  <2>7. /\ left(s) = [k \in DOMAIN s |-> IF k = Len(r) + 1 THEN a ELSE left(r)[k]]
        /\ right(s) = [k \in DOMAIN s |-> IF k = Len(r) + 1 THEN b ELSE right(r)[k]]
    BY <2>1
  <2> HIDE DEF left, right, s
  <2> QED
    BY <2>4, <2>5, <2>6, <2>7
<1>3. ASSUME NEW x
      PROVE  Seats(v, x) = Count(v, left(x)) + Count(v, right(x))
  <2>1. /\ {k \in DOMAIN x : x[k][1] = v} = {k \in DOMAIN left(x) : left(x)[k] = v}
        /\ {k \in DOMAIN x : x[k][2] = v} = {k \in DOMAIN right(x) : right(x)[k] = v}
    OBVIOUS
  <2> QED
    BY <2>1 DEF Seats, Count
<1> HIDE DEF left, right, s
<1>4. Count(v, left(r)) \in Nat /\ Count(v, right(r)) \in Nat
  BY <1>2, CountType
<1>5. /\ Count(v, left(s)) = Count(v, left(r)) + One(a, v)
      /\ Count(v, right(s)) = Count(v, right(r)) + One(b, v)
  BY <1>2, CountAppend, ZenonT(60)
<1>6. Count(v, <<a, b>>) = One(a, v) + One(b, v)
  BY CountShort, Zenon
<1>7. Seats(v, r) = Count(v, left(r)) + Count(v, right(r))
  BY <1>3
<1>8. Seats(v, s) = Count(v, left(s)) + Count(v, right(s))
  BY <1>3
<1> SUFFICES Seats(v, r) \in Nat /\ Seats(v, s) = Seats(v, r) + Count(v, <<a, b>>)
  BY DEF s
<1> QED
  BY <1>4, <1>5, <1>6, <1>7, <1>8 DEF One

(* The head of a queue and what is left.                                   *)
LEMMA HeadOfTier ==
  ASSUME NEW t, NEW q \in Seq(Users), q # <<>>, OfTier(t, q)
  PROVE  /\ Head(q) \in Users /\ TierOf[Head(q)] = t
         /\ Tail(q) \in Seq(Users) /\ OfTier(t, Tail(q))
         /\ Len(q) = 1 <=> Tail(q) = <<>>
<1>1. /\ Len(q) \in Nat \ {0} /\ DOMAIN q = 1 .. Len(q) /\ Head(q) = q[1]
      /\ Len(Tail(q)) = Len(q) - 1 /\ Tail(q) \in Seq(Users)
      /\ \A k \in 1 .. Len(q) - 1 : Tail(q)[k] = q[k + 1]
  BY HeadTailProperties
<1>2. Len(q) = 1 <=> Tail(q) = <<>>
  <2>1. Len(Tail(q)) = 0 <=> Tail(q) = <<>>
    BY <1>1, EmptySeq, Zenon
  <2> QED
    BY <1>1, <2>1
<1>3. OfTier(t, Tail(q))
  BY <1>1 DEF OfTier
<1> QED
  BY <1>1, <1>2, <1>3 DEF OfTier

(* A queue with a user of the tier behind it.                              *)
LEMMA AppendOfTier ==
  ASSUME NEW t, NEW q \in Seq(Users), OfTier(t, q), NEW u \in Users, TierOf[u] = t
  PROVE  Append(q, u) \in Seq(Users) /\ OfTier(t, Append(q, u))
BY AppendProperties DEF OfTier

(* The sequences of users handle_match adds back.                          *)
LEMMA ShortOfTier ==
  ASSUME NEW t, NEW a \in Users, NEW b \in Users, TierOf[a] = t, TierOf[b] = t
  PROVE  /\ <<a>> \in Seq(Users) /\ <<a>> # <<>> /\ OfTier(t, <<a>>)
         /\ <<a, b>> \in Seq(Users) /\ <<a, b>> # <<>> /\ OfTier(t, <<a, b>>)
<1>1. <<a>> \in Seq(Users) /\ <<a>> # <<>> /\ OfTier(t, <<a>>)
  BY DEF OfTier
<1>2. <<a, b>> = Append(<<a>>, b)
  OBVIOUS
<1>3. <<a, b>> \in Seq(Users) /\ OfTier(t, <<a, b>>)
  BY <1>1, <1>2, AppendOfTier
<1> QED
  BY <1>1, <1>3

-----------------------------------------------------------------------------
\* A step of handle_match: no user is multiplied, and none who waits for an
\* opponent is lost, but for those whose add() failed.
Moves(t, step, q, a, b, w) ==
  /\ Fits(t, step, q, a, b, w) /\ Sets(t, step, q, a, b, w)
  /\ hall' = hall /\ expecting' \subseteq expecting /\ starts' = starts
  /\ failed \subseteq failed'
  /\ rooms' \in Seq(Users \X Users)
  /\ \A v \in Users : Held(v, q, a, b, w) + Seats(v, rooms') <= HeldBy(v, t) + Seats(v, rooms)
  /\ \A v \in expecting' \ failed' : Held(v, q, a, b, w) >= HeldBy(v, t)

(* What is counted is a number.                                            *)
LEMMA HeldType ==
  ASSUME IInv, NEW t \in Tiers, NEW v
  PROVE  /\ Count(v, queue[t]) \in Nat /\ Count(v, back[t]) \in Nat
         /\ Count(v, <<uid1[t], uid2[t]>>) = One(uid1[t], v) + One(uid2[t], v)
         /\ HeldBy(v, t) = Count(v, queue[t]) + (One(uid1[t], v) + One(uid2[t], v)) + Count(v, back[t])
         /\ HeldBy(v, t) \in Nat /\ Seats(v, rooms) \in Nat
<1>1. Count(v, queue[t]) \in Nat /\ Count(v, back[t]) \in Nat
  BY ThreadFits, CountType DEF Fits
<1>2. Count(v, <<uid1[t], uid2[t]>>) = One(uid1[t], v) + One(uid2[t], v)
  BY CountShort, Zenon
<1>3. Seats(v, rooms) \in Nat
  <2>1. /\ IsFiniteSet(DOMAIN rooms)
        /\ {k \in DOMAIN rooms : rooms[k][1] = v} \in SUBSET DOMAIN rooms
        /\ {k \in DOMAIN rooms : rooms[k][2] = v} \in SUBSET DOMAIN rooms
    <3>1. DOMAIN rooms = 1 .. Len(rooms) /\ Len(rooms) \in Nat
      BY DEF IInv, TypeInv
    <3> QED
      BY <3>1, FS_Interval
  <2> QED
    BY <2>1, FS_Subset, FS_CardinalityType DEF Seats
<1>4. One(uid1[t], v) \in Nat /\ One(uid2[t], v) \in Nat
  BY DEF One
<1>5. HeldBy(v, t) = Count(v, queue[t]) + (One(uid1[t], v) + One(uid2[t], v)) + Count(v, back[t])
  BY <1>2 DEF HeldBy, Held
<1> QED
  BY <1>1, <1>2, <1>3, <1>4, <1>5

(* A step that only goes to another place.                                 *)
LEMMA StayMoves ==
  ASSUME IInv, NEW t \in Tiers, NEW step, Goto(t, step),
         UNCHANGED <<queue, uid1, uid2, back, rooms, userVars>>,
         Fits(t, step, queue[t], uid1[t], uid2[t], back[t])
  PROVE  Moves(t, step, queue[t], uid1[t], uid2[t], back[t])
<1>1. Sets(t, step, queue[t], uid1[t], uid2[t], back[t])
  BY DEF Sets, Goto, IInv, TypeInv
<1>2. /\ hall' = hall /\ expecting' = expecting /\ starts' = starts /\ rooms' = rooms
      /\ rooms \in Seq(Users \X Users) /\ failed' = failed
  BY DEF userVars, IInv, TypeInv
<1>3. \A v : /\ Held(v, queue[t], uid1[t], uid2[t], back[t]) = HeldBy(v, t)
             /\ HeldBy(v, t) \in Nat /\ Seats(v, rooms) \in Nat
  BY HeldType DEF HeldBy
<1> QED
  BY <1>1, <1>2, <1>3 DEF Moves

(* Adding users of the tier back loses nobody who still waits.             *)
LEMMA AddBackMoves ==
  ASSUME IInv, NEW t \in Tiers, NEW users \in Seq(Users), users # <<>>, AddBack(t, users),
         OfTier(t, users), back[t] = <<>>,
         \A v \in Users : Count(v, users) <= One(uid1[t], v) + One(uid2[t], v),
         \A v \in expecting : Count(v, users) >= One(uid1[t], v) + One(uid2[t], v)
  PROVE  Moves(t, "add", queue[t], NoUser, NoUser, users)
<1>1. Fits(t, "add", queue[t], NoUser, NoUser, users)
  <2>1. Holds("add", NoUser, NoUser, users)
    BY DEF Holds, Free, Paired
  <2> QED
    BY <2>1, ThreadFits, NoUserAssumption DEF Fits
<1>2. Sets(t, "add", queue[t], NoUser, NoUser, users)
  BY DEF Sets, AddBack, Goto, IInv, TypeInv
<1>3. /\ hall' = hall /\ expecting' = expecting /\ starts' = starts /\ rooms' = rooms
      /\ rooms \in Seq(Users \X Users) /\ expecting \subseteq Users /\ failed' = failed
  BY DEF AddBack, userVars, IInv, TypeInv
<1>4. ASSUME NEW v \in Users
      PROVE  /\ Held(v, queue[t], NoUser, NoUser, users) = Count(v, queue[t]) + Count(v, users)
             /\ HeldBy(v, t) = Count(v, queue[t]) + (One(uid1[t], v) + One(uid2[t], v))
             /\ Count(v, queue[t]) \in Nat /\ Count(v, users) \in Nat /\ Seats(v, rooms) \in Nat
             /\ One(uid1[t], v) + One(uid2[t], v) \in Nat
  <2>1. Count(v, <<NoUser, NoUser>>) = One(NoUser, v) + One(NoUser, v)
    BY CountShort, Zenon
  <2>2. One(NoUser, v) = 0 /\ One(uid1[t], v) \in Nat /\ One(uid2[t], v) \in Nat
    BY NoUserAssumption DEF One
  <2>3. Count(v, users) \in Nat
    BY CountType
  <2>4. Count(v, <<>>) = 0
    BY CountShort, Zenon
  <2>5. Count(v, back[t]) = 0
    BY <2>4
  <2>6. /\ HeldBy(v, t) = Count(v, queue[t]) + (One(uid1[t], v) + One(uid2[t], v)) + Count(v, back[t])
        /\ Count(v, queue[t]) \in Nat /\ Seats(v, rooms) \in Nat
    BY HeldType
  <2>7. Held(v, queue[t], NoUser, NoUser, users)
          = Count(v, queue[t]) + Count(v, <<NoUser, NoUser>>) + Count(v, users)
    BY DEF Held
  <2> QED
    BY <2>1, <2>2, <2>3, <2>5, <2>6, <2>7
<1>5. \A v \in Users :
        Held(v, queue[t], NoUser, NoUser, users) + Seats(v, rooms) <= HeldBy(v, t) + Seats(v, rooms)
  BY <1>4
<1>6. \A v \in expecting : Held(v, queue[t], NoUser, NoUser, users) >= HeldBy(v, t)
  BY <1>3, <1>4
<1> QED
  BY <1>1, <1>2, <1>3, <1>5, <1>6 DEF Moves

(* Taking the head of the queue into a free hand.                          *)
LEMMA PopMoves ==
  ASSUME IInv, NEW t \in Tiers, NEW step, NEW a, NEW b, queue[t] # <<>>,
         Fits(t, step, Tail(queue[t]), a, b, back[t]), Sets(t, step, Tail(queue[t]), a, b, back[t]),
         UNCHANGED <<rooms, userVars>>,
         \A v \in Users : One(a, v) + One(b, v)
                            = One(Head(queue[t]), v) + (One(uid1[t], v) + One(uid2[t], v))
  PROVE  Moves(t, step, Tail(queue[t]), a, b, back[t])
<1>1. /\ hall' = hall /\ expecting' = expecting /\ starts' = starts /\ rooms' = rooms
      /\ rooms \in Seq(Users \X Users) /\ expecting \subseteq Users /\ failed' = failed
  BY DEF userVars, IInv, TypeInv
<1>2. ASSUME NEW v \in Users
      PROVE  /\ Held(v, Tail(queue[t]), a, b, back[t]) = HeldBy(v, t)
             /\ HeldBy(v, t) \in Nat /\ Seats(v, rooms) \in Nat
  <2>1. Count(v, <<a, b>>) = One(a, v) + One(b, v)
    BY CountShort, Zenon
  <2>2. Held(v, Tail(queue[t]), a, b, back[t])
          = Count(v, Tail(queue[t])) + Count(v, <<a, b>>) + Count(v, back[t])
    BY DEF Held
  <2>3. /\ Tail(queue[t]) \in Seq(Users) /\ queue[t] \in Seq(Users)
        /\ Count(v, Tail(queue[t])) \in Nat
    BY ThreadFits, CountType DEF Fits
  <2>4. Count(v, queue[t]) = Count(v, Tail(queue[t])) + One(Head(queue[t]), v)
    BY <2>3, CountTail
  <2>5. /\ HeldBy(v, t) = Count(v, queue[t]) + (One(uid1[t], v) + One(uid2[t], v)) + Count(v, back[t])
        /\ Count(v, back[t]) \in Nat /\ Seats(v, rooms) \in Nat /\ HeldBy(v, t) \in Nat
    BY HeldType
  <2>6. /\ One(uid1[t], v) \in Nat /\ One(uid2[t], v) \in Nat /\ One(Head(queue[t]), v) \in Nat
        /\ One(a, v) \in Nat /\ One(b, v) \in Nat
    BY DEF One
  <2> QED
    BY <2>1, <2>2, <2>3, <2>4, <2>5, <2>6
<1> QED
  BY <1>1, <1>2 DEF Moves

(* handle_match: what its steps do with the users in its hands.            *)
LEMMA ThreadMoves ==
  ASSUME IInv, NEW t \in Tiers, handle_match(t) \/ SpuriousWakeup(t)
  PROVE  \E step, q, a, b, w : Moves(t, step, q, a, b, w)
<1>0. /\ Fits(t, pc[t], queue[t], uid1[t], uid2[t], back[t])
      /\ Holds(pc[t], uid1[t], uid2[t], back[t])
      /\ OfTier(t, queue[t]) /\ queue[t] \in Seq(Users)
  BY ThreadFits DEF Fits
<1>1. CASE Size(t) \/ Wait(t) \/ SpuriousWakeup(t)
  <2>1. PICK step \in Free : Goto(t, step)
    BY <1>1 DEF Size, Wait, SpuriousWakeup, Free
  <2>2. pc[t] \in Free /\ UNCHANGED <<queue, uid1, uid2, back, rooms, userVars>>
    BY <1>1 DEF Size, Wait, SpuriousWakeup, Free
  <2>3. Fits(t, step, queue[t], uid1[t], uid2[t], back[t])
    BY <1>0, <2>2 DEF Fits, Holds, Free, Paired
  <2>4. Moves(t, step, queue[t], uid1[t], uid2[t], back[t])
    BY <2>1, <2>2, <2>3, StayMoves
  <2> QED
    BY <2>4
<1>2. CASE Pop1(t)
  <2>0. uid1[t] = NoUser /\ uid2[t] = NoUser /\ back[t] = <<>>
    BY <1>0, <1>2 DEF Pop1, Holds, Free
  <2>1. CASE queue[t] = <<>>
    <3>1. Goto(t, "size") /\ UNCHANGED <<queue, uid1, uid2, back, rooms, userVars>>
      BY <1>2, <2>0, <2>1 DEF Pop1, Continue, IInv, TypeInv
    <3>2. Fits(t, "size", queue[t], uid1[t], uid2[t], back[t])
      BY <1>0, <2>0 DEF Fits, Holds, Free, Paired
    <3>3. Moves(t, "size", queue[t], uid1[t], uid2[t], back[t])
      BY <3>1, <3>2, StayMoves
    <3> QED
      BY <3>3
  <2>2. CASE queue[t] # <<>>
    <3>1. /\ Head(queue[t]) \in Users /\ TierOf[Head(queue[t])] = t
          /\ Tail(queue[t]) \in Seq(Users) /\ OfTier(t, Tail(queue[t]))
      BY <1>0, <2>2, HeadOfTier
    <3>2. Fits(t, "pop2", Tail(queue[t]), Head(queue[t]), uid2[t], back[t])
      BY <1>0, <2>0, <3>1 DEF Fits, Holds, Free, Paired
    <3>3. Sets(t, "pop2", Tail(queue[t]), Head(queue[t]), uid2[t], back[t])
      BY <1>2, <2>2 DEF Pop1, Goto, Sets, IInv, TypeInv
    <3>4. UNCHANGED <<rooms, userVars>>
      BY <1>2 DEF Pop1
    <3>5. \A v \in Users : One(Head(queue[t]), v) + One(uid2[t], v)
                             = One(Head(queue[t]), v) + (One(uid1[t], v) + One(uid2[t], v))
      BY <2>0, NoUserAssumption DEF One
    <3>6. Moves(t, "pop2", Tail(queue[t]), Head(queue[t]), uid2[t], back[t])
      BY <2>2, <3>2, <3>3, <3>4, <3>5, PopMoves
    <3> QED
      BY <3>6
  <2> QED
    BY <2>1, <2>2
<1>3. CASE Pop2(t)
  <2>0. /\ uid1[t] \in Users /\ TierOf[uid1[t]] = t
        /\ uid2[t] = NoUser /\ back[t] = <<>>
    BY <1>0, <1>3 DEF Pop2, Holds, Fits
  <2>1. CASE queue[t] = <<>>
    <3>1. OfTier(t, <<uid1[t]>>) /\ <<uid1[t]>> \in Seq(Users) /\ <<uid1[t]>> # <<>>
      BY <2>0, ShortOfTier
    <3>2. AddBack(t, <<uid1[t]>>)
      BY <1>3, <2>1 DEF Pop2
    <3>3. \A v : Count(v, <<uid1[t]>>) = One(uid1[t], v)
      BY CountShort, Zenon
    <3>4. \A v \in Users : Count(v, <<uid1[t]>>) = One(uid1[t], v) + One(uid2[t], v)
      BY <2>0, <3>3, NoUserAssumption DEF One
    <3>5. expecting \subseteq Users /\ \A v \in Users : Count(v, <<uid1[t]>>) \in Nat
      <4>1. expecting \subseteq Users
        BY DEF IInv, TypeInv
      <4> QED
        BY <3>1, <4>1, CountType
    <3>6. Moves(t, "add", queue[t], NoUser, NoUser, <<uid1[t]>>)
      <4> DEFINE users == <<uid1[t]>>
      <4> HIDE DEF users
      <4>1. /\ users \in Seq(Users) /\ users # <<>> /\ AddBack(t, users) /\ OfTier(t, users)
            /\ \A v \in Users : Count(v, users) <= One(uid1[t], v) + One(uid2[t], v)
            /\ \A v \in expecting : Count(v, users) >= One(uid1[t], v) + One(uid2[t], v)
        BY <3>1, <3>2, <3>4, <3>5 DEF users
      <4>2. Moves(t, "add", queue[t], NoUser, NoUser, users)
        BY <2>0, <4>1, AddBackMoves
      <4> QED
        BY <4>2 DEF users
    <3> QED
      BY <3>6
  <2>2. CASE queue[t] # <<>>
    <3>1. /\ Head(queue[t]) \in Users /\ TierOf[Head(queue[t])] = t
          /\ Tail(queue[t]) \in Seq(Users) /\ OfTier(t, Tail(queue[t]))
      BY <1>0, <2>2, HeadOfTier
    <3>2. Fits(t, "conn1", Tail(queue[t]), uid1[t], Head(queue[t]), back[t])
      BY <1>0, <2>0, <3>1 DEF Fits, Holds, Free, Paired
    <3>3. Sets(t, "conn1", Tail(queue[t]), uid1[t], Head(queue[t]), back[t])
      BY <1>3, <2>2 DEF Pop2, Goto, Sets, IInv, TypeInv
    <3>4. UNCHANGED <<rooms, userVars>>
      BY <1>3, <2>2 DEF Pop2
    <3>5. \A v \in Users : One(uid1[t], v) + One(Head(queue[t]), v)
                             = One(Head(queue[t]), v) + (One(uid1[t], v) + One(uid2[t], v))
      BY <2>0, NoUserAssumption DEF One
    <3>6. Moves(t, "conn1", Tail(queue[t]), uid1[t], Head(queue[t]), back[t])
      BY <2>2, <3>2, <3>3, <3>4, <3>5, PopMoves
    <3> QED
      BY <3>6
  <2> QED
    BY <2>1, <2>2
<1>4. CASE Conn1(t) \/ Conn2(t) \/ Hall1(t) \/ Hall2(t)
  <2>1. /\ uid1[t] \in Users /\ uid2[t] \in Users /\ back[t] = <<>>
        /\ TierOf[uid1[t]] = t /\ TierOf[uid2[t]] = t /\ pc[t] \in Paired
    BY <1>0, <1>4 DEF Conn1, Conn2, Hall1, Hall2, Holds, Paired, Fits
  <2> DEFINE ones == <<uid1[t]>>
             twos == <<uid2[t]>>
             both == <<uid1[t], uid2[t]>>
  <2>2. \A v : /\ Count(v, ones) = One(uid1[t], v) /\ Count(v, twos) = One(uid2[t], v)
               /\ Count(v, both) = One(uid1[t], v) + One(uid2[t], v)
    BY CountShort, Zenon
  <2>3. /\ OfTier(t, ones) /\ ones \in Seq(Users) /\ ones # <<>>
        /\ OfTier(t, twos) /\ twos \in Seq(Users) /\ twos # <<>>
        /\ OfTier(t, both) /\ both \in Seq(Users) /\ both # <<>>
    BY <2>1, ShortOfTier, Zenon
  <2>4. \/ \E step \in Paired : Goto(t, step) /\ UNCHANGED <<queue, uid1, uid2, back, rooms, userVars>>
        \/ AddBack(t, both)
        \/ AddBack(t, ones) /\ uid2[t] \notin hall
        \/ AddBack(t, twos) /\ uid1[t] \notin hall
    BY <1>4 DEF Conn1, Conn2, Hall1, Hall2, Paired
  <2>5. expecting \subseteq hall /\ expecting \subseteq Users
    BY DEF IInv, TypeInv
  <2> HIDE DEF ones, twos, both
  <2>6. ASSUME NEW step \in Paired, Goto(t, step), UNCHANGED <<queue, uid1, uid2, back, rooms, userVars>>
        PROVE  Moves(t, step, queue[t], uid1[t], uid2[t], back[t])
    <3>1. Fits(t, step, queue[t], uid1[t], uid2[t], back[t])
      BY <1>0, <2>1, <2>6 DEF Fits, Holds, Free, Paired
    <3> QED
      BY <2>6, <3>1, StayMoves
  <2>7. ASSUME AddBack(t, both)
        PROVE  Moves(t, "add", queue[t], NoUser, NoUser, both)
    <3>1. \A v : Count(v, both) \in Nat
      BY <2>2 DEF One
    <3> QED
      BY <2>1, <2>2, <2>3, <2>7, <3>1, AddBackMoves
  <2>8. ASSUME AddBack(t, ones), uid2[t] \notin hall
        PROVE  Moves(t, "add", queue[t], NoUser, NoUser, ones)
    <3>1. \A v : Count(v, ones) <= One(uid1[t], v) + One(uid2[t], v)
      BY <2>2 DEF One
    <3>2. \A v \in expecting : Count(v, ones) >= One(uid1[t], v) + One(uid2[t], v)
      BY <2>2, <2>5, <2>8 DEF One
    <3> QED
      BY <2>1, <2>3, <2>8, <3>1, <3>2, AddBackMoves
  <2>9. ASSUME AddBack(t, twos), uid1[t] \notin hall
        PROVE  Moves(t, "add", queue[t], NoUser, NoUser, twos)
    <3>1. \A v : Count(v, twos) <= One(uid1[t], v) + One(uid2[t], v)
      BY <2>2 DEF One
    <3>2. \A v \in expecting : Count(v, twos) >= One(uid1[t], v) + One(uid2[t], v)
      BY <2>2, <2>5, <2>9 DEF One
    <3> QED
      BY <2>1, <2>3, <2>9, <3>1, <3>2, AddBackMoves
  <2> QED
    BY <2>4, <2>6, <2>7, <2>8, <2>9, Zenon
<1>5. CASE Create(t)
  <2>1. uid1[t] \in Users /\ uid2[t] \in Users /\ back[t] = <<>>
    BY <1>0, <1>5 DEF Create, Holds, Paired
  <2>2. Fits(t, "size", queue[t], NoUser, NoUser, back[t])
    BY <1>0, <2>1, NoUserAssumption DEF Fits, Holds, Free, Paired
  <2>3. Sets(t, "size", queue[t], NoUser, NoUser, back[t])
    BY <1>5 DEF Create, Continue, Goto, Sets, IInv, TypeInv
  <2>4. /\ hall' = hall /\ starts' = starts /\ expecting' = expecting \ {uid1[t], uid2[t]}
        /\ rooms' = Append(rooms, <<uid1[t], uid2[t]>>)
        /\ rooms \in Seq(Users \X Users) /\ expecting \subseteq Users /\ failed' = failed
    BY <1>5 DEF Create, IInv, TypeInv
  <2>5. rooms' \in Seq(Users \X Users)
    BY <2>1, <2>4
  <2>6. ASSUME NEW v \in Users
        PROVE  /\ Held(v, queue[t], NoUser, NoUser, back[t]) + Seats(v, rooms')
                    <= HeldBy(v, t) + Seats(v, rooms)
               /\ v \in expecting' => Held(v, queue[t], NoUser, NoUser, back[t]) >= HeldBy(v, t)
    <3> DEFINE c == Count(v, <<uid1[t], uid2[t]>>)
               d == Count(v, <<NoUser, NoUser>>)
               h == Held(v, queue[t], NoUser, NoUser, back[t])
    <3>1. c = One(uid1[t], v) + One(uid2[t], v) /\ d = One(NoUser, v) + One(NoUser, v)
      BY CountShort, Zenon
    <3>2. d = 0 /\ c \in Nat
      BY <3>1, NoUserAssumption DEF One
    <3>3. Seats(v, rooms) \in Nat /\ Seats(v, rooms') = Seats(v, rooms) + c
      BY <2>1, <2>4, SeatsAppend, ZenonT(60)
    <3>4. /\ Count(v, queue[t]) \in Nat /\ Count(v, back[t]) \in Nat
      BY HeldType
    <3>5. h = Count(v, queue[t]) + d + Count(v, back[t])
      BY DEF Held
    <3>6. HeldBy(v, t) = Count(v, queue[t]) + c + Count(v, back[t])
      BY DEF Held, HeldBy
    <3>7. v \in expecting' => c = 0
      BY <2>4, <3>1 DEF One
    <3> HIDE DEF c, d, h
    <3>8. /\ h + Seats(v, rooms') <= HeldBy(v, t) + Seats(v, rooms)
          /\ v \in expecting' => h >= HeldBy(v, t)
      BY <3>2, <3>3, <3>4, <3>5, <3>6, <3>7
    <3> QED
      BY <3>8 DEF h
  <2>7. Moves(t, "size", queue[t], NoUser, NoUser, back[t])
    BY <2>2, <2>3, <2>4, <2>5, <2>6 DEF Moves
  <2> QED
    BY <2>7
<1>6. CASE Add(t)
  <2> DEFINE u == Head(back[t])
             w == Tail(back[t])
             q == Append(queue[t], u)
             step == IF Len(back[t]) = 1 THEN "size" ELSE "add"
  <2>1. /\ uid1[t] = NoUser /\ uid2[t] = NoUser /\ back[t] # <<>>
        /\ back[t] \in Seq(Users) /\ OfTier(t, back[t])
    BY <1>0, <1>6 DEF Add, Holds, Fits
  <2>2. /\ u \in Users /\ TierOf[u] = t /\ w \in Seq(Users) /\ OfTier(t, w)
        /\ Len(back[t]) = 1 <=> w = <<>>
    BY <2>1, HeadOfTier
  <2>3. q \in Seq(Users) /\ OfTier(t, q)
    BY <1>0, <2>2, AppendOfTier
  <2>4. Holds(step, NoUser, NoUser, w) /\ step \in Free \cup {"add"}
    BY <2>2 DEF Holds, Free, Paired
  <2>5. /\ \/ queue' = [queue EXCEPT ![t] = q] /\ failed' = failed
           \/ queue' = queue /\ failed' = failed \cup {u}
        /\ back' = [back EXCEPT ![t] = w] /\ pc' = [pc EXCEPT ![t] = step]
    BY <1>6, <2>2 DEF Add, Goto
  <2>6. /\ uid1' = [uid1 EXCEPT ![t] = NoUser] /\ uid2' = [uid2 EXCEPT ![t] = NoUser]
        /\ hall' = hall /\ starts' = starts /\ expecting' = expecting /\ rooms' = rooms
        /\ rooms \in Seq(Users \X Users) /\ expecting \subseteq Users
        /\ queue = [queue EXCEPT ![t] = queue[t]]
    BY <1>6, <2>1 DEF Add, IInv, TypeInv
  <2>7. ASSUME NEW v \in Users
        PROVE  /\ Held(v, q, NoUser, NoUser, w) = HeldBy(v, t)
               /\ Held(v, queue[t], NoUser, NoUser, w) <= HeldBy(v, t)
               /\ v # u => Held(v, queue[t], NoUser, NoUser, w) = HeldBy(v, t)
               /\ HeldBy(v, t) \in Nat /\ Seats(v, rooms) \in Nat
               /\ Held(v, queue[t], NoUser, NoUser, w) \in Nat
    <3> DEFINE d == Count(v, <<NoUser, NoUser>>)
    <3>1. Count(v, q) = Count(v, queue[t]) + One(u, v)
      BY <1>0, <2>2, CountAppend
    <3>2. Count(v, back[t]) = Count(v, w) + One(u, v)
      BY <2>1, CountTail
    <3>3. /\ Held(v, q, NoUser, NoUser, w) = Count(v, q) + d + Count(v, w)
          /\ Held(v, queue[t], NoUser, NoUser, w) = Count(v, queue[t]) + d + Count(v, w)
      BY DEF Held
    <3>4. HeldBy(v, t) = Count(v, queue[t]) + d + Count(v, back[t])
      BY <2>1 DEF Held, HeldBy
    <3>5. /\ Count(v, queue[t]) \in Nat /\ Seats(v, rooms) \in Nat /\ HeldBy(v, t) \in Nat
      BY HeldType
    <3>6. d = One(NoUser, v) + One(NoUser, v)
      BY CountShort, Zenon
    <3>7. d \in Nat /\ One(u, v) \in Nat /\ Count(v, w) \in Nat
      <4>1. Count(v, w) \in Nat
        BY <2>2, CountType
      <4> HIDE DEF d, u, w
      <4> QED
        BY <3>6, <4>1 DEF One
    <3>8. v # u => One(u, v) = 0
      BY DEF One
    <3> HIDE DEF d, u, w, q
    <3> QED
      BY <3>1, <3>2, <3>3, <3>4, <3>5, <3>7, <3>8
  <2> HIDE DEF u, w, step, q
  <2>8. Fits(t, step, q, NoUser, NoUser, w) /\ Fits(t, step, queue[t], NoUser, NoUser, w)
    BY <1>0, <2>2, <2>3, <2>4, NoUserAssumption DEF Fits
  <2>9. CASE queue' = [queue EXCEPT ![t] = q] /\ failed' = failed
    <3>1. Sets(t, step, q, NoUser, NoUser, w)
      BY <2>5, <2>6, <2>9 DEF Sets
    <3>2. Moves(t, step, q, NoUser, NoUser, w)
      BY <2>6, <2>7, <2>8, <2>9, <3>1 DEF Moves
    <3> QED
      BY <3>2
  <2>10. CASE queue' = queue /\ failed' = failed \cup {u}
    <3>1. Sets(t, step, queue[t], NoUser, NoUser, w)
      BY <2>5, <2>6, <2>10 DEF Sets
    <3>2. Moves(t, step, queue[t], NoUser, NoUser, w)
      BY <2>6, <2>7, <2>8, <2>10, <3>1 DEF Moves
    <3> QED
      BY <3>2
  <2> QED
    BY <2>5, <2>9, <2>10
<1> QED
  BY <1>1, <1>2, <1>3, <1>4, <1>5, <1>6 DEF handle_match

-----------------------------------------------------------------------------
(* Who waits is queued or in a hand, as a number.                          *)
LEMMA HeldMeans ==
  ASSUME IInv, NEW u \in Users
  PROVE  /\ (Queued(u) \/ u \in InHand(TierOf[u])) <=> HeldBy(u, TierOf[u]) # 0
         /\ Tokens(u) = HeldBy(u, TierOf[u]) + Seats(u, rooms)
<1> DEFINE t == TierOf[u]
<1>1. t \in Tiers
  BY TierOfAssumption
<1> HIDE DEF t
<1>2. queue[t] \in Seq(Users) /\ back[t] \in Seq(Users)
  BY <1>1, ThreadFits DEF Fits
<1>3. ASSUME NEW q \in Seq(Users)
      PROVE  (\E k \in DOMAIN q : q[k] = u) <=> Count(u, q) # 0
  <2>1. IsFiniteSet({k \in DOMAIN q : q[k] = u})
    BY CountType
  <2> QED
    BY <2>1, FS_EmptySet DEF Count
<1>4. /\ Count(u, queue[t]) \in Nat /\ Count(u, back[t]) \in Nat /\ Seats(u, rooms) \in Nat
      /\ HeldBy(u, t) = Count(u, queue[t]) + (One(uid1[t], u) + One(uid2[t], u)) + Count(u, back[t])
      /\ Count(u, <<uid1[t], uid2[t]>>) = One(uid1[t], u) + One(uid2[t], u)
  BY <1>1, HeldType
<1>5. Queued(u) <=> Count(u, queue[t]) # 0
  BY <1>2, <1>3 DEF Queued, t
<1>6. u \in InHand(t) <=> u \in {uid1[t], uid2[t]} \/ Count(u, back[t]) # 0
  BY <1>2, <1>3 DEF InHand
<1>7. u \in {uid1[t], uid2[t]} <=> One(uid1[t], u) + One(uid2[t], u) # 0
  BY DEF One
<1>8. One(uid1[t], u) \in Nat /\ One(uid2[t], u) \in Nat
  BY DEF One
<1>9. (Queued(u) \/ u \in InHand(t)) <=> HeldBy(u, t) # 0
  BY <1>4, <1>5, <1>6, <1>7, <1>8
<1>10. Tokens(u) = HeldBy(u, t) + Seats(u, rooms)
  <2> DEFINE x == Cardinality({k \in DOMAIN rooms : rooms[k][1] = u})
             y == Cardinality({k \in DOMAIN rooms : rooms[k][2] = u})
             c == Count(u, <<uid1[t], uid2[t]>>)
  <2>1. x \in Nat /\ y \in Nat
    <3>1. /\ IsFiniteSet(DOMAIN rooms)
          /\ {k \in DOMAIN rooms : rooms[k][1] = u} \in SUBSET DOMAIN rooms
          /\ {k \in DOMAIN rooms : rooms[k][2] = u} \in SUBSET DOMAIN rooms
      <4>1. DOMAIN rooms = 1 .. Len(rooms) /\ Len(rooms) \in Nat
        BY DEF IInv, TypeInv
      <4> QED
        BY <4>1, FS_Interval
    <3> QED
      BY <3>1, FS_Subset, FS_CardinalityType
  <2>2. Tokens(u) = Count(u, queue[t]) + c + Count(u, back[t]) + x + y
    BY DEF Tokens, t
  <2>3. HeldBy(u, t) = Count(u, queue[t]) + c + Count(u, back[t]) /\ Seats(u, rooms) = x + y
    BY DEF HeldBy, Held, Seats
  <2>4. c \in Nat
    BY <1>4, <1>8
  <2> HIDE DEF x, y, c
  <2> QED
    BY <1>4, <2>1, <2>2, <2>3, <2>4
<1> QED
  BY <1>9, <1>10 DEF t

(* The invariant with the two properties, as numbers.                      *)
Inv ==
  /\ IInv
  /\ \A u \in expecting \ failed : HeldBy(u, TierOf[u]) # 0
  /\ \A u \in Users : HeldBy(u, TierOf[u]) + Seats(u, rooms) <= starts[u]

(* A step that touches one tier: it is enough to look at the users of that *)
(* tier.                                                                   *)
LEMMA TierStep ==
  ASSUME Inv, NEW t \in Tiers, NEW step, NEW q, NEW a, NEW b, NEW w,
         Fits(t, step, q, a, b, w), Sets(t, step, q, a, b, w),
         hall' \subseteq Users, expecting' \subseteq hall', starts' \in [Users -> Nat],
         rooms' \in Seq(Users \X Users),
         \A v \in Users :
           IF TierOf[v] = t
             THEN /\ Held(v, q, a, b, w) + Seats(v, rooms') <= starts'[v]
                  /\ v \in expecting' \ failed' => Held(v, q, a, b, w) # 0
             ELSE /\ Seats(v, rooms') <= Seats(v, rooms) /\ starts[v] <= starts'[v]
                  /\ v \in expecting' \ failed' => v \in expecting \ failed
  PROVE  Inv'
<1>0. IInv
  BY DEF Inv
<1>1. IInv'
  BY <1>0, SetThread
<1>2. /\ \A v : HeldBy(v, t)' = Held(v, q, a, b, w)
      /\ \A s \in Tiers : s # t => \A v : HeldBy(v, s)' = HeldBy(v, s)
  BY <1>0 DEF Sets, HeldBy, IInv, TypeInv
<1>3. ASSUME NEW v \in Users
      PROVE  /\ HeldBy(v, TierOf[v])' + Seats(v, rooms') <= starts'[v]
             /\ v \in expecting' \ failed' => HeldBy(v, TierOf[v])' # 0
  <2> DEFINE s == TierOf[v]
  <2>1. s \in Tiers
    BY TierOfAssumption
  <2>2. CASE s = t
    BY <1>2, <2>2
  <2>3. CASE s # t
    <3>1. HeldBy(v, s)' = HeldBy(v, s)
      BY <1>2, <2>1, <2>3
    <3>2. HeldBy(v, s) \in Nat /\ Seats(v, rooms) \in Nat
      BY <1>0, <2>1, HeldType
    <3>3. Seats(v, rooms') \in Nat
      BY SeatsAppend
    <3>4. HeldBy(v, s) + Seats(v, rooms) <= starts[v] /\ (v \in expecting \ failed => HeldBy(v, s) # 0)
      BY DEF Inv
    <3>5. starts[v] \in Nat /\ starts'[v] \in Nat
      BY <1>0 DEF IInv, TypeInv
    <3>6. Seats(v, rooms') <= Seats(v, rooms) /\ starts[v] <= starts'[v]
          /\ (v \in expecting' \ failed' => v \in expecting \ failed)
      BY <2>3
    <3> HIDE DEF s
    <3>7. /\ HeldBy(v, s)' + Seats(v, rooms') <= starts'[v]
          /\ v \in expecting' \ failed' => HeldBy(v, s)' # 0
      BY <3>1, <3>2, <3>3, <3>4, <3>5, <3>6
    <3> QED
      BY <3>7 DEF s
  <2> QED
    BY <2>2, <2>3
<1>4. expecting' \subseteq Users
  OBVIOUS
<1> QED
  BY <1>1, <1>3, <1>4 DEF Inv

(* A thread holds nobody of another tier.                                  *)
LEMMA NotOfTier ==
  ASSUME NEW t, NEW step, NEW q, NEW a, NEW b, NEW w, Fits(t, step, q, a, b, w), NEW v \in Users
  PROVE  /\ Held(v, q, a, b, w) \in Nat
         /\ TierOf[v] # t => Held(v, q, a, b, w) = 0
<1>1. q \in Seq(Users) /\ w \in Seq(Users) /\ OfTier(t, q) /\ OfTier(t, w)
  BY DEF Fits
<1>2. Count(v, q) \in Nat /\ Count(v, w) \in Nat
  BY <1>1, CountType
<1>3. Count(v, <<a, b>>) = One(a, v) + One(b, v)
  BY CountShort, Zenon
<1>4. Held(v, q, a, b, w) = Count(v, q) + Count(v, <<a, b>>) + Count(v, w)
  BY DEF Held
<1>5. One(a, v) \in Nat /\ One(b, v) \in Nat
  BY DEF One
<1>6. ASSUME TierOf[v] # t
      PROVE  Count(v, q) = 0 /\ Count(v, w) = 0 /\ One(a, v) = 0 /\ One(b, v) = 0
  <2>1. {k \in DOMAIN q : q[k] = v} = {} /\ {k \in DOMAIN w : w[k] = v} = {}
    BY <1>1, <1>6 DEF OfTier
  <2>2. Count(v, q) = 0 /\ Count(v, w) = 0
    BY <2>1, FS_EmptySet DEF Count
  <2> QED
    BY <1>6, <2>2 DEF Fits, One
<1> QED
  BY <1>2, <1>3, <1>4, <1>5, <1>6

(* The steps of the matcher threads.                                       *)
LEMMA ThreadInv ==
  ASSUME Inv, NEW t \in Tiers, handle_match(t) \/ SpuriousWakeup(t)
  PROVE  Inv'
<1>0. IInv
  BY DEF Inv
<1>1. PICK step, q, a, b, w : Moves(t, step, q, a, b, w)
  BY <1>0, ThreadMoves
<1>2. /\ Fits(t, step, q, a, b, w) /\ Sets(t, step, q, a, b, w)
      /\ hall' = hall /\ expecting' \subseteq expecting /\ starts' = starts
      /\ rooms' \in Seq(Users \X Users) /\ failed \subseteq failed'
  BY <1>1 DEF Moves
<1>3. /\ hall \subseteq Users /\ expecting \subseteq hall /\ starts \in [Users -> Nat]
  BY <1>0 DEF IInv, TypeInv
<1>4. ASSUME NEW v \in Users
      PROVE  IF TierOf[v] = t
               THEN /\ Held(v, q, a, b, w) + Seats(v, rooms') <= starts'[v]
                    /\ v \in expecting' \ failed' => Held(v, q, a, b, w) # 0
               ELSE /\ Seats(v, rooms') <= Seats(v, rooms) /\ starts[v] <= starts'[v]
                    /\ v \in expecting' \ failed' => v \in expecting \ failed
  <2> DEFINE new == Held(v, q, a, b, w)
             old == HeldBy(v, t)
  <2>1. /\ new + Seats(v, rooms') <= old + Seats(v, rooms)
        /\ v \in expecting' \ failed' => new >= old
    BY <1>1 DEF Moves
  <2>2. /\ new \in Nat /\ old \in Nat /\ starts[v] \in Nat /\ Seats(v, rooms) \in Nat
    BY <1>0, <1>2, <1>3, NotOfTier, HeldType
  <2>3. Seats(v, rooms') \in Nat
    BY <1>2, SeatsAppend
  <2>4. TierOf[v] # t => old = 0
    BY <1>0, ThreadFits, NotOfTier DEF HeldBy
  <2>5. TierOf[v] = t => old + Seats(v, rooms) <= starts[v] /\ (v \in expecting \ failed => old # 0)
    BY DEF Inv
  <2> HIDE DEF new, old
  <2>6. IF TierOf[v] = t
          THEN new + Seats(v, rooms') <= starts[v] /\ (v \in expecting' \ failed' => new # 0)
          ELSE Seats(v, rooms') <= Seats(v, rooms)
    BY <1>2, <2>1, <2>2, <2>3, <2>4, <2>5
  <2> QED
    BY <1>2, <2>2, <2>6 DEF new
<1> QED
  BY <1>2, <1>3, <1>4, TierStep

(* A step that leaves queues, threads and rooms alone.                     *)
LEMMA QuietInv ==
  ASSUME Inv, UNCHANGED <<queue, pc, uid1, uid2, back, rooms>>,
         hall' \subseteq Users, expecting' \subseteq hall',
         starts' \in [Users -> Nat], \A v \in Users : starts[v] <= starts'[v],
         expecting' \ failed' \subseteq expecting \ failed
  PROVE  Inv'
<1>1. IInv'
  BY DEF Inv, IInv, TypeInv, HandInv, TierInv
<1>2. \A v, t : HeldBy(v, t)' = HeldBy(v, t)
  BY DEF HeldBy
<1>3. ASSUME NEW v \in Users
      PROVE  HeldBy(v, TierOf[v]) + Seats(v, rooms) <= starts'[v]
  <2>1. HeldBy(v, TierOf[v]) \in Nat /\ Seats(v, rooms) \in Nat
    BY HeldType, TierOfAssumption DEF Inv
  <2>2. starts[v] \in Nat /\ starts'[v] \in Nat /\ starts[v] <= starts'[v]
    BY DEF Inv, IInv, TypeInv
  <2>3. HeldBy(v, TierOf[v]) + Seats(v, rooms) <= starts[v]
    BY DEF Inv
  <2> QED
    BY <2>1, <2>2, <2>3
<1> QED
  BY <1>1, <1>2, <1>3 DEF Inv

(* Opening and closing a hall connection leaves queues and threads alone.  *)
LEMMA HallInv ==
  ASSUME Inv, NEW u \in Users, wsopen_game_hall(u) \/ wsclose_game_hall(u)
  PROVE  Inv'
<1>1. /\ UNCHANGED <<queue, pc, uid1, uid2, back, rooms>> /\ starts' = starts /\ failed' = failed
      /\ expecting' \subseteq expecting /\ expecting' \subseteq hall' /\ hall' \subseteq Users
  BY DEF wsopen_game_hall, wsclose_game_hall, threadVars, Inv, IInv, TypeInv
<1>2. starts \in [Users -> Nat] /\ \A v \in Users : starts[v] <= starts[v]
  BY DEF Inv, IInv, TypeInv
<1> QED
  BY <1>1, <1>2, QuietInv

(* match_start pays for the place in the queue with a request.             *)
LEMMA StartedInv ==
  ASSUME Inv, NEW u \in Users, match_start(u),
         queue' = [queue EXCEPT ![TierOf[u]] = Append(@, u)], pc' = Woken(TierOf[u]),
         failed' = failed \ {u}
  PROVE  Inv'
<1> DEFINE t == TierOf[u]
           step == IF pc[t] = "waiting" THEN "size" ELSE pc[t]
           q == Append(queue[t], u)
<1>0. IInv /\ t \in Tiers
  BY TierOfAssumption DEF Inv
<1>1. Fits(t, pc[t], queue[t], uid1[t], uid2[t], back[t])
  BY <1>0, ThreadFits
<1>2. q \in Seq(Users) /\ OfTier(t, q)
  BY <1>1, AppendOfTier DEF Fits
<1>3. Fits(t, step, q, uid1[t], uid2[t], back[t])
  <2> HIDE DEF q, t
  <2> QED
    BY <1>1, <1>2 DEF Fits, Holds, Free, Paired
<1>4. Sets(t, step, q, uid1[t], uid2[t], back[t])
  BY <1>0 DEF Sets, match_start, Woken, IInv, TypeInv
<1>5. /\ hall' = hall /\ expecting' = expecting \cup {u} /\ u \in hall /\ rooms' = rooms
      /\ starts' = [starts EXCEPT ![u] = starts[u] + 1]
      /\ hall \subseteq Users /\ expecting \subseteq hall /\ starts \in [Users -> Nat]
      /\ rooms \in Seq(Users \X Users)
      /\ expecting' \ failed' \subseteq (expecting \ failed) \cup {u}
  BY <1>0 DEF match_start, IInv, TypeInv
<1>6. ASSUME NEW v \in Users
      PROVE  IF TierOf[v] = t
               THEN /\ Held(v, q, uid1[t], uid2[t], back[t]) + Seats(v, rooms') <= starts'[v]
                    /\ v \in expecting' \ failed' => Held(v, q, uid1[t], uid2[t], back[t]) # 0
               ELSE /\ Seats(v, rooms') <= Seats(v, rooms) /\ starts[v] <= starts'[v]
                    /\ v \in expecting' \ failed' => v \in expecting \ failed
  <2> DEFINE new == Held(v, q, uid1[t], uid2[t], back[t])
             old == HeldBy(v, t)
             c == Count(v, <<uid1[t], uid2[t]>>)
  <2>1. Count(v, q) = Count(v, queue[t]) + One(u, v)
    BY <1>1, CountAppend DEF Fits
  <2>2. new = Count(v, q) + c + Count(v, back[t]) /\ old = Count(v, queue[t]) + c + Count(v, back[t])
    BY DEF Held, HeldBy
  <2>3. /\ Count(v, queue[t]) \in Nat /\ Count(v, back[t]) \in Nat /\ old \in Nat
        /\ c = One(uid1[t], v) + One(uid2[t], v) /\ Seats(v, rooms) \in Nat
    BY <1>0, HeldType
  <2>4. c \in Nat /\ One(u, v) \in Nat
    BY <2>3 DEF One
  <2>5. TierOf[v] = t => old + Seats(v, rooms) <= starts[v] /\ (v \in expecting \ failed => old # 0)
    BY DEF Inv
  <2>6. v \in expecting' \ failed' => v \in expecting \ failed \/ One(u, v) = 1
    BY <1>5 DEF One
  <2>7. starts'[v] = starts[v] + One(u, v) /\ starts[v] \in Nat
    BY <1>5 DEF One
  <2>8. TierOf[v] # t => v # u
    OBVIOUS
  <2> HIDE DEF new, old, c, t, q
  <2>9. new = old + One(u, v)
    BY <2>1, <2>2, <2>3, <2>4
  <2>10. TierOf[v] = t => new + Seats(v, rooms) <= starts'[v]
    BY <2>3, <2>4, <2>5, <2>7, <2>9
  <2>11. TierOf[v] = t /\ v \in expecting' \ failed' => new # 0
    BY <2>3, <2>4, <2>5, <2>6, <2>9
  <2>12. Seats(v, rooms) <= Seats(v, rooms) /\ starts[v] <= starts'[v]
    BY <2>3, <2>4, <2>7
  <2> QED
    BY <1>5, <2>8, <2>10, <2>11, <2>12 DEF new
<1>7. expecting' \subseteq hall' /\ hall' \subseteq Users /\ starts' \in [Users -> Nat]
  BY <1>5
<1> HIDE DEF t, step, q
<1> QED
  BY <1>0, <1>3, <1>4, <1>5, <1>6, <1>7, TierStep

(* Or it fails, and leaves a user whose add() failed.                      *)
LEMMA StartInv ==
  ASSUME Inv, NEW u \in Users, match_start(u)
  PROVE  Inv'
<1>1. \/ /\ queue' = [queue EXCEPT ![TierOf[u]] = Append(@, u)] /\ pc' = Woken(TierOf[u])
         /\ failed' = failed \ {u}
      \/ queue' = queue /\ pc' = pc /\ failed' = failed \cup {u}
  BY DEF match_start
<1>2. CASE queue' = queue /\ pc' = pc /\ failed' = failed \cup {u}
  <2>1. /\ UNCHANGED <<uid1, uid2, back, rooms, hall>> /\ u \in hall
        /\ expecting' = expecting \cup {u} /\ starts' = [starts EXCEPT ![u] = starts[u] + 1]
    BY DEF match_start
  <2>2. starts \in [Users -> Nat] /\ hall \subseteq Users /\ expecting \subseteq hall
    BY DEF Inv, IInv, TypeInv
  <2>3. starts' \in [Users -> Nat] /\ \A v \in Users : starts[v] <= starts'[v]
    BY <2>1, <2>2
  <2> QED
    BY <1>2, <2>1, <2>2, <2>3, QuietInv
<1> QED
  BY <1>1, <1>2, StartedInv

Unqueues(u) == queue' = [queue EXCEPT ![TierOf[u]] = remove(@, u)]

(* match_stop takes nobody else's place.                                   *)
LEMMA StoppedInv ==
  ASSUME Inv, NEW u \in Users, match_stop(u), Unqueues(u)
  PROVE  Inv'
<1> DEFINE t == TierOf[u]
           q == remove(queue[t], u)
<1>0. IInv /\ t \in Tiers
  BY TierOfAssumption DEF Inv
<1>1. /\ Fits(t, pc[t], queue[t], uid1[t], uid2[t], back[t])
      /\ queue[t] \in Seq(Users) /\ OfTier(t, queue[t])
  BY <1>0, ThreadFits DEF Fits
<1>2. /\ q \in Seq(Users)
      /\ \A i \in DOMAIN q : \E k \in DOMAIN queue[t] : q[i] = queue[t][k]
      /\ \A k \in DOMAIN queue[t] : queue[t][k] # u => \E i \in DOMAIN q : q[i] = queue[t][k]
  <2> DEFINE p == queue[t]
  <2> HIDE DEF p
  <2>0. p \in Seq(Users)
    BY <1>1 DEF p
  <2>1. /\ remove(p, u) \in Seq(Users)
        /\ \A i \in DOMAIN remove(p, u) : \E k \in DOMAIN p : remove(p, u)[i] = p[k]
        /\ \A k \in DOMAIN p : p[k] # u => \E i \in DOMAIN remove(p, u) : remove(p, u)[i] = p[k]
    BY <2>0, RemoveMembers
  <2> QED
    BY <2>1 DEF p
<1>3. OfTier(t, q)
  <2> HIDE DEF q, t
  <2> QED
    BY <1>1, <1>2 DEF OfTier
<1>4. Fits(t, pc[t], q, uid1[t], uid2[t], back[t])
  <2> HIDE DEF q, t
  <2> QED
    BY <1>1, <1>2, <1>3 DEF Fits
<1>5. Sets(t, pc[t], q, uid1[t], uid2[t], back[t])
  BY <1>0 DEF Sets, match_stop, Unqueues, threadVars, IInv, TypeInv
<1>6. /\ hall' = hall /\ expecting' = expecting \ {u} /\ rooms' = rooms /\ starts' = starts
      /\ hall \subseteq Users /\ expecting \subseteq hall /\ starts \in [Users -> Nat]
      /\ rooms \in Seq(Users \X Users) /\ failed' = failed
  BY <1>0 DEF match_stop, IInv, TypeInv
<1>7. ASSUME NEW v \in Users
      PROVE  IF TierOf[v] = t
               THEN /\ Held(v, q, uid1[t], uid2[t], back[t]) + Seats(v, rooms') <= starts'[v]
                    /\ v \in expecting' \ failed' => Held(v, q, uid1[t], uid2[t], back[t]) # 0
               ELSE /\ Seats(v, rooms') <= Seats(v, rooms) /\ starts[v] <= starts'[v]
                    /\ v \in expecting' \ failed' => v \in expecting \ failed
  <2> DEFINE new == Held(v, q, uid1[t], uid2[t], back[t])
             old == HeldBy(v, t)
             c == Count(v, <<uid1[t], uid2[t]>>)
  <2>1. Count(v, q) <= Count(v, queue[t])
    BY <1>1, RemoveCount
  <2>2. new = Count(v, q) + c + Count(v, back[t]) /\ old = Count(v, queue[t]) + c + Count(v, back[t])
    BY DEF Held, HeldBy
  <2>3. /\ Count(v, queue[t]) \in Nat /\ Count(v, back[t]) \in Nat /\ old \in Nat
        /\ c = One(uid1[t], v) + One(uid2[t], v) /\ Seats(v, rooms) \in Nat
    BY <1>0, HeldType
  <2>4. c \in Nat
    BY <2>3 DEF One
  <2>5. TierOf[v] = t => old + Seats(v, rooms) <= starts[v] /\ (v \in expecting \ failed => old # 0)
    BY DEF Inv
  <2> HIDE DEF q, t
  <2>6. Count(v, q) \in Nat
    BY <1>2, CountType
  <2>7. v # u /\ Count(v, queue[t]) # 0 => Count(v, q) # 0
    <3> SUFFICES ASSUME v # u, Count(v, queue[t]) # 0 PROVE Count(v, q) # 0
      OBVIOUS
    <3>1. {k \in DOMAIN queue[t] : queue[t][k] = v} # {}
      BY FS_EmptySet DEF Count
    <3>2. {i \in DOMAIN q : q[i] = v} # {}
      BY <1>2, <3>1
    <3>3. IsFiniteSet({i \in DOMAIN q : q[i] = v})
      BY <1>2, CountType
    <3> QED
      BY <3>2, <3>3, FS_EmptySet DEF Count
  <2>8. starts[v] \in Nat
    BY <1>6
  <2> HIDE DEF new, old, c
  <2>9. TierOf[v] = t => new + Seats(v, rooms) <= starts[v]
    BY <2>1, <2>2, <2>3, <2>4, <2>5, <2>6, <2>8
  <2>10. TierOf[v] = t /\ v \in expecting' \ failed' => new # 0
    <3>1. v \in expecting' \ failed' => v # u /\ v \in expecting \ failed
      BY <1>6
    <3> QED
      BY <2>2, <2>3, <2>4, <2>5, <2>6, <2>7, <3>1
  <2>11. Seats(v, rooms) <= Seats(v, rooms) /\ starts[v] <= starts[v]
    BY <2>3, <2>8
  <2> QED
    BY <1>6, <2>9, <2>10, <2>11 DEF new
<1>8. expecting' \subseteq hall' /\ hall' \subseteq Users /\ starts' \in [Users -> Nat]
  BY <1>6
<1> HIDE DEF t, q
<1> QED
  BY <1>0, <1>4, <1>5, <1>6, <1>7, <1>8, TierStep

LEMMA StopInv ==
  ASSUME Inv, NEW u \in Users, match_stop(u)
  PROVE  Inv'
<1>1. CASE queue' = queue
  <2>1. /\ UNCHANGED <<pc, uid1, uid2, back, rooms, hall, starts, failed>>
        /\ expecting' = expecting \ {u}
    BY DEF match_stop, threadVars
  <2>2. /\ starts \in [Users -> Nat] /\ hall \subseteq Users /\ expecting \subseteq hall
        /\ \A v \in Users : starts[v] <= starts[v]
    BY DEF Inv, IInv, TypeInv
  <2> QED
    BY <1>1, <2>1, <2>2, QuietInv
<1> QED
  BY <1>1, StoppedInv DEF match_stop, Unqueues

(* The invariant is inductive.                                             *)
LEMMA InvStep == Inv /\ [Next]_vars => Inv'
<1> SUFFICES ASSUME Inv, [Next]_vars PROVE Inv'
  OBVIOUS
<1>1. CASE \E t \in Tiers : handle_match(t) \/ SpuriousWakeup(t)
  BY <1>1, ThreadInv
<1>2. CASE \E u \in Users : server(u)
  BY <1>2, HallInv, StartInv, StopInv DEF server
<1>3. CASE UNCHANGED vars
  <2>1. /\ UNCHANGED <<queue, pc, uid1, uid2, back, rooms>>
        /\ UNCHANGED <<hall, expecting, starts, failed>>
    BY <1>3 DEF vars
  <2>2. /\ starts \in [Users -> Nat] /\ hall \subseteq Users /\ expecting \subseteq hall
        /\ \A v \in Users : starts[v] <= starts[v]
    BY DEF Inv, IInv, TypeInv
  <2> QED
    BY <2>1, <2>2, QuietInv
<1> QED
  BY <1>1, <1>2, <1>3 DEF Next

(* It holds at first: nobody waits, nobody has a seat.                     *)
LEMMA FullInit == Init => Inv
<1> SUFFICES ASSUME Init PROVE Inv
  OBVIOUS
<1>1. IInv
  BY InvInit
<1>2. ASSUME NEW u \in Users
      PROVE  HeldBy(u, TierOf[u]) + Seats(u, rooms) <= starts[u]
  <2> DEFINE t == TierOf[u]
             d == Count(u, <<NoUser, NoUser>>)
  <2>1. t \in Tiers
    BY TierOfAssumption
  <2>2. HeldBy(u, t) = Count(u, <<>>) + d + Count(u, <<>>)
    BY <2>1 DEF Init, HeldBy, Held
  <2>3. Count(u, <<>>) = 0 /\ d = One(NoUser, u) + One(NoUser, u)
    BY CountShort, Zenon
  <2>4. d = 0
    BY <2>3, NoUserAssumption DEF One
  <2>5. Seats(u, rooms) = 0
    <3>1. {k \in DOMAIN rooms : rooms[k][1] = u} = {} /\ {k \in DOMAIN rooms : rooms[k][2] = u} = {}
      BY DEF Init
    <3> QED
      BY <3>1, FS_EmptySet DEF Seats
  <2>6. starts[u] = 0
    BY DEF Init
  <2> HIDE DEF d, t
  <2>7. HeldBy(u, t) + Seats(u, rooms) <= starts[u]
    BY <2>2, <2>3, <2>4, <2>5, <2>6
  <2> QED
    BY <2>7 DEF t
<1>3. expecting = {}
  BY DEF Init
<1> QED
  BY <1>1, <1>2, <1>3 DEF Inv

(* For any users, tiers and number of requests: a player who asked for an  *)
(* opponent, did not take it back and stayed in the hall is queued or in   *)
(* the hands of the thread of his tier, wherever hall connections close    *)
(* between the steps of handle_match - but for the players an add() of     *)
(* whom has failed, the only way in which one is forgotten.                *)
THEOREM PlayersRemembered == Spec => []NoPlayerForgotten
<1>1. Inv => NoPlayerForgotten
  <2> SUFFICES ASSUME Inv, NEW u \in expecting \ failed
               PROVE  Queued(u) \/ u \in InHand(TierOf[u])
    BY DEF NoPlayerForgotten
  <2>1. IInv /\ u \in Users /\ HeldBy(u, TierOf[u]) # 0
    BY DEF Inv, IInv, TypeInv
  <2> QED
    BY <2>1, HeldMeans
<1> QED
  BY <1>1, FullInit, InvStep, PTL DEF Spec

(* For any users, tiers and number of requests: the places of a player in  *)
(* the queue, in a thread's hands and in rooms are never more than the     *)
(* match_start requests he made, however often he is added back.           *)
THEOREM RequestsNotMultiplied == Spec => []OneRoomPerStart
<1>1. Inv => OneRoomPerStart
  BY HeldMeans DEF Inv, OneRoomPerStart
<1> QED
  BY <1>1, FullInit, InvStep, PTL DEF Spec
=============================================================================
