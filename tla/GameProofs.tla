---------------------------- MODULE GameProofs ----------------------------
(***************************************************************************)
(* Proofs about Game: sessions live out their timeouts, users are served   *)
(* by their rows and scores, and the winner of a board has his row, for    *)
(* any sessions, users, names and points and a board of any size.          *)
(***************************************************************************)
EXTENDS Game, SequenceTheorems, FiniteSetTheorems, TLAPS

-----------------------------------------------------------------------------
(***************************************************************************)
(* The sessions.                                                           *)
(***************************************************************************)
\* _next_ssid counts from 1.
SessionAssumed == Sids \subseteq Nat \ {0}

Kinds == {"remove", "append"}

SessionTypes ==
  /\ next_ssid \in Nat \ {0} /\ 1 .. next_ssid - 1 \subseteq Sids
  /\ tp \in [Sids -> Nat] /\ timers \in [Sids -> Nat]
  /\ armed \subseteq (1 .. next_ssid - 1) \X (Nat \ {0})
  /\ zero \in Seq(1 .. next_ssid - 1)
  /\ ready \in Seq(Kinds \X (1 .. next_ssid - 1))
  /\ session \subseteq 1 .. next_ssid - 1
  /\ \A conn \in page : conn.ssid \in 1 .. next_ssid - 1

\* A session whose timeout ran out still has its timer in _tp, so that the
\* next request cancels it and appends the session.
IdleTimed == \A s \in idle : s \in 1 .. next_ssid - 1 /\ tp[s] # 0

SessionInv == SessionTypes /\ IdleTimed /\ OneTimer /\ NotLost

\* NotLost of one session: it is there, with no removal ready, or an append
\* is still to come.
Safe(there, z, r, s) ==
  \/ \E i \in DOMAIN z : z[i] = s
  \/ \E i \in DOMAIN r : r[i] = <<"append", s>> /\ \A j \in DOMAIN r : r[j] = <<"remove", s>> => j < i
  \/ s \in there /\ \A i \in DOMAIN r : r[i] # <<"remove", s>>

LEMMA NotLostSafe ==
  /\ NotLost <=> \A s \in 1 .. next_ssid - 1 : s \notin idle => Safe(session, zero, ready, s)
  /\ NotLost' <=> \A s \in 1 .. next_ssid' - 1 : s \notin idle' => Safe(session', zero', ready', s)
  BY DEF NotLost, Safe, WillReturn

\* What the handlers do to a session they are not about.
LEMMA SafeMoreReady ==
  ASSUME NEW there, NEW z, NEW H, NEW r \in Seq(H), NEW s, NEW x \in H,
         Safe(there, z, r, s), x # <<"remove", s>>
  PROVE  Safe(there, z, Append(r, x), s)
<1> DEFINE q == Append(r, x)
<1>1. /\ DOMAIN r = 1 .. Len(r) /\ Len(r) \in Nat /\ DOMAIN q = 1 .. Len(r) + 1
      /\ q[Len(r) + 1] = x /\ \A i \in 1 .. Len(r) : q[i] = r[i]
  OBVIOUS
<1> HIDE DEF q
<1>2. ASSUME NEW i \in DOMAIN q, q[i] = <<"remove", s>> PROVE i \in DOMAIN r /\ r[i] = <<"remove", s>>
  <2>1. i # Len(r) + 1
    BY <1>1, <1>2
  <2>2. QED BY <2>1, <1>1, <1>2
<1>3. \A i \in DOMAIN r : i \in DOMAIN q /\ q[i] = r[i]
  BY <1>1
<1>4. Safe(there, z, q, s)
  BY <1>2, <1>3 DEF Safe
<1>5. QED BY <1>4 DEF q

LEMMA SafeMoreZero ==
  ASSUME NEW there, NEW S, NEW z \in Seq(S), NEW r, NEW s, NEW x \in S,
         Safe(there, z, r, s) \/ x = s
  PROVE  Safe(there, Append(z, x), r, s)
<1> DEFINE q == Append(z, x)
<1>1. /\ DOMAIN z = 1 .. Len(z) /\ Len(z) \in Nat /\ DOMAIN q = 1 .. Len(z) + 1
      /\ q[Len(z) + 1] = x /\ \A i \in 1 .. Len(z) : q[i] = z[i]
  OBVIOUS
<1> HIDE DEF q
<1>2. Len(z) + 1 \in DOMAIN q /\ \A i \in DOMAIN z : i \in DOMAIN q /\ q[i] = z[i]
  BY <1>1
<1>3. CASE x = s
  <2>1. Safe(there, q, r, s)
    BY <1>1, <1>2, <1>3 DEF Safe
  <2>2. QED BY <2>1 DEF q
<1>4. CASE Safe(there, z, r, s)
  <2>1. Safe(there, q, r, s)
    BY <1>2, <1>4 DEF Safe
  <2>2. QED BY <2>1 DEF q
<1>5. QED BY <1>3, <1>4

LEMMA SafeElapsed ==
  ASSUME NEW there, NEW S, NEW z \in Seq(S), NEW H, NEW r \in Seq(H), NEW s,
         z # <<>>, <<"append", Head(z)>> \in H, Safe(there, z, r, s)
  PROVE  Safe(there, Tail(z), Append(r, <<"append", Head(z)>>), s)
<1> DEFINE x == <<"append", Head(z)>>
           q == Append(r, x)
           y == Tail(z)
           l == Len(r) + 1
<1>1. /\ DOMAIN r = 1 .. Len(r) /\ Len(r) \in Nat /\ DOMAIN q = 1 .. l /\ q[l] = x
      /\ \A i \in 1 .. Len(r) : q[i] = r[i]
  <2> HIDE DEF x
  <2>1. x \in H
    BY DEF x
  <2>2. QED BY <2>1
<1>2. /\ DOMAIN z = 1 .. Len(z) /\ Len(z) \in Nat \ {0} /\ DOMAIN y = 1 .. Len(z) - 1
      /\ Head(z) = z[1] /\ \A i \in 1 .. Len(z) - 1 : y[i] = z[i + 1]
  OBVIOUS
<1>3. x[1] = "append" /\ x[2] = Head(z)
  OBVIOUS
<1> HIDE DEF x, q, y
<1>4. CASE Head(z) = s
  <2>1. x = <<"append", s>> /\ x # <<"remove", s>>
    BY <1>3, <1>4 DEF x
  <2>2. l \in DOMAIN q /\ q[l] = <<"append", s>>
    BY <1>1, <2>1
  <2>3. ASSUME NEW j \in DOMAIN q, q[j] = <<"remove", s>> PROVE j < l
    <3>1. j # l
      BY <2>1, <2>3, <1>1
    <3>2. QED BY <3>1, <1>1
  <2>4. QED BY <2>2, <2>3 DEF Safe, q, x, y
<1>5. CASE Head(z) # s
  <2>1. x # <<"remove", s>> /\ x \in H
    BY <1>3 DEF x
  <2>2. CASE \E i \in DOMAIN z : z[i] = s
    <3>1. PICK i \in DOMAIN z : z[i] = s
      BY <2>2
    <3>2. i \in 2 .. Len(z)
      BY <3>1, <1>2, <1>5
    <3>3. i - 1 \in DOMAIN y /\ y[i - 1] = s
      BY <3>1, <3>2, <1>2
    <3>4. QED BY <3>3 DEF Safe, y
  <2>3. CASE ~\E i \in DOMAIN z : z[i] = s
    <3>1. Safe(there, y, r, s)
      BY <2>3 DEF Safe
    <3>2. Safe(there, y, Append(r, x), s)
      BY <3>1, <2>1, SafeMoreReady
    <3>3. QED BY <3>2 DEF x, y
  <2>4. QED BY <2>2, <2>3
<1>6. QED BY <1>4, <1>5

LEMMA SafeRun ==
  ASSUME NEW there, NEW z, NEW S, NEW r \in Seq(Kinds \X S), NEW s, r # <<>>, Safe(there, z, r, s)
  PROVE  Safe(IF Head(r)[1] = "append" THEN there \union {Head(r)[2]} ELSE there \ {Head(r)[2]},
              z, Tail(r), s)
<1> DEFINE h == Head(r)
           q == Tail(r)
           now == IF h[1] = "append" THEN there \union {h[2]} ELSE there \ {h[2]}
<1>1. /\ DOMAIN r = 1 .. Len(r) /\ Len(r) \in Nat \ {0} /\ DOMAIN q = 1 .. Len(r) - 1
      /\ h = r[1] /\ h \in Kinds \X S /\ \A i \in 1 .. Len(r) - 1 : q[i] = r[i + 1]
  OBVIOUS
<1>2. h = <<h[1], h[2]>> /\ h[1] \in {"remove", "append"}
  BY <1>1 DEF Kinds
<1> HIDE DEF h, q
<1>3. ASSUME NEW i \in DOMAIN q PROVE i + 1 \in DOMAIN r /\ q[i] = r[i + 1] /\ i \in Nat
  BY <1>1
<1>4. ASSUME NEW i \in DOMAIN r, i # 1 PROVE i - 1 \in DOMAIN q /\ q[i - 1] = r[i] /\ i \in Nat
  BY <1>1, <1>4
<1>5. CASE \E i \in DOMAIN z : z[i] = s
  BY <1>5 DEF Safe
<1>6. CASE \E i \in DOMAIN r : r[i] = <<"append", s>> /\ \A j \in DOMAIN r : r[j] = <<"remove", s>> => j < i
  <2>1. PICK i \in DOMAIN r : r[i] = <<"append", s>> /\ \A j \in DOMAIN r : r[j] = <<"remove", s>> => j < i
    BY <1>6
  <2>2. CASE i # 1
    <3>1. i - 1 \in DOMAIN q /\ q[i - 1] = <<"append", s>>
      BY <2>1, <2>2, <1>4
    <3>2. ASSUME NEW j \in DOMAIN q, q[j] = <<"remove", s>> PROVE j < i - 1
      <4>1. j + 1 < i /\ j \in Nat
        BY <3>2, <2>1, <1>3
      <4>2. QED BY <4>1, <2>1, <1>1
    <3>3. Safe(now, z, q, s)
      BY <3>1, <3>2 DEF Safe
    <3>4. QED BY <3>3 DEF h, q
  <2>3. CASE i = 1
    <3>1. h = <<"append", s>>
      BY <2>1, <2>3, <1>1
    <3>2. s \in now
      BY <3>1
    <3>3. ASSUME NEW j \in DOMAIN q PROVE q[j] # <<"remove", s>>
      <4>1. q[j] = r[j + 1] /\ j + 1 \in DOMAIN r /\ j \in Nat /\ j # 0
        BY <1>1, <1>3
      <4>2. ~(j + 1 < 1)
        BY <4>1
      <4>3. QED BY <4>1, <4>2, <2>1, <2>3
    <3>4. Safe(now, z, q, s)
      BY <3>2, <3>3 DEF Safe
    <3>5. QED BY <3>4 DEF h, q
  <2>4. QED BY <2>2, <2>3
<1>7. CASE s \in there /\ \A i \in DOMAIN r : r[i] # <<"remove", s>>
  <2>1. h # <<"remove", s>>
    BY <1>1, <1>7
  <2>2. s \in now
    BY <2>1, <1>2, <1>7
  <2>3. \A j \in DOMAIN q : q[j] # <<"remove", s>>
    BY <1>3, <1>7
  <2>4. Safe(now, z, q, s)
    BY <2>2, <2>3 DEF Safe
  <2>5. QED BY <2>4 DEF h, q
<1>8. QED BY <1>5, <1>6, <1>7 DEF Safe

LEMMA SessionStart == SessionInit => SessionInv
<1> SUFFICES ASSUME SessionInit PROVE SessionInv
  OBVIOUS
<1>1. SessionTypes
  BY DEF SessionInit, SessionTypes
<1>2. IdleTimed /\ OneTimer /\ NotLost
  BY DEF SessionInit, IdleTimed, OneTimer, NotLost
<1>3. QED BY <1>1, <1>2 DEF SessionInv

\* What set_session_expire_time does to the timers of s, in any of its cases:
\* v is the new _tp.
Retimed(s, v) ==
  /\ v \in Nat /\ tp' = [tp EXCEPT ![s] = v] /\ timers' \in [Sids -> Nat]
  /\ armed' = (armed \ {<<s, tp[s]>>}) \union (IF v = 0 THEN {} ELSE {<<s, v>>})
  /\ \/ tp[s] = 0 /\ zero' = zero /\ ready' = ready
     \/ tp[s] # 0 /\ zero' = Append(zero, s) /\ ready' \in {ready, Append(ready, <<"remove", s>>)}

LEMMA set_session_expire_timeRetimes ==
  ASSUME SessionTypes, NEW s \in 1 .. next_ssid - 1, NEW forever \in BOOLEAN,
         set_session_expire_time(s, forever)
  PROVE  \E v \in Nat : Retimed(s, v)
<1>1. s \in Sids /\ tp[s] \in Nat /\ timers[s] \in Nat /\ tp \in [Sids -> Nat] /\ timers \in [Sids -> Nat]
  BY DEF SessionTypes
<1>2. <<s, 0>> \notin armed
  BY DEF SessionTypes
<1>3. CASE tp[s] = 0 /\ forever
  <2>1. UNCHANGED <<tp, timers, armed, zero, ready>>
    BY <1>3 DEF set_session_expire_time
  <2>2. tp = [tp EXCEPT ![s] = 0]
    BY <1>1, <1>3
  <2>3. Retimed(s, 0)
    BY <2>1, <2>2, <1>1, <1>2, <1>3 DEF Retimed
  <2>4. QED BY <2>3
<1> DEFINE v == timers[s] + 1
<1>4. v \in Nat /\ v # 0
  BY <1>1
<1>5. [timers EXCEPT ![s] = @ + 1] \in [Sids -> Nat]
  BY <1>1
<1>6. CASE tp[s] = 0 /\ ~forever
  <2>1. Arm(s, armed) /\ UNCHANGED <<zero, ready>>
    BY <1>6 DEF set_session_expire_time
  <2>2. Retimed(s, v)
    BY <2>1, <1>1, <1>2, <1>4, <1>5, <1>6 DEF Retimed, Arm
  <2>3. QED BY <2>2, <1>4
<1>7. CASE tp[s] # 0 /\ forever
  <2>1. /\ CancelAndAppend(s) /\ tp' = [tp EXCEPT ![s] = 0]
        /\ armed' = armed \ {<<s, tp[s]>>} /\ UNCHANGED timers
    BY <1>7 DEF set_session_expire_time
  <2>2. Retimed(s, 0)
    BY <2>1, <1>1, <1>7 DEF Retimed, CancelAndAppend
  <2>3. QED BY <2>2
<1>8. CASE tp[s] # 0 /\ ~forever
  <2>1. CancelAndAppend(s) /\ Arm(s, armed \ {<<s, tp[s]>>})
    BY <1>8 DEF set_session_expire_time
  <2>2. Retimed(s, v)
    BY <2>1, <1>1, <1>4, <1>5, <1>8 DEF Retimed, CancelAndAppend, Arm
  <2>3. QED BY <2>2, <1>4
<1>9. QED BY <1>3, <1>6, <1>7, <1>8

LEMMA RetimedKeeps ==
  ASSUME SessionInv, NEW s \in session, NEW v \in Nat, Retimed(s, v), idle' = idle \ {s},
         UNCHANGED <<session, next_ssid>>, \A conn \in page' : conn.ssid \in 1 .. next_ssid - 1
  PROVE  SessionInv'
<1> DEFINE N == 1 .. next_ssid - 1
           H == Kinds \X N
           x == <<"remove", s>>
<1>1. /\ SessionTypes /\ IdleTimed /\ OneTimer /\ NotLost
      /\ s \in N /\ s \in Sids /\ tp \in [Sids -> Nat] /\ N \subseteq Sids
  BY DEF SessionInv, SessionTypes
<1>2. zero \in Seq(N) /\ ready \in Seq(H) /\ x \in H
  BY <1>1 DEF SessionTypes, Kinds
<1>3. zero' \in Seq(N) /\ ready' \in Seq(H)
  <2> HIDE DEF N, H, x
  <2>1. Append(zero, s) \in Seq(N) /\ Append(ready, x) \in Seq(H)
    BY <1>1, <1>2
  <2>2. QED BY <2>1, <1>2 DEF Retimed, x
<1>4. /\ tp' \in [Sids -> Nat] /\ tp'[s] = v /\ \A o \in Sids : o # s => tp'[o] = tp[o]
  BY <1>1 DEF Retimed
<1>5. armed' \subseteq N \X (Nat \ {0})
  BY <1>1 DEF SessionTypes, Retimed
<1>6. SessionTypes'
  BY <1>1, <1>3, <1>4, <1>5 DEF SessionTypes, Retimed
<1>7. IdleTimed'
  BY <1>1, <1>4 DEF IdleTimed
<1>8. OneTimer'
  <2>1. ASSUME NEW t \in armed' PROVE tp'[t[1]] = t[2]
    <3>1. CASE v # 0 /\ t = <<s, v>>
      BY <3>1, <1>4
    <3>2. CASE t \in armed /\ t # <<s, tp[s]>>
      <4>1. t = <<t[1], t[2]>> /\ t[1] \in Sids /\ tp[t[1]] = t[2]
        BY <3>2, <1>1 DEF SessionTypes, OneTimer
      <4>2. t[1] # s
        BY <4>1, <3>2
      <4>3. QED BY <4>1, <4>2, <1>4
    <3>3. QED BY <3>1, <3>2 DEF Retimed
  <2>2. QED BY <2>1 DEF OneTimer
<1>9. ASSUME NEW o \in N, o \notin idle' PROVE Safe(session, zero', ready', o)
  <2>1. CASE tp[s] = 0
    <3>1. zero' = zero /\ ready' = ready
      BY <2>1 DEF Retimed
    <3>2. o \notin idle
      BY <1>9, <1>1, <2>1 DEF IdleTimed
    <3>3. Safe(session, zero, ready, o)
      BY <3>2, <1>1, NotLostSafe
    <3>4. QED BY <3>1, <3>3
  <2>2. CASE tp[s] # 0
    <3>1. zero' = Append(zero, s) /\ ready' \in {ready, Append(ready, x)}
      BY <2>2 DEF Retimed
    <3>2. CASE o = s
      <4>1. Safe(session, Append(zero, s), ready', s)
        BY <1>1, <1>2, SafeMoreZero
      <4>2. QED BY <4>1, <3>1, <3>2
    <3>3. CASE o # s
      <4>1. Safe(session, zero, ready, o)
        BY <3>3, <1>1, <1>9, NotLostSafe
      <4>2. x # <<"remove", o>>
        BY <3>3
      <4>3. Safe(session, zero, Append(ready, x), o)
        <5> HIDE DEF x, H
        <5>1. QED BY <4>1, <4>2, <1>2, SafeMoreReady
      <4>4. Safe(session, zero, ready', o)
        BY <4>1, <4>3, <3>1
      <4>5. Safe(session, Append(zero, s), ready', o)
        BY <4>4, <1>1, <1>2, SafeMoreZero
      <4>6. QED BY <4>5, <3>1
    <3>4. QED BY <3>2, <3>3
  <2>3. QED BY <2>1, <2>2
<1>10. NotLost'
  BY <1>9, NotLostSafe
<1>11. QED BY <1>6, <1>7, <1>8, <1>10 DEF SessionInv

LEMMA session_loginKeeps ==
  ASSUME SessionInv, NEW u, session_login(u)
  PROVE  SessionInv'
<1> DEFINE n == next_ssid
           v == timers[n] + 1
<1>1. /\ SessionTypes /\ IdleTimed /\ OneTimer /\ NotLost
      /\ n \in Sids /\ n \in Nat \ {0} /\ v \in Nat \ {0} /\ next_ssid' = n + 1
  <2>1. SessionTypes /\ IdleTimed /\ OneTimer /\ NotLost
    BY DEF SessionInv
  <2>2. n \in Sids /\ next_ssid' = n + 1
    BY DEF session_login
  <2>3. timers[n] \in Nat /\ n \in Nat \ {0}
    BY <2>1, <2>2 DEF SessionTypes
  <2>4. QED BY <2>1, <2>2, <2>3
<1>2. /\ 1 .. next_ssid' - 1 = (1 .. n - 1) \union {n} /\ n \notin 1 .. n - 1
  BY <1>1
<1>3. /\ zero' = zero /\ ready' = ready /\ idle' = idle /\ page' = page /\ session' = session \union {n}
      /\ timers' = [timers EXCEPT ![n] = @ + 1] /\ tp' = [tp EXCEPT ![n] = v]
      /\ armed' = armed \union {<<n, v>>}
  BY DEF session_login, Arm
<1>4. zero \in Seq(1 .. next_ssid' - 1) /\ ready \in Seq(Kinds \X (1 .. next_ssid' - 1))
  <2> DEFINE N == 1 .. n - 1
             M == 1 .. next_ssid' - 1
             H == Kinds \X N
             J == Kinds \X M
  <2>1. zero \in Seq(N) /\ ready \in Seq(H) /\ N \subseteq M /\ H \subseteq J
    BY <1>1, <1>2 DEF SessionTypes
  <2> HIDE DEF N, M, H, J
  <2>2. zero \in Seq(M) /\ ready \in Seq(J)
    BY <2>1
  <2>3. QED BY <2>2 DEF M, J
<1>5. SessionTypes'
  <2>1. next_ssid' \in Nat \ {0} /\ 1 .. next_ssid' - 1 \subseteq Sids
    BY <1>1, <1>2 DEF SessionTypes
  <2>2. tp' \in [Sids -> Nat] /\ timers' \in [Sids -> Nat]
    BY <1>1, <1>3 DEF SessionTypes
  <2>3. armed' \subseteq (1 .. next_ssid' - 1) \X (Nat \ {0})
    BY <1>1, <1>2, <1>3 DEF SessionTypes
  <2>4. session' \subseteq 1 .. next_ssid' - 1 /\ \A conn \in page' : conn.ssid \in 1 .. next_ssid' - 1
    BY <1>1, <1>2, <1>3 DEF SessionTypes
  <2>5. QED BY <2>1, <2>2, <2>3, <2>4, <1>3, <1>4 DEF SessionTypes
<1>6. tp \in [Sids -> Nat] /\ 1 .. n - 1 \subseteq Sids
  BY <1>1 DEF SessionTypes
<1>7. tp'[n] = v /\ \A s \in 1 .. n - 1 : tp'[s] = tp[s]
  BY <1>1, <1>2, <1>3, <1>6
<1>8. IdleTimed'
  BY <1>1, <1>2, <1>3, <1>7 DEF IdleTimed
<1>9. OneTimer'
  <2>1. ASSUME NEW t \in armed' PROVE tp'[t[1]] = t[2]
    <3>1. CASE t = <<n, v>>
      BY <3>1, <1>7
    <3>2. CASE t \in armed
      BY <3>2, <1>1, <1>7 DEF SessionTypes, OneTimer
    <3>3. QED BY <3>1, <3>2, <1>3
  <2>2. QED BY <2>1 DEF OneTimer
<1>10. ASSUME NEW s \in 1 .. next_ssid' - 1, s \notin idle' PROVE Safe(session', zero', ready', s)
  <2>1. CASE s = n
    <3>1. ASSUME NEW i \in DOMAIN ready PROVE ready[i] # <<"remove", s>>
      <4>1. ready[i] \in Kinds \X (1 .. n - 1)
        BY <1>1 DEF SessionTypes
      <4>2. QED BY <4>1, <2>1, <1>2
    <3>2. QED BY <3>1, <2>1, <1>3 DEF Safe
  <2>2. CASE s \in 1 .. n - 1
    <3>1. Safe(session, zero, ready, s)
      BY <2>2, <1>1, <1>3, <1>10, NotLostSafe
    <3>2. QED BY <3>1, <1>3 DEF Safe
  <2>3. QED BY <2>1, <2>2, <1>2
<1>11. NotLost'
  BY <1>10, NotLostSafe
<1>12. QED BY <1>5, <1>8, <1>9, <1>11 DEF SessionInv

LEMMA infoKeeps ==
  ASSUME SessionInv, NEW s, info(s)
  PROVE  SessionInv'
<1>1. s \in session /\ s \in 1 .. next_ssid - 1 /\ SessionTypes
  BY DEF info, get_session_by_cookie, SessionInv, SessionTypes
<1>2. PICK v \in Nat : Retimed(s, v)
  BY <1>1, set_session_expire_timeRetimes DEF info
<1>3. \A conn \in page' : conn.ssid \in 1 .. next_ssid - 1
  BY <1>1 DEF info, SessionTypes
<1>4. idle' = idle \ {s} /\ UNCHANGED <<session, next_ssid>>
  BY DEF info
<1>5. QED BY <1>1, <1>2, <1>3, <1>4, RetimedKeeps

LEMMA StillKeeps ==
  ASSUME SessionInv, UNCHANGED <<session, next_ssid, tp, timers, armed, zero, ready, idle>>,
         \A conn \in page' : conn.ssid \in 1 .. next_ssid - 1
  PROVE  SessionInv'
<1>1. SessionTypes'
  BY DEF SessionInv, SessionTypes
<1>2. IdleTimed' /\ OneTimer'
  BY DEF SessionInv, IdleTimed, OneTimer
<1>3. NotLost'
  BY NotLostSafe DEF SessionInv
<1>4. QED BY <1>1, <1>2, <1>3 DEF SessionInv

LEMMA wsopenKeeps ==
  ASSUME SessionInv, NEW s \in Sids, NEW u, s \in Nat \ {0}, wsopen(s, u)
  PROVE  SessionInv'
<1>1. PICK room \in BOOLEAN :
        LET ok == /\ get_session_by_cookie(s)
                  /\ \A any \in Uris : uid[s] \notin online[any]
                  /\ u = "/room" => room
            conn == [ssid |-> s, uri |-> u, ok |-> ok] IN
          /\ s < next_ssid
          /\ page' = page \union {conn}
          /\ IF ok
               THEN /\ set_session_expire_time(s, TRUE)
                    /\ idle' = idle \ {s}
               ELSE UNCHANGED <<online, tp, timers, armed, zero, ready, idle>>
          /\ UNCHANGED <<session, next_ssid, uid>>
  BY DEF wsopen
<1> DEFINE ok == /\ get_session_by_cookie(s)
                 /\ \A any \in Uris : uid[s] \notin online[any]
                 /\ u = "/room" => room
           conn == [ssid |-> s, uri |-> u, ok |-> ok]
<1>2. /\ s < next_ssid /\ page' = page \union {conn} /\ UNCHANGED <<session, next_ssid>>
      /\ ok => set_session_expire_time(s, TRUE) /\ idle' = idle \ {s}
      /\ ~ok => UNCHANGED <<tp, timers, armed, zero, ready, idle>>
  BY <1>1
<1>3. conn.ssid = s /\ (ok => s \in session)
  BY DEF get_session_by_cookie
<1> HIDE DEF ok, conn
<1>4. s \in 1 .. next_ssid - 1 /\ SessionTypes
  BY <1>2 DEF SessionInv, SessionTypes
<1>5. \A c \in page' : c.ssid \in 1 .. next_ssid - 1
  BY <1>2, <1>3, <1>4 DEF SessionTypes
<1>6. CASE ok
  <2>1. TRUE \in BOOLEAN /\ set_session_expire_time(s, TRUE)
    BY <1>2, <1>6
  <2>2. PICK v \in Nat : Retimed(s, v)
    BY <2>1, <1>4, set_session_expire_timeRetimes
  <2>3. QED BY <2>2, <1>2, <1>3, <1>5, <1>6, RetimedKeeps
<1>7. CASE ~ok
  BY <1>2, <1>5, <1>7, StillKeeps
<1>8. QED BY <1>6, <1>7

LEMMA wscloseKeeps ==
  ASSUME SessionInv, NEW c \in page, wsclose(c)
  PROVE  SessionInv'
<1> DEFINE s == c.ssid
<1>1. s \in 1 .. next_ssid - 1 /\ SessionTypes /\ UNCHANGED <<session, next_ssid>>
  BY DEF SessionInv, SessionTypes, wsclose
<1>2. \A o \in page' : o.ssid \in 1 .. next_ssid - 1
  BY <1>1 DEF SessionTypes, wsclose
<1> HIDE DEF s
<1>3. CASE s \in session
  <2>1. set_session_expire_time(s, FALSE) /\ idle' = idle \ {s}
    BY <1>3 DEF wsclose, get_session_by_cookie, s
  <2>2. PICK v \in Nat : Retimed(s, v)
    BY <2>1, <1>1, set_session_expire_timeRetimes
  <2>3. QED BY <2>1, <2>2, <1>1, <1>2, <1>3, RetimedKeeps
<1>4. CASE s \notin session
  <2>1. UNCHANGED <<tp, timers, armed, zero, ready, idle>>
    BY <1>4 DEF wsclose, get_session_by_cookie, s
  <2>2. QED BY <2>1, <1>1, <1>2, StillKeeps
<1>5. QED BY <1>3, <1>4

LEMMA ElapsedKeeps ==
  ASSUME SessionInv, Elapsed
  PROVE  SessionInv'
<1> DEFINE N == 1 .. next_ssid - 1
           H == Kinds \X N
           x == <<"append", Head(zero)>>
<1>1. /\ SessionTypes /\ IdleTimed /\ OneTimer /\ NotLost /\ zero # <<>> /\ zero \in Seq(N) /\ ready \in Seq(H)
      /\ ready' = Append(ready, x) /\ zero' = Tail(zero)
      /\ UNCHANGED <<session, next_ssid, tp, timers, armed, page, idle>>
  BY DEF SessionInv, SessionTypes, Elapsed
<1>2. Head(zero) \in N /\ Tail(zero) \in Seq(N)
  <2> HIDE DEF N
  <2>1. QED BY <1>1
<1>3. x \in H
  BY <1>2 DEF Kinds
<1>4. Append(ready, x) \in Seq(H)
  <2> HIDE DEF H, x
  <2>1. QED BY <1>1, <1>3
<1>5. SessionTypes'
  <2> HIDE DEF x
  <2>1. QED BY <1>1, <1>2, <1>4 DEF SessionTypes
<1>6. IdleTimed' /\ OneTimer'
  BY <1>1 DEF IdleTimed, OneTimer
<1>7. ASSUME NEW s \in N, s \notin idle PROVE Safe(session, Tail(zero), Append(ready, x), s)
  <2>1. Safe(session, zero, ready, s)
    BY <1>1, <1>7, NotLostSafe
  <2> HIDE DEF H, N
  <2>2. QED BY <2>1, <1>1, <1>3, SafeElapsed
<1>8. NotLost'
  <2> HIDE DEF x
  <2>1. QED BY <1>1, <1>7, NotLostSafe
<1>9. QED BY <1>5, <1>6, <1>8 DEF SessionInv

LEMMA ExpiredKeeps ==
  ASSUME SessionInv, NEW t \in armed, Expired(t)
  PROVE  SessionInv'
<1> DEFINE N == 1 .. next_ssid - 1
           H == Kinds \X N
           x == <<"remove", t[1]>>
<1>1. /\ SessionTypes /\ IdleTimed /\ OneTimer /\ NotLost /\ ready \in Seq(H)
      /\ ready' = Append(ready, x) /\ armed' = armed \ {t} /\ idle' = idle \union {t[1]}
      /\ UNCHANGED <<session, next_ssid, tp, timers, zero, page>>
  BY DEF SessionInv, SessionTypes, Expired
<1>2. t[1] \in N /\ t[2] # 0 /\ tp[t[1]] # 0
  BY <1>1 DEF SessionTypes, OneTimer
<1>3. x \in H
  BY <1>2 DEF Kinds
<1>4. Append(ready, x) \in Seq(H)
  <2> HIDE DEF H, x
  <2>1. QED BY <1>1, <1>3
<1>5. SessionTypes'
  <2> HIDE DEF x
  <2>1. QED BY <1>1, <1>4 DEF SessionTypes
<1>6. IdleTimed' /\ OneTimer'
  BY <1>1, <1>2 DEF IdleTimed, OneTimer
<1>7. ASSUME NEW s \in N, s \notin idle' PROVE Safe(session, zero, Append(ready, x), s)
  <2>1. Safe(session, zero, ready, s) /\ s # t[1]
    BY <1>1, <1>7, NotLostSafe
  <2>2. x # <<"remove", s>>
    BY <2>1
  <2> HIDE DEF H, N, x
  <2>3. QED BY <2>1, <2>2, <1>1, <1>3, SafeMoreReady
<1>8. NotLost'
  <2> HIDE DEF x
  <2>1. QED BY <1>1, <1>7, NotLostSafe
<1>9. QED BY <1>5, <1>6, <1>8 DEF SessionInv

LEMMA RunHandlerKeeps ==
  ASSUME SessionInv, RunHandler
  PROVE  SessionInv'
<1> DEFINE N == 1 .. next_ssid - 1
           h == Head(ready)
           now == IF h[1] = "append" THEN session \union {h[2]} ELSE session \ {h[2]}
<1>1. /\ SessionTypes /\ IdleTimed /\ OneTimer /\ NotLost /\ ready # <<>> /\ ready \in Seq(Kinds \X N)
      /\ ready' = Tail(ready) /\ session' = now
      /\ UNCHANGED <<next_ssid, tp, timers, armed, zero, page, idle>>
  BY DEF SessionInv, SessionTypes, RunHandler
<1>2. h \in Kinds \X N /\ Tail(ready) \in Seq(Kinds \X N)
  <2> DEFINE H == Kinds \X N
  <2>1. ready \in Seq(H) /\ ready # <<>>
    BY <1>1
  <2> HIDE DEF H
  <2>2. Head(ready) \in H /\ Tail(ready) \in Seq(H)
    BY <2>1
  <2>3. QED BY <2>2 DEF H
<1>3. now \subseteq N
  BY <1>1, <1>2 DEF SessionTypes
<1>4. SessionTypes'
  <2> HIDE DEF now
  <2>1. QED BY <1>1, <1>2, <1>3 DEF SessionTypes
<1>5. IdleTimed' /\ OneTimer'
  BY <1>1 DEF IdleTimed, OneTimer
<1>6. ASSUME NEW s \in N, s \notin idle PROVE Safe(now, zero, Tail(ready), s)
  <2>1. Safe(session, zero, ready, s)
    BY <1>1, <1>6, NotLostSafe
  <2> HIDE DEF N
  <2>2. QED BY <2>1, <1>1, SafeRun
<1>7. NotLost'
  <2> HIDE DEF now
  <2>1. QED BY <1>1, <1>6, NotLostSafe
<1>8. QED BY <1>4, <1>5, <1>7 DEF SessionInv

LEMMA SessionStep ==
  ASSUME SessionAssumed
  PROVE  SessionInv /\ [SessionNext]_sessionVars => SessionInv'
<1> SUFFICES ASSUME SessionInv, [SessionNext]_sessionVars PROVE SessionInv'
  OBVIOUS
<1>1. ASSUME NEW u \in Users, session_login(u) PROVE SessionInv'
  BY <1>1, session_loginKeeps
<1>2. ASSUME NEW s \in Sids, info(s) PROVE SessionInv'
  BY <1>2, infoKeeps
<1>3. ASSUME NEW s \in Sids, NEW u \in Uris, wsopen(s, u) PROVE SessionInv'
  BY <1>3, wsopenKeeps DEF SessionAssumed
<1>4. ASSUME NEW c \in page, wsclose(c) PROVE SessionInv'
  BY <1>4, wscloseKeeps
<1>5. CASE Elapsed
  BY <1>5, ElapsedKeeps
<1>6. ASSUME NEW t \in armed, Expired(t) PROVE SessionInv'
  BY <1>6, ExpiredKeeps
<1>7. CASE RunHandler
  BY <1>7, RunHandlerKeeps
<1>8. CASE UNCHANGED sessionVars
  <2>1. UNCHANGED <<session, next_ssid, tp, timers, armed, zero, ready, idle>> /\ page' = page
    BY <1>8 DEF sessionVars
  <2>2. QED BY <2>1, StillKeeps DEF SessionInv, SessionTypes
<1>9. QED BY <1>1, <1>2, <1>3, <1>4, <1>5, <1>6, <1>7, <1>8 DEF SessionNext

(* A session is not lost before its timeout has run out, and no timer of   *)
(* it is forgotten, whatever the order in which requests, pages, timers    *)
(* and the handlers of cancelled timers come (session_manager, the pages   *)
(* of gobang_server).                                                      *)
THEOREM SessionsKept ==
  ASSUME SessionAssumed
  PROVE  SessionSpec => [](NotLost /\ OneTimer)
<1>1. SessionInv => NotLost /\ OneTimer
  BY DEF SessionInv
<1>2. QED BY <1>1, SessionStart, SessionStep, PTL DEF SessionSpec

-----------------------------------------------------------------------------
(***************************************************************************)
(* Recursion over the positions of a sequence.                             *)
(***************************************************************************)
LEMMA LeastOf ==
  ASSUME NEW B, B \subseteq Nat, B # {}
  PROVE  \E m \in B : \A k \in B : m <= k
<1> DEFINE T == {0 .. n : n \in B}
<1>1. T \subseteq FiniteSubsetsOf(Nat)
  <2>1. ASSUME NEW n \in Nat PROVE 0 .. n \in SUBSET Nat /\ IsFiniteSet(0 .. n)
    BY FS_Interval
  <2>2. QED BY <2>1 DEF FiniteSubsetsOf
<1>2. T # {} OBVIOUS
<1> HIDE DEF T
<1>3. PICK x \in T : \A y \in T : ~(<<y, x>> \in StrictSubsetOrdering(Nat))
  BY <1>1, <1>2, WFMin, FS_StrictSubsetOrderingWellFounded, Zenon
<1>4. PICK m \in B : x = 0 .. m BY DEF T
<1>5. ASSUME NEW k \in B, k < m PROVE FALSE
  <2>1. 0 .. k \in T BY DEF T
  <2>2. /\ 0 .. k \in SUBSET Nat /\ 0 .. m \in SUBSET Nat
        /\ 0 .. k \subseteq 0 .. m
    BY <1>5
  <2>3. 0 .. k # 0 .. m
    <3>1. m \in 0 .. m /\ m \notin 0 .. k BY <1>5
    <3>2. QED BY <3>1
  <2>4. <<0 .. k, 0 .. m>> \in StrictSubsetOrdering(Nat)
    BY <2>2, <2>3 DEF StrictSubsetOrdering
  <2>5. QED BY <2>1, <2>4, <1>3, <1>4
<1>6. QED BY <1>5

(* Induction, over a set.                                                  *)
LEMMA InductionOver ==
  ASSUME NEW P, 0 \in P, \A n \in Nat : n \in P => n + 1 \in P
  PROVE  Nat \subseteq P
<1> DEFINE B == {n \in Nat : n \notin P}
<1>1. SUFFICES ASSUME B # {} PROVE FALSE OBVIOUS
<1>2. PICK m \in B : \A k \in B : m <= k BY <1>1, LeastOf
<1>3. m # 0 OBVIOUS
<1>4. m - 1 \in Nat /\ m - 1 \notin B BY <1>2, <1>3
<1>5. QED BY <1>4

(* A recursion over 1 .. N has a solution: st[i, v] is the step from v.    *)
Solution(s, N, a, st) == s[0] = a /\ \A i \in 1 .. N : s[i] = st[<<i, s[i - 1]>>]

LEMMA Recursion ==
  ASSUME NEW S, NEW N \in Nat, NEW a \in S, NEW st \in [(1 .. N) \X S -> S]
  PROVE  \E s \in [0 .. N -> S] : Solution(s, N, a, st)
<1> DEFINE Solves(s, n) == s[0] = a /\ \A i \in 1 .. n : s[i] = st[<<i, s[i - 1]>>]
           P == {n \in Nat : n <= N => \E s \in [0 .. n -> S] : Solves(s, n)}
<1>1. 0 \in P
  <2> DEFINE s == [i \in 0 .. 0 |-> a]
  <2>1. s \in [0 .. 0 -> S] /\ Solves(s, 0)
    OBVIOUS
  <2>2. QED BY <2>1
<1>2. ASSUME NEW n \in Nat, n \in P PROVE n + 1 \in P
  <2>1. SUFFICES ASSUME n + 1 <= N PROVE \E s \in [0 .. n + 1 -> S] : Solves(s, n + 1)
    OBVIOUS
  <2>2. PICK s \in [0 .. n -> S] : Solves(s, n)
    BY <2>1, <1>2
  <2> DEFINE v == st[<<n + 1, s[n]>>]
             t == [i \in 0 .. n + 1 |-> IF i = n + 1 THEN v ELSE s[i]]
  <2>3. v \in S
    BY <2>1
  <2> HIDE DEF v
  <2>4. t \in [0 .. n + 1 -> S] /\ t[n + 1] = v /\ \A i \in 0 .. n : t[i] = s[i]
    BY <2>3
  <2> HIDE DEF t
  <2>5. ASSUME NEW i \in 1 .. n + 1 PROVE t[i] = st[<<i, t[i - 1]>>]
    <3>1. CASE i = n + 1
      <4>1. i - 1 = n /\ t[n] = s[n]
        BY <3>1, <2>4
      <4>2. QED BY <4>1, <3>1, <2>4 DEF v
    <3>2. CASE i \in 1 .. n
      <4>1. t[i] = s[i] /\ t[i - 1] = s[i - 1]
        BY <3>2, <2>4
      <4>2. QED BY <4>1, <3>2, <2>2
    <3>3. QED BY <3>1, <3>2
  <2>6. t[0] = a
    BY <2>2, <2>4
  <2>7. QED BY <2>4, <2>5, <2>6
<1>3. Nat \subseteq P
  <2> HIDE DEF P
  <2>1. QED BY <1>1, <1>2, InductionOver
<1>4. N \in P
  BY <1>3
<1>5. \E s \in [0 .. N -> S] : Solves(s, N)
  <2>1. N <= N
    OBVIOUS
  <2> HIDE DEF Solves
  <2>2. QED BY <1>4, <2>1
<1>6. QED BY <1>5 DEF Solution

LEMMA SumUpIs ==
  ASSUME NEW s \in Seq(Int)
  PROVE  /\ SumUp(s) \in [0 .. Len(s) -> Int] /\ SumUp(s)[0] = 0
         /\ \A n \in 1 .. Len(s) : SumUp(s)[n] = SumUp(s)[n - 1] + s[n]
<1> DEFINE N == Len(s)
           st == [p \in (1 .. N) \X Int |-> p[2] + s[p[1]]]
           G(f) == [n \in 0 .. N |-> IF n = 0 THEN 0 ELSE f[n - 1] + s[n]]
<1>1. N \in Nat /\ \A i \in 1 .. N : s[i] \in Int
  OBVIOUS
<1>2. SumUp(s) = CHOOSE f : f = G(f)
  BY DEF SumUp
<1> HIDE DEF N
<1>3. st \in [(1 .. N) \X Int -> Int] /\ 0 \in Int
  BY <1>1
<1>4. PICK u \in [0 .. N -> Int] : u[0] = 0 /\ \A i \in 1 .. N : u[i] = st[<<i, u[i - 1]>>]
  <2> HIDE DEF st
  <2>1. \E u \in [0 .. N -> Int] : Solution(u, N, 0, st)
    BY <1>1, <1>3, Recursion
  <2>2. QED BY <2>1 DEF Solution
<1>5. ASSUME NEW i \in 1 .. N PROVE u[i] = u[i - 1] + s[i]
  <2>1. u[i - 1] \in Int
    BY <1>1, <1>4
  <2>2. QED BY <2>1, <1>4
<1>6. u = G(u)
  <2>1. ASSUME NEW n \in 0 .. N PROVE u[n] = IF n = 0 THEN 0 ELSE u[n - 1] + s[n]
    BY <1>1, <1>4, <1>5
  <2>2. u = [n \in 0 .. N |-> u[n]]
    OBVIOUS
  <2>3. QED BY <2>1, <2>2, Zenon
<1> DEFINE f == CHOOSE f : f = G(f)
<1>7. f = G(f)
  BY <1>6, Zenon
<1>8. SumUp(s) = f
  BY <1>2
<1> HIDE DEF f
<1>9. /\ f[0] = 0 /\ \A n \in 1 .. N : f[n] = f[n - 1] + s[n]
      /\ f = [n \in 0 .. N |-> f[n]]
  <2>1. 0 \in 0 .. N /\ \A i \in 1 .. N : i \in 0 .. N /\ i # 0
    BY <1>1
  <2>2. DOMAIN f = 0 .. N
    BY <1>7
  <2>3. f[0] = 0 /\ \A n \in 1 .. N : f[n] = f[n - 1] + s[n]
    BY <2>1, <1>7
  <2>4. f = [n \in 0 .. N |-> f[n]]
    BY <2>2, <1>7
  <2>5. QED BY <2>3, <2>4
<1> DEFINE P == {n \in Nat : n <= N => f[n] \in Int}
<1>10. 0 \in P
  BY <1>9
<1>11. ASSUME NEW n \in Nat, n \in P PROVE n + 1 \in P
  <2>1. CASE n + 1 <= N
    <3>1. f[n + 1] = f[n] + s[n + 1] /\ f[n] \in Int /\ s[n + 1] \in Int
      <4>1. n + 1 \in 1 .. N /\ n + 1 - 1 = n /\ n <= N
        BY <2>1, <1>1
      <4>2. f[n + 1] = f[n + 1 - 1] + s[n + 1]
        <5> DEFINE m == n + 1
        <5>1. m \in 1 .. N
          BY <4>1
        <5> HIDE DEF m
        <5>2. f[m] = f[m - 1] + s[m]
          BY <5>1, <1>9, Zenon
        <5>3. QED BY <5>2 DEF m
      <4>3. f[n] \in Int
        BY <4>1, <1>11
      <4>4. QED BY <4>1, <4>2, <4>3, <1>1
    <3>2. QED BY <3>1
  <2>2. QED BY <2>1
<1>12. Nat \subseteq P
  <2> HIDE DEF P
  <2>1. QED BY <1>10, <1>11, InductionOver
<1>13. \A n \in 0 .. N : f[n] \in Int
  BY <1>12, <1>1
<1>14. f \in [0 .. N -> Int]
  BY <1>9, <1>13
<1>15. QED BY <1>8, <1>9, <1>14 DEF N

LEMMA SumIsInt ==
  ASSUME NEW s \in Seq(Int)
  PROVE  Sum(s) \in Int /\ (Len(s) = 0 => Sum(s) = 0)
<1>1. Len(s) \in 0 .. Len(s)
  OBVIOUS
<1>2. QED BY <1>1, SumUpIs DEF Sum

\* Two sequences with one element different.
LEMMA SumChange ==
  ASSUME NEW s \in Seq(Int), NEW t \in Seq(Int), Len(t) = Len(s), NEW i \in 1 .. Len(s),
         \A j \in 1 .. Len(s) : j # i => t[j] = s[j]
  PROVE  Sum(t) = Sum(s) + (t[i] - s[i])
<1> DEFINE N == Len(s)
           f == SumUp(s)
           g == SumUp(t)
           d == t[i] - s[i]
<1>1. /\ N \in Nat /\ Len(t) = N /\ i \in 1 .. N /\ d \in Int
      /\ \A j \in 1 .. N : s[j] \in Int /\ t[j] \in Int
  OBVIOUS
<1>2. /\ f \in [0 .. N -> Int] /\ f[0] = 0 /\ \A n \in 1 .. N : f[n] = f[n - 1] + s[n]
      /\ g \in [0 .. N -> Int] /\ g[0] = 0 /\ \A n \in 1 .. N : g[n] = g[n - 1] + t[n]
  BY SumUpIs
<1>3. Sum(s) = f[N] /\ Sum(t) = g[N]
  BY DEF Sum
<1>4. \A j \in 1 .. N : t[j] = s[j] + (IF j = i THEN d ELSE 0)
  BY <1>1
<1> HIDE DEF N, f, g, d
<1> DEFINE P == {n \in Nat : n <= N => g[n] = f[n] + (IF n >= i THEN d ELSE 0)}
<1>5. 0 \in P
  BY <1>1, <1>2
<1>6. ASSUME NEW n \in Nat, n \in P PROVE n + 1 \in P
  <2>1. SUFFICES ASSUME n + 1 <= N
                 PROVE  g[n + 1] = f[n + 1] + (IF n + 1 >= i THEN d ELSE 0)
    OBVIOUS
  <2>2. n + 1 \in 1 .. N /\ n + 1 - 1 = n /\ n <= N /\ n \in 0 .. N
    BY <2>1, <1>1
  <2>3. g[n + 1] = g[n] + t[n + 1] /\ f[n + 1] = f[n] + s[n + 1] /\ f[n] \in Int /\ g[n] \in Int
    <3>1. g[n + 1] = g[n + 1 - 1] + t[n + 1] /\ f[n + 1] = f[n + 1 - 1] + s[n + 1]
      BY <2>2, <1>2
    <3>2. QED BY <3>1, <2>2, <1>2
  <2>4. t[n + 1] = s[n + 1] + (IF n + 1 = i THEN d ELSE 0) /\ s[n + 1] \in Int
    BY <2>2, <1>1, <1>4
  <2>5. g[n] = f[n] + (IF n >= i THEN d ELSE 0)
    BY <2>2, <1>6
  <2> DEFINE x == f[n]
             y == s[n + 1]
  <2>6. x \in Int /\ y \in Int /\ d \in Int /\ i \in Nat
    BY <2>3, <2>4, <1>1
  <2>7. f[n + 1] = x + y /\ g[n + 1] = (x + (IF n >= i THEN d ELSE 0)) + (y + (IF n + 1 = i THEN d ELSE 0))
    BY <2>3, <2>4, <2>5
  <2> HIDE DEF x, y
  <2>8. CASE n + 1 = i
    <3>1. ~(n >= i) /\ n + 1 >= i
      BY <2>8, <2>6
    <3>2. f[n + 1] = x + y /\ g[n + 1] = (x + 0) + (y + d)
      BY <3>1, <2>7, <2>8
    <3>3. (x + 0) + (y + d) = (x + y) + d
      BY <2>6
    <3>4. QED BY <3>1, <3>2, <3>3
  <2>9. CASE n + 1 # i
    <3>1. n >= i <=> n + 1 >= i
      BY <2>9, <2>6
    <3>2. CASE n >= i
      <4>1. f[n + 1] = x + y /\ g[n + 1] = (x + d) + (y + 0)
        BY <3>2, <2>7, <2>9
      <4>2. (x + d) + (y + 0) = (x + y) + d
        BY <2>6
      <4>3. QED BY <3>1, <3>2, <4>1, <4>2
    <3>3. CASE ~(n >= i)
      <4>1. f[n + 1] = x + y /\ g[n + 1] = (x + 0) + (y + 0)
        BY <3>3, <2>7, <2>9
      <4>2. (x + 0) + (y + 0) = (x + y) + 0
        BY <2>6
      <4>3. QED BY <3>1, <3>3, <4>1, <4>2
    <3>4. QED BY <3>2, <3>3
  <2>10. QED BY <2>8, <2>9
<1>7. Nat \subseteq P
  <2> HIDE DEF P
  <2>1. QED BY <1>5, <1>6, InductionOver
<1>8. g[N] = f[N] + d
  BY <1>7, <1>1
<1>9. QED BY <1>3, <1>8 DEF d

LEMMA SumAppend ==
  ASSUME NEW s \in Seq(Int), NEW x \in Int
  PROVE  Sum(Append(s, x)) = Sum(s) + x
<1> DEFINE t == Append(s, x)
           N == Len(s)
           f == SumUp(s)
           g == SumUp(t)
<1>1. /\ N \in Nat /\ t \in Seq(Int) /\ Len(t) = N + 1 /\ t[N + 1] = x
      /\ \A j \in 1 .. N : s[j] \in Int /\ t[j] = s[j]
  OBVIOUS
<1> HIDE DEF t
<1>2. /\ f \in [0 .. N -> Int] /\ f[0] = 0 /\ \A n \in 1 .. N : f[n] = f[n - 1] + s[n]
      /\ g \in [0 .. N + 1 -> Int] /\ g[0] = 0 /\ \A n \in 1 .. N + 1 : g[n] = g[n - 1] + t[n]
  BY <1>1, SumUpIs
<1>3. Sum(s) = f[N] /\ Sum(t) = g[N + 1]
  BY <1>1 DEF Sum
<1> HIDE DEF N, f, g
<1> DEFINE P == {n \in Nat : n <= N => g[n] = f[n]}
<1>4. 0 \in P
  BY <1>1, <1>2
<1>5. ASSUME NEW n \in Nat, n \in P PROVE n + 1 \in P
  <2>1. SUFFICES ASSUME n + 1 <= N PROVE g[n + 1] = f[n + 1]
    OBVIOUS
  <2>2. n + 1 \in 1 .. N /\ n + 1 \in 1 .. N + 1 /\ n + 1 - 1 = n /\ n <= N
    BY <2>1, <1>1
  <2>3. g[n + 1] = g[n] + t[n + 1] /\ f[n + 1] = f[n] + s[n + 1] /\ t[n + 1] = s[n + 1]
    <3>1. g[n + 1] = g[n + 1 - 1] + t[n + 1] /\ f[n + 1] = f[n + 1 - 1] + s[n + 1]
      BY <2>2, <1>2
    <3>2. QED BY <3>1, <2>2, <1>1
  <2>4. QED BY <2>2, <2>3, <1>5
<1>6. Nat \subseteq P
  <2> HIDE DEF P
  <2>1. QED BY <1>4, <1>5, InductionOver
<1>7. g[N] = f[N] /\ N + 1 \in 1 .. N + 1 /\ N + 1 - 1 = N
  BY <1>6, <1>1
<1>8. g[N + 1] = g[N] + x
  BY <1>7, <1>1, <1>2
<1>9. QED BY <1>3, <1>7, <1>8 DEF t

\* Who is left in the list was in it, and is not the one removed.
LEMMA removeLeaves ==
  ASSUME NEW S, NEW q \in Seq(S), NEW id
  PROVE  remove(q, id) \in Seq({q[j] : j \in DOMAIN q} \ {id})
<1> DEFINE N == Len(q)
           T == {q[j] : j \in DOMAIN q} \ {id}
           st == [p \in (1 .. N) \X Seq(T) |-> IF q[p[1]] = id THEN p[2] ELSE Append(p[2], q[p[1]])]
           G(f) == [n \in 0 .. N |-> IF n = 0 THEN <<>> ELSE IF q[n] = id THEN f[n - 1] ELSE Append(f[n - 1], q[n])]
<1>1. N \in Nat /\ \A i \in 1 .. N : q[i] # id => q[i] \in T
  OBVIOUS
<1>2. remove(q, id) = (CHOOSE f : f = G(f))[N]
  BY DEF remove
<1> HIDE DEF N, T
<1>3. st \in [(1 .. N) \X Seq(T) -> Seq(T)] /\ <<>> \in Seq(T)
  <2>1. ASSUME NEW i \in 1 .. N, NEW v \in Seq(T), q[i] # id PROVE Append(v, q[i]) \in Seq(T)
    <3>1. q[i] \in T
      BY <2>1, <1>1
    <3>2. QED BY <3>1
  <2>2. <<>> \in Seq(T)
    OBVIOUS
  <2>3. QED BY <2>1, <2>2
<1>4. PICK u \in [0 .. N -> Seq(T)] : u[0] = <<>> /\ \A i \in 1 .. N : u[i] = st[<<i, u[i - 1]>>]
  <2> HIDE DEF st
  <2>1. \E u \in [0 .. N -> Seq(T)] : Solution(u, N, <<>>, st)
    BY <1>1, <1>3, Recursion
  <2>2. QED BY <2>1 DEF Solution
<1>5. ASSUME NEW i \in 1 .. N PROVE u[i] = IF q[i] = id THEN u[i - 1] ELSE Append(u[i - 1], q[i])
  <2>1. u[i - 1] \in Seq(T)
    BY <1>1, <1>4
  <2>2. <<i, u[i - 1]>> \in (1 .. N) \X Seq(T)
    BY <2>1
  <2>3. st[<<i, u[i - 1]>>] = IF q[i] = id THEN u[i - 1] ELSE Append(u[i - 1], q[i])
    BY <2>2
  <2>4. QED BY <2>3, <1>4
<1>6. u = G(u)
  <2>1. ASSUME NEW n \in 0 .. N
        PROVE  u[n] = IF n = 0 THEN <<>> ELSE IF q[n] = id THEN u[n - 1] ELSE Append(u[n - 1], q[n])
    <3>1. n = 0 \/ n \in 1 .. N
      BY <1>1
    <3>2. CASE n = 0
      BY <3>2, <1>4
    <3>3. CASE n \in 1 .. N
      <4>1. n # 0
        BY <3>3
      <4>2. QED BY <4>1, <3>3, <1>5
    <3>4. QED BY <3>1, <3>2, <3>3
  <2>2. u = [n \in 0 .. N |-> u[n]]
    OBVIOUS
  <2>3. QED BY <2>1, <2>2, Zenon
<1> DEFINE f == CHOOSE f : f = G(f)
<1>7. f = G(f)
  BY <1>6, Zenon
<1>8. remove(q, id) = f[N]
  BY <1>2
<1> HIDE DEF f
<1>9. /\ f[0] = <<>>
      /\ \A n \in 1 .. N : f[n] = IF q[n] = id THEN f[n - 1] ELSE Append(f[n - 1], q[n])
  <2>1. 0 \in 0 .. N /\ \A i \in 1 .. N : i \in 0 .. N /\ i # 0
    BY <1>1
  <2>2. QED BY <2>1, <1>7
<1> DEFINE P == {n \in Nat : n <= N => f[n] \in Seq(T)}
<1>10. 0 \in P
  BY <1>3, <1>9
<1>11. ASSUME NEW n \in Nat, n \in P PROVE n + 1 \in P
  <2>1. CASE n + 1 <= N
    <3>1. n + 1 \in 1 .. N /\ n + 1 - 1 = n /\ n <= N
      BY <2>1, <1>1
    <3>2. f[n] \in Seq(T) /\ f[n + 1] = IF q[n + 1] = id THEN f[n] ELSE Append(f[n], q[n + 1])
      <4>1. f[n + 1] = IF q[n + 1] = id THEN f[n + 1 - 1] ELSE Append(f[n + 1 - 1], q[n + 1])
        BY <3>1, <1>9
      <4>2. QED BY <4>1, <3>1, <1>11
    <3>3. q[n + 1] # id => q[n + 1] \in T
      BY <3>1, <1>1
    <3>4. q[n + 1] # id => Append(f[n], q[n + 1]) \in Seq(T)
      BY <3>2, <3>3
    <3>5. f[n + 1] \in Seq(T)
      <4>1. CASE q[n + 1] = id
        BY <4>1, <3>2
      <4>2. CASE q[n + 1] # id
        BY <4>2, <3>2, <3>4
      <4>3. QED BY <4>1, <4>2
    <3>6. QED BY <3>5
  <2>2. QED BY <2>1
<1>12. Nat \subseteq P
  <2> HIDE DEF P
  <2>1. QED BY <1>10, <1>11, InductionOver
<1>13. f[N] \in Seq(T)
  BY <1>12, <1>1
<1>14. QED BY <1>8, <1>13 DEF T

-----------------------------------------------------------------------------
(***************************************************************************)
(* The users.                                                              *)
(***************************************************************************)
\* The points of a game are a number.
UserAssumed == Gain \in Int

UserRow == [name : Usernames, password : Persons, score : Int, total : Int, win : Int]

UserTypes ==
  /\ user \in Seq(UserRow)
  /\ queue \in [Tiers -> Seq(Ids)]
  /\ logged_in \subseteq Ids /\ lost \in Nat

\* A thread that adds users back holds one.
ThreadInv ==
  /\ hand \in [Tiers -> Seq(Ids)] /\ thread \in [Tiers -> {"size", "pop", "add"}]
  /\ \A t \in Tiers : thread[t] = "add" => hand[t] # <<>>

\* A name has one row, and told is about the rows.
NamesInv ==
  /\ \A i, j \in Ids : user[i].name = user[j].name => i = j
  /\ told = {<<user[i].password, user[i].name>> : i \in Ids}

\* Whoever waits in another queue than his score's has moved.
TierInv ==
  \A t \in Tiers : \A k \in DOMAIN queue[t] :
    queue[t][k] \in moved \/ t = tier(user[queue[t][k]].score)

\* StopForgets, of whoever is waiting or in the hands of a thread.
InPlay(id) == Waiting(id) \/ InHand(id)
KeptInv == \A i \in stopped : InPlay(i) => i \in moved \union missed

UserInv == UserTypes /\ ThreadInv /\ NamesInv /\ TierInv /\ KeptInv /\ ResultsBalance

\* The columns of rows u.
ScoresOf(u) == [i \in DOMAIN u |-> u[i].score]
TotalsOf(u) == [i \in DOMAIN u |-> u[i].total]
WinsOf(u) == [i \in DOMAIN u |-> u[i].win]

Balanced(u) == Sum(ScoresOf(u)) = Start * Len(u) /\ Sum(TotalsOf(u)) = 2 * Sum(WinsOf(u))

LEMMA Balances ==
  /\ ResultsBalance <=> (lost = 0 => Balanced(user))
  /\ ResultsBalance' <=> (lost' = 0 => Balanced(user'))
  BY DEF ResultsBalance, Balanced, Scores, Totals, Wins, ScoresOf, TotalsOf, WinsOf, Ids

LEMMA Columns ==
  ASSUME NEW u \in Seq(UserRow)
  PROVE  /\ ScoresOf(u) \in Seq(Int) /\ TotalsOf(u) \in Seq(Int) /\ WinsOf(u) \in Seq(Int)
         /\ Len(ScoresOf(u)) = Len(u) /\ Len(TotalsOf(u)) = Len(u) /\ Len(WinsOf(u)) = Len(u)
         /\ Len(u) \in Nat
         /\ \A i \in 1 .. Len(u) : /\ ScoresOf(u)[i] = u[i].score /\ TotalsOf(u)[i] = u[i].total
                                   /\ WinsOf(u)[i] = u[i].win
<1>1. Len(u) \in Nat /\ DOMAIN u = 1 .. Len(u) /\ \A i \in 1 .. Len(u) : u[i] \in UserRow
  OBVIOUS
<1>2. \A i \in 1 .. Len(u) : u[i].score \in Int /\ u[i].total \in Int /\ u[i].win \in Int
  BY <1>1 DEF UserRow
<1>3. ScoresOf(u) \in Seq(Int) /\ Len(ScoresOf(u)) = Len(u)
  BY <1>1, <1>2 DEF ScoresOf
<1>4. TotalsOf(u) \in Seq(Int) /\ Len(TotalsOf(u)) = Len(u)
  BY <1>1, <1>2 DEF TotalsOf
<1>5. WinsOf(u) \in Seq(Int) /\ Len(WinsOf(u)) = Len(u)
  BY <1>1, <1>2 DEF WinsOf
<1>6. QED BY <1>1, <1>3, <1>4, <1>5 DEF ScoresOf, TotalsOf, WinsOf

LEMMA AppendIs ==
  ASSUME NEW s \in Seq(Int), NEW c \in Seq(Int), Len(c) = Len(s) + 1,
         \A i \in 1 .. Len(s) : c[i] = s[i]
  PROVE  c = Append(s, c[Len(s) + 1])
<1> DEFINE N == Len(s) + 1
           a == Append(s, c[N])
<1>1. c[N] \in Int /\ N \in Nat /\ Len(s) \in Nat
  OBVIOUS
<1>2. a \in Seq(Int) /\ Len(a) = N /\ a[N] = c[N] /\ \A i \in 1 .. Len(s) : a[i] = s[i]
  BY <1>1
<1> HIDE DEF a
<1>3. \A i \in 1 .. N : a[i] = c[i]
  <2>1. \A i \in 1 .. N : i = N \/ i \in 1 .. Len(s)
    BY <1>1
  <2>2. QED BY <2>1, <1>2
<1>4. a = c
  BY <1>2, <1>3
<1>5. QED BY <1>4 DEF a

LEMMA ColumnsAppend ==
  ASSUME NEW u \in Seq(UserRow), NEW r \in UserRow
  PROVE  /\ ScoresOf(Append(u, r)) = Append(ScoresOf(u), r.score)
         /\ TotalsOf(Append(u, r)) = Append(TotalsOf(u), r.total)
         /\ WinsOf(Append(u, r)) = Append(WinsOf(u), r.win)
<1> DEFINE v == Append(u, r)
           N == Len(u) + 1
<1>1. v \in Seq(UserRow) /\ Len(v) = N /\ v[N] = r /\ \A i \in 1 .. Len(u) : v[i] = u[i]
  OBVIOUS
<1> HIDE DEF v
<1>2. /\ Len(v) = Len(u) + 1 /\ Len(u) \in Nat /\ N \in 1 .. Len(v)
      /\ \A i \in 1 .. Len(u) : v[i] = u[i] /\ i \in 1 .. Len(v)
  BY <1>1
<1>3. /\ ScoresOf(u) \in Seq(Int) /\ TotalsOf(u) \in Seq(Int) /\ WinsOf(u) \in Seq(Int)
      /\ Len(ScoresOf(u)) = Len(u) /\ Len(TotalsOf(u)) = Len(u) /\ Len(WinsOf(u)) = Len(u)
      /\ \A i \in 1 .. Len(u) : /\ ScoresOf(u)[i] = u[i].score /\ TotalsOf(u)[i] = u[i].total
                                /\ WinsOf(u)[i] = u[i].win
  BY Columns
<1>4. /\ ScoresOf(v) \in Seq(Int) /\ TotalsOf(v) \in Seq(Int) /\ WinsOf(v) \in Seq(Int)
      /\ Len(ScoresOf(v)) = Len(v) /\ Len(TotalsOf(v)) = Len(v) /\ Len(WinsOf(v)) = Len(v)
      /\ \A i \in 1 .. Len(v) : /\ ScoresOf(v)[i] = v[i].score /\ TotalsOf(v)[i] = v[i].total
                                /\ WinsOf(v)[i] = v[i].win
  BY <1>1, Columns
<1>5. ScoresOf(v) = Append(ScoresOf(u), ScoresOf(v)[N])
  <2>1. \A i \in 1 .. Len(ScoresOf(u)) : ScoresOf(v)[i] = ScoresOf(u)[i]
    BY <1>2, <1>3, <1>4
  <2>2. Len(ScoresOf(v)) = Len(ScoresOf(u)) + 1 /\ ScoresOf(v) \in Seq(Int) /\ ScoresOf(u) \in Seq(Int)
    BY <1>2, <1>3, <1>4
  <2>3. N = Len(ScoresOf(u)) + 1
    BY <1>3
  <2>4. QED BY <2>1, <2>2, <2>3, AppendIs
<1>6. TotalsOf(v) = Append(TotalsOf(u), TotalsOf(v)[N])
  <2>1. \A i \in 1 .. Len(TotalsOf(u)) : TotalsOf(v)[i] = TotalsOf(u)[i]
    BY <1>2, <1>3, <1>4
  <2>2. Len(TotalsOf(v)) = Len(TotalsOf(u)) + 1 /\ TotalsOf(v) \in Seq(Int) /\ TotalsOf(u) \in Seq(Int)
    BY <1>2, <1>3, <1>4
  <2>3. N = Len(TotalsOf(u)) + 1
    BY <1>3
  <2>4. QED BY <2>1, <2>2, <2>3, AppendIs
<1>7. WinsOf(v) = Append(WinsOf(u), WinsOf(v)[N])
  <2>1. \A i \in 1 .. Len(WinsOf(u)) : WinsOf(v)[i] = WinsOf(u)[i]
    BY <1>2, <1>3, <1>4
  <2>2. Len(WinsOf(v)) = Len(WinsOf(u)) + 1 /\ WinsOf(v) \in Seq(Int) /\ WinsOf(u) \in Seq(Int)
    BY <1>2, <1>3, <1>4
  <2>3. N = Len(WinsOf(u)) + 1
    BY <1>3
  <2>4. QED BY <2>1, <2>2, <2>3, AppendIs
<1>8. ScoresOf(v)[N] = r.score /\ TotalsOf(v)[N] = r.total /\ WinsOf(v)[N] = r.win
  BY <1>1, <1>2, <1>4
<1>9. QED BY <1>5, <1>6, <1>7, <1>8 DEF v

LEMMA UserStart == UserInit => UserInv
<1> SUFFICES ASSUME UserInit PROVE UserInv
  OBVIOUS
<1>1. user = <<>> /\ Ids = {} /\ user \in Seq(UserRow) /\ Len(user) = 0
  BY DEF UserInit, Ids
<1>2. UserTypes
  <2>1. queue = [t \in Tiers |-> <<>>] /\ <<>> \in Seq(Ids)
    BY DEF UserInit
  <2>2. queue \in [Tiers -> Seq(Ids)]
    BY <2>1
  <2>3. QED BY <1>1, <2>2 DEF UserInit, UserTypes
<1>3. NamesInv /\ KeptInv
  BY <1>1 DEF UserInit, NamesInv, KeptInv
<1>7. ThreadInv
  <2>1. /\ hand = [t \in Tiers |-> <<>>] /\ <<>> \in Seq(Ids)
        /\ thread = [t \in Tiers |-> "size"]
    BY DEF UserInit
  <2>2. QED BY <2>1 DEF ThreadInv
<1>4. TierInv
  BY DEF UserInit, TierInv
<1>5. Balanced(user)
  <2>1. Sum(ScoresOf(user)) = 0 /\ Sum(TotalsOf(user)) = 0 /\ Sum(WinsOf(user)) = 0
    BY <1>1, Columns, SumIsInt
  <2>2. QED BY <2>1, <1>1 DEF Balanced, Start
<1>6. QED BY <1>2, <1>3, <1>4, <1>5, <1>7, Balances DEF UserInv

LEMMA RegKeeps ==
  ASSUME UserInv, reg
  PROVE  UserInv'
<1>1. PICK n \in Usernames, p \in Persons : insert(n, p)
  BY DEF reg
<1> DEFINE r == [name |-> n, password |-> p, score |-> Start, total |-> 0, win |-> 0]
           N == Len(user) + 1
<1>2. /\ \A i \in Ids : user[i].name # n
      /\ user' = Append(user, r) /\ told' = told \union {<<p, n>>}
      /\ UNCHANGED <<queue, logged_in, lost, moved, stopped, thread, hand, missed>>
  BY <1>1 DEF insert, reg, matchVars
<1>3. r \in UserRow /\ r.name = n /\ r.password = p /\ r.score = Start /\ r.total = 0 /\ r.win = 0
  BY DEF UserRow, Start
<1>4. /\ UserTypes /\ ThreadInv /\ NamesInv /\ TierInv /\ KeptInv /\ ResultsBalance
      /\ user \in Seq(UserRow)
  BY DEF UserInv, UserTypes
<1> HIDE DEF r
<1>5. /\ user' \in Seq(UserRow) /\ Len(user') = N /\ Len(user) \in Nat /\ user'[N] = r
      /\ Ids = 1 .. Len(user) /\ Ids' = 1 .. N
      /\ \A i \in 1 .. Len(user) : user'[i] = user[i]
  BY <1>2, <1>3, <1>4 DEF Ids
<1>6. Ids \subseteq Ids' /\ Ids' = Ids \union {N} /\ N \notin Ids /\ \A i \in Ids : user'[i] = user[i]
  BY <1>5
<1>7. UserTypes'
  <2>1. queue' \in [Tiers -> Seq(Ids')]
    <3> DEFINE I == Ids
               J == Ids'
    <3>1. I \subseteq J /\ queue \in [Tiers -> Seq(I)]
      BY <1>4, <1>6 DEF UserTypes
    <3> HIDE DEF I, J
    <3>2. Seq(I) \subseteq Seq(J)
      BY <3>1
    <3>3. queue \in [Tiers -> Seq(J)]
      BY <3>1, <3>2
    <3>4. QED BY <3>3, <1>2 DEF J
  <2>2. logged_in' \subseteq Ids' /\ lost' \in Nat
    BY <1>2, <1>4, <1>6 DEF UserTypes
  <2>3. QED BY <2>1, <2>2, <1>5 DEF UserTypes
<1>8. NamesInv'
  <2>1. ASSUME NEW i \in Ids', NEW j \in Ids', user'[i].name = user'[j].name PROVE i = j
    <3>1. CASE i \in Ids /\ j \in Ids
      BY <3>1, <2>1, <1>4, <1>6 DEF NamesInv
    <3>2. CASE i = N /\ j \in Ids
      BY <3>2, <2>1, <1>2, <1>3, <1>5, <1>6
    <3>3. CASE i \in Ids /\ j = N
      BY <3>3, <2>1, <1>2, <1>3, <1>5, <1>6
    <3>4. CASE i = N /\ j = N
      BY <3>4
    <3>5. QED BY <3>1, <3>2, <3>3, <3>4, <1>6
  <2>2. told' = {<<user'[i].password, user'[i].name>> : i \in Ids'}
    <3>1. told = {<<user[i].password, user[i].name>> : i \in Ids}
      BY <1>4 DEF NamesInv
    <3>2. user'[N].password = p /\ user'[N].name = n
      BY <1>3, <1>5
    <3> DEFINE P(i) == <<user'[i].password, user'[i].name>>
    <3>3. P(N) = <<p, n>> /\ \A i \in Ids : P(i) = <<user[i].password, user[i].name>>
      BY <3>2, <1>6
    <3> HIDE DEF P
    <3>4. told = {P(i) : i \in Ids}
      BY <3>1, <3>3
    <3>5. told' = {P(i) : i \in Ids'}
      BY <3>3, <3>4, <1>2, <1>6
    <3>6. QED BY <3>5 DEF P
  <2>3. QED BY <2>1, <2>2 DEF NamesInv
<1>9. TierInv'
  <2>1. ASSUME NEW t \in Tiers, NEW k \in DOMAIN queue[t]
        PROVE  queue[t][k] \in moved \/ t = tier(user'[queue[t][k]].score)
    <3>1. queue[t][k] \in Ids
      BY <1>4 DEF UserTypes
    <3>2. QED BY <3>1, <1>4, <1>6 DEF TierInv
  <2>2. QED BY <2>1, <1>2 DEF TierInv
<1>10. KeptInv'
  BY <1>2, <1>4 DEF KeptInv, InPlay, Waiting, InHand
<1>13. ThreadInv'
  <2> DEFINE I == Ids
             J == Ids'
  <2>1. I \subseteq J /\ hand \in [Tiers -> Seq(I)]
    BY <1>4, <1>6 DEF ThreadInv
  <2> HIDE DEF I, J
  <2>2. Seq(I) \subseteq Seq(J)
    BY <2>1
  <2>3. hand \in [Tiers -> Seq(J)]
    BY <2>1, <2>2
  <2>4. hand' \in [Tiers -> Seq(Ids')]
    BY <2>3, <1>2 DEF J
  <2>5. QED BY <2>4, <1>2, <1>4 DEF ThreadInv
<1>11. ResultsBalance'
  <2>1. SUFFICES ASSUME lost = 0 PROVE Balanced(user')
    BY <1>2, Balances
  <2>2. Balanced(user)
    BY <2>1, <1>4, Balances
  <2>3. /\ ScoresOf(user') = Append(ScoresOf(user), Start)
        /\ TotalsOf(user') = Append(TotalsOf(user), 0) /\ WinsOf(user') = Append(WinsOf(user), 0)
    BY <1>2, <1>3, <1>4, ColumnsAppend
  <2>4. ScoresOf(user) \in Seq(Int) /\ TotalsOf(user) \in Seq(Int) /\ WinsOf(user) \in Seq(Int)
    BY <1>4, Columns
  <2>5. /\ Sum(ScoresOf(user')) = Sum(ScoresOf(user)) + Start
        /\ Sum(TotalsOf(user')) = Sum(TotalsOf(user)) + 0
        /\ Sum(WinsOf(user')) = Sum(WinsOf(user)) + 0
    BY <2>3, <2>4, SumAppend DEF Start
  <2>6. Sum(TotalsOf(user)) \in Int /\ Sum(WinsOf(user)) \in Int
    BY <2>4, SumIsInt
  <2>7. QED BY <2>2, <2>5, <2>6, <1>5 DEF Balanced, Start
<1>12. QED BY <1>7, <1>8, <1>9, <1>10, <1>11, <1>13 DEF UserInv

\* i waits in a queue.
LEMMA WaitingIs ==
  ASSUME NEW S, queue \in [Tiers -> Seq(S)], NEW i
  PROVE  Waiting(i) <=> \E t \in Tiers : \E k \in DOMAIN queue[t] : queue[t][k] = i
<1>1. \A t \in Tiers : DOMAIN queue[t] = 1 .. Len(queue[t])
  OBVIOUS
<1>2. QED BY <1>1 DEF Waiting, Contains

LEMMA WaitingIsAfter ==
  ASSUME NEW S, queue' \in [Tiers -> Seq(S)], NEW i
  PROVE  Waiting(i)' <=> \E t \in Tiers : \E k \in DOMAIN queue'[t] : queue'[t][k] = i
<1>1. \A t \in Tiers : DOMAIN queue'[t] = 1 .. Len(queue'[t])
  OBVIOUS
<1>2. QED BY <1>1 DEF Waiting, Contains

LEMMA InHandIs ==
  ASSUME NEW S, hand \in [Tiers -> Seq(S)], NEW i
  PROVE  InHand(i) <=> \E t \in Tiers : \E k \in DOMAIN hand[t] : hand[t][k] = i
<1>1. \A t \in Tiers : DOMAIN hand[t] = 1 .. Len(hand[t])
  OBVIOUS
<1>2. QED BY <1>1 DEF InHand, Contains

LEMMA InHandIsAfter ==
  ASSUME NEW S, hand' \in [Tiers -> Seq(S)], NEW i
  PROVE  InHand(i)' <=> \E t \in Tiers : \E k \in DOMAIN hand'[t] : hand'[t][k] = i
<1>1. \A t \in Tiers : DOMAIN hand'[t] = 1 .. Len(hand'[t])
  OBVIOUS
<1>2. QED BY <1>1 DEF InHand, Contains

\* Whoever waits in queue t after a step has waited there, or t is the queue of
\* his score.
QueuesGrow ==
  \A t \in Tiers : \A k \in DOMAIN queue'[t] :
    \/ \E j \in DOMAIN queue[t] : queue[t][j] = queue'[t][k]
    \/ t = tier(user[queue'[t][k]].score)

\* Only users who wait nowhere are no longer taken for moved.
MovedKept == \A i \in moved : Waiting(i) => i \in moved'

LEMMA QueueStepKeeps ==
  ASSUME UserInv, UNCHANGED <<user, told, lost>>, logged_in' \subseteq Ids,
         queue' \in [Tiers -> Seq(Ids)], ThreadInv', QueuesGrow, MovedKept, KeptInv'
  PROVE  UserInv'
<1>1. /\ Ids' = Ids /\ UserTypes /\ NamesInv /\ ResultsBalance /\ TierInv
      /\ queue \in [Tiers -> Seq(Ids)]
  BY DEF Ids, UserInv, UserTypes
<1>2. UserTypes'
  BY <1>1 DEF UserTypes
<1>3. NamesInv'
  BY <1>1 DEF NamesInv
<1>4. ResultsBalance'
  BY <1>1, Balances
<1>5. TierInv'
  <2>1. ASSUME NEW t \in Tiers, NEW k \in DOMAIN queue'[t]
        PROVE  queue'[t][k] \in moved' \/ t = tier(user[queue'[t][k]].score)
    <3>1. CASE t = tier(user[queue'[t][k]].score)
      BY <3>1
    <3>2. ASSUME NEW j \in DOMAIN queue[t], queue[t][j] = queue'[t][k]
          PROVE  queue'[t][k] \in moved' \/ t = tier(user[queue'[t][k]].score)
      <4>1. queue[t][j] \in moved \/ t = tier(user[queue[t][j]].score)
        BY <1>1 DEF TierInv
      <4>2. Waiting(queue[t][j])
        BY <1>1, WaitingIs
      <4>3. queue[t][j] \in moved => queue[t][j] \in moved'
        BY <4>2 DEF MovedKept
      <4>4. QED BY <4>1, <4>3, <3>2
    <3>3. QED BY <3>1, <3>2 DEF QueuesGrow
  <2>2. QED BY <2>1 DEF TierInv
<1>6. QED BY <1>2, <1>3, <1>4, <1>5 DEF UserInv

\* A step that brings nobody into play.
LEMMA NobodyComes ==
  ASSUME KeptInv, UNCHANGED <<moved, stopped, missed>>, \A i : InPlay(i)' => InPlay(i)
  PROVE  MovedKept /\ KeptInv'
  BY DEF MovedKept, KeptInv

LEMMA SamePlay ==
  ASSUME UNCHANGED <<queue, hand>>
  PROVE  QueuesGrow /\ \A i : InPlay(i)' <=> InPlay(i)
  BY DEF QueuesGrow, InPlay, Waiting, InHand

LEMMA loginKeeps ==
  ASSUME UserInv, NEW n, NEW p, login(n, p)
  PROVE  UserInv'
<1>1. /\ UNCHANGED <<user, told, lost, queue, moved, stopped, thread, hand, missed>>
      /\ logged_in' = logged_in \union RowsOf(n, p)
  BY DEF login, matchVars
<1>2. logged_in' \subseteq Ids /\ queue' \in [Tiers -> Seq(Ids)] /\ Ids' = Ids
  BY <1>1 DEF UserInv, UserTypes, RowsOf, Ids
<1>3. ThreadInv'
  BY <1>1, <1>2 DEF UserInv, ThreadInv
<1>4. QueuesGrow /\ MovedKept /\ KeptInv'
  BY <1>1, SamePlay, NobodyComes DEF UserInv
<1>5. QED BY <1>1, <1>2, <1>3, <1>4, QueueStepKeeps

LEMMA tierIn == ASSUME NEW score PROVE tier(score) \in Tiers
  BY DEF tier, Tiers

LEMMA AppendHas ==
  ASSUME NEW S, NEW q \in Seq(S), NEW x \in S
  PROVE  /\ Append(q, x) \in Seq(S)
         /\ \A k \in DOMAIN Append(q, x) :
              Append(q, x)[k] = x \/ \E j \in DOMAIN q : q[j] = Append(q, x)[k]
<1>1. /\ Append(q, x) \in Seq(S) /\ DOMAIN q = 1 .. Len(q) /\ Len(q) \in Nat
      /\ DOMAIN Append(q, x) = 1 .. Len(q) + 1 /\ Append(q, x)[Len(q) + 1] = x
      /\ \A k \in 1 .. Len(q) : Append(q, x)[k] = q[k]
  OBVIOUS
<1> DEFINE r == Append(q, x)
<1> HIDE DEF r
<1>2. \A k \in 1 .. Len(q) + 1 : k = Len(q) + 1 \/ k \in 1 .. Len(q)
  BY <1>1
<1>3. \A k \in DOMAIN r : r[k] = x \/ \E j \in DOMAIN q : q[j] = r[k]
  BY <1>1, <1>2 DEF r
<1>4. QED BY <1>1, <1>3 DEF r

LEMMA TailHas ==
  ASSUME NEW S, NEW q \in Seq(S), q # <<>>
  PROVE  /\ Tail(q) \in Seq(S) /\ Head(q) \in S /\ \E j \in DOMAIN q : q[j] = Head(q)
         /\ \A k \in DOMAIN Tail(q) : \E j \in DOMAIN q : q[j] = Tail(q)[k]
         /\ Len(q) # 1 => Tail(q) # <<>>
<1>1. /\ Tail(q) \in Seq(S) /\ DOMAIN q = 1 .. Len(q) /\ Len(q) \in Nat /\ Len(q) > 0
      /\ DOMAIN Tail(q) = 1 .. Len(q) - 1 /\ Len(Tail(q)) = Len(q) - 1
      /\ \A k \in 1 .. Len(q) - 1 : Tail(q)[k] = q[k + 1]
  OBVIOUS
<1>2. Head(q) = q[1] /\ q[1] \in S /\ 1 \in 1 .. Len(q)
  BY <1>1
<1>3. \A k \in 1 .. Len(q) - 1 : k + 1 \in 1 .. Len(q)
  BY <1>1
<1>4. Len(<<>>) = 0
  OBVIOUS
<1>5. Len(q) # 1 => Len(Tail(q)) # 0
  BY <1>1
<1>6. QED BY <1>1, <1>2, <1>3, <1>4, <1>5

\* What add changes.
LEMMA addGrows ==
  ASSUME NEW id \in Ids, NEW o, add(id, o), queue \in [Tiers -> Seq(Ids)]
  PROVE  /\ queue' \in [Tiers -> Seq(Ids)] /\ QueuesGrow
         /\ \A i : i # id => (Waiting(i)' => Waiting(i))
<1> DEFINE t0 == tier(user[id].score)
           q == queue[t0]
           r == Append(q, id)
<1>1. queue' = queue \/ queue' = [queue EXCEPT ![t0] = r]
  BY DEF add
<1>2. t0 \in Tiers
  BY tierIn
<1>3. q \in Seq(Ids)
  BY <1>2
<1>4. /\ r \in Seq(Ids)
      /\ \A k \in DOMAIN r : r[k] = id \/ \E j \in DOMAIN q : q[j] = r[k]
  BY <1>3, AppendHas
<1> HIDE DEF t0, r
<1>5. queue' \in [Tiers -> Seq(Ids)] /\ \A t \in Tiers : queue'[t] = queue[t] \/ (t = t0 /\ queue'[t] = r)
  BY <1>1, <1>2, <1>4
<1>6. ASSUME NEW t \in Tiers, NEW k \in DOMAIN queue'[t]
      PROVE  \/ \E j \in DOMAIN queue[t] : queue[t][j] = queue'[t][k]
             \/ t = t0 /\ queue'[t][k] = id
  <2>1. CASE queue'[t] = queue[t]
    BY <2>1
  <2>2. CASE t = t0 /\ queue'[t] = r
    BY <2>2, <1>4
  <2>3. QED BY <2>1, <2>2, <1>5
<1>7. QueuesGrow
  BY <1>6 DEF QueuesGrow, t0
<1>8. ASSUME NEW i, i # id, Waiting(i)' PROVE Waiting(i)
  <2>1. PICK t \in Tiers : \E k \in DOMAIN queue'[t] : queue'[t][k] = i
    BY <1>8, <1>5, WaitingIsAfter
  <2>2. PICK k \in DOMAIN queue'[t] : queue'[t][k] = i
    BY <2>1
  <2>3. PICK j \in DOMAIN queue[t] : queue[t][j] = i
    BY <2>2, <1>6, <1>8
  <2>4. QED BY <2>3, WaitingIs
<1>9. QED BY <1>5, <1>7, <1>8

LEMMA startKeeps ==
  ASSUME UserInv, NEW id \in logged_in, match_start(id)
  PROVE  UserInv'
<1>1. PICK o \in select_by_id(id) : add(id, o)
  BY DEF match_start
<1>2. /\ stopped' = stopped \ {id} /\ missed' = missed \ {id}
      /\ moved' = (IF InPlay(id) THEN moved ELSE moved \ {id})
      /\ UNCHANGED <<user, logged_in, told, lost, thread, hand>>
  BY DEF match_start, InPlay
<1>3. /\ queue \in [Tiers -> Seq(Ids)] /\ logged_in \subseteq Ids /\ id \in Ids
      /\ ThreadInv /\ KeptInv /\ Ids' = Ids
  BY <1>2 DEF UserInv, UserTypes, Ids
<1>4. queue' \in [Tiers -> Seq(Ids)] /\ QueuesGrow /\ \A i : i # id => (Waiting(i)' => Waiting(i))
  BY <1>1, <1>3, addGrows
<1>5. ThreadInv'
  BY <1>2, <1>3 DEF ThreadInv
<1>6. MovedKept
  BY <1>2 DEF MovedKept, InPlay
<1>7. KeptInv'
  <2>1. ASSUME NEW i \in stopped', InPlay(i)' PROVE i \in moved' \union missed'
    <3>1. i \in stopped /\ i # id
      BY <1>2
    <3>2. InHand(i)' <=> InHand(i)
      BY <1>2 DEF InHand
    <3>3. InPlay(i)
      BY <2>1, <3>1, <3>2, <1>4 DEF InPlay
    <3>4. QED BY <3>1, <3>3, <1>2, <1>3 DEF KeptInv
  <2>2. QED BY <2>1 DEF KeptInv
<1>8. QED BY <1>2, <1>3, <1>4, <1>5, <1>6, <1>7, QueueStepKeeps

\* What del changes: the user no longer waits in the queue of his score.
LEMMA delShrinks ==
  ASSUME NEW id, NEW o, del(id, o), queue \in [Tiers -> Seq(Ids)]
  PROVE  /\ queue' \in [Tiers -> Seq(Ids)]
         /\ \A t \in Tiers : \A k \in DOMAIN queue'[t] :
              /\ \E j \in DOMAIN queue[t] : queue[t][j] = queue'[t][k]
              /\ o = "read" /\ t = tier(user[id].score) => queue'[t][k] # id
<1> DEFINE t0 == tier(user[id].score)
           q == queue[t0]
           r == remove(q, id)
<1>1. t0 \in Tiers
  BY tierIn
<1>2. queue' = IF o = "read" THEN [queue EXCEPT ![t0] = r] ELSE queue
  BY DEF del
<1> HIDE DEF t0
<1>4. q \in Seq(Ids)
  BY <1>1
<1> HIDE DEF q
<1>5. r \in Seq({q[j] : j \in DOMAIN q} \ {id})
  <2> DEFINE I == Ids
  <2>1. q \in Seq(I)
    BY <1>4
  <2> HIDE DEF I
  <2>2. QED BY <2>1, removeLeaves
<1> HIDE DEF r
<1>6. \A k \in DOMAIN r : r[k] # id /\ \E j \in DOMAIN q : q[j] = r[k]
  <2> DEFINE T == {q[j] : j \in DOMAIN q} \ {id}
  <2>1. r \in Seq(T)
    BY <1>5
  <2> HIDE DEF T
  <2>2. \A k \in DOMAIN r : r[k] \in T
    BY <2>1
  <2>3. QED BY <2>2 DEF T
<1>7. r \in Seq(Ids)
  <2> DEFINE T == {q[j] : j \in DOMAIN q} \ {id}
             I == Ids
  <2>1. r \in Seq(T) /\ q \in Seq(I)
    BY <1>4, <1>5
  <2> HIDE DEF I
  <2>2. T \subseteq I
    BY <2>1
  <2> HIDE DEF T
  <2>3. r \in Seq(I)
    BY <2>1, <2>2
  <2>4. QED BY <2>3 DEF I
<1>8. /\ queue' \in [Tiers -> Seq(Ids)]
      /\ \A t \in Tiers : (queue'[t] = queue[t] /\ (o = "read" => t # t0)) \/ (t = t0 /\ queue'[t] = r)
  BY <1>1, <1>2, <1>7
<1>9. ASSUME NEW t \in Tiers, NEW k \in DOMAIN queue'[t]
      PROVE  /\ \E j \in DOMAIN queue[t] : queue[t][j] = queue'[t][k]
             /\ o = "read" /\ t = t0 => queue'[t][k] # id
  <2>1. CASE t = t0 /\ queue'[t] = r
    BY <2>1, <1>6 DEF q
  <2>2. CASE queue'[t] = queue[t] /\ (o = "read" => t # t0)
    BY <2>2
  <2>3. QED BY <2>1, <2>2, <1>8
<1>10. QED BY <1>8, <1>9 DEF t0

\* A step after which whoever waits has waited before, in the same queue.
LEMMA ShorterQueues ==
  ASSUME queue \in [Tiers -> Seq(Ids)], queue' \in [Tiers -> Seq(Ids)],
         \A t \in Tiers : \A k \in DOMAIN queue'[t] : \E j \in DOMAIN queue[t] : queue[t][j] = queue'[t][k]
  PROVE  QueuesGrow /\ \A i : Waiting(i)' => Waiting(i)
<1>1. QueuesGrow
  BY DEF QueuesGrow
<1>2. ASSUME NEW i, Waiting(i)' PROVE Waiting(i)
  <2>1. PICK t \in Tiers : \E k \in DOMAIN queue'[t] : queue'[t][k] = i
    BY <1>2, WaitingIsAfter
  <2>2. PICK k \in DOMAIN queue'[t] : queue'[t][k] = i
    BY <2>1
  <2>3. PICK j \in DOMAIN queue[t] : queue[t][j] = i
    BY <2>2
  <2>4. QED BY <2>3, WaitingIs
<1>3. QED BY <1>1, <1>2

LEMMA stopKeeps ==
  ASSUME UserInv, NEW id \in logged_in, match_stop(id)
  PROVE  UserInv'
<1>1. PICK o \in select_by_id(id) :
        /\ del(id, o)
        /\ missed' = IF o # "read" \/ InHand(id) THEN missed \union {id} ELSE missed \ {id}
  BY DEF match_stop
<1>2. stopped' = stopped \union {id} /\ UNCHANGED <<user, logged_in, told, lost, moved, thread, hand>>
  BY DEF match_stop
<1>3. /\ queue \in [Tiers -> Seq(Ids)] /\ logged_in \subseteq Ids
      /\ ThreadInv /\ KeptInv /\ TierInv /\ Ids' = Ids
  BY <1>2 DEF UserInv, UserTypes, Ids
<1>4. /\ queue' \in [Tiers -> Seq(Ids)]
      /\ \A t \in Tiers : \A k \in DOMAIN queue'[t] :
           /\ \E j \in DOMAIN queue[t] : queue[t][j] = queue'[t][k]
           /\ o = "read" /\ t = tier(user[id].score) => queue'[t][k] # id
  BY <1>1, <1>3, delShrinks
<1>5. QueuesGrow /\ \A i : Waiting(i)' => Waiting(i)
  BY <1>3, <1>4, ShorterQueues
<1>6. ThreadInv'
  BY <1>2, <1>3 DEF ThreadInv
<1>7. MovedKept
  BY <1>2 DEF MovedKept
<1>8. ASSUME o = "read", Waiting(id)' PROVE id \in moved
  <2>1. PICK t \in Tiers : \E k \in DOMAIN queue'[t] : queue'[t][k] = id
    BY <1>4, <1>8, WaitingIsAfter
  <2>2. PICK k \in DOMAIN queue'[t] : queue'[t][k] = id
    BY <2>1
  <2>3. t # tier(user[id].score)
    BY <2>2, <1>4, <1>8
  <2>4. PICK j \in DOMAIN queue[t] : queue[t][j] = id
    BY <2>2, <1>4
  <2>5. id \in moved \/ t = tier(user[id].score)
    BY <2>4, <1>3 DEF TierInv
  <2>6. QED BY <2>3, <2>5
<1>9. KeptInv'
  <2>1. ASSUME NEW i \in stopped', InPlay(i)' PROVE i \in moved' \union missed'
    <3>1. InHand(i)' <=> InHand(i)
      BY <1>2 DEF InHand
    <3>2. InPlay(i)
      BY <2>1, <3>1, <1>5 DEF InPlay
    <3>3. CASE i # id
      BY <3>2, <3>3, <1>1, <1>2, <1>3 DEF KeptInv
    <3>4. CASE i = id /\ (o # "read" \/ InHand(id))
      BY <3>4, <1>1
    <3>5. CASE i = id /\ o = "read" /\ ~InHand(id)
      BY <3>5, <3>1, <2>1, <1>2, <1>8 DEF InPlay
    <3>6. QED BY <3>3, <3>4, <3>5
  <2>2. QED BY <2>1 DEF KeptInv
<1>10. QED BY <1>2, <1>3, <1>4, <1>5, <1>6, <1>7, <1>9, QueueStepKeeps

\* A step of a thread that brings nobody into play.
LEMMA ThreadStepKeeps ==
  ASSUME UserInv, UNCHANGED <<user, logged_in, told, lost, moved, stopped, missed>>,
         queue' \in [Tiers -> Seq(Ids)], ThreadInv', QueuesGrow, \A i : InPlay(i)' => InPlay(i)
  PROVE  UserInv'
<1>1. MovedKept /\ KeptInv'
  BY NobodyComes DEF UserInv
<1>2. logged_in' \subseteq Ids
  BY DEF UserInv, UserTypes
<1>3. QED BY <1>1, <1>2, QueueStepKeeps

LEMMA SizeKeeps ==
  ASSUME UserInv, NEW u \in Tiers, Size(u)
  PROVE  UserInv'
<1>1. /\ thread' = [thread EXCEPT ![u] = "pop"] /\ Ids' = Ids
      /\ UNCHANGED <<user, logged_in, told, lost, queue, moved, stopped, hand, missed>>
  BY DEF Size, Ids
<1>2. ThreadInv /\ queue' \in [Tiers -> Seq(Ids)]
  BY <1>1 DEF UserInv, UserTypes
<1>3. ThreadInv'
  BY <1>1, <1>2 DEF ThreadInv
<1>4. QED BY <1>1, <1>2, <1>3, SamePlay, ThreadStepKeeps

LEMMA PopKeeps ==
  ASSUME UserInv, NEW u \in Tiers, Pop(u)
  PROVE  UserInv'
<1>1. /\ UNCHANGED <<user, logged_in, told, lost, moved, stopped, missed>> /\ Ids' = Ids
      /\ thread[u] = "pop"
  BY DEF Pop, Ids
<1>2. ThreadInv /\ queue \in [Tiers -> Seq(Ids)]
  BY DEF UserInv, UserTypes
<1>3. CASE queue[u] = <<>>
  <2>1. /\ UNCHANGED <<queue, hand>>
        /\ thread' = [thread EXCEPT ![u] = IF hand[u] = <<>> THEN "size" ELSE "add"]
    BY <1>3 DEF Pop
  <2>2. ThreadInv'
    BY <2>1, <1>1, <1>2 DEF ThreadInv
  <2>3. queue' \in [Tiers -> Seq(Ids)]
    BY <2>1, <1>2
  <2>4. QED BY <2>1, <2>2, <2>3, <1>1, SamePlay, ThreadStepKeeps
<1>4. CASE queue[u] # <<>>
  <2> DEFINE q == queue[u]
             h == hand[u]
             r == Tail(q)
             g == Append(h, Head(q))
  <2>1. queue' = [queue EXCEPT ![u] = r] /\ hand' = [hand EXCEPT ![u] = g] /\ thread' = thread
    BY <1>4 DEF Pop
  <2>2. q \in Seq(Ids) /\ h \in Seq(Ids)
    BY <1>2 DEF ThreadInv
  <2> HIDE DEF q, h
  <2>3. /\ r \in Seq(Ids) /\ Head(q) \in Ids /\ \E j \in DOMAIN q : q[j] = Head(q)
        /\ \A k \in DOMAIN r : \E j \in DOMAIN q : q[j] = r[k]
    BY <2>2, <1>4, TailHas DEF q
  <2>4. g \in Seq(Ids) /\ \A k \in DOMAIN g : g[k] = Head(q) \/ \E j \in DOMAIN h : h[j] = g[k]
    BY <2>2, <2>3, AppendHas
  <2> HIDE DEF r, g
  <2>5. /\ queue' \in [Tiers -> Seq(Ids)] /\ queue'[u] = r /\ \A t \in Tiers : t # u => queue'[t] = queue[t]
        /\ hand' \in [Tiers -> Seq(Ids)] /\ hand'[u] = g /\ \A t \in Tiers : t # u => hand'[t] = hand[t]
    BY <2>1, <2>3, <2>4, <1>2 DEF ThreadInv
  <2>6. ThreadInv'
    BY <2>1, <2>5, <1>1, <1>2 DEF ThreadInv
  <2>7. \A t \in Tiers : \A k \in DOMAIN queue'[t] : \E j \in DOMAIN queue[t] : queue[t][j] = queue'[t][k]
    <3>1. ASSUME NEW t \in Tiers, NEW k \in DOMAIN queue'[t]
          PROVE  \E j \in DOMAIN queue[t] : queue[t][j] = queue'[t][k]
      <4>1. CASE t = u
        BY <4>1, <2>3, <2>5 DEF q
      <4>2. CASE t # u
        BY <4>2, <2>5
      <4>3. QED BY <4>1, <4>2
    <3>2. QED BY <3>1
  <2>8. QueuesGrow /\ \A i : Waiting(i)' => Waiting(i)
    BY <2>5, <2>7, <1>2, ShorterQueues
  <2>9. Waiting(Head(q))
    BY <2>3, <1>2, WaitingIs DEF q
  <2>10. ASSUME NEW i, InHand(i)' PROVE InPlay(i)
    <3>1. PICK t \in Tiers : \E k \in DOMAIN hand'[t] : hand'[t][k] = i
      BY <2>10, <2>5, InHandIsAfter
    <3>2. PICK k \in DOMAIN hand'[t] : hand'[t][k] = i
      BY <3>1
    <3>3. i = Head(q) \/ \E j \in DOMAIN hand[t] : hand[t][j] = i
      <4>1. CASE t = u
        BY <4>1, <3>2, <2>4, <2>5 DEF h
      <4>2. CASE t # u
        BY <4>2, <3>2, <2>5
      <4>3. QED BY <4>1, <4>2
    <3>4. i = Head(q) \/ InHand(i)
      BY <3>3, <1>2, InHandIs DEF ThreadInv
    <3>5. QED BY <3>4, <2>9 DEF InPlay
  <2>11. \A i : InPlay(i)' => InPlay(i)
    BY <2>8, <2>10 DEF InPlay
  <2>12. QED BY <2>5, <2>6, <2>8, <2>11, <1>1, ThreadStepKeeps
<1>5. QED BY <1>3, <1>4

\* The thread of u keeps some of the users it holds.
LEMMA FewerInHand ==
  ASSUME hand \in [Tiers -> Seq(Ids)], NEW u \in Tiers, NEW back \in Seq(Ids),
         hand' = [hand EXCEPT ![u] = back],
         \A k \in DOMAIN back : \E j \in DOMAIN hand[u] : hand[u][j] = back[k]
  PROVE  hand' \in [Tiers -> Seq(Ids)] /\ \A i : InHand(i)' => InHand(i)
<1>1. /\ hand' \in [Tiers -> Seq(Ids)] /\ hand'[u] = back
      /\ \A t \in Tiers : t # u => hand'[t] = hand[t]
  OBVIOUS
<1>2. ASSUME NEW i, InHand(i)' PROVE InHand(i)
  <2>1. PICK t \in Tiers : \E k \in DOMAIN hand'[t] : hand'[t][k] = i
    BY <1>1, <1>2, InHandIsAfter
  <2>2. PICK k \in DOMAIN hand'[t] : hand'[t][k] = i
    BY <2>1
  <2>3. \E j \in DOMAIN hand[t] : hand[t][j] = i
    <3>1. CASE t = u
      BY <3>1, <2>2, <1>1
    <3>2. CASE t # u
      BY <3>2, <2>2, <1>1
    <3>3. QED BY <3>1, <3>2
  <2>4. QED BY <2>3, InHandIs
<1>3. QED BY <1>1, <1>2

LEMMA SomeOfTwo ==
  ASSUME NEW S, NEW h \in Seq(S), Len(h) = 2
  PROVE  \A back \in {<<>>, <<h[1]>>, <<h[2]>>, h} :
           back \in Seq(S) /\ \A k \in DOMAIN back : \E j \in DOMAIN h : h[j] = back[k]
<1>1. DOMAIN h = 1 .. Len(h) /\ \A n \in 1 .. Len(h) : h[n] \in S
  OBVIOUS
<1>2. DOMAIN h = 1 .. 2 /\ h[1] \in S /\ h[2] \in S
  BY <1>1
<1> DEFINE Q(back) == back \in Seq(S) /\ \A k \in DOMAIN back : \E j \in DOMAIN h : h[j] = back[k]
<1>3. Q(<<>>)
  <2>1. DOMAIN <<>> = {} /\ <<>> \in Seq(S)
    OBVIOUS
  <2>2. QED BY <2>1
<1>4. Q(h)
  OBVIOUS
<1>5. ASSUME NEW n \in 1 .. 2 PROVE Q(<<h[n]>>)
  <2>1. h[n] \in S
    BY <1>2
  <2>2. <<h[n]>> \in Seq(S) /\ DOMAIN <<h[n]>> = {1} /\ <<h[n]>>[1] = h[n]
    BY <2>1
  <2>3. QED BY <2>2, <1>2
<1>6. 1 \in 1 .. 2 /\ 2 \in 1 .. 2
  OBVIOUS
<1> HIDE DEF Q
<1>7. Q(<<h[1]>>) /\ Q(<<h[2]>>)
  BY <1>5, <1>6
<1>8. \A back \in {<<>>, <<h[1]>>, <<h[2]>>, h} : Q(back)
  BY <1>3, <1>4, <1>7
<1>9. QED BY <1>8 DEF Q

LEMMA PairKeeps ==
  ASSUME UserInv, NEW u \in Tiers, Pair(u)
  PROVE  UserInv'
<1>1. PICK back \in {<<>>, <<hand[u][1]>>, <<hand[u][2]>>, hand[u]} :
        /\ hand' = [hand EXCEPT ![u] = back]
        /\ thread' = [thread EXCEPT ![u] = IF back = <<>> THEN "size" ELSE "add"]
  BY DEF Pair
<1>2. /\ UNCHANGED <<user, logged_in, told, lost, queue, moved, stopped, missed>> /\ Ids' = Ids
      /\ Len(hand[u]) = 2
  BY DEF Pair, Ids
<1>3. ThreadInv /\ queue' \in [Tiers -> Seq(Ids)] /\ hand \in [Tiers -> Seq(Ids)]
  BY <1>2 DEF UserInv, UserTypes, ThreadInv
<1>4. back \in Seq(Ids) /\ \A k \in DOMAIN back : \E j \in DOMAIN hand[u] : hand[u][j] = back[k]
  BY <1>2, <1>3, SomeOfTwo
<1>5. hand' \in [Tiers -> Seq(Ids)] /\ \A i : InHand(i)' => InHand(i)
  BY <1>1, <1>3, <1>4, FewerInHand
<1>6. ThreadInv'
  BY <1>1, <1>2, <1>3, <1>5 DEF ThreadInv
<1>7. QueuesGrow /\ \A i : Waiting(i)' <=> Waiting(i)
  BY <1>2 DEF QueuesGrow, Waiting
<1>8. \A i : InPlay(i)' => InPlay(i)
  BY <1>5, <1>7 DEF InPlay
<1>9. QED BY <1>2, <1>3, <1>6, <1>7, <1>8, ThreadStepKeeps

LEMMA AddBackKeeps ==
  ASSUME UserInv, NEW u \in Tiers, AddBack(u)
  PROVE  UserInv'
<1> DEFINE h == hand[u]
           x == Head(h)
           g == Tail(h)
<1>1. PICK o \in select_by_id(x) : add(x, o)
  BY DEF AddBack
<1>2. /\ hand' = [hand EXCEPT ![u] = g] /\ Ids' = Ids /\ thread[u] = "add"
      /\ thread' = [thread EXCEPT ![u] = IF Len(h) = 1 THEN "size" ELSE "add"]
      /\ UNCHANGED <<user, logged_in, told, lost, moved, stopped, missed>>
  BY DEF AddBack, Ids
<1>3. /\ ThreadInv /\ queue \in [Tiers -> Seq(Ids)] /\ hand \in [Tiers -> Seq(Ids)]
      /\ h \in Seq(Ids) /\ h # <<>>
  BY <1>2 DEF UserInv, UserTypes, ThreadInv
<1>4. /\ g \in Seq(Ids) /\ x \in Ids /\ \E j \in DOMAIN h : h[j] = x
      /\ \A k \in DOMAIN g : \E j \in DOMAIN h : h[j] = g[k]
      /\ Len(h) # 1 => g # <<>>
  BY <1>3, TailHas
<1>5. InHand(x)
  BY <1>3, <1>4, InHandIs
<1> HIDE DEF x, g
<1>6. hand' \in [Tiers -> Seq(Ids)] /\ \A i : InHand(i)' => InHand(i)
  BY <1>2, <1>3, <1>4, FewerInHand
<1>7. queue' \in [Tiers -> Seq(Ids)] /\ QueuesGrow /\ \A i : i # x => (Waiting(i)' => Waiting(i))
  BY <1>1, <1>3, <1>4, addGrows
<1>8. ThreadInv'
  <2>1. /\ thread' \in [Tiers -> {"size", "pop", "add"}] /\ hand'[u] = g
        /\ \A t \in Tiers : t # u => hand'[t] = hand[t] /\ thread'[t] = thread[t]
        /\ thread'[u] = IF Len(h) = 1 THEN "size" ELSE "add"
    BY <1>2, <1>3 DEF ThreadInv
  <2> HIDE DEF h
  <2>2. ASSUME NEW t \in Tiers, thread'[t] = "add" PROVE hand'[t] # <<>>
    <3>1. CASE t = u
      BY <3>1, <2>1, <2>2, <1>4
    <3>2. CASE t # u
      BY <3>2, <2>1, <2>2, <1>3 DEF ThreadInv
    <3>3. QED BY <3>1, <3>2
  <2>3. QED BY <2>1, <2>2, <1>2, <1>6 DEF ThreadInv
<1>9. \A i : InPlay(i)' => InPlay(i)
  BY <1>5, <1>6, <1>7 DEF InPlay
<1>10. QED BY <1>2, <1>7, <1>8, <1>9, ThreadStepKeeps

\* Two sequences that differ in two places.
LEMMA SumChangeTwo ==
  ASSUME NEW s \in Seq(Int), NEW t \in Seq(Int), Len(t) = Len(s),
         NEW i \in 1 .. Len(s), NEW k \in 1 .. Len(s), i # k,
         \A j \in 1 .. Len(s) : j # i /\ j # k => t[j] = s[j]
  PROVE  Sum(t) = Sum(s) + (t[i] - s[i]) + (t[k] - s[k])
<1> DEFINE m == [s EXCEPT ![i] = t[i]]
<1>1. /\ m \in Seq(Int) /\ Len(m) = Len(s) /\ m[i] = t[i]
      /\ \A j \in 1 .. Len(s) : j # i => m[j] = s[j]
  OBVIOUS
<1> HIDE DEF m
<1>2. Sum(m) = Sum(s) + (m[i] - s[i])
  BY <1>1, SumChange
<1>3. \A j \in 1 .. Len(m) : j # k => t[j] = m[j]
  BY <1>1
<1>4. Sum(t) = Sum(m) + (t[k] - m[k])
  BY <1>1, <1>3, SumChange
<1>5. m[k] = s[k]
  BY <1>1
<1>6. QED BY <1>1, <1>2, <1>4, <1>5

LEMMA RowKept ==
  ASSUME UserAssumed, NEW u \in UserRow
  PROVE  /\ win(u) \in UserRow /\ lose(u) \in UserRow
         /\ win(u).name = u.name /\ win(u).password = u.password
         /\ lose(u).name = u.name /\ lose(u).password = u.password
         /\ win(u).score = u.score + Gain /\ win(u).total = u.total + 1 /\ win(u).win = u.win + 1
         /\ lose(u).score = u.score - Gain /\ lose(u).total = u.total + 1 /\ lose(u).win = u.win
<1>1. Gain \in Int
  BY DEF UserAssumed
<1>2. win(u) \in UserRow /\ lose(u) \in UserRow
  <2>1. u.score \in Int /\ u.total \in Int /\ u.win \in Int
    BY DEF UserRow
  <2>2. u.score + Gain \in Int /\ u.score - Gain \in Int /\ u.total + 1 \in Int /\ u.win + 1 \in Int
    BY <2>1, <1>1
  <2>3. ASSUME NEW x \in Int, NEW y \in Int, NEW z \in Int
        PROVE  [u EXCEPT !.score = x, !.total = y, !.win = z] \in UserRow
    BY DEF UserRow
  <2>4. ASSUME NEW x \in Int, NEW y \in Int
        PROVE  [u EXCEPT !.score = x, !.total = y] \in UserRow
    BY DEF UserRow
  <2>5. win(u) \in UserRow
    BY <2>2, <2>3 DEF win
  <2>6. lose(u) \in UserRow
    BY <2>2, <2>4 DEF lose
  <2>7. QED BY <2>5, <2>6
<1>3. /\ win(u).name = u.name /\ win(u).password = u.password
      /\ win(u).score = u.score + Gain /\ win(u).total = u.total + 1 /\ win(u).win = u.win + 1
  BY DEF UserRow, win
<1>4. /\ lose(u).name = u.name /\ lose(u).password = u.password
      /\ lose(u).score = u.score - Gain /\ lose(u).total = u.total + 1 /\ lose(u).win = u.win
  BY DEF UserRow, lose
<1>5. QED BY <1>2, <1>3, <1>4

\* What is added or taken away is the difference.
LEMMA Added == \A x, k \in Int : (x + k) - x = k
  OBVIOUS
LEMMA Taken == \A x, k \in Int : (x - k) - x = -k
  OBVIOUS
LEMMA AddedAndTaken == \A x, k \in Int : x + k + (-k) = x
  OBVIOUS
LEMMA NoDifference == \A x \in Int : x - x = 0
  OBVIOUS

\* A result that both statements wrote leaves the balance.
LEMMA ResultBalanced ==
  ASSUME UserAssumed, NEW u \in Seq(UserRow), NEW v \in Seq(UserRow), Len(v) = Len(u), Balanced(u),
         NEW w \in 1 .. Len(u), NEW l \in 1 .. Len(u), w # l,
         v[w] = win(u[w]), v[l] = lose(u[l]),
         \A j \in 1 .. Len(u) : j # w /\ j # l => v[j] = u[j]
  PROVE  Balanced(v)
<1>1. /\ ScoresOf(u) \in Seq(Int) /\ TotalsOf(u) \in Seq(Int) /\ WinsOf(u) \in Seq(Int)
      /\ Len(ScoresOf(u)) = Len(u) /\ Len(TotalsOf(u)) = Len(u) /\ Len(WinsOf(u)) = Len(u)
      /\ \A i \in 1 .. Len(u) : /\ ScoresOf(u)[i] = u[i].score /\ TotalsOf(u)[i] = u[i].total
                                /\ WinsOf(u)[i] = u[i].win
  BY Columns
<1>2. /\ ScoresOf(v) \in Seq(Int) /\ TotalsOf(v) \in Seq(Int) /\ WinsOf(v) \in Seq(Int)
      /\ Len(ScoresOf(v)) = Len(u) /\ Len(TotalsOf(v)) = Len(u) /\ Len(WinsOf(v)) = Len(u)
      /\ \A i \in 1 .. Len(u) : /\ ScoresOf(v)[i] = v[i].score /\ TotalsOf(v)[i] = v[i].total
                                /\ WinsOf(v)[i] = v[i].win
  BY Columns
<1>3. u[w] \in UserRow /\ u[l] \in UserRow
  OBVIOUS
<1>4. /\ v[w].score = u[w].score + Gain /\ v[w].total = u[w].total + 1 /\ v[w].win = u[w].win + 1
      /\ v[l].score = u[l].score - Gain /\ v[l].total = u[l].total + 1 /\ v[l].win = u[l].win
      /\ u[w].score \in Int /\ u[w].total \in Int /\ u[w].win \in Int
      /\ u[l].score \in Int /\ u[l].total \in Int /\ u[l].win \in Int /\ Gain \in Int
  <2>1. /\ u[w].score \in Int /\ u[w].total \in Int /\ u[w].win \in Int
        /\ u[l].score \in Int /\ u[l].total \in Int /\ u[l].win \in Int /\ Gain \in Int
    BY <1>3 DEF UserRow, UserAssumed
  <2>2. /\ v[w].score = u[w].score + Gain /\ v[w].total = u[w].total + 1 /\ v[w].win = u[w].win + 1
    BY <1>3, RowKept
  <2>3. /\ v[l].score = u[l].score - Gain /\ v[l].total = u[l].total + 1 /\ v[l].win = u[l].win
    BY <1>3, RowKept
  <2>4. QED BY <2>1, <2>2, <2>3
<1>5. \A j \in 1 .. Len(u) : j # w /\ j # l =>
        /\ ScoresOf(v)[j] = ScoresOf(u)[j] /\ TotalsOf(v)[j] = TotalsOf(u)[j] /\ WinsOf(v)[j] = WinsOf(u)[j]
  <2>1. ASSUME NEW j \in 1 .. Len(u), j # w, j # l
        PROVE  /\ ScoresOf(v)[j] = ScoresOf(u)[j] /\ TotalsOf(v)[j] = TotalsOf(u)[j]
               /\ WinsOf(v)[j] = WinsOf(u)[j]
    <3>1. v[j] = u[j]
      BY <2>1
    <3>2. QED BY <3>1, <1>1, <1>2, Zenon
  <2>2. QED BY <2>1, Zenon
<1>6. Sum(ScoresOf(v)) = Sum(ScoresOf(u)) + (v[w].score - u[w].score) + (v[l].score - u[l].score)
  <2>1. Sum(ScoresOf(v)) = Sum(ScoresOf(u)) + (ScoresOf(v)[w] - ScoresOf(u)[w]) + (ScoresOf(v)[l] - ScoresOf(u)[l])
    <3> DEFINE s == ScoresOf(u)
               t == ScoresOf(v)
    <3>1. s \in Seq(Int) /\ t \in Seq(Int) /\ Len(s) = Len(u) /\ Len(t) = Len(s)
      BY <1>1, <1>2
    <3>2. w \in 1 .. Len(s) /\ l \in 1 .. Len(s) /\ \A j \in 1 .. Len(s) : j # w /\ j # l => t[j] = s[j]
      BY <3>1, <1>5
    <3> HIDE DEF s, t
    <3>3. Sum(t) = Sum(s) + (t[w] - s[w]) + (t[l] - s[l])
      BY <3>1, <3>2, SumChangeTwo
    <3>4. QED BY <3>3 DEF s, t
  <2>2. QED BY <2>1, <1>1, <1>2
<1>7. Sum(TotalsOf(v)) = Sum(TotalsOf(u)) + (v[w].total - u[w].total) + (v[l].total - u[l].total)
  <2>1. Sum(TotalsOf(v)) = Sum(TotalsOf(u)) + (TotalsOf(v)[w] - TotalsOf(u)[w]) + (TotalsOf(v)[l] - TotalsOf(u)[l])
    <3> DEFINE s == TotalsOf(u)
               t == TotalsOf(v)
    <3>1. s \in Seq(Int) /\ t \in Seq(Int) /\ Len(s) = Len(u) /\ Len(t) = Len(s)
      BY <1>1, <1>2
    <3>2. w \in 1 .. Len(s) /\ l \in 1 .. Len(s) /\ \A j \in 1 .. Len(s) : j # w /\ j # l => t[j] = s[j]
      BY <3>1, <1>5
    <3> HIDE DEF s, t
    <3>3. Sum(t) = Sum(s) + (t[w] - s[w]) + (t[l] - s[l])
      BY <3>1, <3>2, SumChangeTwo
    <3>4. QED BY <3>3 DEF s, t
  <2>2. QED BY <2>1, <1>1, <1>2
<1>8. Sum(WinsOf(v)) = Sum(WinsOf(u)) + (v[w].win - u[w].win) + (v[l].win - u[l].win)
  <2>1. Sum(WinsOf(v)) = Sum(WinsOf(u)) + (WinsOf(v)[w] - WinsOf(u)[w]) + (WinsOf(v)[l] - WinsOf(u)[l])
    <3> DEFINE s == WinsOf(u)
               t == WinsOf(v)
    <3>1. s \in Seq(Int) /\ t \in Seq(Int) /\ Len(s) = Len(u) /\ Len(t) = Len(s)
      BY <1>1, <1>2
    <3>2. w \in 1 .. Len(s) /\ l \in 1 .. Len(s) /\ \A j \in 1 .. Len(s) : j # w /\ j # l => t[j] = s[j]
      BY <3>1, <1>5
    <3> HIDE DEF s, t
    <3>3. Sum(t) = Sum(s) + (t[w] - s[w]) + (t[l] - s[l])
      BY <3>1, <3>2, SumChangeTwo
    <3>4. QED BY <3>3 DEF s, t
  <2>2. QED BY <2>1, <1>1, <1>2
<1>9. Sum(ScoresOf(u)) \in Int /\ Sum(TotalsOf(u)) \in Int /\ Sum(WinsOf(u)) \in Int
  BY <1>1, SumIsInt
<1>10. Sum(ScoresOf(v)) = Sum(ScoresOf(u))
  <2>1. (u[w].score + Gain) - u[w].score = Gain /\ (u[l].score - Gain) - u[l].score = -Gain
    BY <1>4, Added, Taken, Zenon
  <2>2. v[w].score - u[w].score = Gain /\ v[l].score - u[l].score = -Gain
    BY <2>1, <1>4, Zenon
  <2>3. Sum(ScoresOf(v)) = Sum(ScoresOf(u)) + Gain + (-Gain)
    BY <2>2, <1>6, Zenon
  <2>4. Sum(ScoresOf(u)) + Gain + (-Gain) = Sum(ScoresOf(u))
    BY <1>4, <1>9, AddedAndTaken, Zenon
  <2>5. QED BY <2>3, <2>4, Zenon
<1>11. Sum(TotalsOf(v)) = Sum(TotalsOf(u)) + 2 /\ Sum(WinsOf(v)) = Sum(WinsOf(u)) + 1
  <2>1. /\ v[w].total - u[w].total = 1 /\ v[l].total - u[l].total = 1
        /\ v[w].win - u[w].win = 1 /\ v[l].win - u[l].win = 0
    <3>1. 1 \in Int
      OBVIOUS
    <3>2. /\ (u[w].total + 1) - u[w].total = 1 /\ (u[l].total + 1) - u[l].total = 1
          /\ (u[w].win + 1) - u[w].win = 1 /\ u[l].win - u[l].win = 0
      <4>1. (u[w].total + 1) - u[w].total = 1 /\ (u[l].total + 1) - u[l].total = 1
        BY <3>1, <1>4, Added, Zenon
      <4>2. (u[w].win + 1) - u[w].win = 1
        BY <3>1, <1>4, Added, Zenon
      <4>3. u[l].win - u[l].win = 0
        BY <1>4, NoDifference, Zenon
      <4>4. QED BY <4>1, <4>2, <4>3, Zenon
    <3>3. QED BY <3>2, <1>4, Zenon
  <2>2. QED BY <2>1, <1>7, <1>8, <1>9
<1>12. QED BY <1>9, <1>10, <1>11 DEF Balanced

LEMMA SettleKeeps ==
  ASSUME UserAssumed, UserInv, NEW w \in logged_in, NEW l \in logged_in,
         NEW wins \in BOOLEAN, NEW loses \in BOOLEAN, Settle(w, l, wins, loses)
  PROVE  UserInv'
<1> DEFINE a == IF wins THEN win(user[w]) ELSE user[w]
           b == IF loses THEN lose(user[l]) ELSE user[l]
<1>1. /\ UserTypes /\ ThreadInv /\ NamesInv /\ TierInv /\ KeptInv /\ ResultsBalance
      /\ user \in Seq(UserRow) /\ logged_in \subseteq Ids /\ lost \in Nat /\ queue \in [Tiers -> Seq(Ids)]
  BY DEF UserInv, UserTypes
<1>2. w # l /\ w \in Ids /\ l \in Ids /\ Ids = 1 .. Len(user) /\ Len(user) \in Nat
  BY <1>1 DEF Settle, Ids
<1>3. user[w] \in UserRow /\ user[l] \in UserRow
  BY <1>1, <1>2
<1>4. /\ a \in UserRow /\ a.name = user[w].name /\ a.password = user[w].password
      /\ b \in UserRow /\ b.name = user[l].name /\ b.password = user[l].password
  BY <1>3, RowKept
<1>5. /\ user' = [user EXCEPT ![w] = a, ![l] = b]
      /\ lost' = lost + (IF wins THEN 0 ELSE 1) + (IF loses THEN 0 ELSE 1)
      /\ moved' = {i \in moved \union {w, l} : InPlay(i)}
      /\ UNCHANGED <<queue, logged_in, told, stopped, thread, hand, missed>>
  BY <1>2 DEF Settle, InPlay
<1> HIDE DEF a, b
<1>6. /\ user' \in Seq(UserRow) /\ Len(user') = Len(user) /\ user'[w] = a /\ user'[l] = b
      /\ \A j \in 1 .. Len(user) : j # w /\ j # l => user'[j] = user[j]
  BY <1>1, <1>2, <1>4, <1>5
<1>7. /\ Ids' = Ids
      /\ \A j \in Ids : user'[j].name = user[j].name /\ user'[j].password = user[j].password
  BY <1>2, <1>4, <1>6 DEF Ids
<1>8. UserTypes'
  BY <1>1, <1>5, <1>6, <1>7 DEF UserTypes
<1>9. NamesInv'
  <2>1. \A i, j \in Ids' : user'[i].name = user'[j].name => i = j
    BY <1>1, <1>7 DEF NamesInv
  <2>2. told' = {<<user'[i].password, user'[i].name>> : i \in Ids'}
    <3>1. told' = {<<user[i].password, user[i].name>> : i \in Ids}
      BY <1>1, <1>5 DEF NamesInv
    <3>2. \A i \in Ids : <<user'[i].password, user'[i].name>> = <<user[i].password, user[i].name>>
      BY <1>7
    <3>3. QED BY <3>1, <3>2, <1>7
  <2>3. QED BY <2>1, <2>2 DEF NamesInv
<1>10. TierInv'
  <2>1. ASSUME NEW t \in Tiers, NEW k \in DOMAIN queue[t]
        PROVE  queue[t][k] \in moved' \/ t = tier(user'[queue[t][k]].score)
    <3> DEFINE i == queue[t][k]
    <3>1. InPlay(i) /\ i \in Ids
      BY <1>1, WaitingIs DEF InPlay
    <3> HIDE DEF i
    <3>2. CASE i \in moved \union {w, l}
      BY <3>1, <3>2, <1>5 DEF i
    <3>3. CASE i \notin moved \union {w, l}
      <4>1. user'[i] = user[i]
        BY <3>1, <3>3, <1>2, <1>6
      <4>2. t = tier(user[i].score)
        BY <3>3, <1>1 DEF TierInv, i
      <4>3. QED BY <4>1, <4>2 DEF i
    <3>4. QED BY <3>2, <3>3
  <2>2. QED BY <2>1, <1>5 DEF TierInv
<1>11. KeptInv' /\ ThreadInv'
  <2>1. \A i : InPlay(i)' <=> InPlay(i)
    BY <1>5, SamePlay
  <2>2. KeptInv'
    BY <2>1, <1>1, <1>5 DEF KeptInv
  <2>3. QED BY <2>2, <1>1, <1>5, <1>7 DEF ThreadInv
<1>12. ResultsBalance'
  <2>1. SUFFICES ASSUME lost' = 0 PROVE Balanced(user')
    BY Balances
  <2>2. lost = 0 /\ wins /\ loses
    BY <2>1, <1>1, <1>5
  <2>3. Balanced(user)
    BY <2>2, <1>1, Balances
  <2>4. a = win(user[w]) /\ b = lose(user[l])
    BY <2>2 DEF a, b
  <2>5. QED BY <2>3, <2>4, <1>1, <1>2, <1>6, ResultBalanced
<1>13. QED BY <1>8, <1>9, <1>10, <1>11, <1>12 DEF UserInv

LEMMA UserStep ==
  ASSUME UserAssumed
  PROVE  UserInv /\ [UserNext]_userVars => UserInv'
<1> SUFFICES ASSUME UserInv, [UserNext]_userVars PROVE UserInv'
  OBVIOUS
<1>1. CASE reg
  BY <1>1, RegKeeps
<1>2. ASSUME NEW n \in Usernames, NEW p \in Persons, login(n, p) PROVE UserInv'
  BY <1>2, loginKeeps
<1>3. ASSUME NEW i \in logged_in, match_start(i) PROVE UserInv'
  BY <1>3, startKeeps
<1>4. ASSUME NEW i \in logged_in, match_stop(i) PROVE UserInv'
  BY <1>4, stopKeeps
<1>5. ASSUME NEW t \in Tiers, Size(t) \/ Pop(t) \/ Pair(t) \/ AddBack(t) PROVE UserInv'
  BY <1>5, SizeKeeps, PopKeeps, PairKeeps, AddBackKeeps
<1>6. ASSUME NEW w \in logged_in, NEW l \in logged_in, NEW wins \in BOOLEAN, NEW loses \in BOOLEAN,
             Settle(w, l, wins, loses)
      PROVE  UserInv'
  BY <1>6, SettleKeeps
<1>7. CASE UNCHANGED userVars
  <2>1. UNCHANGED <<user, queue, logged_in, told, lost, moved, stopped, thread, hand, missed>> /\ Ids' = Ids
    BY <1>7 DEF userVars, matchVars, Ids
  <2>2. queue' \in [Tiers -> Seq(Ids)] /\ ThreadInv'
    BY <2>1 DEF UserInv, UserTypes, ThreadInv
  <2>3. QED BY <2>1, <2>2, SamePlay, ThreadStepKeeps
<1>8. QED BY <1>1, <1>2, <1>3, <1>4, <1>5, <1>6, <1>7 DEF UserNext

LEMMA UsersSound ==
  ASSUME UserInv
  PROVE  RegisteredCanLogin /\ StopForgets /\ ResultsBalance
<1>1. NamesInv /\ logged_in \subseteq Ids /\ StopForgets /\ ResultsBalance
  BY DEF UserInv, UserTypes, KeptInv, InPlay, StopForgets
<1>2. ASSUME NEW t \in told PROVE Cardinality(RowsOf(t[2], t[1])) = 1
  <2>1. PICK i \in Ids : t = <<user[i].password, user[i].name>>
    BY <1>1 DEF NamesInv
  <2>2. t[1] = user[i].password /\ t[2] = user[i].name
    BY <2>1
  <2>3. RowsOf(t[2], t[1]) = {i}
    BY <2>2, <1>1 DEF RowsOf, NamesInv
  <2>4. QED BY <2>3, FS_Singleton
<1>3. \A i \in logged_in : <<user[i].password, user[i].name>> \in told
  BY <1>1 DEF NamesInv
<1>4. QED BY <1>1, <1>2, <1>3 DEF RegisteredCanLogin

(* Whoever was told that he is registered can log in and nobody else as    *)
(* him; who stopped waits in no queue, unless his score had changed, a     *)
(* matching thread held him or del could not read his row; and points and  *)
(* games add up while no statement fails: for any names, persons, points   *)
(* and number of games (user_table, matcher::add, matcher::del,            *)
(* handle_match).                                                          *)
THEOREM UsersServed ==
  ASSUME UserAssumed
  PROVE  UserSpec => [](RegisteredCanLogin /\ StopForgets /\ ResultsBalance)
<1>1. UserInv => RegisteredCanLogin /\ StopForgets /\ ResultsBalance
  BY UsersSound
<1>2. QED BY <1>1, UserStart, UserStep, PTL DEF UserSpec

-----------------------------------------------------------------------------
(***************************************************************************)
(* The board.                                                              *)
(***************************************************************************)
BoardAssumed == Rows \in Nat /\ Cols \in Nat /\ Win \in Nat \ {0}

\* k cells from c in direction d.
At(c, d, k) == <<c[1] + k * d[1], c[2] + k * d[2]>>
Directions == {-1, 0, 1} \X {-1, 0, 1}
Four == {<<0, 1>>, <<1, 0>>, <<-1, 1>>, <<-1, -1>>}
Back(d) == <<-d[1], -d[2]>>
Has(b, c, color) == c \in Cells /\ b[c] = color
LineOf(c, d) == {At(c, d, k) : k \in 0 .. Win - 1}
OfOne(b, line, color) == \A c \in line : b[c] = color

LEMMA Along ==
  ASSUME NEW x \in Int, NEW e \in {-1, 0, 1}, NEW j \in Int, NEW k \in Int
  PROVE  /\ x + j * e \in Int /\ (x + j * e) + k * e = x + (j + k) * e
         /\ x + k * (-e) = x + (-k) * e /\ x + 0 * e = x
         /\ -e \in {-1, 0, 1} /\ -(-e) = e
         /\ e # 0 => (x + j * e = x + k * e => j = k)
<1>1. e \in Int
  OBVIOUS
<1>2. x + j * e \in Int
  BY <1>1
<1>3. (x + j * e) + k * e = x + (j + k) * e
  BY <1>1
<1>4. x + k * (-e) = x + (-k) * e /\ x + 0 * e = x
  BY <1>1
<1>5. -e \in {-1, 0, 1} /\ -(-e) = e
  OBVIOUS
<1>6. ASSUME e # 0, x + j * e = x + k * e PROVE j = k
  <2>1. e \in {-1, 1}
    BY <1>6
  <2>2. QED BY <2>1, <1>6
<1>7. QED BY <1>2, <1>3, <1>4, <1>5, <1>6

LEMMA AtIs ==
  ASSUME NEW c \in Int \X Int, NEW d \in Directions, NEW j \in Int, NEW k \in Int
  PROVE  /\ At(c, d, j) \in Int \X Int /\ At(At(c, d, j), d, k) = At(c, d, j + k)
         /\ At(c, Back(d), k) = At(c, d, -k) /\ At(c, d, 0) = c
         /\ Back(d) \in Directions /\ Back(Back(d)) = d
         /\ d # <<0, 0>> => (At(c, d, j) = At(c, d, k) => j = k)
<1>1. c = <<c[1], c[2]>> /\ c[1] \in Int /\ c[2] \in Int
  OBVIOUS
<1>2. d = <<d[1], d[2]>> /\ d[1] \in {-1, 0, 1} /\ d[2] \in {-1, 0, 1}
  BY DEF Directions
<1> DEFINE x == c[1]
           y == c[2]
           e == d[1]
           f == d[2]
<1>3. /\ x + j * e \in Int /\ (x + j * e) + k * e = x + (j + k) * e
      /\ x + k * (-e) = x + (-k) * e /\ x + 0 * e = x
      /\ -e \in {-1, 0, 1} /\ -(-e) = e
      /\ e # 0 => (x + j * e = x + k * e => j = k)
  BY <1>1, <1>2, Along
<1>4. /\ y + j * f \in Int /\ (y + j * f) + k * f = y + (j + k) * f
      /\ y + k * (-f) = y + (-k) * f /\ y + 0 * f = y
      /\ -f \in {-1, 0, 1} /\ -(-f) = f
      /\ f # 0 => (y + j * f = y + k * f => j = k)
  BY <1>1, <1>2, Along
<1>5. /\ c = <<x, y>> /\ d = <<e, f>> /\ Back(d) = <<-e, -f>> /\ Back(Back(d)) = <<-(-e), -(-f)>>
      /\ \A i : At(c, d, i) = <<x + i * e, y + i * f>> /\ At(c, Back(d), i) = <<x + i * (-e), y + i * (-f)>>
      /\ At(At(c, d, j), d, k) = <<(x + j * e) + k * e, (y + j * f) + k * f>>
  BY <1>1, <1>2 DEF At, Back
<1> HIDE DEF x, y, e, f
<1>6. At(c, d, j) \in Int \X Int /\ Back(d) \in Directions /\ Back(Back(d)) = d /\ At(c, d, 0) = c
  <2>1. At(c, d, j) = <<x + j * e, y + j * f>> /\ At(c, d, 0) = <<x + 0 * e, y + 0 * f>>
    BY <1>5
  <2>2. At(c, d, j) \in Int \X Int
    BY <2>1, <1>3, <1>4
  <2>3. At(c, d, 0) = c
    BY <2>1, <1>3, <1>4, <1>5
  <2>4. Back(d) \in Directions
    BY <1>3, <1>4, <1>5 DEF Directions
  <2>5. Back(Back(d)) = d
    BY <1>3, <1>4, <1>5
  <2>6. QED BY <2>2, <2>3, <2>4, <2>5
<1>7. At(At(c, d, j), d, k) = At(c, d, j + k) /\ At(c, Back(d), k) = At(c, d, -k)
  BY <1>3, <1>4, <1>5
<1>8. ASSUME d # <<0, 0>>, At(c, d, j) = At(c, d, k) PROVE j = k
  <2>1. e # 0 \/ f # 0
    BY <1>5, <1>8
  <2>2. x + j * e = x + k * e /\ y + j * f = y + k * f
    <3> DEFINE x1 == x + j * e
               y1 == y + j * f
               x2 == x + k * e
               y2 == y + k * f
    <3>1. <<x1, y1>> = <<x2, y2>>
      BY <1>5, <1>8
    <3> HIDE DEF x1, y1, x2, y2
    <3>2. x1 = x2 /\ y1 = y2
      BY <3>1
    <3>3. QED BY <3>2 DEF x1, y1, x2, y2
  <2>3. QED BY <2>1, <2>2, <1>3, <1>4
<1>9. QED BY <1>6, <1>7, <1>8

LEMMA InitialSegment ==
  ASSUME NEW M \in Nat, NEW T, T \subseteq 1 .. M, \A n \in T : \A k \in 1 .. n : k \in T
  PROVE  T = 1 .. Cardinality(T) /\ Cardinality(T) \in Nat
<1> DEFINE B == {n \in Nat : n + 1 \notin T}
<1>1. M \in B
  OBVIOUS
<1>2. PICK m \in B : \A k \in B : m <= k
  <2>1. B \subseteq Nat /\ B # {}
    BY <1>1
  <2> HIDE DEF B
  <2>2. QED BY <2>1, LeastOf
<1>3. m \in Nat /\ m + 1 \notin T
  OBVIOUS
<1>4. ASSUME NEW k \in 1 .. m PROVE k \in T
  <2>1. k - 1 \in Nat /\ ~(m <= k - 1)
    BY <1>3
  <2>2. k - 1 \notin B
    BY <2>1, <1>2
  <2>3. k - 1 + 1 = k
    BY <1>3
  <2>4. QED BY <2>1, <2>2, <2>3
<1>5. ASSUME NEW n \in T PROVE n \in 1 .. m
  <2>1. n \in Nat /\ n >= 1
    OBVIOUS
  <2>2. CASE n > m
    <3>1. m + 1 \in 1 .. n
      BY <2>1, <2>2, <1>3
    <3>2. QED BY <3>1, <1>3
  <2>3. QED BY <2>1, <2>2, <1>3
<1>6. T = 1 .. m
  BY <1>4, <1>5
<1>7. Cardinality(1 .. m) = m
  BY <1>3, FS_Interval
<1>8. QED BY <1>3, <1>6, <1>7

\* Run counts the stones that follow without a gap.
LEMMA RunCounts ==
  ASSUME BoardAssumed, NEW b, NEW cell, NEW off, NEW color
  PROVE  LET m == Run(b, cell, off, color) IN
         /\ m \in Nat
         /\ \A k \in 1 .. m : Has(b, At(cell, off, k), color)
         /\ \A n \in 1 .. (Rows + Cols) : (\A k \in 1 .. n : Has(b, At(cell, off, k), color)) => n <= m
<1> DEFINE M == Rows + Cols
           T == {n \in 1 .. M : \A k \in 1 .. n : Has(b, At(cell, off, k), color)}
<1>1. M \in Nat
  BY DEF BoardAssumed
<1>2. Run(b, cell, off, color) = Cardinality(T)
  BY DEF Run, Has, At
<1>3. T = 1 .. Cardinality(T) /\ Cardinality(T) \in Nat
  <2>1. T \subseteq 1 .. M
    OBVIOUS
  <2>2. ASSUME NEW n \in T, NEW k \in 1 .. n PROVE k \in T
    <3>1. n \in 1 .. M /\ \A i \in 1 .. n : Has(b, At(cell, off, i), color)
      OBVIOUS
    <3>2. k \in 1 .. M /\ \A i \in 1 .. k : i \in 1 .. n
      BY <3>1, <1>1
    <3>3. QED BY <3>1, <3>2
  <2> HIDE DEF T, M
  <2>3. QED BY <2>1, <2>2, <1>1, InitialSegment
<1> DEFINE m == Cardinality(T)
<1>4. \A k \in 1 .. m : Has(b, At(cell, off, k), color)
  <2>1. ASSUME NEW k \in 1 .. m PROVE Has(b, At(cell, off, k), color)
    <3>1. k \in T
      BY <1>3
    <3>2. k \in 1 .. k
      BY <1>1, <3>1
    <3>3. QED BY <3>1, <3>2
  <2>2. QED BY <2>1
<1>5. ASSUME NEW n \in 1 .. M, \A k \in 1 .. n : Has(b, At(cell, off, k), color) PROVE n <= m
  <2>1. n \in T
    BY <1>5
  <2>2. n \in 1 .. m
    BY <2>1, <1>3
  <2> HIDE DEF T
  <2>3. QED BY <2>2, <1>3
<1>6. QED BY <1>2, <1>3, <1>4, <1>5

LEMMA LineSize ==
  ASSUME BoardAssumed, NEW c \in Int \X Int, NEW d \in Directions, d # <<0, 0>>
  PROVE  Cardinality(LineOf(c, d)) = Win
<1> DEFINE L == LineOf(c, d)
           f == [i \in 1 .. Win |-> At(c, d, i - 1)]
<1>1. Win \in Nat /\ Win # 0
  BY DEF BoardAssumed
<1>2. \A i \in 1 .. Win : At(c, d, i - 1) \in L
  BY <1>1 DEF LineOf
<1>3. \A i, j \in 1 .. Win : f[i] = f[j] => i = j
  <2>1. ASSUME NEW i \in 1 .. Win, NEW j \in 1 .. Win, f[i] = f[j] PROVE i = j
    <3>1. i - 1 \in Int /\ j - 1 \in Int /\ At(c, d, i - 1) = At(c, d, j - 1)
      BY <2>1, <1>1
    <3> DEFINE g == i - 1
               h == j - 1
    <3> HIDE DEF g, h
    <3>2. g \in Int /\ h \in Int /\ At(c, d, g) = At(c, d, h)
      BY <3>1 DEF g, h
    <3>3. g = h
      BY <3>2, AtIs
    <3>4. i - 1 = j - 1
      BY <3>3 DEF g, h
    <3>5. QED BY <3>4, <1>1
  <2>2. QED BY <2>1
<1>4. \A x \in L : \E i \in 1 .. Win : f[i] = x
  <2>1. ASSUME NEW x \in L PROVE \E i \in 1 .. Win : f[i] = x
    <3>1. PICK k \in 0 .. Win - 1 : x = At(c, d, k)
      BY DEF LineOf
    <3>2. k + 1 \in 1 .. Win /\ k + 1 - 1 = k
      BY <1>1
    <3>3. f[k + 1] = x
      BY <3>1, <3>2
    <3>4. QED BY <3>2, <3>3
  <2>2. QED BY <2>1
<1>5. f \in [1 .. Win -> L]
  BY <1>2
<1> HIDE DEF f, L
<1>6. f \in Bijection(1 .. Win, L)
  BY <1>3, <1>4, <1>5 DEF Bijection, Injection, Surjection, IsInjective
<1>7. ExistsBijection(1 .. Win, L)
  BY <1>6 DEF ExistsBijection
<1>8. QED BY <1>1, <1>7, FS_CountingElements DEF L

\* The lines of the board, by their first cell and direction.
LEMMA LinesAre ==
  ASSUME NEW line
  PROVE  line \in Lines <=> \E c \in Cells, d \in Directions :
           line = LineOf(c, d) /\ Cardinality(line) = Win /\ line \subseteq Cells
  BY DEF Lines, LineOf, At, Directions

LEMMA CellsAre ==
  ASSUME BoardAssumed, NEW c \in Cells
  PROVE  c \in Int \X Int /\ c[1] \in 0 .. Rows - 1 /\ c[2] \in 0 .. Cols - 1
  BY DEF BoardAssumed, Cells

LEMMA Negated ==
  ASSUME NEW e \in Int
  PROVE  (e = 0 => -e = 0) /\ (e = -1 => -e = 1) /\ (e = 1 => -e = -1)
  OBVIOUS

LEMMA FourAre ==
  ASSUME NEW d \in Directions
  PROVE  d = <<0, 0>> \/ d \in Four \/ Back(d) \in Four
<1>1. d = <<d[1], d[2]>> /\ d[1] \in {-1, 0, 1} /\ d[2] \in {-1, 0, 1}
  BY DEF Directions
<1>2. d[1] \in Int /\ d[2] \in Int
  BY <1>1
<1>3. /\ (d[1] = 0 => -d[1] = 0) /\ (d[1] = -1 => -d[1] = 1) /\ (d[1] = 1 => -d[1] = -1)
      /\ (d[2] = 0 => -d[2] = 0) /\ (d[2] = -1 => -d[2] = 1) /\ (d[2] = 1 => -d[2] = -1)
  BY <1>2, Negated
<1>4. \/ d[1] = 0 /\ d[2] = 0
      \/ d \in Four
      \/ (d[1] = 0 /\ d[2] = -1) \/ (d[1] = -1 /\ d[2] = 0)
      \/ (d[1] = 1 /\ d[2] = -1) \/ (d[1] = 1 /\ d[2] = 1)
  BY <1>1 DEF Four
<1>5. CASE (d[1] = 0 /\ d[2] = -1) \/ (d[1] = -1 /\ d[2] = 0)
  <2>1. Back(d) = <<0, 1>> \/ Back(d) = <<1, 0>>
    BY <1>3, <1>5, Zenon DEF Back
  <2>2. QED BY <2>1 DEF Four
<1>6. CASE (d[1] = 1 /\ d[2] = -1) \/ (d[1] = 1 /\ d[2] = 1)
  <2>1. Back(d) = <<-1, 1>> \/ Back(d) = <<-1, -1>>
    BY <1>3, <1>6, Zenon DEF Back
  <2>2. QED BY <2>1 DEF Four
<1>7. QED BY <1>1, <1>4, <1>5, <1>6

LEMMA FourDirections ==
  /\ \A d \in Four : d \in Directions /\ d # <<0, 0>>
  BY DEF Four, Directions

\* Where five finds enough stones there is a row.
LEMMA FiveHasRow ==
  ASSUME BoardAssumed, NEW b, NEW cell \in Cells, NEW off \in Directions, off # <<0, 0>>, NEW color,
         b[cell] = color, five(b, cell, off, color)
  PROVE  \E line \in Lines : OfOne(b, line, color)
<1> DEFINE a == Run(b, cell, off, color)
           z == Run(b, cell, Back(off), color)
           j == IF z >= Win - 1 THEN Win - 1 ELSE z
           p == At(cell, off, -j)
<1>1. Win \in Nat \ {0} /\ cell \in Int \X Int
  BY CellsAre DEF BoardAssumed
<1>2. a \in Nat /\ \A k \in 1 .. a : Has(b, At(cell, off, k), color)
  BY RunCounts
<1>3. z \in Nat /\ \A k \in 1 .. z : Has(b, At(cell, Back(off), k), color)
  BY RunCounts
<1>4. 1 + a + z >= Win
  BY DEF five, Back
<1> HIDE DEF a, z
<1>5. j \in 0 .. Win - 1 /\ j <= z /\ Win - 1 - j <= a /\ -j \in Int
  BY <1>1, <1>2, <1>3, <1>4
<1> HIDE DEF j
<1>6. ASSUME NEW i \in Int, -j <= i, i <= Win - 1 - j PROVE Has(b, At(cell, off, i), color)
  <2>1. CASE i = 0
    <3>1. At(cell, off, 0) = cell
      BY <1>1, AtIs
    <3>2. QED BY <3>1, <2>1 DEF Has
  <2>2. CASE i > 0
    <3>1. i \in 1 .. a
      BY <2>2, <1>1, <1>2, <1>5, <1>6
    <3>2. QED BY <3>1, <1>2
  <2>3. CASE i < 0
    <3> DEFINE k == -i
    <3>1. k \in 1 .. z /\ k \in Int /\ -k = i
      BY <2>3, <1>3, <1>5, <1>6
    <3> HIDE DEF k
    <3>2. At(cell, Back(off), k) = At(cell, off, -k)
      BY <3>1, <1>1, AtIs
    <3>3. Has(b, At(cell, Back(off), k), color)
      BY <3>1, <1>3
    <3>4. QED BY <3>1, <3>2, <3>3
  <2>4. QED BY <2>1, <2>2, <2>3
<1>7. ASSUME NEW k \in 0 .. Win - 1 PROVE Has(b, At(p, off, k), color)
  <2>1. k \in Int /\ -j + k \in Int /\ -j <= -j + k /\ -j + k <= Win - 1 - j
    BY <1>1, <1>5
  <2>2. At(p, off, k) = At(cell, off, -j + k)
    <3> DEFINE i == -j
    <3>1. i \in Int
      BY <1>5
    <3> HIDE DEF i
    <3>2. At(At(cell, off, i), off, k) = At(cell, off, i + k)
      BY <3>1, <2>1, <1>1, AtIs
    <3>3. QED BY <3>2 DEF i
  <2>3. Has(b, At(cell, off, -j + k), color)
    BY <2>1, <1>6
  <2>4. QED BY <2>2, <2>3
<1>8. p \in Int \X Int
  BY <1>1, <1>5, AtIs
<1> HIDE DEF p
<1>9. 0 \in 0 .. Win - 1 /\ At(p, off, 0) = p
  BY <1>1, <1>8, AtIs
<1>10. p \in Cells
  BY <1>7, <1>9 DEF Has
<1> DEFINE L == LineOf(p, off)
<1>11. Cardinality(L) = Win
  BY <1>8, LineSize
<1>12. L \subseteq Cells /\ OfOne(b, L, color)
  BY <1>7 DEF LineOf, OfOne, Has
<1> HIDE DEF L
<1>13. L \in Lines
  BY <1>10, <1>11, <1>12, LinesAre DEF L
<1>14. QED BY <1>12, <1>13

\* A line of the board is at most as long as its sides.
LEMMA LineFits ==
  ASSUME BoardAssumed, NEW p \in Cells, NEW d \in Directions, d # <<0, 0>>, NEW n \in Nat,
         At(p, d, n) \in Cells
  PROVE  n <= Rows + Cols
<1>1. /\ p[1] \in 0 .. Rows - 1 /\ p[2] \in 0 .. Cols - 1 /\ Rows \in Nat /\ Cols \in Nat
      /\ At(p, d, n)[1] \in 0 .. Rows - 1 /\ At(p, d, n)[2] \in 0 .. Cols - 1
  BY CellsAre DEF BoardAssumed
<1>2. At(p, d, n)[1] = p[1] + n * d[1] /\ At(p, d, n)[2] = p[2] + n * d[2]
  BY DEF At
<1>3. d = <<d[1], d[2]>> /\ d[1] \in {-1, 0, 1} /\ d[2] \in {-1, 0, 1}
  BY DEF Directions
<1>4. d[1] # 0 \/ d[2] # 0
  BY <1>3
<1>5. ASSUME NEW x \in Int, NEW e \in {-1, 1}, NEW S \in Nat, x \in 0 .. S - 1, x + n * e \in 0 .. S - 1
      PROVE  n <= S
  <2>1. CASE e = 1
    BY <2>1, <1>5
  <2>2. CASE e = -1
    BY <2>2, <1>5
  <2>3. QED BY <2>1, <2>2
<1>6. CASE d[1] # 0
  <2>1. n <= Rows
    BY <1>1, <1>2, <1>3, <1>5, <1>6
  <2>2. QED BY <2>1, <1>1
<1>7. CASE d[2] # 0
  <2>1. n <= Cols
    BY <1>1, <1>2, <1>3, <1>5, <1>7
  <2>2. QED BY <2>1, <1>1
<1>8. QED BY <1>4, <1>6, <1>7

\* A row through the cell is found by five in one of the four directions.
LEMMA RowIsFound ==
  ASSUME BoardAssumed, NEW b, NEW line \in Lines, NEW color, OfOne(b, line, color), NEW cell \in line
  PROVE  \E off \in Four : five(b, cell, off, color)
<1>1. PICK p \in Cells, d \in Directions : line = LineOf(p, d) /\ Cardinality(line) = Win /\ line \subseteq Cells
  BY LinesAre
<1>2. Win \in Nat \ {0} /\ Rows \in Nat /\ Cols \in Nat /\ p \in Int \X Int /\ cell \in Int \X Int
  BY <1>1, CellsAre DEF BoardAssumed
<1>3. PICK j \in 0 .. Win - 1 : cell = At(p, d, j)
  BY <1>1 DEF LineOf
<1>4. \A k \in 0 .. Win - 1 : Has(b, At(p, d, k), color)
  BY <1>1 DEF LineOf, OfOne, Has
<1>5. \A off : Run(b, cell, off, color) \in Nat
  BY RunCounts
<1>6. CASE Win = 1
  <2>1. <<0, 1>> \in Four /\ five(b, cell, <<0, 1>>, color)
    BY <1>5, <1>6 DEF Four, five
  <2>2. QED BY <2>1
<1>7. CASE Win # 1
  <2>1. d # <<0, 0>>
    <3>1. SUFFICES ASSUME d = <<0, 0>> PROVE FALSE
      OBVIOUS
    <3>2. ASSUME NEW k \in 0 .. Win - 1 PROVE At(p, d, k) = p
      <4>1. k * 0 = 0 /\ p = <<p[1], p[2]>> /\ p[1] \in Int /\ p[2] \in Int
        BY <1>2
      <4>2. QED BY <4>1, <3>1 DEF At
    <3>3. 0 \in 0 .. Win - 1
      BY <1>2
    <3>4. line = {p}
      BY <3>2, <3>3, <1>1 DEF LineOf
    <3>5. QED BY <3>4, <1>1, <1>7, FS_Singleton
  <2> DEFINE n == Win - 1 - j
             M == Rows + Cols
  <2>2. n \in Nat /\ j \in Nat /\ n + j + 1 = Win
    BY <1>2
  <2>3. Win - 1 <= M
    <3> DEFINE w == Win - 1
    <3>1. w \in Nat /\ w \in 0 .. Win - 1
      BY <1>2
    <3> HIDE DEF w
    <3>2. At(p, d, w) \in Cells
      BY <3>1, <1>4 DEF Has
    <3>3. w <= Rows + Cols
      BY <3>1, <3>2, <1>1, <2>1, LineFits
    <3>4. QED BY <3>3 DEF w
  <2>4. ASSUME NEW k \in 1 .. n PROVE Has(b, At(cell, d, k), color)
    <3>1. j \in Int /\ k \in Int /\ j + k \in 0 .. Win - 1
      BY <1>2, <2>2
    <3>2. At(cell, d, k) = At(p, d, j + k)
      BY <3>1, <1>2, <1>3, AtIs
    <3>3. QED BY <3>1, <3>2, <1>4
  <2>5. ASSUME NEW k \in 1 .. j PROVE Has(b, At(cell, Back(d), k), color)
    <3> DEFINE i == -k
    <3>1. j \in Int /\ k \in Int /\ i \in Int /\ j + i \in 0 .. Win - 1
      BY <1>2, <2>2
    <3>2. At(cell, Back(d), k) = At(cell, d, i)
      BY <3>1, <1>2, AtIs
    <3> HIDE DEF i
    <3>3. At(cell, d, i) = At(p, d, j + i)
      BY <3>1, <1>2, <1>3, AtIs
    <3>4. QED BY <3>1, <3>2, <3>3, <1>4
  <2>6. Run(b, cell, d, color) >= n
    <3>1. CASE n = 0
      BY <3>1, <1>5
    <3>2. CASE n # 0
      <4>1. n \in 1 .. M
        BY <3>2, <2>2, <2>3, <1>2
      <4> HIDE DEF n, M
      <4>2. n <= Run(b, cell, d, color)
        BY <4>1, <2>4, RunCounts DEF M
      <4>3. QED BY <4>2, <2>2, <1>5
    <3>3. QED BY <3>1, <3>2
  <2>7. Run(b, cell, Back(d), color) >= j
    <3>1. CASE j = 0
      BY <3>1, <1>5
    <3>2. CASE j # 0
      <4>1. j \in 1 .. M
        BY <3>2, <2>2, <2>3, <1>2
      <4> HIDE DEF n, M
      <4>2. j <= Run(b, cell, Back(d), color)
        BY <4>1, <2>5, RunCounts DEF M
      <4>3. QED BY <4>2, <2>2, <1>5
    <3>3. QED BY <3>1, <3>2
  <2> DEFINE r == Run(b, cell, d, color)
             s == Run(b, cell, Back(d), color)
  <2>8. r \in Nat /\ s \in Nat
    BY <1>5
  <2>9. 1 + r + s >= Win /\ 1 + s + r >= Win
    <3>1. r >= n /\ s >= j
      BY <2>6, <2>7
    <3> HIDE DEF r, s, n
    <3>2. QED BY <3>1, <2>2, <2>8
  <2>10. Back(Back(d)) = d
    BY <1>2, AtIs
  <2>11. five(b, cell, d, color)
    BY <2>9 DEF five, Back
  <2>12. five(b, cell, Back(d), color)
    <3>1. five(b, cell, Back(d), color) <=> 1 + s + Run(b, cell, Back(Back(d)), color) >= Win
      BY DEF five, Back
    <3>2. QED BY <3>1, <2>9, <2>10
  <2>13. d \in Four \/ Back(d) \in Four
    BY <2>1, FourAre
  <2>14. QED BY <2>11, <2>12, <2>13
<1>8. QED BY <1>6, <1>7

BoardInv ==
  /\ board \in [Cells -> {0, 1, 2}] /\ last.winner \in {0, 1, 2}
  /\ WinnerHasRow

LEMMA WinnerIs ==
  /\ WinnerHasRow <=> \A color \in Colors : last.winner = color <=> \E line \in Lines : OfOne(board, line, color)
  /\ WinnerHasRow' <=> \A color \in Colors : last'.winner = color <=> \E line \in Lines : OfOne(board', line, color)
  BY DEF WinnerHasRow, OfOne

LEMMA LineNotEmpty ==
  ASSUME BoardAssumed, NEW line \in Lines
  PROVE  line \subseteq Cells /\ \E c \in line : TRUE
<1>1. PICK p \in Cells, d \in Directions : line = LineOf(p, d) /\ line \subseteq Cells
  BY LinesAre
<1>2. 0 \in 0 .. Win - 1
  BY DEF BoardAssumed
<1>3. QED BY <1>1, <1>2 DEF LineOf

LEMMA BoardStart ==
  ASSUME BoardAssumed
  PROVE  BoardInit => BoardInv
<1> SUFFICES ASSUME BoardInit PROVE BoardInv
  OBVIOUS
<1>1. board = [c \in Cells |-> 0] /\ last.winner = 0
  BY DEF BoardInit
<1>2. ASSUME NEW color \in Colors, NEW line \in Lines, OfOne(board, line, color) PROVE FALSE
  <2>1. PICK c \in line : c \in Cells
    BY LineNotEmpty
  <2>2. board[c] = color /\ board[c] = 0
    BY <2>1, <1>1, <1>2 DEF OfOne
  <2>3. QED BY <2>2 DEF Colors
<1>3. WinnerHasRow
  BY <1>1, <1>2, WinnerIs DEF Colors
<1>4. QED BY <1>1, <1>3 DEF BoardInv

LEMMA BoardStep ==
  ASSUME BoardAssumed
  PROVE  BoardInv /\ [BoardNext]_boardVars => BoardInv'
<1> SUFFICES ASSUME BoardInv, [BoardNext]_boardVars PROVE BoardInv'
  OBVIOUS
<1>1. CASE UNCHANGED boardVars
  <2>1. board' = board /\ last' = last
    BY <1>1 DEF boardVars
  <2>2. QED BY <2>1, WinnerIs DEF BoardInv
<1>2. ASSUME NEW cell \in Cells, NEW color \in Colors, handle_chess(cell, color), last.winner = 0
      PROVE  BoardInv'
  <2>1. /\ board' = [board EXCEPT ![cell] = color]
        /\ last'.winner = check_win(board', cell, color)
        /\ board \in [Cells -> {0, 1, 2}] /\ WinnerHasRow
    BY <1>2 DEF handle_chess, BoardInv
  <2>2. /\ board' \in [Cells -> {0, 1, 2}] /\ board'[cell] = color
        /\ \A c \in Cells : c # cell => board'[c] = board[c]
    BY <2>1 DEF Colors
  <2>3. color # 0 /\ color \in {0, 1, 2} /\ \A other \in Colors : other # 0
    BY DEF Colors
  <2>4. last'.winner = (IF \E off \in Four : five(board', cell, off, color) THEN color ELSE 0)
    BY <2>1 DEF check_win, Four
  <2>5. ASSUME NEW other \in Colors, NEW line \in Lines, OfOne(board', line, other)
        PROVE  cell \in line
    <3>1. SUFFICES ASSUME cell \notin line PROVE FALSE
      OBVIOUS
    <3>2. line \subseteq Cells
      BY LineNotEmpty
    <3>3. OfOne(board, line, other)
      BY <3>1, <3>2, <2>2, <2>5 DEF OfOne
    <3>4. last.winner = other
      BY <3>3, <2>1, WinnerIs
    <3>5. QED BY <3>4, <2>3, <1>2
  <2>6. ASSUME NEW other \in Colors
        PROVE  last'.winner = other <=> \E line \in Lines : OfOne(board', line, other)
    <3>1. ASSUME NEW line \in Lines, OfOne(board', line, other) PROVE last'.winner = other
      <4>1. cell \in line
        BY <3>1, <2>5
      <4>2. other = color
        BY <4>1, <3>1, <2>2 DEF OfOne
      <4>3. \E off \in Four : five(board', cell, off, color)
        BY <4>1, <4>2, <3>1, RowIsFound
      <4>4. QED BY <4>2, <4>3, <2>4
    <3>2. ASSUME last'.winner = other PROVE \E line \in Lines : OfOne(board', line, other)
      <4>1. other = color /\ \E off \in Four : five(board', cell, off, color)
        BY <3>2, <2>3, <2>4
      <4>2. PICK off \in Four : five(board', cell, off, color)
        BY <4>1
      <4>3. off \in Directions /\ off # <<0, 0>>
        BY FourDirections
      <4>4. \E line \in Lines : OfOne(board', line, color)
        BY <4>2, <4>3, <2>2, FiveHasRow
      <4>5. QED BY <4>1, <4>4
    <3>3. QED BY <3>1, <3>2
  <2>7. WinnerHasRow'
    BY <2>6, WinnerIs
  <2>8. last'.winner \in {0, 1, 2}
    BY <2>3, <2>4
  <2>9. QED BY <2>2, <2>7, <2>8 DEF BoardInv
<1>3. QED BY <1>1, <1>2 DEF BoardNext

(* A winner has his row and a row its winner on a board of any size and    *)
(* for rows of any length: looking through the last stone and in four of   *)
(* the eight directions is enough (five, check_win).                       *)
THEOREM WinnersHaveRows ==
  ASSUME BoardAssumed
  PROVE  BoardSpec => []WinnerHasRow
<1>1. BoardInv => WinnerHasRow
  BY DEF BoardInv
<1>2. QED BY <1>1, BoardStart, BoardStep, PTL DEF BoardSpec

(* The game is consistent: board, users and sessions at once.              *)
THEOREM GameStaysConsistent ==
  ASSUME BoardAssumed, UserAssumed, SessionAssumed
  PROVE  BoardSpec /\ UserSpec /\ SessionSpec => []GameConsistent
<1>1. WinnerHasRow /\ (RegisteredCanLogin /\ StopForgets /\ ResultsBalance) /\ (NotLost /\ OneTimer)
        => GameConsistent
  BY DEF GameConsistent
<1>2. QED BY <1>1, WinnersHaveRows, UsersServed, SessionsKept, PTL

=============================================================================

