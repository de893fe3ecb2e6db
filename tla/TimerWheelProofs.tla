-------------------------- MODULE TimerWheelProofs --------------------------
(***************************************************************************)
(* For every ring, every set of ids and every set of delays that fit the   *)
(* ring: the tasks fire exactly on time, and the wheel implements the      *)
(* timer service.                                                          *)
(***************************************************************************)
EXTENDS TimerWheel, TLAPS

\* Ticks the task has left to wait.
Rest(t) == task[t].timeout - age[t]

\* The distances from the hand at which a task with r ticks left may be held.
Reach(r) == (IF clearing THEN 0 ELSE 1) .. r

\* A dying task is on no slot; it is due and was not cancelled.
DyingInv ==
  dying # NoTask =>
    /\ clearing
    /\ Held(dying) = {}
    /\ Rest(dying) = 0
    /\ ~task[dying].cancel

\* The time left of a live task: a whole turn only while the hand rests, none
\* only while it moves.
RestInv ==
  \A t \in alive :
    /\ Rest(t) \in 0 .. Capacity
    /\ clearing => Rest(t) < Capacity
    /\ ~clearing => Rest(t) > 0

\* The slot of the last push still holds the task...
NewestHeld ==
  \A t \in alive \ {dying} : t \in wheel[Pos(Rest(t))]

\* ... and no other slot that holds it comes after that one.
NoneLater ==
  \A t \in alive : \A s \in Slots :
    t \in wheel[s] => \E d \in Reach(Rest(t)) : s = Pos(d)

TimeoutInv == \A t \in alive : task[t].timeout \in 1 .. Capacity

IInv ==
  /\ TypeOK
  /\ MapMatchesWheel
  /\ DyingInv
  /\ RestInv
  /\ TimeoutInv
  /\ NewestHeld
  /\ NoneLater

-----------------------------------------------------------------------------
(* Going d slots on from a slot, at most one turn: Pos and the hand of     *)
(* RunTimerTask.                                                           *)
LEMMA SlotArithmetic ==
  ASSUME NEW a \in Slots, NEW d \in 0 .. Capacity
  PROVE  (a + d) % Capacity = IF a + d < Capacity THEN a + d ELSE a + d - Capacity
BY CapacityAssumption DEF Slots

(* Pos leads to a slot, and within one turn it adds and wraps once.        *)
LEMMA PosInSlots ==
  ASSUME TypeOK, NEW d \in Nat
  PROVE  Pos(d) \in Slots
BY CapacityAssumption DEF TypeOK, Pos, Slots

(* Every step keeps the types, whatever the delays are.                    *)
LEMMA TypeStep ==
  ASSUME TypeOK, [Next]_vars
  PROVE  TypeOK'
<1> USE CapacityAssumption, TimeoutsAssumption, NoTaskAssumption, MaxExpirationsAssumption
<1>1. CASE Second
  BY <1>1 DEF Second, TypeOK
<1>2. CASE OnTime
  <2>1. tick' \in Slots
    BY <1>2 DEF OnTime, TypeOK, Slots
  <2> QED
    BY <1>2, <2>1 DEF OnTime, TypeOK
<1>3. ASSUME NEW t \in Tasks, Drop(t)
      PROVE  TypeOK'
  <2>1. wheel' \in [Slots -> SUBSET Tasks]
    BY <1>3 DEF Drop, TypeOK
  <2>2. timers' \in [Ids -> Tasks \union {NoTask}] /\ alive' \subseteq Tasks
         /\ dying' \in Tasks \union {NoTask}
    BY <1>3 DEF Drop, Release, TypeOK, TimerTask
  <2> QED
    BY <1>3, <2>1, <2>2 DEF Drop, TypeOK
<1>4. CASE Finish
  BY <1>4 DEF Finish, Release, TypeOK, TimerTask
<1>5. CASE EndClear
  BY <1>5 DEF EndClear, TypeOK
<1>6. ASSUME NEW i \in Ids, NEW d \in Timeouts, TimerAdd(i, d)
      PROVE  TypeOK'
  <2>1. PICK t \in Tasks \ alive :
           /\ alive' = alive \union {t}
           /\ task' = [task EXCEPT ![t] = [id |-> i, timeout |-> d, cancel |-> FALSE]]
           /\ wheel' = [wheel EXCEPT ![Pos(d)] = @ \union {t}]
           /\ timers' = [timers EXCEPT ![i] = t]
           /\ age' = [age EXCEPT ![t] = 0]
    BY <1>6 DEF TimerAdd
  <2>2. [id |-> i, timeout |-> d, cancel |-> FALSE] \in TimerTask
    BY DEF TimerTask
  <2>3. task' \in [Tasks -> TimerTask]
    BY <2>1, <2>2 DEF TypeOK
  <2>4. wheel' \in [Slots -> SUBSET Tasks]
    BY <2>1 DEF TypeOK
  <2> QED
    BY <1>6, <2>1, <2>3, <2>4 DEF TimerAdd, TypeOK
<1>7. ASSUME NEW i \in Ids, TimerRefresh(i)
      PROVE  TypeOK'
  BY <1>7 DEF TimerRefresh, HasTimer, TypeOK
<1>8. ASSUME NEW i \in Ids, TimerCancel(i)
      PROVE  TypeOK'
  <2>1. task' \in [Tasks -> TimerTask]
    BY <1>8 DEF TimerCancel, HasTimer, TypeOK, TimerTask
  <2> QED
    BY <1>8, <2>1 DEF TimerCancel, TypeOK
<1>9. CASE UNCHANGED vars
  BY <1>9 DEF vars, TypeOK
<1> QED
  BY <1>1, <1>2, <1>3, <1>4, <1>5, <1>6, <1>7, <1>8, <1>9 DEF Next, RunTimerTask, User

(* The wheel starts empty, with well-typed fields.                         *)
LEMMA TypeInit == Init => TypeOK
<1>1. AnyId \in Ids
  BY IdsAssumption DEF AnyId
<1>2. 0 \in Slots /\ 0 \in 0 .. MaxExpirations
  BY CapacityAssumption, MaxExpirationsAssumption DEF Slots
<1>3. [id |-> AnyId, timeout |-> 0, cancel |-> FALSE] \in TimerTask
  BY <1>1 DEF TimerTask
<1> SUFFICES ASSUME Init PROVE TypeOK
  OBVIOUS
<1>4. task \in [Tasks -> TimerTask] /\ age \in [Tasks -> Nat]
  BY <1>3 DEF Init
<1>5. wheel \in [Slots -> SUBSET Tasks]
  BY DEF Init
<1>6. timers \in [Ids -> Tasks \union {NoTask}] /\ dying \in Tasks \union {NoTask}
  BY DEF Init
<1> QED
  BY <1>2, <1>4, <1>5, <1>6 DEF Init, TypeOK

(* The wheel's state is well typed in every reachable state, whatever      *)
(* delays its callers pass: in particular the hand never leaves the ring   *)
(* (RunTimerTask).                                                         *)
THEOREM TypeCorrect == Spec => []TypeOK
BY TypeInit, TypeStep, PTL DEF Spec

-----------------------------------------------------------------------------
(* Pos within one turn of the ring.                                        *)
LEMMA PosValue ==
  ASSUME TypeOK, NEW d \in 0 .. Capacity
  PROVE  Pos(d) = IF tick + d < Capacity THEN tick + d ELSE tick + d - Capacity
BY SlotArithmetic DEF Pos, TypeOK

(* Distances from the hand shrink by one when the hand moves: the slot d   *)
(* ticks ahead before RunTimerTask is d - 1 ticks ahead after it.          *)
LEMMA HandMoves ==
  ASSUME TypeOK, TypeOK', tick' = (tick + 1) % Capacity, NEW d \in 1 .. Capacity
  PROVE  Pos(d - 1)' = Pos(d)
<1> DEFINE e == d - 1
           u == tick'
<1>1. tick \in Slots /\ u \in Slots /\ e \in 0 .. Capacity
  BY CapacityAssumption DEF TypeOK
<1>2. u = IF tick + 1 < Capacity THEN tick + 1 ELSE tick + 1 - Capacity
  BY <1>1, SlotArithmetic, CapacityAssumption
<1>3. Pos(e)' = (u + e) % Capacity
  BY DEF Pos
<1> HIDE DEF e, u
<1>4. (u + e) % Capacity = IF u + e < Capacity THEN u + e ELSE u + e - Capacity
  BY <1>1, SlotArithmetic
<1>5. Pos(d) = IF tick + d < Capacity THEN tick + d ELSE tick + d - Capacity
  BY PosValue, CapacityAssumption
<1>6. (u + e) % Capacity = Pos(d)
  BY <1>1, <1>2, <1>4, <1>5, CapacityAssumption DEF Slots, e
<1> QED
  BY <1>3, <1>6 DEF e

(* OnTime keeps the invariant: every distance and every remaining time     *)
(* drop by one together.                                                   *)
LEMMA OnTimeInv ==
  ASSUME IInv, TypeOK', OnTime
  PROVE  IInv'
<1> USE CapacityAssumption
<1>1. dying = NoTask /\ dying' = NoTask
  BY DEF OnTime, IInv, DyingInv, TypeOK
<1>2. \A t \in alive : Rest(t)' = Rest(t) - 1 /\ Rest(t) \in 1 .. Capacity
  BY DEF OnTime, IInv, Rest, RestInv, TypeOK, TimerTask
<1>3. MapMatchesWheel'
  BY DEF OnTime, IInv, MapMatchesWheel, Held, HasTimer
<1>4. DyingInv'
  BY <1>1 DEF DyingInv
<1>5. RestInv'
  BY <1>2 DEF OnTime, RestInv
<1>6. TimeoutInv'
  BY DEF OnTime, IInv, TimeoutInv
<1>7. NewestHeld'
  <2> SUFFICES ASSUME NEW t \in alive, NEW r, r = Rest(t)
               PROVE  t \in wheel[Pos(r - 1)']
    BY <1>1, <1>2 DEF NewestHeld, OnTime, Pos
  <2>1. Pos(r - 1)' = Pos(r)
    BY <1>2, HandMoves DEF OnTime, IInv
  <2>2. t \in wheel[Pos(r)]
    BY <1>1, NoTaskAssumption DEF IInv, NewestHeld, TypeOK
  <2> QED
    BY <2>1, <2>2
<1>8. NoneLater'
  <2> SUFFICES ASSUME NEW t \in alive, NEW s \in Slots, t \in wheel[s], NEW r, r = Rest(t)
               PROVE  \E d \in 0 .. (r - 1) : s = Pos(d)'
    BY <1>2 DEF NoneLater, OnTime, Reach
  <2>1. PICK d \in 1 .. r : s = Pos(d)
    BY DEF OnTime, IInv, NoneLater, Reach
  <2>2. Pos(d - 1)' = Pos(d)
    BY <1>2, HandMoves DEF OnTime, IInv
  <2>3. d - 1 \in 0 .. (r - 1)
    BY <1>2
  <2> QED
    BY <2>1, <2>2, <2>3
<1> QED
  BY <1>3, <1>4, <1>5, <1>6, <1>7, <1>8 DEF IInv

(* While clear() runs, only a due task is held by the slot under the hand  *)
(* as its last push: Pos(Rest(t)) = tick means that no time is left.       *)
LEMMA DueAtHand ==
  ASSUME IInv, clearing, NEW t \in alive
  PROVE  /\ Pos(Rest(t)) = tick <=> Rest(t) = 0
         /\ Pos(0) = tick
         /\ Pos(Rest(t)) \in Slots
<1>1. Rest(t) \in 0 .. Capacity /\ Rest(t) < Capacity
  BY DEF IInv, RestInv
<1>2. Pos(Rest(t)) = IF tick + Rest(t) < Capacity THEN tick + Rest(t)
                     ELSE tick + Rest(t) - Capacity
  BY <1>1, PosValue DEF IInv
<1>3. Pos(0) = IF tick + 0 < Capacity THEN tick + 0 ELSE tick + 0 - Capacity
  BY PosValue, CapacityAssumption DEF IInv
<1>4. tick \in Slots
  BY DEF IInv, TypeOK
<1> QED
  BY <1>1, <1>2, <1>3, <1>4, CapacityAssumption DEF Slots

(* A task that clear() destroys is due: this is where the wheel is right   *)
(* about time.  A task held elsewhere too is not.                          *)
LEMMA DropIsDue ==
  ASSUME IInv, NEW t \in Tasks, Drop(t)
  PROVE  /\ t \in alive
         /\ (\E s \in Slots \ {tick} : t \in wheel[s]) <=> Rest(t) # 0
<1>1. tick \in Slots /\ t \in wheel[tick] /\ clearing /\ dying = NoTask
  BY DEF Drop, IInv, TypeOK
<1>2. t \in alive
  BY <1>1 DEF IInv, MapMatchesWheel, Held
<1>3. ASSUME NEW s \in Slots \ {tick}, t \in wheel[s], Rest(t) = 0
      PROVE  FALSE
  <2>1. PICK d \in 0 .. 0 : s = Pos(d)
    BY <1>1, <1>2, <1>3 DEF IInv, NoneLater, Reach
  <2> QED
    BY <2>1, <1>1, <1>2, DueAtHand
<1>4. ASSUME Rest(t) # 0
      PROVE  \E s \in Slots \ {tick} : t \in wheel[s]
  <2>1. t \in wheel[Pos(Rest(t))]
    BY <1>1, <1>2, NoTaskAssumption DEF IInv, NewestHeld
  <2> QED
    BY <2>1, <1>1, <1>2, <1>4, DueAtHand
<1> QED
  BY <1>2, <1>3, <1>4

(* Drop keeps the invariant.                                               *)
LEMMA DropInv ==
  ASSUME IInv, TypeOK', NEW t \in Tasks, Drop(t)
  PROVE  IInv'
<1>1. /\ tick \in Slots /\ clearing /\ dying = NoTask /\ t \in alive
      /\ tick' = tick /\ clearing' = clearing /\ task' = task /\ age' = age
  BY DropIsDue DEF Drop, IInv, TypeOK
<1>2. \A s \in Slots : wheel'[s] = IF s = tick THEN wheel[s] \ {t} ELSE wheel[s]
  BY DEF Drop, IInv, TypeOK
<1>3. \A u \in alive : Rest(u)' = Rest(u) /\ Pos(Rest(u))' = Pos(Rest(u))
  BY <1>1 DEF Rest, Pos
<1>4. alive' \subseteq alive /\ RestInv' /\ TimeoutInv'
  <2>1. alive' \subseteq alive
    BY DEF Drop, Release
  <2> QED
    BY <2>1, <1>1, <1>3 DEF IInv, RestInv, TimeoutInv
<1>5. NoneLater'
  BY <1>1, <1>2, <1>3, <1>4 DEF IInv, NoneLater, Reach, Pos, Rest
<1>6. CASE \E s \in Slots \ {tick} : t \in wheel[s]
  <2>1. Rest(t) # 0 /\ UNCHANGED <<dying, timers, alive>>
    BY <1>6, DropIsDue DEF Drop
  <2>2. NewestHeld'
    BY <2>1, <1>1, <1>2, <1>3, DueAtHand DEF IInv, NewestHeld
  <2>3. \A u \in Tasks : Held(u)' # {} <=> Held(u) # {}
    BY <1>1, <1>2, <1>6 DEF Held
  <2>4. MapMatchesWheel'
    BY <2>1, <2>3, <1>1 DEF IInv, MapMatchesWheel, HasTimer
  <2>5. DyingInv'
    BY <2>1, <1>1 DEF DyingInv
  <2> QED
    BY <2>2, <2>4, <2>5, <1>4, <1>5 DEF IInv
<1>7. CASE ~ \E s \in Slots \ {tick} : t \in wheel[s]
  <2>1. Rest(t) = 0 /\ Held(t)' = {}
    BY <1>2, <1>7, DropIsDue DEF Held
  <2>2. \A u \in Tasks : u # t => Held(u)' = Held(u)
    BY <1>2 DEF Held
  <2>3. \A u \in alive : u # t => u \in wheel'[Pos(Rest(u))']
    BY <1>1, <1>2, <1>3, DueAtHand, NoTaskAssumption DEF IInv, NewestHeld, TypeOK
  <2>4. CASE task[t].cancel
    <3>1. /\ timers' = [timers EXCEPT ![task[t].id] = NoTask]
          /\ alive' = alive \ {t} /\ dying' = NoTask
      BY <1>1, <1>7, <2>4 DEF Drop, Release
    <3>2. MapMatchesWheel'
      <4>1. \A u \in Tasks : u \in alive' <=> Held(u)' # {} \/ u = dying'
        BY <3>1, <2>1, <2>2, <1>1, NoTaskAssumption DEF IInv, MapMatchesWheel
      <4>2. \A u \in alive' : timers'[task'[u].id] = u
        BY <3>1, <1>1 DEF IInv, MapMatchesWheel, TypeOK, TimerTask
      <4>3. \A i \in Ids : timers'[i] # NoTask => timers'[i] \in alive' /\ task'[timers'[i]].id = i
        BY <3>1, <1>1 DEF IInv, MapMatchesWheel, HasTimer, TypeOK, TimerTask
      <4> QED
        BY <4>1, <4>2, <4>3 DEF MapMatchesWheel, HasTimer
    <3>3. NewestHeld' /\ DyingInv'
      BY <3>1, <2>3 DEF NewestHeld, DyingInv
    <3> QED
      BY <3>2, <3>3, <1>4, <1>5 DEF IInv
  <2>5. CASE ~task[t].cancel
    <3>1. dying' = t /\ UNCHANGED <<timers, alive>>
      BY <1>7, <2>5 DEF Drop
    <3>2. \A u \in Tasks : u \in alive' <=> Held(u)' # {} \/ u = dying'
      BY <3>1, <2>1, <2>2, <1>1, NoTaskAssumption DEF IInv, MapMatchesWheel
    <3>3. MapMatchesWheel'
      BY <3>1, <3>2, <1>1 DEF IInv, MapMatchesWheel, HasTimer
    <3>4. NewestHeld' /\ DyingInv'
      BY <3>1, <2>1, <2>3, <2>5, <1>1, <1>3 DEF NewestHeld, DyingInv
    <3> QED
      BY <3>3, <3>4, <1>4, <1>5 DEF IInv
  <2> QED
    BY <2>4, <2>5
<1> QED
  BY <1>6, <1>7

(* Finish keeps the invariant: the dying object is the only one of its id, *)
(* so Remove(id) erases no other entry.                                    *)
LEMMA FinishInv ==
  ASSUME IInv, TypeOK', Finish
  PROVE  IInv'
<1>1. /\ dying \in Tasks /\ dying' = NoTask /\ dying \in alive /\ Held(dying) = {}
      /\ alive' = alive \ {dying}
      /\ timers' = [timers EXCEPT ![task[dying].id] = NoTask]
      /\ UNCHANGED <<tick, wheel, task, clearing, age>>
  BY DEF Finish, Release, IInv, TypeOK, DyingInv, MapMatchesWheel
<1>2. \A u \in Tasks : Held(u)' = Held(u) /\ Rest(u)' = Rest(u) /\ Pos(Rest(u))' = Pos(Rest(u))
  BY <1>1 DEF Held, Rest, Pos
<1>3. MapMatchesWheel'
  <2>1. \A u \in Tasks : u \in alive' <=> Held(u)' # {} \/ u = dying'
    BY <1>1, <1>2, NoTaskAssumption DEF IInv, MapMatchesWheel
  <2>2. \A u \in alive' : timers'[task'[u].id] = u
    BY <1>1 DEF IInv, MapMatchesWheel, TypeOK, TimerTask
  <2>3. \A i \in Ids : timers'[i] # NoTask => timers'[i] \in alive' /\ task'[timers'[i]].id = i
    BY <1>1 DEF IInv, MapMatchesWheel, HasTimer, TypeOK, TimerTask
  <2> QED
    BY <2>1, <2>2, <2>3 DEF MapMatchesWheel, HasTimer
<1>4. RestInv' /\ TimeoutInv'
  BY <1>1, <1>2 DEF IInv, RestInv, TimeoutInv, TypeOK
<1>5. NewestHeld' /\ DyingInv'
  BY <1>1, <1>2 DEF IInv, NewestHeld, DyingInv, TypeOK
<1>6. NoneLater'
  BY <1>1, <1>2 DEF IInv, NoneLater, Reach, Pos, Rest
<1> QED
  BY <1>3, <1>4, <1>5, <1>6 DEF IInv

(* EndClear keeps the invariant: an empty slot under the hand holds no due *)
(* task back.                                                              *)
LEMMA EndClearInv ==
  ASSUME IInv, TypeOK', EndClear
  PROVE  IInv'
<1>1. /\ dying = NoTask /\ clearing /\ ~clearing' /\ wheel[tick] = {}
      /\ UNCHANGED <<tick, wheel, timers, task, alive, dying, age>>
  BY DEF EndClear
<1>2. \A u \in Tasks : Held(u)' = Held(u) /\ Rest(u)' = Rest(u) /\ Pos(Rest(u))' = Pos(Rest(u))
  BY <1>1 DEF Held, Rest, Pos
<1>3. MapMatchesWheel' /\ DyingInv' /\ TimeoutInv'
  BY <1>1, <1>2 DEF IInv, MapMatchesWheel, HasTimer, DyingInv, TimeoutInv
<1>4. \A u \in alive : Rest(u) # 0
  BY <1>1, DueAtHand, NoTaskAssumption DEF IInv, NewestHeld, TypeOK
<1>5. RestInv'
  BY <1>1, <1>2, <1>4 DEF IInv, RestInv, TypeOK
<1>6. NewestHeld'
  BY <1>1, <1>2 DEF IInv, NewestHeld, TypeOK
<1>7. NoneLater'
  <2> SUFFICES ASSUME NEW u \in alive, NEW s \in Slots, u \in wheel[s]
               PROVE  \E d \in 1 .. Rest(u) : s = Pos(d)
    BY <1>1, <1>2 DEF NoneLater, Reach, Pos, Rest
  <2>1. PICK d \in 0 .. Rest(u) : s = Pos(d)
    BY <1>1 DEF IInv, NoneLater, Reach
  <2>2. d # 0
    BY <2>1, <1>1, DueAtHand
  <2> QED
    BY <2>1, <2>2
<1> QED
  BY <1>3, <1>5, <1>6, <1>7 DEF IInv

(* A push makes the pushed slot the last one: adding or refreshing a task  *)
(* leaves a whole timeout to wait.                                         *)
LEMMA PushInv ==
  ASSUME IInv, TypeOK',
         NEW t \in Tasks, t \in alive', t # dying, NEW d \in 1 .. Capacity,
         UserRuns, SafePush(d),
         wheel' = [wheel EXCEPT ![Pos(d)] = @ \union {t}],
         age' = [age EXCEPT ![t] = 0],
         task'[t].timeout = d,
         \A u \in Tasks : u # t => task'[u] = task[u],
         alive' = alive \union {t},
         t \notin alive => Held(t) = {},
         t \in alive => task'[t] = task[t],
         UNCHANGED <<tick, clearing, dying>>
  PROVE  /\ RestInv' /\ TimeoutInv' /\ NewestHeld' /\ NoneLater' /\ DyingInv'
         /\ \A u \in Tasks : u \in alive' <=> Held(u)' # {} \/ u = dying'
<1>1. Pos(d) \in Slots
  BY PosInSlots DEF IInv
<1>2. \A s \in Slots : wheel'[s] = IF s = Pos(d) THEN wheel[s] \union {t} ELSE wheel[s]
  BY <1>1 DEF IInv, TypeOK
<1>3. Rest(t)' = d
  BY CapacityAssumption DEF Rest, IInv, TypeOK
<1>4. \A u \in Tasks : u # t => Rest(u)' = Rest(u) /\ Held(u)' = Held(u)
  BY <1>2 DEF Rest, Held, IInv, TypeOK
<1>5. clearing => d < Capacity
  <2>1. Pos(Capacity) = tick
    BY PosValue, CapacityAssumption DEF IInv, TypeOK, Slots
  <2> QED
    BY <2>1, CapacityAssumption DEF SafePush
<1>6. RestInv' /\ TimeoutInv'
  <2>1. \A u \in alive' : u # t => u \in alive
    OBVIOUS
  <2> QED
    BY <2>1, <1>3, <1>4, <1>5, CapacityAssumption DEF IInv, RestInv, TimeoutInv, TypeOK
<1>7. NewestHeld'
  <2> SUFFICES ASSUME NEW u \in alive', u # dying, NEW r, r = Rest(u)' PROVE u \in wheel'[Pos(r)]
    BY DEF NewestHeld, Pos
  <2>1. CASE u = t
    BY <2>1, <1>1, <1>2, <1>3
  <2>2. CASE u # t
    <3>1. u \in Tasks /\ u \in alive /\ r = Rest(u)
      BY <2>2, <1>4 DEF IInv, TypeOK
    <3>2. r \in Nat
      BY <3>1, CapacityAssumption DEF IInv, RestInv
    <3>3. u \in wheel[Pos(r)] /\ Pos(r) \in Slots
      BY <3>1, <3>2, PosInSlots DEF IInv, NewestHeld
    <3> QED
      BY <3>3, <1>2
  <2> QED
    BY <2>1, <2>2
<1>8. NoneLater'
  <2> SUFFICES ASSUME NEW u \in alive', NEW s \in Slots, u \in wheel'[s], NEW r, r = Rest(u)'
               PROVE  \E e \in Reach(r) : s = Pos(e)
    BY DEF NoneLater, Reach, Pos
  <2>1. CASE u = t /\ s = Pos(d)
    BY <2>1, <1>3 DEF Reach
  <2>2. CASE u = t /\ s # Pos(d)
    <3>1. t \in wheel[s] /\ t \in alive
      BY <2>2, <1>2 DEF Held
    <3>2. PICK e \in Reach(Rest(t)) : s = Pos(e)
      BY <3>1 DEF IInv, NoneLater
    <3>3. Rest(t) \in 0 .. d
      BY <3>1, CapacityAssumption DEF Rest, IInv, RestInv, TypeOK
    <3> QED
      BY <3>2, <3>3, <2>2, <1>3 DEF Reach
  <2>3. CASE u # t
    <3>1. u \in Tasks /\ u \in alive /\ r = Rest(u) /\ u \in wheel[s]
      BY <2>3, <1>2, <1>4 DEF IInv, TypeOK
    <3> QED
      BY <3>1 DEF IInv, NoneLater
  <2> QED
    BY <2>1, <2>2, <2>3
<1>9. DyingInv'
  BY <1>4 DEF DyingInv, IInv, TypeOK
<1>10. \A u \in Tasks : u \in alive' <=> Held(u)' # {} \/ u = dying'
  <2>1. Held(t)' # {}
    BY <1>1, <1>2 DEF Held
  <2> QED
    BY <2>1, <1>4 DEF IInv, MapMatchesWheel
<1> QED
  BY <1>6, <1>7, <1>8, <1>9, <1>10

(* TimerAdd keeps the invariant, because the id has no other object.       *)
LEMMA TimerAddInv ==
  ASSUME InRange, IInv, TypeOK', NEW i \in Ids, NEW d \in Timeouts, TimerAdd(i, d)
  PROVE  IInv'
<1>1. PICK t \in Tasks \ alive :
         /\ alive' = alive \union {t}
         /\ task' = [task EXCEPT ![t] = [id |-> i, timeout |-> d, cancel |-> FALSE]]
         /\ wheel' = [wheel EXCEPT ![Pos(d)] = @ \union {t}]
         /\ timers' = [timers EXCEPT ![i] = t]
         /\ age' = [age EXCEPT ![t] = 0]
  BY DEF TimerAdd
<1>2. task'[t] = [id |-> i, timeout |-> d, cancel |-> FALSE] /\ \A u \in Tasks : u # t => task'[u] = task[u]
  BY <1>1 DEF IInv, TypeOK
<1>3. task'[t].timeout = d /\ task'[t].id = i
  BY <1>2
<1>4. Held(t) = {} /\ t # dying /\ t \in alive' /\ d \in 1 .. Capacity
  BY <1>1 DEF IInv, MapMatchesWheel, InRange
<1>5. /\ RestInv' /\ TimeoutInv' /\ NewestHeld' /\ NoneLater' /\ DyingInv'
      /\ \A u \in Tasks : u \in alive' <=> Held(u)' # {} \/ u = dying'
  BY <1>1, <1>2, <1>3, <1>4, PushInv DEF TimerAdd
<1>6. timers[i] = NoTask
  BY DEF TimerAdd, HasTimer
<1>7. \A u \in alive' : timers'[task'[u].id] = u
  BY <1>1, <1>2, <1>3, <1>6, NoTaskAssumption DEF IInv, MapMatchesWheel, TypeOK, TimerTask
<1>8. \A j \in Ids : timers'[j] # NoTask => timers'[j] \in alive' /\ task'[timers'[j]].id = j
  BY <1>1, <1>2, <1>3 DEF IInv, MapMatchesWheel, HasTimer, TypeOK
<1> QED
  BY <1>5, <1>7, <1>8 DEF IInv, MapMatchesWheel, HasTimer

(* TimerRefresh keeps the invariant.                                       *)
LEMMA TimerRefreshInv ==
  ASSUME IInv, TypeOK', NEW i \in Ids, TimerRefresh(i)
  PROVE  IInv'
<1> DEFINE t == timers[i]
           d == task[t].timeout
<1>1. t \in Tasks /\ t \in alive /\ t # dying /\ d \in 1 .. Capacity
  BY DEF TimerRefresh, HasTimer, Expired, IInv, MapMatchesWheel, TimeoutInv, TypeOK
<1>2. /\ wheel' = [wheel EXCEPT ![Pos(d)] = @ \union {t}]
      /\ age' = [age EXCEPT ![t] = 0]
      /\ UserRuns /\ SafePush(d)
      /\ UNCHANGED <<tick, timers, task, alive, clearing, dying>>
  BY DEF TimerRefresh
<1> HIDE DEF t, d
<1>3. alive' = alive \union {t} /\ task'[t].timeout = d
  BY <1>1, <1>2 DEF d
<1>4. /\ RestInv' /\ TimeoutInv' /\ NewestHeld' /\ NoneLater' /\ DyingInv'
      /\ \A u \in Tasks : u \in alive' <=> Held(u)' # {} \/ u = dying'
  BY <1>1, <1>2, <1>3, PushInv
<1> QED
  BY <1>2, <1>4 DEF IInv, MapMatchesWheel, HasTimer

(* TimerCancel keeps the invariant: it only marks a task that is not       *)
(* dying.                                                                  *)
LEMMA TimerCancelInv ==
  ASSUME IInv, TypeOK', NEW i \in Ids, TimerCancel(i)
  PROVE  IInv'
<1>1. timers[i] \in Tasks /\ timers[i] # dying
  BY DEF TimerCancel, HasTimer, Expired, IInv, TypeOK
<1>2. \A u \in Tasks : task'[u].id = task[u].id /\ task'[u].timeout = task[u].timeout
  BY <1>1 DEF TimerCancel, IInv, TypeOK
<1>3. dying # NoTask => task'[dying] = task[dying]
  BY <1>1 DEF TimerCancel, IInv, TypeOK
<1>4. UNCHANGED <<tick, wheel, timers, alive, clearing, dying, age>>
  BY DEF TimerCancel
<1>5. \A u \in Tasks : Held(u)' = Held(u) /\ Rest(u)' = Rest(u) /\ Pos(Rest(u))' = Pos(Rest(u))
  BY <1>2, <1>4 DEF Held, Rest, Pos
<1>6. MapMatchesWheel'
  BY <1>2, <1>4, <1>5 DEF IInv, MapMatchesWheel, HasTimer, TypeOK
<1>7. RestInv' /\ TimeoutInv' /\ NewestHeld'
  BY <1>2, <1>4, <1>5 DEF IInv, RestInv, TimeoutInv, NewestHeld, TypeOK
<1>8. DyingInv'
  BY <1>3, <1>4, <1>5 DEF IInv, DyingInv, TypeOK
<1>9. NoneLater'
  <2> SUFFICES ASSUME NEW u \in alive, NEW s \in Slots, u \in wheel[s], NEW r, r = Rest(u)
               PROVE  \E e \in Reach(r) : s = Pos(e)
    BY <1>4, <1>5 DEF NoneLater, Reach, Pos, IInv, TypeOK
  <2> QED
    BY DEF IInv, NoneLater
<1> QED
  BY <1>6, <1>7, <1>8, <1>9 DEF IInv

(* An empty wheel satisfies the invariant.                                 *)
LEMMA InvInit == Init => IInv
<1> SUFFICES ASSUME Init PROVE IInv
  OBVIOUS
<1>1. TypeOK
  BY TypeInit
<1>2. alive = {} /\ dying = NoTask /\ (\A t \in Tasks : Held(t) = {}) /\ \A i \in Ids : timers[i] = NoTask
  BY DEF Init, Held
<1> QED
  BY <1>1, <1>2, NoTaskAssumption DEF IInv, MapMatchesWheel, DyingInv, RestInv, TimeoutInv,
     NewestHeld, NoneLater, HasTimer

(* Every step keeps the invariant.                                         *)
LEMMA InvStep ==
  ASSUME InRange, IInv, [Next]_vars
  PROVE  IInv'
<1>1. TypeOK'
  BY TypeStep DEF IInv
<1>2. CASE Second
  BY <1>1, <1>2 DEF Second, IInv, MapMatchesWheel, DyingInv, RestInv, TimeoutInv, NewestHeld,
     NoneLater, HasTimer, Held, Rest, Reach, Pos
<1>3. CASE OnTime
  BY <1>1, <1>3, OnTimeInv
<1>4. CASE RunTimerTask
  BY <1>1, <1>4, DropInv, FinishInv, EndClearInv DEF RunTimerTask
<1>5. CASE User
  BY <1>1, <1>5, TimerAddInv, TimerRefreshInv, TimerCancelInv DEF User
<1>6. CASE UNCHANGED vars
  BY <1>1, <1>6 DEF vars, IInv, MapMatchesWheel, DyingInv, RestInv, TimeoutInv, NewestHeld,
     NoneLater, HasTimer, Held, Rest, Reach, Pos
<1> QED
  BY <1>2, <1>3, <1>4, <1>5, <1>6 DEF Next

-----------------------------------------------------------------------------
(* With delays that fit the ring, _timers always names the one live object *)
(* of each id (TimerAddInLoop, Remove).                                     *)
THEOREM WheelMapSound ==
  ASSUME InRange
  PROVE  Spec => []MapMatchesWheel
<1>1. IInv => MapMatchesWheel
  BY DEF IInv
<1> QED
  BY <1>1, InvInit, InvStep, PTL DEF Spec

(* With delays that fit the ring, no task is late when the hand rests      *)
(* (RunTimerTask).                                                         *)
THEOREM WheelSafe ==
  ASSUME InRange
  PROVE  Spec => []NoneOverdue
<1>1. IInv => NoneOverdue
  BY CapacityAssumption DEF IInv, NoneOverdue, RestInv, Rest, TypeOK, TimerTask
<1> QED
  BY <1>1, InvInit, InvStep, PTL DEF Spec

(* With delays that fit the ring, a callback runs exactly timeout ticks    *)
(* after the last add or refresh of its task, and only if the task was not *)
(* cancelled (~TimerTask under RunTimerTask).                              *)
THEOREM FiringIsExact ==
  ASSUME InRange
  PROVE  Spec => FiresOnTime
<1> DEFINE A == \A t \in Tasks : dying' = t /\ dying # t =>
                  age[t] = task[t].timeout /\ ~task[t].cancel
<1>1. ASSUME IInv, [Next]_vars
      PROVE  [A]_vars
  <2> SUFFICES ASSUME NEW t \in Tasks, dying' = t, dying # t
               PROVE  age[t] = task[t].timeout /\ ~task[t].cancel
    OBVIOUS
  <2>1. PICK u \in Tasks : Drop(u)
    BY <1>1, NoTaskAssumption DEF Next, RunTimerTask, User, Second, OnTime, Finish, EndClear,
       TimerAdd, TimerRefresh, TimerCancel, vars
  <2>2. u = t /\ ~task[t].cancel /\ ~ \E s \in Slots \ {tick} : t \in wheel[s]
    BY <2>1, NoTaskAssumption DEF Drop
  <2>3. Rest(t) = 0 /\ t \in alive
    BY <1>1, <2>1, <2>2, DropIsDue
  <2> QED
    <3>1. age[t] \in Nat /\ task[t].timeout \in Nat
      BY <1>1 DEF IInv, TypeOK, TimerTask
    <3> QED
      BY <2>2, <2>3, <3>1 DEF Rest
<1> QED
  BY <1>1, InvInit, InvStep, PTL DEF Spec, FiresOnTime

-----------------------------------------------------------------------------
\* The values TimerService's variables take.
SState == [i \in Ids |-> IF ~HasTimer(i) THEN "off"
                         ELSE IF Expired(i) THEN "firing" ELSE "armed"]
SLeft == [i \in Ids |-> IF HasTimer(i) THEN Task(i).timeout - age[timers[i]] ELSE 0]
SPeriod == [i \in Ids |-> IF HasTimer(i) THEN Task(i).timeout ELSE 0]
SCancelled == {i \in Ids : HasTimer(i) /\ Task(i).cancel}

(* An id in _timers has a live object of its own, which no other id shares *)
(* (TimerAddInLoop, Remove).                                               *)
LEMMA OwnObject ==
  ASSUME IInv, NEW i \in Ids, HasTimer(i)
  PROVE  /\ timers[i] \in alive /\ timers[i] \in Tasks /\ timers[i] # NoTask
         /\ task[timers[i]].id = i
         /\ task[timers[i]].timeout \in Nat /\ age[timers[i]] \in Nat
         /\ \A j \in Ids : timers[j] = timers[i] => j = i
         /\ Rest(timers[i]) \in 0 .. Capacity
         /\ ~clearing => Rest(timers[i]) > 0
<1>1. timers[i] \in alive /\ task[timers[i]].id = i
  BY DEF IInv, MapMatchesWheel
<1>2. timers[i] \in Tasks /\ timers[i] # NoTask
  BY <1>1 DEF IInv, TypeOK, HasTimer
<1>3. task[timers[i]].timeout \in Nat /\ age[timers[i]] \in Nat
  BY <1>2 DEF IInv, TypeOK, TimerTask
<1>4. \A j \in Ids : timers[j] = timers[i] => j = i
  BY <1>1, <1>2 DEF IInv, MapMatchesWheel, HasTimer
<1>5. Rest(timers[i]) \in 0 .. Capacity /\ (~clearing => Rest(timers[i]) > 0)
  BY <1>1 DEF IInv, RestInv
<1> QED
  BY <1>1, <1>2, <1>3, <1>4, <1>5

(* A tick of the hand is a tick of the service (OnTime).                   *)
LEMMA TickStep ==
  ASSUME IInv, OnTime
  PROVE  Service!Tick
<1>1. dying = NoTask
  BY DEF OnTime, IInv, DyingInv
<1>2. \A i \in Ids : SState[i] = IF HasTimer(i) THEN "armed" ELSE "off"
  BY <1>1 DEF SState, HasTimer, Expired
<1>3. \A i \in Ids : HasTimer(i) => SLeft[i] > 0
  BY OwnObject DEF OnTime, SLeft, Rest, Task
<1>4. SState' = SState /\ SPeriod' = SPeriod /\ SCancelled' = SCancelled
  BY DEF OnTime, SState, SPeriod, SCancelled, HasTimer, Expired, Task
<1>5. SLeft' = [i \in Ids |-> IF SState[i] = "armed" THEN SLeft[i] - 1 ELSE SLeft[i]]
  <2>1. \A i \in Ids : HasTimer(i)' <=> HasTimer(i)
    BY DEF OnTime, HasTimer
  <2>2. \A i \in Ids : HasTimer(i) => age'[timers[i]] = age[timers[i]] + 1
    BY OwnObject DEF OnTime
  <2>3. ASSUME NEW i \in Ids
        PROVE  SLeft'[i] = IF SState[i] = "armed" THEN SLeft[i] - 1 ELSE SLeft[i]
    BY <2>1, <2>2, <1>2, OwnObject DEF OnTime, SLeft, Task
  <2> QED
    BY <2>3 DEF SLeft
<1> QED
  BY <1>2, <1>3, <1>4, <1>5 DEF Service!Tick, Service!Due, SState, SLeft, SPeriod, SCancelled

(* clear() giving up one pointer is nothing, the firing of a due task or   *)
(* the silent end of a cancelled one (RunTimerTask, ~TimerTask).           *)
LEMMA DropStep ==
  ASSUME IInv, NEW t \in Tasks, Drop(t)
  PROVE  \/ \E i \in Ids : Service!Fire(i) \/ Service!Discard(i)
         \/ UNCHANGED Service!vars
<1>0. PICK i \in Ids : i = task[t].id
  BY DEF IInv, TypeOK, TimerTask
<1>1. t \in alive /\ timers[i] = t /\ HasTimer(i) /\ dying = NoTask
  BY <1>0, DropIsDue, NoTaskAssumption DEF Drop, IInv, TypeOK, TimerTask, MapMatchesWheel, HasTimer
<1>2. task' = task /\ age' = age
  BY DEF Drop
<1>3. CASE \E s \in Slots \ {tick} : t \in wheel[s]
  <2>1. timers' = timers /\ dying' = dying
    BY <1>3 DEF Drop
  <2> QED
    BY <1>2, <2>1 DEF Service!vars, HasTimer, Expired, Task
<1>4. CASE ~ \E s \in Slots \ {tick} : t \in wheel[s]
  <2>1. SState[i] = "armed" /\ SLeft[i] = 0
    BY <1>1, <1>4, DropIsDue, OwnObject DEF SState, SLeft, Rest, Task, Expired
  <2>2. i \in SCancelled <=> task[t].cancel
    BY <1>1 DEF SCancelled, Task
  <2>3. CASE task[t].cancel
    <3>1. timers' = [timers EXCEPT ![i] = NoTask] /\ dying' = dying
      BY <1>0, <1>4, <2>3 DEF Drop, Release
    <3>2. \A j \in Ids : timers'[j] = IF j = i THEN NoTask ELSE timers[j]
      BY <3>1, <1>1 DEF IInv, TypeOK
    <3>3. SState' = [SState EXCEPT ![i] = "off"]
      BY <3>1, <3>2, <1>1 DEF SState, HasTimer, Expired
    <3>4. SLeft' = [SLeft EXCEPT ![i] = 0] /\ SPeriod' = [SPeriod EXCEPT ![i] = 0]
      BY <3>2, <1>1, <1>2 DEF SLeft, SPeriod, HasTimer, Task
    <3>5. SCancelled' = SCancelled \ {i}
      BY <3>2, <1>1, <1>2 DEF SCancelled, HasTimer, Task
    <3>6. Service!Discard(i)
      BY <2>1, <2>2, <2>3, <3>3, <3>4, <3>5
         DEF Service!Discard, Service!Due, Service!Forget, SState, SLeft, SPeriod, SCancelled
    <3> QED
      BY <3>6, <1>1
  <2>4. CASE ~task[t].cancel
    <3>1. timers' = timers /\ dying' = t
      BY <1>4, <2>4 DEF Drop
    <3>2. \A j \in Ids : timers[j] = t <=> j = i
      BY <1>1, OwnObject
    <3>3. SState' = [SState EXCEPT ![i] = "firing"]
      BY <3>1, <3>2, <1>1 DEF SState, HasTimer, Expired
    <3>4. SLeft' = SLeft /\ SPeriod' = SPeriod /\ SCancelled' = SCancelled
      BY <3>1, <1>2 DEF SLeft, SPeriod, SCancelled, HasTimer, Task
    <3>5. Service!Fire(i)
      BY <2>1, <2>2, <2>4, <3>3, <3>4
         DEF Service!Fire, Service!Due, SState, SLeft, SPeriod, SCancelled
    <3> QED
      BY <3>5, <1>1
  <2> QED
    BY <2>3, <2>4
<1> QED
  BY <1>3, <1>4

(* The end of ~TimerTask after a callback: the timer is off.               *)
LEMMA FinishStep ==
  ASSUME IInv, Finish
  PROVE  \E i \in Ids : Service!Done(i)
<1>0. PICK i \in Ids : i = task[dying].id
  BY DEF Finish, IInv, TypeOK, TimerTask
<1>1. dying \in alive /\ timers[i] = dying /\ HasTimer(i)
  BY <1>0 DEF Finish, IInv, TypeOK, TimerTask, MapMatchesWheel, HasTimer
<1>2. task' = task /\ age' = age /\ dying' = NoTask
  BY DEF Finish
<1>3. \A j \in Ids : timers'[j] = IF j = i THEN NoTask ELSE timers[j]
  BY <1>0, <1>1 DEF Finish, Release, IInv, TypeOK
<1>4. \A j \in Ids : timers[j] = dying <=> j = i
  BY <1>1, OwnObject
<1>5. SState[i] = "firing" /\ SState' = [SState EXCEPT ![i] = "off"]
  BY <1>1, <1>2, <1>3, <1>4 DEF SState, HasTimer, Expired
<1>6. SLeft' = [SLeft EXCEPT ![i] = 0] /\ SPeriod' = [SPeriod EXCEPT ![i] = 0]
  BY <1>1, <1>2, <1>3 DEF SLeft, SPeriod, HasTimer, Task
<1>7. SCancelled' = SCancelled \ {i}
  BY <1>1, <1>2, <1>3 DEF SCancelled, HasTimer, Task
<1>8. Service!Done(i)
  BY <1>5, <1>6, <1>7
     DEF Service!Done, Service!Forget, SState, SLeft, SPeriod, SCancelled
<1> QED
  BY <1>1, <1>8

(* What the users of the wheel do is what the service offers them.         *)
LEMMA AddStep ==
  ASSUME IInv, NEW i \in Ids, NEW d \in Timeouts, TimerAdd(i, d)
  PROVE  Service!Arm(i, d)
<1>1. PICK t \in Tasks \ alive :
        /\ task' = [task EXCEPT ![t] = [id |-> i, timeout |-> d, cancel |-> FALSE]]
        /\ timers' = [timers EXCEPT ![i] = t]
        /\ age' = [age EXCEPT ![t] = 0]
  BY DEF TimerAdd
<1>2. ~HasTimer(i) /\ dying' = dying /\ dying # t /\ t # NoTask
  BY <1>1, NoTaskAssumption DEF TimerAdd, IInv, MapMatchesWheel
<1>3. \A j \in Ids : timers'[j] = IF j = i THEN t ELSE timers[j]
  BY <1>1 DEF IInv, TypeOK
<1>4. /\ task'[t] = [id |-> i, timeout |-> d, cancel |-> FALSE] /\ age'[t] = 0
      /\ \A u \in Tasks : u # t => task'[u] = task[u] /\ age'[u] = age[u]
  BY <1>1 DEF IInv, TypeOK
<1>5. \A j \in Ids : HasTimer(j) => timers[j] # t /\ timers[j] \in Tasks
  BY <1>1, OwnObject
<1>6. d \in Nat
  BY TimeoutsAssumption
<1>7. SState[i] = "off" /\ SState' = [SState EXCEPT ![i] = "armed"]
  BY <1>2, <1>3 DEF SState, HasTimer, Expired
<1>8. SLeft' = [SLeft EXCEPT ![i] = d]
  <2>1. \A j \in Ids : SLeft'[j] = IF j = i THEN d ELSE SLeft[j]
    BY <1>2, <1>3, <1>4, <1>5, <1>6 DEF SLeft, HasTimer, Task
  <2> QED
    BY <2>1 DEF SLeft
<1>9. SPeriod' = [SPeriod EXCEPT ![i] = d]
  <2>1. \A j \in Ids : SPeriod'[j] = IF j = i THEN d ELSE SPeriod[j]
    BY <1>2, <1>3, <1>4, <1>5 DEF SPeriod, HasTimer, Task
  <2> QED
    BY <2>1 DEF SPeriod
<1>10. SCancelled' = SCancelled
  BY <1>2, <1>3, <1>4, <1>5 DEF SCancelled, HasTimer, Task
<1> QED
  BY <1>7, <1>8, <1>9, <1>10 DEF Service!Arm, SState, SLeft, SPeriod, SCancelled

(* TimerRefreshInLoop starts the countdown again.                          *)
LEMMA RefreshStep ==
  ASSUME IInv, NEW i \in Ids, TimerRefresh(i)
  PROVE  Service!Rearm(i)
<1>1. HasTimer(i) /\ ~Expired(i) /\ age' = [age EXCEPT ![timers[i]] = 0]
      /\ UNCHANGED <<timers, task, dying>>
  BY DEF TimerRefresh
<1>2. \A j \in Ids : HasTimer(j) => age'[timers[j]] = IF j = i THEN 0 ELSE age[timers[j]]
  BY <1>1, OwnObject DEF IInv, TypeOK
<1>3. SState[i] = "armed" /\ SState' = SState /\ SPeriod' = SPeriod /\ SCancelled' = SCancelled
  BY <1>1 DEF SState, SPeriod, SCancelled, HasTimer, Expired, Task
<1>4. SLeft' = [SLeft EXCEPT ![i] = SPeriod[i]]
  <2>1. \A j \in Ids : SLeft'[j] = IF j = i THEN SPeriod[i] ELSE SLeft[j]
    BY <1>1, <1>2, OwnObject DEF SLeft, SPeriod, HasTimer, Task
  <2> QED
    BY <2>1 DEF SLeft
<1> QED
  BY <1>3, <1>4 DEF Service!Rearm, SState, SLeft, SPeriod, SCancelled

(* TimerCancelInLoop marks the timer.                                      *)
LEMMA CancelStep ==
  ASSUME IInv, NEW i \in Ids, TimerCancel(i)
  PROVE  Service!Cancel(i)
<1>1. HasTimer(i) /\ ~Expired(i) /\ UNCHANGED <<timers, age, dying>>
  BY DEF TimerCancel
<1>2. \A j \in Ids : HasTimer(j) =>
        /\ task'[timers[j]].timeout = task[timers[j]].timeout
        /\ task'[timers[j]].cancel = IF j = i THEN TRUE ELSE task[timers[j]].cancel
  BY <1>1, OwnObject DEF TimerCancel, IInv, TypeOK
<1>3. SState[i] = "armed" /\ SState' = SState
  BY <1>1 DEF SState, HasTimer, Expired
<1>4. SLeft' = SLeft /\ SPeriod' = SPeriod
  BY <1>1, <1>2 DEF SLeft, SPeriod, HasTimer, Task
<1>5. SCancelled' = SCancelled \union {i}
  BY <1>1, <1>2 DEF SCancelled, HasTimer, Task
<1> QED
  BY <1>3, <1>4, <1>5 DEF Service!Cancel, SState, SLeft, SPeriod, SCancelled

(* With delays that fit the ring, the wheel is a set of countdown timers:  *)
(* every step of TimerWheel is one of TimerService or changes nothing a    *)
(* user can see.                                                           *)
THEOREM WheelImplementsService ==
  ASSUME InRange
  PROVE  Spec => ImplementsService
<1>1. Init => Service!Init
  BY DEF Init, Service!Init, HasTimer
<1>2. ASSUME IInv, [Next]_vars
      PROVE  [Service!Next]_Service!vars
  <2>1. CASE Second \/ EndClear \/ UNCHANGED vars
    BY <2>1 DEF Second, EndClear, vars, Service!vars, HasTimer, Expired, Task
  <2>2. CASE OnTime
    BY <1>2, <2>2, TickStep DEF Service!Next
  <2>3. ASSUME NEW t \in Tasks, Drop(t)
        PROVE  [Service!Next]_Service!vars
    BY <1>2, <2>3, DropStep DEF Service!Next
  <2>4. CASE Finish
    BY <1>2, <2>4, FinishStep DEF Service!Next
  <2>5. CASE User
    BY <1>2, <2>5, AddStep, RefreshStep, CancelStep DEF User, Service!Next
  <2> QED
    BY <1>2, <2>1, <2>2, <2>3, <2>4, <2>5 DEF Next, RunTimerTask
<1> QED
  BY <1>1, <1>2, InvInit, InvStep, PTL DEF Spec, ImplementsService, Service!Spec

=============================================================================
