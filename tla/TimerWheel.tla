----------------------------- MODULE TimerWheel -----------------------------
(***************************************************************************)
(* TimerTask and TimerWheel of Reactor_http/source/server.hpp (443-568).   *)
(*                                                                         *)
(* The wheel is a ring of slots, each holding shared pointers to TimerTask *)
(* objects; a weak pointer to the newest object of each id is kept in      *)
(* timers.  A refresh pushes one more shared pointer; the hand clears a    *)
(* slot at each tick, and the callback runs in the destructor of an object *)
(* whose last pointer goes.  All of it runs on the loop's thread, but a    *)
(* callback runs in the middle of clear() and may use the wheel again, so  *)
(* one tick is several steps here: OnTime starts it, Drop releases one     *)
(* pointer, Finish ends a destructor, EndClear ends the tick.              *)
(*                                                                         *)
(* A slot is a set: that a pointer was pushed twice into a slot makes no   *)
(* difference, as a slot is only ever cleared as a whole.                  *)
(***************************************************************************)
EXTENDS Integers

CONSTANTS Ids,             \* timer ids: connection ids and TcpServer::RunAfter ids
          Tasks,           \* TimerTask objects (a bound on those alive at once)
          NoTask,          \* an empty weak pointer
          Capacity,        \* _capacity, 60 in the code
          Timeouts,        \* the delays callers pass
          MaxExpirations   \* bound on the ticks the timerfd accumulates

ASSUME IdsAssumption == Ids # {}
ASSUME CapacityAssumption == Capacity \in Nat \ {0, 1}
ASSUME TimeoutsAssumption == Timeouts \subseteq Nat
ASSUME NoTaskAssumption == NoTask \notin Tasks
ASSUME MaxExpirationsAssumption == MaxExpirations \in Nat \ {0}

VARIABLES tick,        \* _tick
          wheel,       \* _wheel: the tasks each slot holds a shared_ptr to
          timers,      \* _timers: the weak_ptr of each id
          task,        \* the fields of each TimerTask object
          alive,       \* the objects whose destructor has not finished
          clearing,    \* _wheel[_tick].clear() is running
          dying,       \* the object whose destructor is running its callback
          expirations, \* ticks the timerfd holds, read by ReadTimerfd
          age,         \* history: ticks since the object was last pushed
          lag          \* history: seconds the hand has missed

vars == <<tick, wheel, timers, task, alive, clearing, dying, expirations, age, lag>>

Slots == 0 .. (Capacity - 1)

TimerTask == [id : Ids, timeout : Nat, cancel : BOOLEAN]

\* The field of an object that was never constructed.
AnyId == CHOOSE i \in Ids : TRUE

TypeOK ==
  /\ tick \in Slots
  /\ wheel \in [Slots -> SUBSET Tasks]
  /\ timers \in [Ids -> Tasks \union {NoTask}]
  /\ task \in [Tasks -> TimerTask]
  /\ alive \subseteq Tasks
  /\ clearing \in BOOLEAN
  /\ dying \in Tasks \union {NoTask}
  /\ expirations \in 0 .. MaxExpirations
  /\ age \in [Tasks -> Nat]
  /\ lag \in Nat

Init ==
  /\ tick = 0
  /\ wheel = [s \in Slots |-> {}]
  /\ timers = [i \in Ids |-> NoTask]
  /\ task = [t \in Tasks |-> [id |-> AnyId, timeout |-> 0, cancel |-> FALSE]]
  /\ alive = {}
  /\ clearing = FALSE
  /\ dying = NoTask
  /\ expirations = 0
  /\ age = [t \in Tasks |-> 0]
  /\ lag = 0

-----------------------------------------------------------------------------
\* Variant of Pos: the slot after the right one.
PosOneLate(timeout) == (tick + timeout + 1) % Capacity

\* The slot a timeout leads to, counted from the hand.
Pos(timeout) == (tick + timeout) % Capacity

HasTimer(i) == timers[i] # NoTask

\* weak_ptr::lock() gives the object only while a shared pointer to it is left.
Expired(i) == timers[i] = dying

\* The users of the wheel run on the loop's thread: between two events, or
\* inside the callback of a dying task.
UserRuns == ~clearing \/ dying # NoTask

\* Inside clear() nothing may be pushed into the slot being cleared: it would
\* be a push_back on a vector in the middle of its own clear().
SafePush(timeout) == clearing => Pos(timeout) # tick

\* Variant of TimerAdd: the caller does not ask HasTimer.
TimerAddUnchecked(i, timeout) ==
  /\ UserRuns
  /\ SafePush(timeout)
  /\ \E t \in Tasks \ alive :
       /\ alive' = alive \union {t}
       /\ task' = [task EXCEPT ![t] = [id |-> i, timeout |-> timeout, cancel |-> FALSE]]
       /\ wheel' = [wheel EXCEPT ![Pos(timeout)] = @ \union {t}]
       /\ timers' = [timers EXCEPT ![i] = t]
       /\ age' = [age EXCEPT ![t] = 0]
  /\ UNCHANGED <<tick, clearing, dying, expirations, lag>>

\* TimerAddInLoop.  The callers never add an id that is still in _timers:
\* EnableInactiveReleaseInLoop asks HasTimer first and RunAfterInLoop takes a
\* fresh id.
TimerAdd(i, timeout) ==
  /\ UserRuns
  /\ ~HasTimer(i)
  /\ SafePush(timeout)
  /\ \E t \in Tasks \ alive :
       /\ alive' = alive \union {t}
       /\ task' = [task EXCEPT ![t] = [id |-> i, timeout |-> timeout, cancel |-> FALSE]]
       /\ wheel' = [wheel EXCEPT ![Pos(timeout)] = @ \union {t}]
       /\ timers' = [timers EXCEPT ![i] = t]
       /\ age' = [age EXCEPT ![t] = 0]
  /\ UNCHANGED <<tick, clearing, dying, expirations, lag>>

\* Variant of TimerRefresh: the task keeps its place.
TimerRefreshNoPush(i) ==
  /\ UserRuns
  /\ HasTimer(i)
  /\ ~Expired(i)
  /\ age' = [age EXCEPT ![timers[i]] = 0]
  /\ UNCHANGED <<tick, wheel, timers, task, alive, clearing, dying, expirations, lag>>

\* TimerRefreshInLoop.  An unknown id returns early.  It dereferences lock()
\* unchecked, so a caller must not refresh the task that is dying.
TimerRefresh(i) ==
  /\ UserRuns
  /\ HasTimer(i)
  /\ ~Expired(i)
  /\ LET t == timers[i] IN
       /\ SafePush(task[t].timeout)
       /\ wheel' = [wheel EXCEPT ![Pos(task[t].timeout)] = @ \union {t}]
       /\ age' = [age EXCEPT ![t] = 0]
  /\ UNCHANGED <<tick, timers, task, alive, clearing, dying, expirations, lag>>

\* TimerCancelInLoop.  An unknown id returns early; so does a dying task,
\* whose lock() is null (ReleaseInLoop cancels from inside the callback).
TimerCancel(i) ==
  /\ UserRuns
  /\ HasTimer(i)
  /\ ~Expired(i)
  /\ task' = [task EXCEPT ![timers[i]] = [id |-> @.id, timeout |-> @.timeout, cancel |-> TRUE]]
  /\ UNCHANGED <<tick, wheel, timers, alive, clearing, dying, expirations, age, lag>>

-----------------------------------------------------------------------------
\* Variant of Second: it_interval left zero, so that the timerfd expires only
\* before the hand has moved for the first time.
SecondOneShot ==
  /\ tick = 0
  /\ ~clearing
  /\ expirations < MaxExpirations
  /\ expirations' = expirations + 1
  /\ UNCHANGED <<tick, wheel, timers, task, alive, clearing, dying, age, lag>>

\* One second passes: the kernel adds one to the timerfd's counter.
Second ==
  /\ expirations < MaxExpirations
  /\ expirations' = expirations + 1
  /\ UNCHANGED <<tick, wheel, timers, task, alive, clearing, dying, age, lag>>

\* Variant of OnTime: the hand runs off the ring.
OnTimeNoWrap ==
  /\ ~clearing
  /\ expirations > 0
  /\ expirations' = 0
  /\ lag' = expirations - 1
  /\ tick' = tick + 1
  /\ clearing' = TRUE
  /\ age' = [t \in Tasks |-> IF t \in alive THEN age[t] + 1 ELSE age[t]]
  /\ UNCHANGED <<wheel, timers, task, alive, dying>>

\* OnTime: ReadTimerfd takes the whole counter, RunTimerTask moves one slot.
OnTime ==
  /\ ~clearing
  /\ expirations > 0
  /\ expirations' = 0
  /\ lag' = expirations - 1
  /\ tick' = (tick + 1) % Capacity
  /\ clearing' = TRUE
  /\ age' = [t \in Tasks |-> IF t \in alive THEN age[t] + 1 ELSE age[t]]
  /\ UNCHANGED <<wheel, timers, task, alive, dying>>

\* Remove(id), bound by SetRelease, and the end of the object.
Release(t) ==
  /\ timers' = [timers EXCEPT ![task[t].id] = NoTask]
  /\ alive' = alive \ {t}

\* Variant of Drop: the destructor does not look at _cancel.
DropFiresCancelled(t) ==
  /\ clearing
  /\ dying = NoTask
  /\ t \in wheel[tick]
  /\ wheel' = [wheel EXCEPT ![tick] = @ \ {t}]
  /\ dying' = IF \E s \in Slots \ {tick} : t \in wheel[s] THEN dying ELSE t
  /\ UNCHANGED <<tick, timers, task, alive, clearing, expirations, age, lag>>

\* clear() destroys one shared pointer.  If it was the last, ~TimerTask runs:
\* the callback of a live task, at once the release of a cancelled one.
Drop(t) ==
  /\ clearing
  /\ dying = NoTask
  /\ t \in wheel[tick]
  /\ wheel' = [wheel EXCEPT ![tick] = @ \ {t}]
  /\ IF \E s \in Slots \ {tick} : t \in wheel[s]
       THEN UNCHANGED <<dying, timers, alive>>
       ELSE IF task[t].cancel
              THEN Release(t) /\ UNCHANGED dying
              ELSE dying' = t /\ UNCHANGED <<timers, alive>>
  /\ UNCHANGED <<tick, task, clearing, expirations, age, lag>>

\* The callback has returned; ~TimerTask calls _release().
Finish ==
  /\ dying # NoTask
  /\ Release(dying)
  /\ dying' = NoTask
  /\ UNCHANGED <<tick, wheel, task, clearing, expirations, age, lag>>

EndClear ==
  /\ clearing
  /\ dying = NoTask
  /\ wheel[tick] = {}
  /\ clearing' = FALSE
  /\ UNCHANGED <<tick, wheel, timers, task, alive, dying, expirations, age, lag>>

RunTimerTask ==
  \/ \E t \in Tasks : Drop(t)
  \/ Finish
  \/ EndClear

User ==
  \E i \in Ids :
    \/ \E d \in Timeouts : TimerAdd(i, d)
    \/ TimerRefresh(i)
    \/ TimerCancel(i)

Next == Second \/ OnTime \/ RunTimerTask \/ User

Spec == Init /\ [][Next]_vars

\* The kernel's clock goes on, and the loop serves the timerfd and returns
\* from callbacks.
Fairness == WF_vars(Second) /\ WF_vars(OnTime) /\ WF_vars(RunTimerTask)

FairSpec == Spec /\ Fairness

-----------------------------------------------------------------------------
\* Delays the wheel can tell apart: it has no notion of a full turn.
InRange == Timeouts \subseteq 1 .. Capacity

\* Slots holding a shared pointer to the task.
Held(t) == {s \in Slots : t \in wheel[s]}

(* An object lives while a slot holds it or its destructor runs, and no id *)
(* has two: _timers names the only live object of each id, so a refresh or *)
(* a cancel reaches the object that will fire, and Remove(id) never erases *)
(* the entry of another object (TimerAddInLoop, Remove, ~TimerTask).       *)
MapMatchesWheel ==
  /\ \A t \in Tasks : t \in alive <=> Held(t) # {} \/ t = dying
  /\ \A t \in alive : timers[task[t].id] = t
  /\ \A i \in Ids : HasTimer(i) => timers[i] \in alive /\ task[timers[i]].id = i

(* When the hand rests, no task is late: every object still on the wheel   *)
(* was added or refreshed fewer ticks ago than its timeout (RunTimerTask). *)
NoneOverdue ==
  ~clearing => \A t \in alive : age[t] < task[t].timeout

(* A callback runs exactly timeout ticks after the last add or refresh of  *)
(* its task, and never for a cancelled one (TimerRefreshInLoop,            *)
(* ~TimerTask).                                                            *)
FiresOnTime ==
  [][ \A t \in Tasks : dying' = t /\ dying # t =>
        age[t] = task[t].timeout /\ ~task[t].cancel ]_vars

(* Every task is freed or refreshed again and again: none stays on the     *)
(* wheel without being dealt with, cancelled ones included (RunTimerTask). *)
EveryTimerResolves ==
  \A t \in Tasks : []<>(t \notin alive \/ age[t] = 0)

(* Comment at 511, about RunTimerTask: it should run once per second, one  *)
(* second being one step of the hand.                                      *)
(* It does not hold: README, section 6.                                    *)
HandKeepsTime == lag = 0

(* Comment at 447: _timeout is the time after which the task is due.       *)
(* It holds for delays within the ring only: README, section 6.            *)
TimeoutIsDelay == \A t \in Tasks : dying = t => age[t] = task[t].timeout

-----------------------------------------------------------------------------
\* The wheel as a set of countdown timers.
Task(i) == task[timers[i]]

Service == INSTANCE TimerService WITH
  state <- [i \in Ids |-> IF ~HasTimer(i) THEN "off"
                          ELSE IF Expired(i) THEN "firing" ELSE "armed"],
  left <- [i \in Ids |-> IF HasTimer(i) THEN Task(i).timeout - age[timers[i]] ELSE 0],
  period <- [i \in Ids |-> IF HasTimer(i) THEN Task(i).timeout ELSE 0],
  cancelled <- {i \in Ids : HasTimer(i) /\ Task(i).cancel}

(* The wheel implements the timer service (TimerWheel as a whole).         *)
ImplementsService == Service!Spec
=============================================================================
