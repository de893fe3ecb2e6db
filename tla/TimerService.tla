---------------------------- MODULE TimerService ----------------------------
(***************************************************************************)
(* What the timers of Reactor_http/source/server.hpp promise to their      *)
(* users, with no wheel in sight: a timer armed for d ticks runs its       *)
(* callback at the d-th tick after it was last armed or refreshed, neither *)
(* earlier nor later, unless it was cancelled, in which case it only       *)
(* disappears at that tick.  TimerWheel implements this specification.     *)
(***************************************************************************)
EXTENDS Integers

CONSTANTS Ids,        \* timer ids
          Timeouts    \* the delays timers are armed for

VARIABLES state,      \* "off", "armed" or "firing", for each id
          left,       \* ticks left until the timer is due
          period,     \* the delay the timer was armed for
          cancelled   \* timers that must disappear silently

vars == <<state, left, period, cancelled>>

TypeOK ==
  /\ state \in [Ids -> {"off", "armed", "firing"}]
  /\ left \in [Ids -> Nat]
  /\ period \in [Ids -> Nat]
  /\ cancelled \subseteq Ids

Init ==
  /\ state = [i \in Ids |-> "off"]
  /\ left = [i \in Ids |-> 0]
  /\ period = [i \in Ids |-> 0]
  /\ cancelled = {}

Due(i) == state[i] = "armed" /\ left[i] = 0

Arm(i, d) ==
  /\ state[i] = "off"
  /\ state' = [state EXCEPT ![i] = "armed"]
  /\ left' = [left EXCEPT ![i] = d]
  /\ period' = [period EXCEPT ![i] = d]
  /\ UNCHANGED cancelled

Rearm(i) ==
  /\ state[i] = "armed"
  /\ left' = [left EXCEPT ![i] = period[i]]
  /\ UNCHANGED <<state, period, cancelled>>

Cancel(i) ==
  /\ state[i] = "armed"
  /\ cancelled' = cancelled \union {i}
  /\ UNCHANGED <<state, left, period>>

\* One unit of time.  Every timer that is due has been dealt with before.
Tick ==
  /\ \A i \in Ids : state[i] # "firing" /\ ~Due(i)
  /\ left' = [i \in Ids |-> IF state[i] = "armed" THEN left[i] - 1 ELSE left[i]]
  /\ UNCHANGED <<state, period, cancelled>>

\* The timer is off again, and its fields have their initial values.
Forget(i) ==
  /\ state' = [state EXCEPT ![i] = "off"]
  /\ left' = [left EXCEPT ![i] = 0]
  /\ period' = [period EXCEPT ![i] = 0]
  /\ cancelled' = cancelled \ {i}

Fire(i) ==
  /\ Due(i)
  /\ i \notin cancelled
  /\ state' = [state EXCEPT ![i] = "firing"]
  /\ UNCHANGED <<left, period, cancelled>>

Discard(i) ==
  /\ Due(i)
  /\ i \in cancelled
  /\ Forget(i)

Done(i) ==
  /\ state[i] = "firing"
  /\ Forget(i)

Next ==
  \/ Tick
  \/ \E i \in Ids :
       \/ \E d \in Timeouts : Arm(i, d)
       \/ Rearm(i)
       \/ Cancel(i)
       \/ Fire(i)
       \/ Discard(i)
       \/ Done(i)

Spec == Init /\ [][Next]_vars
=============================================================================
