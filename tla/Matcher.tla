------------------------------- MODULE Matcher -------------------------------
(***************************************************************************)
(* match_queue and matcher of game/source/matcher.hpp, with the parts of   *)
(* online_game, room_manager and gobang_server they work with.             *)
(*                                                                         *)
(* One thread per tier (normal, high, super) runs handle_match: it takes   *)
(* two users from the head of its queue, looks both up in the game hall    *)
(* and creates a room.  Meanwhile the server's thread opens and closes     *)
(* hall connections and handles match_start and match_stop.  Every method  *)
(* of match_queue is one critical section, hence one step; between two of  *)
(* them anything may happen.                                               *)
(***************************************************************************)
EXTENDS Naturals, Sequences, FiniteSets

CONSTANTS Users,      \* uids
          Tiers,      \* the three queues and their threads
          TierOf,     \* the queue a user's score leads to
          NoUser,     \* an unset uid1 or uid2
          MaxStarts   \* bound on the match_start requests of each user

\* Users whose scores all lead to one queue; the threads of different tiers share
\* only the hall.
OneTier == [u \in Users |-> CHOOSE t \in Tiers : TRUE]

ASSUME TierOfAssumption == TierOf \in [Users -> Tiers]
ASSUME NoUserAssumption == NoUser \notin Users
ASSUME MaxStartsAssumption == MaxStarts \in Nat

VARIABLES hall,       \* _hall_user: the users with a hall connection
          queue,      \* the _list of each tier
          pc,         \* where the thread of each tier is in handle_match
          uid1, uid2, \* its local variables
          back,       \* uids it still has to add() back
          rooms,      \* history: the pairs create_room was given, oldest first
          starts,     \* history: match_start requests handled for each user
          expecting,  \* history: users whose last request was match_start, still
                      \* in the hall, for whom no room was made since
          stopped,    \* history: users whose last request was match_stop
          failed      \* history: users an add() of whom has failed since their
                      \* last match_start that succeeded

vars == <<hall, queue, pc, uid1, uid2, back, rooms, starts, expecting, stopped, failed>>
threadVars == <<pc, uid1, uid2, back>>
userVars == <<hall, starts, expecting, stopped, failed>>

Init ==
  /\ hall = {}
  /\ queue = [t \in Tiers |-> <<>>]
  /\ pc = [t \in Tiers |-> "size"]
  /\ uid1 = [t \in Tiers |-> NoUser]
  /\ uid2 = [t \in Tiers |-> NoUser]
  /\ back = [t \in Tiers |-> <<>>]
  /\ rooms = <<>>
  /\ starts = [u \in Users |-> 0]
  /\ expecting = {}
  /\ stopped = {}
  /\ failed = {}

-----------------------------------------------------------------------------
\* notify_all: the thread of the tier, if it waits, tests size() again.
Woken(t) == [pc EXCEPT ![t] = IF @ = "waiting" THEN "size" ELSE @]

\* The server's thread.  A hall connection is accepted if the user has none;
\* closing it leaves the match queue alone.
wsopen_game_hall(u) ==
  /\ u \notin hall
  /\ hall' = hall \union {u}
  /\ UNCHANGED <<queue, threadVars, rooms, starts, expecting, stopped, failed>>

wsclose_game_hall(u) ==
  /\ u \in hall
  /\ hall' = hall \ {u}
  /\ expecting' = expecting \ {u}
  /\ stopped' = stopped \ {u}
  /\ UNCHANGED <<queue, threadVars, rooms, starts, failed>>

\* match_start is matcher::add: push and notify_all, or nothing when the user's
\* row cannot be read; the result is not looked at and the answer is the same.
\* The hall page sends it when the user is not searching.
match_start(u) ==
  /\ u \in hall \ expecting
  /\ starts[u] < MaxStarts
  /\ starts' = [starts EXCEPT ![u] = @ + 1]
  /\ expecting' = expecting \union {u}
  /\ stopped' = stopped \ {u}
  /\ \/ /\ queue' = [queue EXCEPT ![TierOf[u]] = Append(@, u)]
        /\ pc' = Woken(TierOf[u])
        /\ failed' = failed \ {u}
     \/ /\ failed' = failed \union {u}
        /\ UNCHANGED <<queue, pc>>
  /\ UNCHANGED <<hall, uid1, uid2, back, rooms>>

\* list::remove: every occurrence goes, the others keep their order.
remove(q, u) ==
  LET kept == {k \in DOMAIN q : q[k] # u}
      place(k) == Cardinality({j \in kept : j <= k})
  IN  [i \in 1 .. Cardinality(kept) |-> q[CHOOSE k \in kept : place(k) = i]]

\* match_stop is matcher::del, which may fail likewise.
match_stop(u) ==
  /\ u \in expecting
  /\ expecting' = expecting \ {u}
  /\ stopped' = stopped \union {u}
  /\ \/ queue' = [queue EXCEPT ![TierOf[u]] = remove(@, u)]
     \/ UNCHANGED queue
  /\ UNCHANGED <<hall, threadVars, rooms, starts, failed>>

-----------------------------------------------------------------------------
\* handle_match, one step per call on a shared object.
Goto(t, step) == pc' = [pc EXCEPT ![t] = step]

\* "continue" of the outer loop, the locals going out of scope.
Continue(t) ==
  /\ Goto(t, "size")
  /\ uid1' = [uid1 EXCEPT ![t] = NoUser]
  /\ uid2' = [uid2 EXCEPT ![t] = NoUser]

\* Continue after adding users back.
AddBack(t, users) ==
  /\ Goto(t, "add")
  /\ back' = [back EXCEPT ![t] = users]
  /\ uid1' = [uid1 EXCEPT ![t] = NoUser]
  /\ uid2' = [uid2 EXCEPT ![t] = NoUser]
  /\ UNCHANGED <<queue, rooms, userVars>>

\* while(mq.size()<2) mq.wait(): the test and the wait lock separately.
Size(t) ==
  /\ pc[t] = "size"
  /\ Goto(t, IF Len(queue[t]) < 2 THEN "wait" ELSE "pop1")
  /\ UNCHANGED <<queue, uid1, uid2, back, rooms, userVars>>

Wait(t) ==
  /\ pc[t] = "wait"
  /\ Goto(t, "waiting")
  /\ UNCHANGED <<queue, uid1, uid2, back, rooms, userVars>>

\* A condition variable may also wake for no reason.
SpuriousWakeup(t) ==
  /\ pc[t] = "waiting"
  /\ Goto(t, "size")
  /\ UNCHANGED <<queue, uid1, uid2, back, rooms, userVars>>

\* Variant of Pop1: front() without pop_front().
Pop1NoPop(t) ==
  /\ pc[t] = "pop1"
  /\ IF queue[t] = <<>>
       THEN Continue(t)
       ELSE /\ uid1' = [uid1 EXCEPT ![t] = Head(queue[t])]
            /\ Goto(t, "pop2")
            /\ UNCHANGED uid2
  /\ UNCHANGED <<queue, back, rooms, userVars>>

Pop1(t) ==
  /\ pc[t] = "pop1"
  /\ IF queue[t] = <<>>
       THEN Continue(t) /\ UNCHANGED queue
       ELSE /\ uid1' = [uid1 EXCEPT ![t] = Head(queue[t])]
            /\ queue' = [queue EXCEPT ![t] = Tail(@)]
            /\ Goto(t, "pop2")
            /\ UNCHANGED uid2
  /\ UNCHANGED <<back, rooms, userVars>>

Pop2(t) ==
  /\ pc[t] = "pop2"
  /\ IF queue[t] = <<>>
       THEN AddBack(t, <<uid1[t]>>)
       ELSE /\ uid2' = [uid2 EXCEPT ![t] = Head(queue[t])]
            /\ queue' = [queue EXCEPT ![t] = Tail(@)]
            /\ Goto(t, "conn1")
            /\ UNCHANGED <<uid1, back, rooms, userVars>>

\* Variant of Conn1: nobody is added back.
Conn1DropsBoth(t) ==
  /\ pc[t] = "conn1"
  /\ IF uid1[t] \in hall
       THEN Goto(t, "conn2") /\ UNCHANGED <<uid1, uid2>>
       ELSE Continue(t)
  /\ UNCHANGED <<queue, back, rooms, userVars>>

\* get_conn_from_hall: a user who left is dropped, the other goes back.
Conn1(t) ==
  /\ pc[t] = "conn1"
  /\ IF uid1[t] \in hall
       THEN Goto(t, "conn2") /\ UNCHANGED <<queue, uid1, uid2, back, rooms, userVars>>
       ELSE AddBack(t, <<uid2[t]>>)

\* Variant of Conn2: the thread waits for the second user to come back.
Conn2Retries(t) ==
  /\ pc[t] = "conn2"
  /\ Goto(t, IF uid2[t] \in hall THEN "hall1" ELSE "conn2")
  /\ UNCHANGED <<queue, uid1, uid2, back, rooms, userVars>>

Conn2(t) ==
  /\ pc[t] = "conn2"
  /\ IF uid2[t] \in hall
       THEN Goto(t, "hall1") /\ UNCHANGED <<queue, uid1, uid2, back, rooms, userVars>>
       ELSE AddBack(t, <<uid1[t]>>)

\* create_room: is_in_game_hall of both, then the room, under _mutex.
Hall1(t) ==
  /\ pc[t] = "hall1"
  /\ IF uid1[t] \in hall
       THEN Goto(t, "hall2") /\ UNCHANGED <<queue, uid1, uid2, back, rooms, userVars>>
       ELSE AddBack(t, <<uid1[t], uid2[t]>>)

Hall2(t) ==
  /\ pc[t] = "hall2"
  /\ IF uid2[t] \in hall
       THEN Goto(t, "create") /\ UNCHANGED <<queue, uid1, uid2, back, rooms, userVars>>
       ELSE AddBack(t, <<uid1[t], uid2[t]>>)

Create(t) ==
  /\ pc[t] = "create"
  /\ rooms' = Append(rooms, <<uid1[t], uid2[t]>>)
  /\ expecting' = expecting \ {uid1[t], uid2[t]}
  /\ Continue(t)
  /\ UNCHANGED <<queue, back, hall, starts, stopped, failed>>

\* add() from handle_match; it notifies the thread's own queue, where nobody
\* else waits.  A failure is not looked at: the user is gone.
Add(t) ==
  /\ pc[t] = "add"
  /\ LET u == Head(back[t]) IN
       \/ /\ queue' = [queue EXCEPT ![TierOf[u]] = Append(@, u)]
          /\ UNCHANGED failed
       \/ /\ failed' = failed \union {u}
          /\ UNCHANGED queue
  /\ back' = [back EXCEPT ![t] = Tail(@)]
  /\ Goto(t, IF Len(back[t]) = 1 THEN "size" ELSE "add")
  /\ UNCHANGED <<uid1, uid2, rooms, hall, starts, expecting, stopped>>

handle_match(t) ==
  \/ Size(t)
  \/ Wait(t)
  \/ Pop1(t)
  \/ Pop2(t)
  \/ Conn1(t)
  \/ Conn2(t)
  \/ Hall1(t)
  \/ Hall2(t)
  \/ Create(t)
  \/ Add(t)

server(u) ==
  \/ wsopen_game_hall(u)
  \/ wsclose_game_hall(u)
  \/ match_start(u)
  \/ match_stop(u)

Next ==
  \/ \E t \in Tiers : handle_match(t) \/ SpuriousWakeup(t)
  \/ \E u \in Users : server(u)

Spec == Init /\ [][Next]_vars

\* The matcher threads are scheduled; users promise nothing.
FairSpec == Spec /\ \A t \in Tiers : WF_vars(handle_match(t))

-----------------------------------------------------------------------------
\* The users the thread of a tier holds in its hands.
InHand(t) == {uid1[t], uid2[t]} \union {back[t][k] : k \in DOMAIN back[t]}

Queued(u) == \E k \in DOMAIN queue[TierOf[u]] : queue[TierOf[u]][k] = u

\* How often u occurs in a sequence of users.
Count(u, q) == Cardinality({k \in DOMAIN q : q[k] = u})

Tokens(u) ==
  LET t == TierOf[u] IN
    Count(u, queue[t]) + Count(u, <<uid1[t], uid2[t]>>) + Count(u, back[t])
    + Cardinality({k \in DOMAIN rooms : rooms[k][1] = u})
    + Cardinality({k \in DOMAIN rooms : rooms[k][2] = u})

(* A user who asked for an opponent, did not take it back and stayed in    *)
(* the hall is never forgotten: he is queued or in the hands of the thread *)
(* that will find him a room (handle_match, the paths that add() back),    *)
(* unless an add() of him failed, whose result neither the server nor      *)
(* handle_match looks at.                                                  *)
NoPlayerForgotten ==
  \A u \in expecting \ failed : Queued(u) \/ u \in InHand(TierOf[u])

(* Each match_start puts a user into at most one room: however often the   *)
(* thread adds users back, no request is multiplied (handle_match).        *)
OneRoomPerStart == \A u \in Users : Tokens(u) <= starts[u]

(* A matcher thread never keeps users for ever: what it popped it pairs or *)
(* gives back (handle_match).                                              *)
HandsAreEmptied == \A t \in Tiers : []<>(InHand(t) \subseteq {NoUser})

(* Comment at 16: the consumer blocks while the queue has fewer than two   *)
(* elements (the wait of match_queue).                                     *)
(* It does not hold: README, section 6.                                    *)
BlockedOnlyBelowTwo ==
  \A t \in Tiers : pc[t] = "waiting" => Len(queue[t]) < 2

(* Comment at server.hpp 363: match_stop takes the user out of the queue.  *)
(* Until he asks again he is not in it.                                    *)
(* It does not hold: README, section 6.                                    *)
StoppedMeansUnqueued == \A u \in stopped : ~Queued(u)

(* Comment at room.hpp 225: a room is created for two users.               *)
(* It does not hold: README, section 6.                                    *)
RoomHasTwoUsers == \A k \in DOMAIN rooms : rooms[k][1] # rooms[k][2]
=============================================================================
