---------------------------- MODULE RoomManager ----------------------------
(***************************************************************************)
(* room and room_manager of game/source/room.hpp with online_game and the  *)
(* /hall and /room handlers of game/source/server.hpp.                     *)
(*                                                                         *)
(* The handlers run one after another on the server's thread, and          *)
(* create_room is one critical section of a matcher thread, so each is one *)
(* step.  What is hard here is the order of them: players leave, reload    *)
(* the page, open a second one, return to the hall and are matched again   *)
(* while an old room still exists.                                         *)
(*                                                                         *)
(* The board is abstracted to what a move may lead to: a refused move, a   *)
(* stone that ends nothing, or five in a row of the mover.                 *)
(***************************************************************************)
EXTENDS Naturals, Sequences, FiniteSets

CONSTANTS Users,       \* uids
          MaxRooms,    \* bound on _next_rid
          MaxSettled,  \* bound on how often one room may be settled
          NoRoom       \* what a lookup gives when there is no such room

ASSUME MaxRoomsAssumption == MaxRooms \in Nat
ASSUME MaxSettledAssumption == MaxSettled \in Nat

VARIABLES hall_user,   \* keys of _hall_user
          room_user,   \* keys of _room_user
          page,        \* the room an accepted, open room page belongs to, or 0
          refused,     \* users with an open /room connection that was refused
          next_rid,    \* _next_rid
          rooms,       \* _rooms: the room of each id, or NoRoom
          users,       \* _users: the room id of each user, or 0
          winners      \* history: the winners settled for each room id

vars == <<hall_user, room_user, page, refused, next_rid, rooms, users, winners>>

Rids == 1 .. MaxRooms

Room == [statu : {"GAME_START", "GAME_OVER"}, player_count : Nat,
         white_id : Users, black_id : Users]

ASSUME NoRoomAssumption == NoRoom \notin Room

TypeOK ==
  /\ hall_user \subseteq Users
  /\ room_user \subseteq Users
  /\ page \in [Users -> {0} \union Rids]
  /\ refused \subseteq Users
  /\ next_rid \in 1 .. (MaxRooms + 1)
  /\ rooms \in [Rids -> Room \union {NoRoom}]
  /\ users \in [Users -> {0} \union Rids]
  /\ winners \in [Rids -> Seq(Users)]

Init ==
  /\ hall_user = {}
  /\ room_user = {}
  /\ page = [u \in Users |-> 0]
  /\ refused = {}
  /\ next_rid = 1
  /\ rooms = [r \in Rids |-> NoRoom]
  /\ users = [u \in Users |-> 0]
  /\ winners = [r \in Rids |-> <<>>]

Players(r) == {rooms[r].white_id, rooms[r].black_id}
Exists(r) == rooms[r] # NoRoom

\* get_room_by_uid: the user has an entry, and its room exists.
HasRoom(u) == users[u] # 0 /\ Exists(users[u])

-----------------------------------------------------------------------------
wsopen_game_hall(u) ==
  /\ u \notin hall_user \union room_user
  /\ hall_user' = hall_user \union {u}
  /\ UNCHANGED <<room_user, page, refused, next_rid, rooms, users, winners>>

wsclose_game_hall(u) ==
  /\ u \in hall_user
  /\ hall_user' = hall_user \ {u}
  /\ UNCHANGED <<room_user, page, refused, next_rid, rooms, users, winners>>

\* unordered_map::insert leaves an entry that is there alone.
Inserted(f, u, r) == [f EXCEPT ![u] = IF @ = 0 THEN r ELSE @]

\* Variant of create_room: an id is used twice.
create_roomReusesId(uid1, uid2) ==
  /\ {uid1, uid2} \subseteq hall_user
  /\ next_rid \in Rids
  /\ rooms' = [rooms EXCEPT ![next_rid] =
                 [statu |-> "GAME_START", player_count |-> 2,
                  white_id |-> uid1, black_id |-> uid2]]
  /\ users' = Inserted(Inserted(users, uid1, next_rid), uid2, next_rid)
  /\ UNCHANGED <<hall_user, room_user, page, refused, next_rid, winners>>

\* Variant of create_room: the counter is read after it was incremented.
create_roomLateId(uid1, uid2) ==
  /\ {uid1, uid2} \subseteq hall_user
  /\ next_rid \in Rids
  /\ next_rid' = next_rid + 1
  /\ rooms' = [rooms EXCEPT ![next_rid] =
                 [statu |-> "GAME_START", player_count |-> 2,
                  white_id |-> uid1, black_id |-> uid2]]
  /\ users' = Inserted(Inserted(users, uid1, next_rid'), uid2, next_rid')
  /\ UNCHANGED <<hall_user, room_user, page, refused, winners>>

\* create_room, for the users the matcher found in the hall.  They may be the
\* same one twice, see Matcher.
create_room(uid1, uid2) ==
  /\ {uid1, uid2} \subseteq hall_user
  /\ next_rid \in Rids
  /\ rooms' = [rooms EXCEPT ![next_rid] =
                 [statu |-> "GAME_START", player_count |-> 2,
                  white_id |-> uid1, black_id |-> uid2]]
  /\ users' = Inserted(Inserted(users, uid1, next_rid), uid2, next_rid)
  /\ next_rid' = next_rid + 1
  /\ UNCHANGED <<hall_user, room_user, page, refused, winners>>

-----------------------------------------------------------------------------
\* wsopen_game_room: a user who is in the hall or in a room already, or has
\* no room, gets an error reply; his connection stays open.
wsopen_game_room(u) ==
  IF u \in hall_user \union room_user \/ ~HasRoom(u)
    THEN /\ u \notin refused
         /\ refused' = refused \union {u}
         /\ UNCHANGED <<hall_user, room_user, page, next_rid, rooms, users, winners>>
    ELSE /\ page[u] = 0
         /\ room_user' = room_user \union {u}
         /\ page' = [page EXCEPT ![u] = users[u]]
         /\ UNCHANGED <<hall_user, refused, next_rid, rooms, users, winners>>

\* win and lose of user_table for the room's two players, and GAME_OVER.
Settled(r, winner) ==
  /\ Len(winners[r]) < MaxSettled
  /\ winners' = [winners EXCEPT ![r] = Append(@, winner)]

\* Variant of GameOver: the statu is left as it was.
GameOverForgotten(r, players) ==
  [statu |-> rooms[r].statu, player_count |-> players,
   white_id |-> rooms[r].white_id, black_id |-> rooms[r].black_id]

\* The room, finished and with the given number of players.
GameOver(r, players) ==
  [statu |-> "GAME_OVER", player_count |-> players,
   white_id |-> rooms[r].white_id, black_id |-> rooms[r].black_id]

Opponent(r, u) ==
  IF u = rooms[r].white_id THEN rooms[r].black_id ELSE rooms[r].white_id

\* handle_exit: the opponent wins if the game is on; one player fewer.
\* remove_room, when none is left, erases the room and both users' entries.
remove_room_user(u) ==
  IF ~HasRoom(u)
    THEN UNCHANGED <<rooms, users, winners>>
    ELSE LET r == users[u]
             exited == GameOver(r, rooms[r].player_count - 1) IN
           /\ IF rooms[r].statu = "GAME_START"
                THEN Settled(r, Opponent(r, u))
                ELSE UNCHANGED winners
           /\ IF exited.player_count = 0
                THEN /\ rooms' = [rooms EXCEPT ![r] = NoRoom]
                     /\ users' = [v \in Users |-> IF v \in Players(r) THEN 0 ELSE users[v]]
                ELSE /\ rooms' = [rooms EXCEPT ![r] = exited]
                     /\ UNCHANGED users

\* wsclose_game_room: whichever of a user's connections closes, the user
\* leaves the online table and the room.
wsclose_game_room(u) ==
  /\ \/ page[u] # 0 /\ page' = [page EXCEPT ![u] = 0] /\ UNCHANGED refused
     \/ u \in refused /\ refused' = refused \ {u} /\ UNCHANGED page
  /\ room_user' = room_user \ {u}
  /\ remove_room_user(u)
  /\ UNCHANGED <<hall_user, next_rid>>

-----------------------------------------------------------------------------
\* handle_chess: the winner of a move, 0 when there is none.  Who is offline
\* loses; otherwise the stone may complete five in a row or not.
ChessWinners(r, u) ==
  IF rooms[r].white_id \notin room_user THEN {rooms[r].black_id}
  ELSE IF rooms[r].black_id \notin room_user THEN {rooms[r].white_id}
  ELSE {u}

\* handle_request with put_chess and a winner.  A move without one, a taken
\* field, a chat message and a request with a wrong room id change nothing
\* but the board.
put_chess(u) ==
  /\ page[u] # 0
  /\ HasRoom(u)
  /\ page[u] = users[u]
  /\ \E winner \in ChessWinners(page[u], u) : Settled(page[u], winner)
  /\ rooms' = [rooms EXCEPT ![page[u]] = GameOver(page[u], @.player_count)]
  /\ UNCHANGED <<hall_user, room_user, page, refused, next_rid, users>>

-----------------------------------------------------------------------------
Next ==
  \E u \in Users :
    \/ wsopen_game_hall(u)
    \/ wsclose_game_hall(u)
    \/ \E v \in Users : create_room(u, v)
    \/ wsopen_game_room(u)
    \/ wsclose_game_room(u)
    \/ put_chess(u)

Spec == Init /\ [][Next]_vars

-----------------------------------------------------------------------------
(* An entry of _users always leads to an existing room the user plays in,  *)
(* so get_room_by_uid never returns another player's room (create_room,    *)
(* remove_room).                                                           *)
EntryLeadsToOwnRoom ==
  \A u \in Users : users[u] # 0 => Exists(users[u]) /\ u \in Players(users[u])

(* A room that lost a player is over, and it is over exactly when win and  *)
(* lose were written; a room with no player left is gone (handle_exit,     *)
(* handle_request, remove_room_user).                                      *)
OverWhenSettled ==
  \A r \in Rids : Exists(r) =>
    /\ rooms[r].player_count \in 1 .. 2
    /\ rooms[r].player_count < 2 => rooms[r].statu = "GAME_OVER"
    /\ rooms[r].statu = "GAME_OVER" <=> winners[r] # <<>>

(* Comment at 130: leaving during the game makes the other one the winner, *)
(* leaving after it is a normal exit - one game has one result             *)
(* (handle_exit, handle_request).                                          *)
(* It does not hold: README, section 6.                                    *)
OneResultPerGame == \A r \in Rids : Len(winners[r]) <= 1

(* Comment at 295: the room is destroyed when no user is left in it.  While *)
(* a player is online with its page open, it exists (remove_room_user).    *)
RoomOutlivesItsPlayers ==
  \A u \in room_user : page[u] # 0 => Exists(page[u])

(* Comment at 243: the new room is registered.  Both players' entries lead *)
(* to it right after create_room.                                          *)
(* It does not hold: README, section 6.                                    *)
NewRoomIsRegistered ==
  [][ next_rid' # next_rid =>
        \A u \in Users : u \in {rooms'[next_rid].white_id, rooms'[next_rid].black_id}
                           => users'[u] = next_rid ]_vars
=============================================================================
