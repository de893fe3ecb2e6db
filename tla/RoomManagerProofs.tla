------------------------- MODULE RoomManagerProofs -------------------------
(***************************************************************************)
(* For any number of users and rooms: the entries of _users lead to the    *)
(* user's own rooms, and a room is over exactly when it was settled.       *)
(***************************************************************************)
EXTENDS RoomManager, TLAPS

\* Room ids that were not given out have left no trace.
UnusedInv == \A r \in Rids : r >= next_rid => ~Exists(r) /\ winners[r] = <<>>

IInv ==
  /\ TypeOK
  /\ EntryLeadsToOwnRoom
  /\ OverWhenSettled
  /\ UnusedInv

(* Nothing exists at the start.                                            *)
LEMMA InvInit == Init => IInv
<1> SUFFICES ASSUME Init PROVE IInv
  OBVIOUS
<1>1. \A r \in Rids : ~Exists(r) /\ winners[r] = <<>>
  BY DEF Init, Exists
<1>2. \A u \in Users : users[u] = 0
  BY DEF Init
<1>3. next_rid \in 1 .. (MaxRooms + 1)
  BY MaxRoomsAssumption DEF Init
<1>4. winners \in [Rids -> Seq(Users)]
  BY DEF Init
<1>5. TypeOK
  BY <1>3, <1>4 DEF Init, TypeOK
<1> QED
  BY <1>1, <1>2, <1>5 DEF IInv, EntryLeadsToOwnRoom, OverWhenSettled, UnusedInv

(* create_room keeps the invariant: the id is fresh, and insert only fills *)
(* empty entries.                                                          *)
LEMMA CreateInv ==
  ASSUME IInv, NEW u \in Users, NEW v \in Users, create_room(u, v)
  PROVE  IInv'
<1> DEFINE new == [statu |-> "GAME_START", player_count |-> 2, white_id |-> u, black_id |-> v]
<1>1. /\ next_rid \in Rids /\ next_rid' = next_rid + 1
      /\ rooms' = [rooms EXCEPT ![next_rid] = new]
      /\ UNCHANGED <<hall_user, room_user, page, refused, winners>>
  BY DEF create_room
<1>2. new \in Room /\ new # NoRoom
  BY NoRoomAssumption DEF Room
<1>3. \A w \in Users : users'[w] = users[w] \/ (w \in {u, v} /\ users'[w] = next_rid)
  BY DEF create_room, Inserted, IInv, TypeOK
<1>4. users' \in [Users -> {0} \union Rids]
  BY DEF create_room, Inserted, IInv, TypeOK
<1>5. rooms' \in [Rids -> Room \union {NoRoom}]
  BY <1>1, <1>2 DEF IInv, TypeOK
<1>6. next_rid' \in 1 .. (MaxRooms + 1)
  BY <1>1, MaxRoomsAssumption DEF Rids
<1>7. TypeOK'
  BY <1>1, <1>4, <1>5, <1>6 DEF IInv, TypeOK
<1>8. ~Exists(next_rid) /\ winners[next_rid] = <<>>
  BY <1>1, MaxRoomsAssumption DEF IInv, UnusedInv, Rids
<1>9. rooms'[next_rid] = new /\ \A r \in Rids : r # next_rid => rooms'[r] = rooms[r]
  BY <1>1 DEF IInv, TypeOK
<1>10. new.statu = "GAME_START" /\ new.player_count = 2 /\ new.white_id = u /\ new.black_id = v
  OBVIOUS
<1> HIDE DEF new
<1>11. EntryLeadsToOwnRoom'
  <2> SUFFICES ASSUME NEW w \in Users, users'[w] # 0
               PROVE  rooms'[users'[w]] # NoRoom
                      /\ w \in {rooms'[users'[w]].white_id, rooms'[users'[w]].black_id}
    BY DEF EntryLeadsToOwnRoom, Exists, Players
  <2>1. CASE users'[w] = next_rid /\ w \in {u, v}
    BY <2>1, <1>2, <1>9, <1>10
  <2>2. CASE users'[w] = users[w]
    <3>1. users[w] \in Rids /\ Exists(users[w]) /\ w \in Players(users[w])
      BY <2>2 DEF IInv, EntryLeadsToOwnRoom, TypeOK
    <3>2. users[w] # next_rid
      BY <3>1, <1>8
    <3> QED
      BY <2>2, <3>1, <3>2, <1>9 DEF Exists, Players
  <2> QED
    BY <2>1, <2>2, <1>3
<1>12. OverWhenSettled'
  <2> SUFFICES ASSUME NEW r \in Rids, rooms'[r] # NoRoom
               PROVE  /\ rooms'[r].player_count \in 1 .. 2
                      /\ rooms'[r].player_count < 2 => rooms'[r].statu = "GAME_OVER"
                      /\ rooms'[r].statu = "GAME_OVER" <=> winners[r] # <<>>
    BY <1>1 DEF OverWhenSettled, Exists
  <2>1. CASE r = next_rid
    BY <2>1, <1>8, <1>9, <1>10
  <2>2. CASE r # next_rid
    BY <2>2, <1>9 DEF IInv, OverWhenSettled, Exists
  <2> QED
    BY <2>1, <2>2
<1>13. UnusedInv'
  BY <1>1, <1>9, MaxRoomsAssumption DEF IInv, UnusedInv, Exists, Rids
<1> QED
  BY <1>7, <1>11, <1>12, <1>13 DEF IInv

(* Writing one result and GAME_OVER into an existing room, with one or two *)
(* players left, keeps the invariant.                                      *)
LEMMA OverInv ==
  ASSUME IInv, NEW r \in Rids, Exists(r), NEW n \in 1 .. 2,
         rooms' = [rooms EXCEPT ![r] = GameOver(r, n)],
         winners' \in [Rids -> Seq(Users)], winners'[r] # <<>>,
         \A s \in Rids : s # r => winners'[s] = winners[s],
         UNCHANGED <<users, next_rid>>
  PROVE  /\ rooms' \in [Rids -> Room \union {NoRoom}]
         /\ EntryLeadsToOwnRoom' /\ OverWhenSettled' /\ UnusedInv'
<1> DEFINE over == GameOver(r, n)
<1>1. /\ over.statu = "GAME_OVER" /\ over.player_count = n
      /\ over.white_id = rooms[r].white_id /\ over.black_id = rooms[r].black_id
  BY DEF GameOver
<1>2. rooms[r] \in Room
  BY DEF IInv, TypeOK, Exists
<1>3. over \in Room /\ over # NoRoom
  BY <1>2, NoRoomAssumption DEF GameOver, Room
<1>4. rooms'[r] = over /\ \A s \in Rids : s # r => rooms'[s] = rooms[s]
  BY DEF IInv, TypeOK
<1>5. rooms' \in [Rids -> Room \union {NoRoom}]
  BY <1>3 DEF IInv, TypeOK
<1> HIDE DEF over
<1>6. EntryLeadsToOwnRoom'
  BY <1>1, <1>3, <1>4 DEF IInv, TypeOK, EntryLeadsToOwnRoom, Exists, Players
<1>7. OverWhenSettled'
  BY <1>1, <1>3, <1>4 DEF IInv, OverWhenSettled, Exists
<1>8. UnusedInv'
  BY <1>4 DEF IInv, UnusedInv, Exists
<1> QED
  BY <1>5, <1>6, <1>7, <1>8

(* A settlement adds a player of the room to its results.                  *)
LEMMA SettledResult ==
  ASSUME IInv, NEW r \in Rids, NEW w \in Users, Settled(r, w)
  PROVE  /\ winners' \in [Rids -> Seq(Users)] /\ winners'[r] # <<>>
         /\ \A s \in Rids : s # r => winners'[s] = winners[s]
<1> DEFINE x == Append(winners[r], w)
<1>1. winners \in [Rids -> Seq(Users)]
  BY DEF IInv, TypeOK
<1>2. x \in Seq(Users) /\ x # <<>>
  BY <1>1
<1>3. winners' = [winners EXCEPT ![r] = x]
  BY DEF Settled
<1> HIDE DEF x
<1> QED
  BY <1>1, <1>2, <1>3

(* put_chess keeps the invariant.                                          *)
LEMMA ChessInv ==
  ASSUME IInv, NEW u \in Users, put_chess(u)
  PROVE  IInv'
<1> DEFINE r == page[u]
           n == rooms[r].player_count
<1>1. r \in Rids /\ Exists(r)
  BY DEF put_chess, HasRoom, IInv, TypeOK
<1>2. rooms[r] \in Room /\ n \in 1 .. 2
  BY <1>1 DEF Exists, IInv, TypeOK, OverWhenSettled
<1>3. PICK w \in ChessWinners(r, u) : Settled(r, w)
  BY DEF put_chess
<1>4. w \in Users
  BY <1>2, <1>3 DEF ChessWinners, Room
<1>5. /\ rooms' = [rooms EXCEPT ![r] = GameOver(r, n)]
      /\ UNCHANGED <<hall_user, room_user, page, refused, next_rid, users>>
  BY DEF put_chess
<1> HIDE DEF r, n
<1>6. /\ winners' \in [Rids -> Seq(Users)] /\ winners'[r] # <<>>
      /\ \A s \in Rids : s # r => winners'[s] = winners[s]
  BY <1>1, <1>3, <1>4, SettledResult
<1>7. /\ rooms' \in [Rids -> Room \union {NoRoom}]
      /\ EntryLeadsToOwnRoom' /\ OverWhenSettled' /\ UnusedInv'
  BY <1>1, <1>2, <1>5, <1>6, OverInv
<1> QED
  BY <1>5, <1>6, <1>7 DEF IInv, TypeOK

(* remove_room_user keeps the invariant: when the room goes, so does every *)
(* entry that leads to it.                                                 *)
LEMMA ExitInv ==
  ASSUME IInv, NEW u \in Users, remove_room_user(u), UNCHANGED next_rid
  PROVE  /\ rooms' \in [Rids -> Room \union {NoRoom}]
         /\ users' \in [Users -> {0} \union Rids]
         /\ winners' \in [Rids -> Seq(Users)]
         /\ EntryLeadsToOwnRoom' /\ OverWhenSettled' /\ UnusedInv'
<1>1. CASE ~HasRoom(u)
  BY <1>1 DEF remove_room_user, IInv, TypeOK, EntryLeadsToOwnRoom, OverWhenSettled, UnusedInv,
     Exists, Players
<1>2. CASE HasRoom(u)
  <2> DEFINE r == users[u]
             n == rooms[r].player_count - 1
  <2>1. r \in Rids /\ Exists(r) /\ rooms[r] \in Room /\ n \in 0 .. 1
    BY <1>2 DEF HasRoom, Exists, IInv, TypeOK, OverWhenSettled
  <2>2. /\ IF rooms[r].statu = "GAME_START"
             THEN Settled(r, Opponent(r, u)) ELSE UNCHANGED winners
        /\ IF GameOver(r, n).player_count = 0
             THEN /\ rooms' = [rooms EXCEPT ![r] = NoRoom]
                  /\ users' = [v \in Users |-> IF v \in Players(r) THEN 0 ELSE users[v]]
             ELSE /\ rooms' = [rooms EXCEPT ![r] = GameOver(r, n)]
                  /\ UNCHANGED users
    BY <1>2 DEF remove_room_user
  <2>3. GameOver(r, n).player_count = n
    BY DEF GameOver
  <2> HIDE DEF r, n
  <2>4. Opponent(r, u) \in Users
    BY <2>1 DEF Opponent, Room
  <2>5. /\ winners' \in [Rids -> Seq(Users)] /\ winners'[r] # <<>>
        /\ \A s \in Rids : s # r => winners'[s] = winners[s]
    <3>1. CASE rooms[r].statu = "GAME_START"
      BY <3>1, <2>1, <2>2, <2>4, SettledResult
    <3>2. CASE rooms[r].statu # "GAME_START"
      <4>1. rooms[r].statu = "GAME_OVER" /\ UNCHANGED winners
        BY <3>2, <2>1, <2>2 DEF Room
      <4> QED
        BY <4>1, <2>1 DEF IInv, OverWhenSettled, TypeOK
    <3> QED
      BY <3>1, <3>2
  <2>6. CASE n = 0
    <3>1. /\ rooms' = [rooms EXCEPT ![r] = NoRoom]
          /\ users' = [v \in Users |-> IF v \in Players(r) THEN 0 ELSE users[v]]
      BY <2>2, <2>3, <2>6
    <3>2. rooms'[r] = NoRoom /\ \A s \in Rids : s # r => rooms'[s] = rooms[s]
      BY <3>1, <2>1 DEF IInv, TypeOK
    <3>3. /\ rooms' \in [Rids -> Room \union {NoRoom}]
          /\ users' \in [Users -> {0} \union Rids]
      BY <3>1 DEF IInv, TypeOK
    <3>4. \A v \in Users : users'[v] # 0 => users'[v] = users[v] /\ users[v] \in Rids /\ users[v] # r
      BY <3>1 DEF IInv, TypeOK, EntryLeadsToOwnRoom
    <3>5. EntryLeadsToOwnRoom'
      BY <3>2, <3>4 DEF IInv, EntryLeadsToOwnRoom, Exists, Players
    <3>6. OverWhenSettled'
      BY <3>2, <2>5 DEF IInv, OverWhenSettled, Exists
    <3>7. UnusedInv'
      <4>1. ~(r >= next_rid)
        BY <2>1 DEF IInv, UnusedInv
      <4> QED
        BY <4>1, <3>2, <2>5 DEF IInv, UnusedInv, Exists
    <3> QED
      BY <3>3, <3>5, <3>6, <3>7, <2>5
  <2>7. CASE n # 0
    <3>1. n \in 1 .. 2 /\ rooms' = [rooms EXCEPT ![r] = GameOver(r, n)] /\ UNCHANGED users
      BY <2>1, <2>2, <2>3, <2>7
    <3>2. /\ rooms' \in [Rids -> Room \union {NoRoom}]
          /\ EntryLeadsToOwnRoom' /\ OverWhenSettled' /\ UnusedInv'
      BY <3>1, <2>1, <2>5, OverInv
    <3> QED
      BY <3>1, <3>2, <2>5 DEF IInv, TypeOK
  <2> QED
    BY <2>6, <2>7
<1> QED
  BY <1>1, <1>2

(* Every step keeps the invariant.                                         *)
LEMMA InvStep ==
  ASSUME IInv, [Next]_vars
  PROVE  IInv'
<1>1. ASSUME UNCHANGED <<rooms, users, winners, next_rid>>
      PROVE  EntryLeadsToOwnRoom' /\ OverWhenSettled' /\ UnusedInv'
  BY <1>1 DEF IInv, EntryLeadsToOwnRoom, OverWhenSettled, UnusedInv, Exists, Players
<1>2. ASSUME NEW u \in Users, wsopen_game_hall(u) \/ wsclose_game_hall(u)
      PROVE  IInv'
  BY <1>1, <1>2 DEF wsopen_game_hall, wsclose_game_hall, IInv, TypeOK
<1>3. ASSUME NEW u \in Users, wsopen_game_room(u)
      PROVE  IInv'
  BY <1>1, <1>3 DEF wsopen_game_room, HasRoom, IInv, TypeOK
<1>4. ASSUME NEW u \in Users, wsclose_game_room(u)
      PROVE  IInv'
  <2>1. remove_room_user(u) /\ UNCHANGED <<hall_user, next_rid>>
    BY <1>4 DEF wsclose_game_room
  <2>2. room_user' \subseteq Users /\ refused' \subseteq Users /\ page' \in [Users -> {0} \union Rids]
    BY <1>4 DEF wsclose_game_room, IInv, TypeOK
  <2> QED
    BY <2>1, <2>2, ExitInv DEF IInv, TypeOK
<1>5. CASE UNCHANGED vars
  BY <1>1, <1>5 DEF vars, IInv, TypeOK
<1> QED
  BY <1>2, <1>3, <1>4, <1>5, CreateInv, ChessInv DEF Next

(* Whatever players do, an entry of _users leads to an existing room of    *)
(* that user (create_room, remove_room_user).                              *)
THEOREM RoomsConsistent == Spec => [](TypeOK /\ EntryLeadsToOwnRoom)
<1>1. IInv => TypeOK /\ EntryLeadsToOwnRoom
  BY DEF IInv
<1> QED
  BY <1>1, InvInit, InvStep, PTL DEF Spec

(* A room with a player missing is over, and a room is over exactly when   *)
(* win and lose were written (handle_exit, handle_request).                *)
THEOREM RoomsSettled == Spec => []OverWhenSettled
<1>1. IInv => OverWhenSettled
  BY DEF IInv
<1> QED
  BY <1>1, InvInit, InvStep, PTL DEF Spec
=============================================================================
