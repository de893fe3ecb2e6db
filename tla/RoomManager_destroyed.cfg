SPECIFICATION Spec
CONSTANTS
  Users = {a, b}
  MaxRooms = 1
  MaxSettled = 2
  NoRoom = NoRoom
INVARIANTS RoomOutlivesItsPlayers
