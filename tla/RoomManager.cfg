SPECIFICATION Spec
CONSTANTS
  Users = {a, b, c}
  MaxRooms = 2
  MaxSettled = 2
  NoRoom = NoRoom
INVARIANTS EntryLeadsToOwnRoom OverWhenSettled
