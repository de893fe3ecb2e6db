SPECIFICATION FairSpec
CONSTANTS
  Users = {u1, u2, u3}
  Tiers = {normal}
  TierOf <- OneTier
  NoUser = NoUser
  MaxStarts = 2
INVARIANTS NoPlayerForgotten OneRoomPerStart
PROPERTIES HandsAreEmptied
