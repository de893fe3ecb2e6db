SPECIFICATION FairSpec
CONSTANTS
  Keys <- EightKeys
  Null = Null
  HashKeys <- SixKeys
  HashOf <- ToItself
  FirstSize = 5
  EMPTY = EMPTY
  DELETE = DELETE
  MaxCount = 11
INVARIANTS TreesSound TablesSound
PROPERTIES InsertReturns ImplementsSet
CHECK_DEADLOCK FALSE
