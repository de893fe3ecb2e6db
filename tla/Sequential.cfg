SPECIFICATION Spec
CONSTANTS
  Rows = 3  Cols = 4  Win = 3  MaxStones = 4
  Usernames = {"a", "b"}  Persons = {"p", "q"}  Gain = 1000  MaxGames = 3  MaxQueue = 2
  Users = {11}  Sids = {1, 2}  MaxTimers = 2  MaxPages = 2
INVARIANTS
  CodecsFaithful
  ReadAsSent
  PeersAgree
  ServesAll
  GameConsistent
  SequencesHold
PROPERTY
  GetsFurther
CHECK_DEADLOCK FALSE
