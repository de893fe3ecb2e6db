SPECIFICATION FairSpec
CONSTANTS
  Modes <- AllModes
  Calls <- CallsOf
  Responses <- GoodResponses
  Codes <- SomeCodes
  MaxSends <- SendsOf
  MaxPeer = 2
CHECK_DEADLOCK FALSE
INVARIANTS
  ReportsAgree
  SendsInOrder
PROPERTY
  ConnectionsEnd
