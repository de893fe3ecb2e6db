SPECIFICATION MCSpec
CONSTANTS
  Attempts = {1, 2}
  Tls = {1}
  Proxied = {2}
  MaxListen = 2
  Producers = {"p1", "p2"}
  Workers = {"c1", "c2"}
  Savers = {"s1"}
  Cap = 2
  MaxTasks = 4
  MaxItems = 6
  ThreadCount = 2
  MaxId = 4
  Acceptors = {"a", "b"}
  Socks = {"s1", "s2", "s3"}
  Silent = {"s3"}
  Num = 2
  HttpThreads = {1, 2}
  Requests <- PeerRequests
  FileSize = 2
  PageSize = 1
  MaxOutput = 2
  SizeMod = 8
  Clients = {"c1", "c2"}
  Questions <- UserQuestions
  RecvSizes = {2, 4}
  MaxFailed = 1
INVARIANTS
  TransportSound
  ServedRight
  LoopsConsistent
PROPERTIES
  ImplementsBuffers
  WorkEnds
CHECK_DEADLOCK FALSE
