SPECIFICATION FairSpec
CONSTANTS
  Threads = {p1, p2}
  MaxCalls = 2
INVARIANTS TypeOK NoneLostOrReordered
PROPERTIES ImplementsQueue EveryTaskRuns
