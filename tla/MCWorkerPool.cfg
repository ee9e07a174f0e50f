SPECIFICATION Spec
CONSTANTS
    Caller = {c1, c2}
    Workers = 2
    HoldWorkers = 2
    Job <- MCJob
    MaxItems = 3
    MaxJobs = 2
    MaxHolds = 1
    Exclusive = TRUE
    Nobody = Nobody
SYMMETRY Symmetry
INVARIANTS
  ItemsOnce
  WakeupsMatch
  BarrierCounts
PROPERTIES
  ImplementsBarrier
CHECK_DEADLOCK FALSE
