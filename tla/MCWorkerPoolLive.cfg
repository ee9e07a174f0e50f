SPECIFICATION FairSpec
CONSTANTS
    Caller = {c1, c2}
    Workers = 2
    HoldWorkers = 2
    Job <- MCShared
    MaxItems = 2
    MaxJobs = 1
    MaxHolds = 0
    Exclusive = TRUE
    Nobody = Nobody
PROPERTIES
  CallsReturn
CHECK_DEADLOCK FALSE
