SPECIFICATION FairSpec
CONSTANTS
    Caller = {c1, c2}
    Path = {p1}
    LaneType = {t1}
    Entry = {e1, e2}
    Lane = {l1, l2}
    MaxFiring = 1
    None = None
INVARIANTS
  LeasedModelOpen
  LaneExclusive
  ClosedOnce
  CountdownRuns
  OnlyPublishLeaks
PROPERTIES
  NoLeaseAfterClose
  NobodyLeftBehind
CHECK_DEADLOCK FALSE
