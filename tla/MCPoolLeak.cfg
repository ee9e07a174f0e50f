SPECIFICATION Spec
CONSTANTS
    Caller = {c1, c2}
    Path = {p1}
    LaneType = {t1}
    Entry = {e1, e2}
    Lane = {l1, l2}
    MaxFiring = 1
    None = None
SYMMETRY Symmetry
INVARIANT CloseClosesEveryModel
CHECK_DEADLOCK FALSE
