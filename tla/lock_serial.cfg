\* Starts one after the other, three ids, one of which another program may take.
CONSTANTS
    Instances = {i1, i2, i3}
    Pids = {p1, p2, p3}
    Together = FALSE
    ForeignPids = {p3}
SPECIFICATION LockSpec
INVARIANTS LockTypeOK OneInstance
CHECK_DEADLOCK FALSE
