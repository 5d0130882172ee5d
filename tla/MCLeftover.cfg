\* A publisher reclaimed before its last attempt writes after the deletion.
SPECIFICATION Spec
CONSTANTS
    w1 = w1  w2 = w2  p1 = p1  p2 = p2  j1 = j1  u1 = u1  u2 = u2  None = None
    Job = {j1}
    Worker = {w1}
    Pass = {p1}
    Upload = {}
    Kinds = 1
    MaxAttempts = 2
    MaxFaults = 0
    MaxCrashes = 0
INVARIANT NothingIsLeft
CHECK_DEADLOCK FALSE
