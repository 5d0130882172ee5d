\* A publisher whose lease was replaced resolves its boundary from the new one.
SPECIFICATION Spec
CONSTANTS
    w1 = w1  w2 = w2  p1 = p1  p2 = p2  j1 = j1  u1 = u1  u2 = u2  None = None
    Job = {j1}
    Worker = {w1, w2}
    Pass = {}
    Upload = {}
    Kinds = 1
    MaxAttempts = 2
    MaxFaults = 0
    MaxCrashes = 0
PROPERTY HolderPublishes
CHECK_DEADLOCK FALSE
