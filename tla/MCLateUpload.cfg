\* An upload that began before the deletion is recorded after it.
SPECIFICATION Spec
CONSTANTS
    w1 = w1  w2 = w2  p1 = p1  p2 = p2  j1 = j1  u1 = u1  u2 = u2  None = None
    Job = {}
    Worker = {}
    Pass = {p1}
    Upload = {u1}
    Kinds = 1
    MaxAttempts = 1
    MaxFaults = 0
    MaxCrashes = 0
INVARIANT NoUploadIsLeft
CHECK_DEADLOCK FALSE
