\* An upload, a report and two racing deletion passes: the deletion completes.
SPECIFICATION FairSpec
CONSTANTS
    w1 = w1  w2 = w2  p1 = p1  p2 = p2  j1 = j1  u1 = u1  u2 = u2  None = None
    Job = {j1}
    Worker = {w1}
    Pass = {p1, p2}
    Upload = {u1}
    Kinds = 1
    MaxAttempts = 1
    MaxFaults = 1
    MaxCrashes = 1
PROPERTIES DeletionCompletes
CHECK_DEADLOCK FALSE
