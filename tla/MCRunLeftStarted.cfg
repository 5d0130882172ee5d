\* A run left started when the deletion is requested before it is recorded.
SPECIFICATION FairSpec
CONSTANTS
    w1 = w1  w2 = w2  r1 = r1  r2 = r2  j1 = j1  None = None
    Job = {j1}
    Worker = {w1}
    Request = {r1}
    MaxAttempts = 1
    MaxCrashes = 0
PROPERTIES EveryRunSettles
CHECK_DEADLOCK FALSE
