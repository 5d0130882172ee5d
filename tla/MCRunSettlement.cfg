\* Two workers and two requests race for the run of one job, whose session may
\* be deleted.
SPECIFICATION FairSpec
CONSTANTS
    w1 = w1  w2 = w2  r1 = r1  r2 = r2  j1 = j1  None = None
    Job = {j1}
    Worker = {w1, w2}
    Request = {r1, r2}
    MaxAttempts = 2
    MaxCrashes = 1
INVARIANTS RunLedger RunFollowsJob
PROPERTIES RunsSettle
CHECK_DEADLOCK FALSE
