\* Two workers race for one job; its session's content may be deleted at any
\* moment, by the deletion service or directly.
SPECIFICATION FairSpec
CONSTANTS
    s1 = s1  s2 = s2  j1 = j1  j2 = j2  w1 = w1  w2 = w2
    None = None
    Session = {s1}
    Job = {j1}
    SessionOf <- OneJob
    Worker = {w1, w2}
    Direct = {s1}
    MaxAttempts = 2
    LeaseFor = 2
    RetryDelay = 1
    DrainInterval = 2
    MaxTime = 12
    MaxBeats = 1
    MaxCrashes = 1
INVARIANTS TypeOK RowConstraints AttemptLedger HolderIsCurrent ClearedIsSettled
PROPERTIES SettledIsFinal OnlyHolderSettles KeepsPromise JobsSettle
