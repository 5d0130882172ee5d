\* Two workers publish the report of one job while two deletion passes race.
SPECIFICATION Spec
CONSTANTS
    w1 = w1  w2 = w2  p1 = p1  p2 = p2  j1 = j1  u1 = u1  u2 = u2  None = None
    Job = {j1}
    Worker = {w1, w2}
    Pass = {p1, p2}
    Upload = {}
    Kinds = 2
    MaxAttempts = 2
    MaxFaults = 1
    MaxCrashes = 1
SYMMETRY WorkersAndPasses
INVARIANTS TypeOK PublishedIsStored SucceededIsPublished DeletedIsSettled DrainIsServed
           EvidenceLedger
PROPERTIES ReportIsStable CompletionIsFinal
CHECK_DEADLOCK FALSE
