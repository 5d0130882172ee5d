--------------------------- MODULE ContentLifecycle ---------------------------
(***************************************************************************)
(* The content of one RRA session: what a report worker publishes          *)
(* (pipeline.py, artifact_publication.py, artifact_persistence.py), what   *)
(* an upload stores (intake.py), and how concurrent deletion passes        *)
(* (deletion.py, deletion_persistence.py, SqlDeletionRepository) remove    *)
(* both from an object store whose calls may fail or take effect late.     *)
(*                                                                         *)
(* The queue is the one of module ReportJobs without its clock: a lease    *)
(* may expire at any moment, and since a process may act on a clock        *)
(* reading taken before that, an expired lease that is still on the row    *)
(* may or may not be accepted.                                             *)
(***************************************************************************)
EXTENDS Naturals, FiniteSets

CONSTANTS
    Job,            \* report jobs of the session
    Worker,         \* worker processes
    Pass,           \* calls of delete_session_content that may run concurrently
    Upload,         \* upload requests of the session's holder
    Kinds,          \* number of artifacts of a report (REQUIRED_ARTIFACT_KINDS)
    MaxAttempts,    \* max_attempts of every job
    MaxFaults,      \* bound on object-store faults
    MaxCrashes,     \* bound on process crashes
    None

ASSUME LifecycleAssumption ==
    /\ Kinds \in Nat \ {0}
    /\ MaxAttempts \in Nat \ {0}
    /\ MaxFaults \in Nat /\ MaxCrashes \in Nat
    /\ None \notin Worker \cup Job \cup Upload
    /\ None \notin {"retries_exhausted", "content_deleted"}

VARIABLES
    requested,  \* deletion_requested_at is set
    deleted,    \* content_deleted_at is set
    job,        \* rra_report_jobs
    expired,    \* jobs whose lease has run out
    drained,    \* exhausted jobs whose drain interval has passed
    report,     \* rra_report_artifacts: job -> the execution that published, or 0
    upload,     \* rra_uploads: the session's upload, or None
    objects,    \* objects in the store, under the session's prefix
    inflight,   \* writes whose caller has given up and that may still land
    worker,     \* worker process -> where it is
    uploader,   \* upload request -> where it is
    deletion,   \* rra_deletion_jobs, and whether its backoff is over
    evidence,   \* rra_deletion_evidence: <<attempt, target, outcome>>
    pass,       \* deletion pass -> where it is
    faults, crashes

sessionVars == <<requested, deleted>>
queueVars == <<job, expired, drained>>
rowVars == <<report, upload>>
storeVars == <<objects, inflight>>
deletionVars == <<deletion, evidence>>
procVars == <<worker, uploader, pass>>
boundVars == <<faults, crashes>>
vars == <<requested, deleted, job, expired, drained, report, upload, objects,
          inflight, worker, uploader, deletion, evidence, pass, faults, crashes>>

(***************************************************************************)
(* Types                                                                   *)
(***************************************************************************)
Attempt == 1..MaxAttempts
Claimable == {"queued", "retryable"}
Terminal == {"succeeded", "dead_lettered"}

\* An execution of a job is named by the attempt it leased.  Its object keys
\* carry a fresh attempt identity, so no two executions share one.
ArtifactKey == Job \X Attempt \X (1..Kinds)
Key == ArtifactKey \cup Upload
Keys(j, n) == {<<j, n, k>> : k \in 1..Kinds}

\* An upload is stored under inputs/, an artifact under reports/.
ASSUME KeysAssumption == ArtifactKey \cap Upload = {}

\* The rows a deletion has to account for, by the object key each one names:
\* the session's upload and every artifact of every published report.
Published(j) == IF report[j] = 0 THEN {} ELSE Keys(j, report[j])
Targets == (UNION {Published(j) : j \in Job}) \cup ({upload} \ {None})

Live == ~ requested /\ ~ deleted

JobRow ==
    [state : Claimable \cup Terminal \cup {"absent", "running"},
     owner : Worker \cup {None},
     attempt : 0..MaxAttempts,
     reason : {"retries_exhausted", "content_deleted", None}]

WorkerPC == {"idle", "leasing", "finding", "rendering", "bounding", "storing", "committing",
             "reconciling", "rolling_back", "succeeding", "failing"}

WorkerState ==
    [pc : WorkerPC, job : Job \cup {None}, attempt : 0..MaxAttempts,
     owner : Worker \cup {None},        \* ArtifactBoundary.lease_owner
     fence : 0..MaxAttempts,            \* ArtifactBoundary.attempt_number
     stored : 0..Kinds]                 \* artifacts put so far

UploaderPC == {"idle", "streaming", "recording", "discarding", "done"}

DeletionRow ==
    [state : {"none", "pending", "retryable", "complete"},
     attempt : Nat,
     due : BOOLEAN]                     \* next_retry_at has passed

PassPC == {"idle", "deferring", "targeting", "sweeping", "removing",
           "completing", "failing"}

PassState ==
    [pc : PassPC,
     attempt : Nat,                     \* DeletionJob.attempt_count as begin read it
     backingOff : BOOLEAN,
     drained : SUBSET Job,              \* drains that have passed at its now
     targets : SUBSET Key,
     failed : SUBSET Key]

\* The type invariant.
TypeOK ==
    /\ requested \in BOOLEAN /\ deleted \in BOOLEAN
    /\ job \in [Job -> JobRow]
    /\ expired \in SUBSET Job /\ drained \in SUBSET Job
    /\ report \in [Job -> 0..MaxAttempts]
    /\ upload \in Upload \cup {None}
    /\ objects \in SUBSET Key /\ inflight \in SUBSET Key
    /\ worker \in [Worker -> WorkerState]
    /\ uploader \in [Upload -> UploaderPC]
    /\ deletion \in DeletionRow
    /\ evidence \subseteq Nat \X Key \X {"deleted", "failed"}
    /\ pass \in [Pass -> PassState]
    /\ faults \in Nat /\ crashes \in Nat

NoJob == [state |-> "absent", owner |-> None, attempt |-> 0, reason |-> None]

IdleWorker == [pc |-> "idle", job |-> None, attempt |-> 0, owner |-> None,
               fence |-> 0, stored |-> 0]

IdlePass == [pc |-> "idle", attempt |-> 0, backingOff |-> FALSE,
             drained |-> {}, targets |-> {}, failed |-> {}]

Init ==
    /\ requested = FALSE /\ deleted = FALSE
    /\ job = [j \in Job |-> NoJob]
    /\ expired = {} /\ drained = {}
    /\ report = [j \in Job |-> 0]
    /\ upload = None
    /\ objects = {} /\ inflight = {}
    /\ worker = [w \in Worker |-> IdleWorker]
    /\ uploader = [u \in Upload |-> "idle"]
    /\ deletion = [state |-> "none", attempt |-> 0, due |-> FALSE]
    /\ evidence = {}
    /\ pass = [p \in Pass |-> IdlePass]
    /\ faults = 0 /\ crashes = 0

\* The object store fails one more call.
Fault == faults < MaxFaults /\ faults' = faults + 1

(***************************************************************************)
(* The queue                                                               *)
(***************************************************************************)
Enqueue(j) ==
    /\ Live
    /\ job[j].state = "absent"
    /\ job' = [job EXCEPT ![j].state = "queued"]
    /\ UNCHANGED <<sessionVars, expired, drained, rowVars, storeVars, deletionVars,
                   procVars, boundVars>>

Due(j) == job[j].state \in Claimable /\ job[j].attempt < MaxAttempts

\* The lease statement takes its snapshot, of the session too.
Claim(w, j) ==
    /\ worker[w].pc = "idle"
    /\ Live
    /\ Due(j)
    /\ worker' = [worker EXCEPT ![w].pc = "leasing", ![w].job = j]
    /\ UNCHANGED <<sessionVars, queueVars, rowVars, storeVars, deletionVars,
                   uploader, pass, boundVars>>

\* A bug: the row is leased as the snapshot showed it.
LeaseUntested(w) ==
    /\ worker[w].pc = "leasing"
    /\ job' = [job EXCEPT ![worker[w].job].state = "running", ![worker[w].job].owner = w,
                       ![worker[w].job].attempt = @ + 1]
    /\ worker' = [worker EXCEPT ![w].pc = "finding",
                                ![w].attempt = job[worker[w].job].attempt + 1]
    /\ UNCHANGED <<sessionVars, expired, drained, rowVars, storeVars, deletionVars,
                   uploader, pass, boundVars>>

\* It locks the job row and tests that row again, but not the session.
Lease(w) ==
    /\ worker[w].pc = "leasing"
    /\ LET j == worker[w].job
       IN  IF Due(j)
             THEN /\ job' = [job EXCEPT ![j].state = "running", ![j].owner = w,
                                         ![j].attempt = @ + 1]
                  /\ expired' = expired \ {j}
                  /\ worker' = [worker EXCEPT ![w].pc = "finding",
                                              ![w].attempt = job[j].attempt + 1]
             ELSE /\ worker' = [worker EXCEPT ![w] = IdleWorker]
                  /\ UNCHANGED <<job, expired>>
    /\ UNCHANGED <<sessionVars, drained, rowVars, storeVars, deletionVars,
                   uploader, pass, boundVars>>

LeaseExpires(j) ==
    /\ job[j].state = "running" /\ j \notin expired
    /\ expired' = expired \cup {j}
    /\ UNCHANGED <<sessionVars, job, drained, rowVars, storeVars, deletionVars,
                   procVars, boundVars>>

GivenUp(r) ==
    IF r.attempt >= MaxAttempts
      THEN [r EXCEPT !.state = "dead_lettered", !.owner = None, !.reason = "retries_exhausted"]
      ELSE [r EXCEPT !.state = "retryable", !.owner = None]

Reclaim(j) ==
    /\ job[j].state = "running" /\ j \in expired
    /\ job' = [job EXCEPT ![j] = GivenUp(@)]
    /\ UNCHANGED <<sessionVars, expired, drained, rowVars, storeVars, deletionVars,
                   procVars, boundVars>>

\* Whether the row carries a lease of w, expired or not, and whether a process
\* that reads the clock may find it gone.
OnRow(w, j) == job[j].state = "running" /\ job[j].owner = w
MayBeLost(w, j) == ~ OnRow(w, j) \/ j \in expired

(***************************************************************************)
(* A worker executes a job: ReportPipeline.run, then                       *)
(* ReportArtifactPublisher.publish, then the settlement of the lease       *)
(***************************************************************************)
Goto(w, pc) == worker' = [worker EXCEPT ![w].pc = pc]
At(w, pc) == worker[w].pc = pc

\* find_delivery, before any stage: a delivered job is not rendered again.
FindDelivery(w) ==
    /\ At(w, "finding")
    /\ Goto(w, IF report[worker[w].job] # 0 THEN "succeeding" ELSE "rendering")
    /\ UNCHANGED <<sessionVars, queueVars, rowVars, storeVars, deletionVars,
                   uploader, pass, boundVars>>

\* load_package, compose_narrative and assemble, with the lease renewed after
\* each.  The package is content: a completed deletion has removed it.
Render(w) ==
    /\ At(w, "rendering")
    /\ ~ deleted
    /\ OnRow(w, worker[w].job)
    /\ expired' = expired \ {worker[w].job}
    /\ Goto(w, "bounding")
    /\ UNCHANGED <<sessionVars, job, drained, rowVars, storeVars, deletionVars,
                   uploader, pass, boundVars>>

\* A heartbeat between two stages finds the lease gone: the run is abandoned.
HeartbeatLost(w) ==
    /\ At(w, "rendering")
    /\ MayBeLost(w, worker[w].job)
    /\ worker' = [worker EXCEPT ![w] = IdleWorker]
    /\ UNCHANGED <<sessionVars, queueVars, rowVars, storeVars, deletionVars,
                   uploader, pass, boundVars>>

\* A stage, a database read or the boundary check raises.
StageRaises(w) ==
    /\ worker[w].pc \in {"finding", "rendering", "bounding"}
    /\ Goto(w, "failing")
    /\ UNCHANGED <<sessionVars, queueVars, rowVars, storeVars, deletionVars,
                   uploader, pass, boundVars>>

\* publish: answer a report that exists (the bundle has the same name only when
\* the prose came out the same; otherwise it raises), or resolve the boundary
\* from the lease that is on the row now, whoever holds it.
Boundary(w) ==
    /\ At(w, "bounding")
    /\ LET j == worker[w].job
       IN  \/ /\ report[j] # 0
              /\ Goto(w, "succeeding")
           \/ /\ report[j] = 0
              /\ job[j].state = "running"
              /\ Live
              /\ worker' = [worker EXCEPT ![w].pc = "storing", ![w].owner = job[j].owner,
                                          ![w].fence = job[j].attempt]
    /\ UNCHANGED <<sessionVars, queueVars, rowVars, storeVars, deletionVars,
                   uploader, pass, boundVars>>

NextKey(w) == <<worker[w].job, worker[w].attempt, worker[w].stored + 1>>
StoredKeys(w) == {<<worker[w].job, worker[w].attempt, k>> : k \in 1..worker[w].stored}

\* A bug: one artifact too many.
PutOffByOne(w) ==
    /\ At(w, "storing")
    /\ objects' = objects \cup {NextKey(w)}
    /\ worker' = [worker EXCEPT ![w].stored = @ + 1,
                                ![w].pc = IF worker[w].stored > Kinds
                                            THEN "committing" ELSE "storing"]
    /\ UNCHANGED <<sessionVars, queueVars, rowVars, inflight, deletionVars,
                   uploader, pass, boundVars>>

Put(w) ==
    /\ At(w, "storing")
    /\ objects' = objects \cup {NextKey(w)}
    /\ worker' = [worker EXCEPT ![w].stored = @ + 1,
                                ![w].pc = IF worker[w].stored + 1 = Kinds
                                            THEN "committing" ELSE "storing"]
    /\ UNCHANGED <<sessionVars, queueVars, rowVars, inflight, deletionVars,
                   uploader, pass, boundVars>>

\* The put raises; the store may not have seen it, or may apply it later.
PutFails(w) ==
    /\ At(w, "storing")
    /\ Fault
    /\ \E late \in SUBSET {NextKey(w)} : inflight' = inflight \cup late
    /\ Goto(w, "rolling_back")
    /\ UNCHANGED <<sessionVars, queueVars, rowVars, objects, deletionVars,
                   uploader, pass, crashes>>

\* A bug: the commit trusts the boundary's test of the session.
FencedByLease(w) ==
    LET j == worker[w].job
    IN  /\ job[j].state = "running"
        /\ job[j].owner = worker[w].owner
        /\ job[j].attempt = worker[w].fence

\* _active_publication_job and _require_live_session, under their row locks.
Fenced(w) ==
    LET j == worker[w].job
    IN  /\ job[j].state = "running"
        /\ job[j].owner = worker[w].owner
        /\ job[j].attempt = worker[w].fence
        /\ Live

\* Delivery record and artifact rows in one transaction.  The client may lose
\* the answer, in which case the publisher asks what became of the commit.
Commit(w) ==
    /\ At(w, "committing")
    /\ Fenced(w)
    /\ report[worker[w].job] = 0
    /\ report' = [report EXCEPT ![worker[w].job] = worker[w].attempt]
    /\ \/ Goto(w, "succeeding") /\ UNCHANGED faults
       \/ Goto(w, "reconciling") /\ Fault
    /\ UNCHANGED <<sessionVars, queueVars, upload, storeVars, deletionVars,
                   uploader, pass, crashes>>

\* The lease, the session or the existing rows refuse the commit, or the
\* connection is lost before it took effect.
CommitRefused(w) ==
    /\ At(w, "committing")
    /\ \/ (~ Fenced(w) \/ worker[w].job \in expired) /\ UNCHANGED faults
       \/ report[worker[w].job] # 0 /\ UNCHANGED faults
       \/ Fault
    /\ Goto(w, "reconciling")
    /\ UNCHANGED <<sessionVars, queueVars, rowVars, storeVars, deletionVars,
                   uploader, pass, crashes>>

\* Two bugs: an unknown outcome is taken for a failure, or for a success.
ReconcileAsFailure(w) ==
    /\ At(w, "reconciling")
    /\ Goto(w, "rolling_back")
    /\ UNCHANGED <<sessionVars, queueVars, rowVars, storeVars, deletionVars,
                   uploader, pass, boundVars>>

ReconcileAsSuccess(w) ==
    /\ At(w, "reconciling")
    /\ Goto(w, "succeeding")
    /\ UNCHANGED <<sessionVars, queueVars, rowVars, storeVars, deletionVars,
                   uploader, pass, boundVars>>

\* is_committed: did exactly this execution's artifacts reach the database?
Reconcile(w) ==
    /\ At(w, "reconciling")
    /\ \/ /\ Goto(w, IF report[worker[w].job] = worker[w].attempt
                       THEN "succeeding" ELSE "rolling_back")
          /\ UNCHANGED faults
       \/ Goto(w, "failing") /\ Fault
    /\ UNCHANGED <<sessionVars, queueVars, rowVars, storeVars, deletionVars,
                   uploader, pass, crashes>>

\* _rollback deletes what this execution created, last first, and stops at the
\* first delete that fails.
Rollback(w) ==
    /\ At(w, "rolling_back")
    /\ \/ objects' = objects \ StoredKeys(w) /\ UNCHANGED faults
       \/ /\ \E k \in 1..worker[w].stored :
                objects' = objects \ {x \in StoredKeys(w) : x[3] > k}
          /\ Fault
    /\ Goto(w, "failing")
    /\ UNCHANGED <<sessionVars, queueVars, rowVars, inflight, deletionVars,
                   uploader, pass, crashes>>

\* jobs.complete, jobs.fail, or LeaseLost from either.
Settle(w) ==
    /\ worker[w].pc \in {"succeeding", "failing"}
    /\ LET j == worker[w].job
       IN  \/ /\ OnRow(w, j)
              /\ job' = [job EXCEPT ![j] =
                           IF At(w, "failing") THEN GivenUp(@)
                           ELSE [@ EXCEPT !.state = "succeeded", !.owner = None]]
           \/ MayBeLost(w, j) /\ UNCHANGED job
    /\ worker' = [worker EXCEPT ![w] = IdleWorker]
    /\ UNCHANGED <<sessionVars, expired, drained, rowVars, storeVars, deletionVars,
                   uploader, pass, boundVars>>

\* The process dies; a put it was making may still land.
Crash(w) ==
    /\ ~ At(w, "idle")
    /\ crashes < MaxCrashes
    /\ crashes' = crashes + 1
    /\ \E late \in SUBSET (IF At(w, "storing") THEN {NextKey(w)} ELSE {}) :
          inflight' = inflight \cup late
    /\ worker' = [worker EXCEPT ![w] = IdleWorker]
    /\ UNCHANGED <<sessionVars, queueVars, rowVars, objects, deletionVars,
                   uploader, pass, faults>>

(***************************************************************************)
(* The object store applies, or drops, a write its caller gave up on       *)
(***************************************************************************)
Land(x) ==
    /\ x \in inflight
    /\ inflight' = inflight \ {x}
    /\ objects' \in {objects, objects \cup {x}}
    /\ UNCHANGED <<sessionVars, queueVars, rowVars, deletionVars, procVars, boundVars>>

\* The drain interval of an exhausted job passes.  It is the code's assumption
\* that a publisher of the job can write no more by then.
Drain(j) ==
    /\ job[j].reason = "retries_exhausted" /\ j \notin drained
    /\ \A w \in Worker : At(w, "storing") => worker[w].job # j
    /\ \A x \in inflight : x \notin Upload => x[1] # j
    /\ drained' = drained \cup {j}
    /\ UNCHANGED <<sessionVars, job, expired, rowVars, storeVars, deletionVars,
                   procVars, boundVars>>

(***************************************************************************)
(* An upload: IntakeService.begin, the streamed body, then _complete.  The *)
(* session is read once, in begin; _complete tests that same copy.         *)
(***************************************************************************)
Upl(u, pc) == uploader' = [uploader EXCEPT ![u] = pc]

BeginUpload(u) ==
    /\ uploader[u] = "idle"
    /\ ~ requested
    /\ upload = None
    /\ Upl(u, "streaming")
    /\ UNCHANGED <<sessionVars, queueVars, rowVars, storeVars, deletionVars,
                   worker, pass, boundVars>>

\* The body is refused, the expiry passed, or the client went away.
AbandonUpload(u) ==
    /\ uploader[u] = "streaming"
    /\ Upl(u, "done")
    /\ UNCHANGED <<sessionVars, queueVars, rowVars, storeVars, deletionVars,
                   worker, pass, boundVars>>

StoreUpload(u) ==
    /\ uploader[u] = "streaming"
    /\ \/ /\ objects' = objects \cup {u}
          /\ Upl(u, "recording")
          /\ UNCHANGED <<inflight, faults>>
       \/ /\ \E late \in SUBSET {u} : inflight' = inflight \cup late
          /\ Upl(u, "done")
          /\ Fault
          /\ UNCHANGED objects
    /\ UNCHANGED <<sessionVars, queueVars, rowVars, deletionVars, worker, pass, crashes>>

\* add_upload: one row per session, by its unique constraint.
RecordUpload(u) ==
    /\ uploader[u] = "recording"
    /\ IF upload = None
         THEN upload' = u /\ Upl(u, "done")
         ELSE UNCHANGED upload /\ Upl(u, "discarding")
    /\ UNCHANGED <<sessionVars, queueVars, report, storeVars, deletionVars,
                   worker, pass, boundVars>>

\* add_upload raises: the object is deleted, whatever became of the insert.
RecordUploadFails(u) ==
    /\ uploader[u] = "recording"
    /\ Fault
    /\ upload' \in {upload, IF upload = None THEN u ELSE upload}
    /\ Upl(u, "discarding")
    /\ UNCHANGED <<sessionVars, queueVars, report, storeVars, deletionVars,
                   worker, pass, crashes>>

DiscardUpload(u) ==
    /\ uploader[u] = "discarding"
    /\ \/ objects' = objects \ {u} /\ UNCHANGED faults
       \/ Fault /\ UNCHANGED objects
    /\ Upl(u, "done")
    /\ UNCHANGED <<sessionVars, queueVars, rowVars, inflight, deletionVars,
                   worker, pass, crashes>>

\* The process that serves the upload dies.
CrashUpload(u) ==
    /\ uploader[u] \in {"streaming", "recording", "discarding"}
    /\ crashes < MaxCrashes
    /\ crashes' = crashes + 1
    /\ \E late \in SUBSET (IF uploader[u] = "streaming" THEN {u} ELSE {}) :
          inflight' = inflight \cup late
    /\ Upl(u, "done")
    /\ UNCHANGED <<sessionVars, queueVars, rowVars, objects, deletionVars,
                   worker, pass, faults>>

(***************************************************************************)
(* A deletion pass: DeletionService.delete_session_content, called by the  *)
(* holder's request and by every sweep once the content has expired        *)
(***************************************************************************)
BackingOff == deletion.state = "retryable" /\ deletion.attempt > 0 /\ ~ deletion.due

\* begin, under the lock of the session row; the first call also closes the
\* session.  The pass's now may be older than the moment begin runs, so it may
\* not count a drain that has just passed.
Begin(p, seen) ==
    /\ pass[p].pc = "idle"
    /\ deletion.state # "complete"
    /\ seen \subseteq drained
    /\ requested' = TRUE
    /\ deletion' = IF deletion.state = "none" THEN [deletion EXCEPT !.state = "pending"]
                                              ELSE deletion
    /\ pass' = [pass EXCEPT ![p] = [IdlePass EXCEPT !.pc = "deferring",
                                                    !.attempt = deletion.attempt,
                                                    !.backingOff = BackingOff,
                                                    !.drained = seen]]
    /\ UNCHANGED <<deleted, queueVars, rowVars, storeVars, evidence, worker, uploader,
                   boundVars>>

SettledUnleased ==
    [j \in Job |-> IF job[j].state \in Claimable
                     THEN [job[j] EXCEPT !.state = "dead_lettered", !.reason = "content_deleted"]
                     ELSE job[j]]

\* Two bugs: a deferral taken for any reason counts as the drain, or the drain
\* never ends.
NeedsDrainUnlessDeferred(p) ==
    /\ deletion.state = "pending"
    /\ \E j \in Job : job[j].reason = "retries_exhausted" /\ j \notin pass[p].drained

NeedsDrainAlways(p) ==
    /\ deletion.attempt = 0
    /\ \E j \in Job : job[j].reason = "retries_exhausted"

NeedsDrain(p) ==
    /\ deletion.attempt = 0
    /\ \E j \in Job : job[j].reason = "retries_exhausted" /\ j \notin pass[p].drained

AllSettled(rows) == \A j \in Job : rows[j].state \in Terminal \cup {"absent"}

\* A bug: without the constraint nothing stops the deferral.
MayAlwaysDefer == TRUE

\* ck_deletion_completion: a row is complete exactly when it has a completion
\* time, so a deferral of a complete row is rolled back with its transaction.
MayDefer == deletion.state # "complete"

\* defer_for_publication, then the backoff of an earlier failure.
Defer(p) ==
    /\ pass[p].pc = "deferring"
    /\ LET wait == NeedsDrain(p) \/ ~ AllSettled(SettledUnleased)
           stop == wait \/ pass[p].backingOff
       IN  /\ job' = IF wait /\ ~ MayDefer THEN job ELSE SettledUnleased
           /\ deletion' = IF wait /\ MayDefer THEN [deletion EXCEPT !.state = "retryable",
                                                                     !.due = FALSE]
                                              ELSE deletion
           /\ pass' = [pass EXCEPT ![p] = IF stop THEN IdlePass
                                           ELSE [@ EXCEPT !.pc = "targeting"]]
    /\ UNCHANGED <<sessionVars, expired, drained, rowVars, storeVars, evidence,
                   worker, uploader, boundVars>>

GetTargets(p) ==
    /\ pass[p].pc = "targeting"
    /\ pass' = [pass EXCEPT ![p].pc = "sweeping", ![p].targets = Targets]
    /\ UNCHANGED <<sessionVars, queueVars, rowVars, storeVars, deletionVars,
                   worker, uploader, boundVars>>

\* abort_multipart_uploads and delete_prefix, whose last listing confirms that
\* nothing is left.
SweepPrefix(p) ==
    /\ pass[p].pc = "sweeping"
    /\ objects' = {}
    /\ pass' = [pass EXCEPT ![p].pc = IF pass[p].targets = {} THEN "completing"
                                                              ELSE "removing"]
    /\ UNCHANGED <<sessionVars, queueVars, rowVars, inflight, deletionVars,
                   worker, uploader, boundVars>>

\* Some objects may be gone when it fails.  Without targets there is nothing to
\* record evidence about.
SweepPrefixFails(p) ==
    /\ pass[p].pc = "sweeping"
    /\ Fault
    /\ \E gone \in SUBSET objects : objects' = objects \ gone
    /\ pass' = [pass EXCEPT ![p] = IF @.targets = {} THEN IdlePass
                                    ELSE [@ EXCEPT !.pc = "failing", !.failed = pass[p].targets]]
    /\ UNCHANGED <<sessionVars, queueVars, rowVars, inflight, deletionVars,
                   worker, uploader, crashes>>

\* Every target is deleted by its own key, whatever happens to the others.
RemoveTargets(p) ==
    /\ pass[p].pc = "removing"
    /\ \E failed \in SUBSET pass[p].targets :
          /\ objects' = objects \ (pass[p].targets \ failed)
          /\ pass' = [pass EXCEPT ![p].failed = failed,
                        ![p].pc = IF failed = {} THEN "completing" ELSE "failing"]
          /\ IF failed = {} THEN UNCHANGED faults ELSE Fault
    /\ UNCHANGED <<sessionVars, queueVars, rowVars, inflight, deletionVars,
                   worker, uploader, crashes>>

\* A bug: an attempt recorded by a racing pass is not noticed.
OvertakenByCompletion(p) == deletion.state = "complete"

\* A racing pass has completed the deletion or recorded an attempt (#576), whose
\* number the evidence would repeat.
Overtaken(p) == deletion.state = "complete" \/ deletion.attempt # pass[p].attempt

Evidence(p) ==
    {<<pass[p].attempt + 1, t, IF t \in pass[p].failed THEN "failed" ELSE "deleted">> :
        t \in pass[p].targets}

\* SqlDeletionRepository.complete: refused when overtaken, and when the rows
\* are no longer the ones the pass has evidence for.
CompletePass(p) ==
    /\ pass[p].pc = "completing"
    /\ IF Overtaken(p) \/ pass[p].targets # Targets
         THEN UNCHANGED <<deleted, report, upload, deletion, evidence>>
         ELSE /\ deleted' = TRUE
              /\ evidence' = evidence \cup Evidence(p)
              /\ report' = [j \in Job |-> 0]
              /\ upload' = None
              /\ deletion' = [deletion EXCEPT !.state = "complete",
                                 !.attempt = IF pass[p].targets = {} THEN @ ELSE @ + 1]
    /\ pass' = [pass EXCEPT ![p] = IdlePass]
    /\ UNCHANGED <<requested, queueVars, storeVars, worker, uploader, boundVars>>

\* SqlDeletionRepository.fail: the attempt is recorded and a retry scheduled.
FailPass(p) ==
    /\ pass[p].pc = "failing"
    /\ IF Overtaken(p)
         THEN UNCHANGED deletionVars
         ELSE /\ evidence' = evidence \cup Evidence(p)
              /\ deletion' = [state |-> "retryable", attempt |-> deletion.attempt + 1,
                              due |-> FALSE]
    /\ pass' = [pass EXCEPT ![p] = IdlePass]
    /\ UNCHANGED <<sessionVars, queueVars, rowVars, storeVars, worker, uploader, boundVars>>

RetryDue ==
    /\ BackingOff
    /\ deletion' = [deletion EXCEPT !.due = TRUE]
    /\ UNCHANGED <<sessionVars, queueVars, rowVars, storeVars, evidence, procVars, boundVars>>

\* The process that runs the pass dies.
CrashPass(p) ==
    /\ pass[p].pc # "idle"
    /\ crashes < MaxCrashes
    /\ crashes' = crashes + 1
    /\ pass' = [pass EXCEPT ![p] = IdlePass]
    /\ UNCHANGED <<sessionVars, queueVars, rowVars, storeVars, deletionVars,
                   worker, uploader, faults>>

(***************************************************************************)
(* The specification                                                       *)
(***************************************************************************)
QueueStep(j) == Enqueue(j) \/ LeaseExpires(j) \/ Reclaim(j) \/ Drain(j)

RunStep(w) ==
    \/ Lease(w) \/ FindDelivery(w) \/ Render(w) \/ HeartbeatLost(w) \/ StageRaises(w) \/ Boundary(w)
    \/ Put(w) \/ PutFails(w) \/ Commit(w) \/ CommitRefused(w) \/ Reconcile(w)
    \/ Rollback(w) \/ Settle(w)

WorkerStep(w) == (\E j \in Job : Claim(w, j)) \/ RunStep(w) \/ Crash(w)

UploadStep(u) ==
    \/ BeginUpload(u) \/ AbandonUpload(u) \/ StoreUpload(u) \/ RecordUpload(u)
    \/ RecordUploadFails(u) \/ DiscardUpload(u)

PassStep(p) ==
    \/ Defer(p) \/ GetTargets(p) \/ SweepPrefix(p) \/ SweepPrefixFails(p)
    \/ RemoveTargets(p) \/ CompletePass(p) \/ FailPass(p)

Next ==
    \/ \E j \in Job : QueueStep(j)
    \/ \E w \in Worker : WorkerStep(w)
    \/ \E u \in Upload : UploadStep(u) \/ CrashUpload(u)
    \/ \E x \in inflight : Land(x)
    \/ \E p \in Pass : (\E seen \in SUBSET drained : Begin(p, seen))
                        \/ PassStep(p) \/ CrashPass(p)
    \/ RetryDue

Spec == Init /\ [][Next]_vars

\* Workers, uploads and passes run to their end, recovery runs before every
\* claim and in every sweep, abandoned writes land or die, time passes, and
\* every sweep calls the deletion again until it is complete: not every call
\* works with a clock reading so old that it misses a drain that is over.
Fairness ==
    /\ \A w \in Worker : WF_vars(RunStep(w))
    /\ \A j \in Job : WF_vars(LeaseExpires(j)) /\ WF_vars(Reclaim(j)) /\ WF_vars(Drain(j))
    /\ \A u \in Upload : WF_vars(UploadStep(u))
    /\ WF_vars(\E x \in inflight : Land(x))
    /\ \A p \in Pass : SF_vars(Begin(p, drained)) /\ WF_vars(PassStep(p))
    /\ WF_vars(RetryDue)

FairSpec == Spec /\ Fairness

(***************************************************************************)
(* Safety                                                                  *)
(***************************************************************************)
\* Until a deletion is requested every artifact of a published report is in
\* the store: no rollback of a losing, reclaimed or confused publisher (one
\* that lost the answer to its commit) removes an object a row names.
PublishedIsStored == Live => \A j \in Job : Published(j) \subseteq objects

\* A job is succeeded only with its report published, until the deletion of the
\* session completes.
SucceededIsPublished ==
    \A j \in Job : job[j].state = "succeeded" /\ ~ deleted => report[j] # 0

\* When the deletion is complete no job can run any more, and no row of a
\* report is left, although publishers ran while the deletion was under way.
DeletedIsSettled == deleted => AllSettled(job) /\ \A j \in Job : report[j] = 0

\* The drain keeps its promise: once the deletion is complete, no object of a
\* job that exhausted its attempts is in the store, now or later.
DrainIsServed ==
    deleted => \A x \in objects : x \in Upload \/ job[x[1]].reason # "retries_exhausted"

\* The evidence accounts for the attempts: racing passes record each attempt
\* once, an attempt is recorded about at least one target and with one outcome
\* for each, an attempt that does not complete the deletion reports a failure,
\* and the one that completes it reports none.
EvidenceLedger ==
    /\ {e[1] : e \in evidence} = 1..deletion.attempt
    /\ \A e, f \in evidence : e[1] = f[1] /\ e[2] = f[2] => e = f
    /\ \A n \in 1..deletion.attempt :
          (\E e \in evidence : e[1] = n /\ e[3] = "failed")
            <=> ~ (deletion.state = "complete" /\ n = deletion.attempt)

\* A completed deletion removes every trace of the session from the store.
NothingIsLeft == deleted => objects = {}

\* A completed deletion leaves no upload behind.
NoUploadIsLeft == deleted => upload = None /\ objects \cap Upload = {}

(***************************************************************************)
(* Action properties                                                       *)
(***************************************************************************)
\* A published report is never replaced by another execution's and is removed
\* only by the pass that completes the deletion; nothing is published once the
\* deletion is requested.
ReportIsStable ==
    [][\A j \in Job : report'[j] # report[j] =>
          \/ report[j] = 0 /\ Live
          \/ report'[j] = 0 /\ ~ deleted /\ deleted']_vars

\* A complete deletion is final: no racing pass reopens it, adds evidence to it
\* or completes it a second time.
CompletionIsFinal ==
    [][deletion.state = "complete" => UNCHANGED <<deletion, evidence, deleted>>]_vars

\* Only the worker that holds the lease publishes: what is published is the
\* execution the job row counts.
HolderPublishes ==
    [][\A j \in Job : report'[j] \notin {0, report[j]} => report'[j] = job[j].attempt]_vars

(***************************************************************************)
(* Liveness, under FairSpec                                                *)
(***************************************************************************)
\* A requested deletion completes, whatever fails on the way, as long as the
\* store does not fail forever.
DeletionCompletes == requested ~> deleted
===============================================================================
