---------------------------- MODULE RunSettlement -----------------------------
(***************************************************************************)
(* How the commercial workspace follows the report queue                   *)
(* (runtime/pipeline_recording.py, runtime/workspace_recording.py,         *)
(* rca/workspace/run_reports.py): a report request queues a job and then   *)
(* starts a run linked to it; the worker that settles the job, the worker  *)
(* that reconciles before each claim and the request itself may each       *)
(* complete or fail the run.  Job rows and run rows are written in         *)
(* separate transactions, by processes that may die between them.          *)
(*                                                                         *)
(* The queue is the one of module ReportJobs without its clock, as in      *)
(* module ContentLifecycle.  The jobs are those of one session whose       *)
(* content the workspace retains, so it ends by a requested deletion only. *)
(* The dataset version of the runs is not tombstoned.                      *)
(***************************************************************************)
EXTENDS Naturals

CONSTANTS
    Job,            \* report jobs of the session
    Worker,         \* worker processes
    Request,        \* report requests, one per (re)try of the client
    MaxAttempts,    \* max_attempts of every job
    MaxCrashes,     \* bound on process crashes and recording faults
    None

ASSUME SettlementAssumption ==
    /\ MaxAttempts \in Nat \ {0}
    /\ MaxCrashes \in Nat
    /\ Worker \cap Request = {}
    /\ None \notin Worker \cup Job

VARIABLES
    requested,  \* deletion_requested_at of the session is set
    job,        \* rra_report_jobs
    expired,    \* jobs whose lease has run out
    delivered,  \* jobs with a delivery and its artifacts
    run,        \* rca_analysis_runs, by the job each is linked to
    trail,      \* `completed` audit events of the run: how often started, how often ended
    actor,      \* worker or request -> where it is
    crashes

vars == <<requested, job, expired, delivered, run, trail, actor, crashes>>
queueVars == <<job, expired>>
runVars == <<run, trail>>

(***************************************************************************)
(* Types                                                                   *)
(***************************************************************************)
Claimable == {"queued", "retryable"}
Terminal == {"succeeded", "dead_lettered"}
Actor == Worker \cup Request
Verb == {"settled", "abandoned"}

JobRow ==
    [state : Claimable \cup Terminal \cup {"absent", "running"},
     owner : Worker \cup {None},
     attempt : 0..MaxAttempts]

\* Workers go idle, executing, completing or failing; requests go new, resolving,
\* linking, rereading, done; both go through the recorder: reading, checking,
\* writing.
ActorPC == {"idle", "executing", "completing", "failing",
            "new", "resolving", "linking", "rereading", "done",
            "reading", "checking", "writing"}

ActorState ==
    [pc : ActorPC,
     job : Job \cup {None},
     verb : Verb \cup {None},           \* which recorder method is running
     after : {"idle", "completing", "done"}]    \* where it returns to

\* The type invariant.
TypeOK ==
    /\ requested \in BOOLEAN
    /\ job \in [Job -> JobRow]
    /\ expired \in SUBSET Job /\ delivered \in SUBSET Job
    /\ run \in [Job -> {"none", "started", "completed", "failed"}]
    /\ trail \in [Job -> [started : Nat, ended : Nat]]
    /\ actor \in [Actor -> ActorState]
    /\ crashes \in Nat

\* Where a process is when it is between two calls.
Rest(a) ==
    [pc |-> IF a \in Worker THEN "idle" ELSE "done", job |-> None, verb |-> None,
     after |-> IF a \in Worker THEN "idle" ELSE "done"]

Init ==
    /\ requested = FALSE
    /\ job = [j \in Job |-> [state |-> "absent", owner |-> None, attempt |-> 0]]
    /\ expired = {} /\ delivered = {}
    /\ run = [j \in Job |-> "none"]
    /\ trail = [j \in Job |-> [started |-> 0, ended |-> 0]]
    /\ actor = [a \in Actor |->
                  IF a \in Worker THEN Rest(a) ELSE [Rest(a) EXCEPT !.pc = "new"]]
    /\ crashes = 0

At(a, pc) == actor[a].pc = pc
Goto(a, pc) == actor' = [actor EXCEPT ![a].pc = pc]
Ends(a) == actor' = [actor EXCEPT ![a] = Rest(a)]

\* The recorder is called about job j and returns to `after`.
Records(a, j, verb, after) ==
    actor' = [actor EXCEPT ![a] = [pc |-> "reading", job |-> j, verb |-> verb,
                                   after |-> after]]

\* _settle_terminal: the method that brings the run level with a settled job.
VerbOf(state) == IF state = "succeeded" THEN "settled" ELSE "abandoned"

(***************************************************************************)
(* The queue                                                               *)
(***************************************************************************)
\* The session is tested on a snapshot that may predate a deletion request; a
\* lease granted so late is the same as one granted just before the request.
Lease(w, j) ==
    /\ At(w, "idle")
    /\ ~ requested
    /\ job[j].state \in Claimable
    /\ job[j].attempt < MaxAttempts
    /\ job' = [job EXCEPT ![j] = [state |-> "running", owner |-> w, attempt |-> @.attempt + 1]]
    /\ expired' = expired \ {j}
    /\ actor' = [actor EXCEPT ![w].pc = "executing", ![w].job = j]
    /\ UNCHANGED <<requested, delivered, runVars, crashes>>

LeaseExpires(j) ==
    /\ job[j].state = "running" /\ j \notin expired
    /\ expired' = expired \cup {j}
    /\ UNCHANGED <<requested, job, delivered, runVars, actor, crashes>>

GivenUp(r) ==
    [r EXCEPT !.owner = None,
              !.state = IF r.attempt >= MaxAttempts THEN "dead_lettered" ELSE "retryable"]

\* recover_expired, by a worker or by the retention sweep.
Reclaim(j) ==
    /\ job[j].state = "running" /\ j \in expired
    /\ job' = [job EXCEPT ![j] = GivenUp(@)]
    /\ UNCHANGED <<requested, expired, delivered, runVars, actor, crashes>>

RequestDeletion ==
    /\ ~ requested
    /\ requested' = TRUE
    /\ UNCHANGED <<queueVars, delivered, runVars, actor, crashes>>

\* _settle_unleased, in a deletion pass.
SettleUnleased ==
    /\ requested
    /\ \E j \in Job : job[j].state \in Claimable
    /\ job' = [j \in Job |-> IF job[j].state \in Claimable
                               THEN [job[j] EXCEPT !.state = "dead_lettered"] ELSE job[j]]
    /\ UNCHANGED <<requested, expired, delivered, runVars, actor, crashes>>

\* As in module ContentLifecycle: an expired lease that is still on the row may
\* or may not be accepted.
OnRow(w, j) == job[j].state = "running" /\ job[j].owner = w
MayBeLost(w, j) == ~ OnRow(w, j) \/ j \in expired

(***************************************************************************)
(* A worker settles a job through SettlingJobStore                         *)
(***************************************************************************)
\* The pipeline publishes the report, or finds it delivered; complete then
\* records before it completes.
Deliver(w) ==
    /\ At(w, "executing")
    /\ LET j == actor[w].job
       IN  /\ j \in delivered \/ (job[j].state = "running" /\ ~ requested)
           /\ delivered' = delivered \cup {j}
           /\ Records(w, j, "settled", "completing")
    /\ UNCHANGED <<requested, queueVars, runVars, crashes>>

HeartbeatLost(w) ==
    /\ At(w, "executing")
    /\ MayBeLost(w, actor[w].job)
    /\ Ends(w)
    /\ UNCHANGED <<requested, queueVars, delivered, runVars, crashes>>

HandlerRaises(w) ==
    /\ At(w, "executing")
    /\ Goto(w, "failing")
    /\ UNCHANGED <<requested, queueVars, delivered, runVars, crashes>>

\* jobs.complete, after the recording.
Complete(w) ==
    /\ At(w, "completing")
    /\ LET j == actor[w].job
       IN  \/ OnRow(w, j) /\ job' = [job EXCEPT ![j].state = "succeeded", ![j].owner = None]
           \/ MayBeLost(w, j) /\ UNCHANGED job
    /\ Ends(w)
    /\ UNCHANGED <<requested, expired, delivered, runVars, crashes>>

\* A bug: a retryable failure already fails the run.
FailAndAbandon(w) ==
    /\ At(w, "failing")
    /\ LET j == actor[w].job
       IN  \/ /\ OnRow(w, j)
              /\ job' = [job EXCEPT ![j] = GivenUp(@)]
              /\ Records(w, j, "abandoned", "idle")
           \/ MayBeLost(w, j) /\ Ends(w) /\ UNCHANGED job
    /\ UNCHANGED <<requested, expired, delivered, runVars, crashes>>

\* jobs.fail; the run is failed only when that was the last attempt.
Fail(w) ==
    /\ At(w, "failing")
    /\ LET j == actor[w].job
       IN  \/ /\ OnRow(w, j)
              /\ job' = [job EXCEPT ![j] = GivenUp(@)]
              /\ IF job'[j].state = "dead_lettered" THEN Records(w, j, "abandoned", "idle")
                                                    ELSE Ends(w)
           \/ MayBeLost(w, j) /\ Ends(w) /\ UNCHANGED job
    /\ UNCHANGED <<requested, expired, delivered, runVars, crashes>>

\* A bug: the sweep brings level only the runs of dead-lettered jobs.
ReconcileDeadLettered(w, j) ==
    /\ At(w, "idle")
    /\ run[j] = "started"
    /\ job[j].state = "dead_lettered"
    /\ Records(w, j, VerbOf(job[j].state), "idle")
    /\ UNCHANGED <<requested, queueVars, delivered, runVars, crashes>>

\* reconcile, before each claim: one link of a started run whose job is settled.
Reconcile(w, j) ==
    /\ At(w, "idle")
    /\ run[j] = "started"
    /\ job[j].state \in Terminal
    /\ Records(w, j, VerbOf(job[j].state), "idle")
    /\ UNCHANGED <<requested, queueVars, delivered, runVars, crashes>>

(***************************************************************************)
(* The recorder: PipelineRecorder.settled and .abandoned                   *)
(***************************************************************************)
\* The method returns: the worker goes on to complete the job, or is through.
Returns(a) == IF actor[a].after = "completing" THEN Goto(a, "completing") ELSE Ends(a)

\* _linked_run: nothing is recorded for a job without a run, or for a run that
\* has ended (an already_recorded event).
ReadLink(a) ==
    /\ At(a, "reading")
    /\ IF run[actor[a].job] = "started" THEN Goto(a, "checking") ELSE Returns(a)
    /\ UNCHANGED <<requested, queueVars, delivered, runVars, crashes>>

\* complete_run and fail_run up to the locked write.  A completion needs the
\* session's admission, package and delivery, which end with a deletion request.
\* A refusal is raised: it ends the worker process or the request, except in
\* reconcile, which goes on to the next link.
Check(a) ==
    /\ At(a, "checking")
    /\ LET j == actor[a].job
           allowed == /\ run[j] = "started"
                      /\ actor[a].verb = "settled" => j \in delivered /\ ~ requested
       IN  IF allowed THEN Goto(a, "writing") ELSE Ends(a)
    /\ UNCHANGED <<requested, queueVars, delivered, runVars, crashes>>

\* A bug: the run is not read again under its lock.
WriteUnlocked(a) ==
    /\ At(a, "writing")
    /\ LET j == actor[a].job
       IN  /\ run' = [run EXCEPT ![j] = IF actor[a].verb = "settled" THEN "completed"
                                                                    ELSE "failed"]
           /\ trail' = [trail EXCEPT ![j].ended = @ + 1]
           /\ Returns(a)
    /\ UNCHANGED <<requested, queueVars, delivered, crashes>>

\* record_completion and complete_analysis_run: the row is locked, tested again
\* and written, with the audit event in the same transaction.
Write(a) ==
    /\ At(a, "writing")
    /\ LET j == actor[a].job
       IN  IF run[j] = "started"
             THEN /\ run' = [run EXCEPT ![j] = IF actor[a].verb = "settled" THEN "completed"
                                                                           ELSE "failed"]
                  /\ trail' = [trail EXCEPT ![j].ended = @ + 1]
                  /\ Returns(a)
             ELSE Ends(a) /\ UNCHANGED runVars
    /\ UNCHANGED <<requested, queueVars, delivered, crashes>>

(***************************************************************************)
(* A report request: the job is durable first, then the run is started     *)
(***************************************************************************)
Enqueue(r, j) ==
    /\ At(r, "new")
    /\ ~ requested
    /\ job' = [job EXCEPT ![j].state = IF @ = "absent" THEN "queued" ELSE @]
    /\ actor' = [actor EXCEPT ![r].pc = "resolving", ![r].job = j]
    /\ UNCHANGED <<requested, expired, delivered, runVars, crashes>>

\* version_for_session: without a live admission there is no version, no run.
Resolve(r) ==
    /\ At(r, "resolving")
    /\ IF requested THEN Ends(r) ELSE Goto(r, "linking")
    /\ UNCHANGED <<requested, queueVars, delivered, runVars, crashes>>

\* _start_linked: run, link and event in one transaction; the unique constraint
\* on the link's job rolls back a second run.
StartLinked(r) ==
    /\ At(r, "linking")
    /\ LET j == actor[r].job
       IN  IF run[j] = "none"
             THEN /\ run' = [run EXCEPT ![j] = "started"]
                  /\ trail' = [trail EXCEPT ![j].started = @ + 1]
             ELSE UNCHANGED runVars
    /\ Goto(r, "rereading")
    /\ UNCHANGED <<requested, queueVars, delivered, crashes>>

\* reconcile_job: the job may have been settled before it had a run.
Reread(r) ==
    /\ At(r, "rereading")
    /\ LET j == actor[r].job
       IN  IF job[j].state \in Terminal THEN Records(r, j, VerbOf(job[j].state), "done")
                                        ELSE Ends(r)
    /\ UNCHANGED <<requested, queueVars, delivered, runVars, crashes>>

\* A process dies, or a database fault is raised out of the call it is in.
Crash(a) ==
    /\ actor[a].pc \notin {"idle", "new", "done"}
    /\ crashes < MaxCrashes
    /\ crashes' = crashes + 1
    /\ Ends(a)
    /\ UNCHANGED <<requested, queueVars, delivered, runVars>>

(***************************************************************************)
(* The specification                                                       *)
(***************************************************************************)
Recorder(a) == ReadLink(a) \/ Check(a) \/ Write(a)

Execution(w) ==
    Deliver(w) \/ HeartbeatLost(w) \/ HandlerRaises(w) \/ Complete(w) \/ Fail(w)

Requesting(r) ==
    (\E j \in Job : Enqueue(r, j)) \/ Resolve(r) \/ StartLinked(r) \/ Reread(r)

Queue(j) == LeaseExpires(j) \/ Reclaim(j)

Next ==
    \/ \E w \in Worker : Execution(w) \/ (\E j \in Job : Lease(w, j) \/ Reconcile(w, j))
    \/ \E r \in Request : Requesting(r)
    \/ \E a \in Actor : Recorder(a) \/ Crash(a)
    \/ \E j \in Job : Queue(j)
    \/ RequestDeletion
    \/ SettleUnleased

Spec == Init /\ [][Next]_vars

\* Calls that began end, time passes and leases are reclaimed, deletion passes
\* are repeated, and every claim is preceded by a reconciliation of every link.
Fairness ==
    /\ \A w \in Worker : WF_vars(Execution(w))
    /\ \A a \in Actor : WF_vars(Recorder(a))
    /\ \A w \in Worker, j \in Job : SF_vars(Reconcile(w, j))
    /\ \A j \in Job : WF_vars(Queue(j))
    /\ WF_vars(SettleUnleased)

FairSpec == Spec /\ Fairness

(***************************************************************************)
(* Safety                                                                  *)
(***************************************************************************)
\* The audit trail and the run agree, whoever races for the end of the run: it
\* is started once and ended at most once, with one completed event for each,
\* and an ended run is not ended again in another way.
RunLedger ==
    \A j \in Job :
        /\ trail[j].started = (IF run[j] = "none" THEN 0 ELSE 1)
        /\ trail[j].ended = (IF run[j] \in {"completed", "failed"} THEN 1 ELSE 0)

\* A run is failed only for a job the queue gave up for good, and completed only
\* with its report delivered, so the run of a succeeded job is never failed.
RunFollowsJob ==
    \A j \in Job :
        /\ run[j] = "failed" => job[j].state = "dead_lettered"
        /\ run[j] = "completed" => j \in delivered

(***************************************************************************)
(* Liveness, under FairSpec                                                *)
(***************************************************************************)
\* The run of a settled job is ended in the end, although the job was claimable
\* before the run existed and any process may die between the two writes; for a
\* succeeded job, unless the session's deletion is requested.
RunsSettle ==
    \A j \in Job :
        /\ run[j] = "started" /\ job[j].state = "dead_lettered" ~> run[j] # "started"
        /\ run[j] = "started" /\ job[j].state = "succeeded" ~>
              run[j] # "started" \/ requested

\* The comment of reconcile: a run left behind by a crash between the job's
\* terminal transition and its recording is settled within one loop iteration.
EveryRunSettles ==
    \A j \in Job : run[j] = "started" /\ job[j].state \in Terminal ~> run[j] # "started"
===============================================================================
