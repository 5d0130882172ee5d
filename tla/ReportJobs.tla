------------------------------ MODULE ReportJobs ------------------------------
(***************************************************************************)
(* The report job queue of khepri.rra: the rows of rra_report_jobs and     *)
(* rra_report_job_attempts (job_persistence.py), the claim loop of every   *)
(* worker process (claim_queue.py, worker.py, runtime/worker.py), the      *)
(* recovery passes of the retention sweep, and the part of a session's     *)
(* deletion that touches the queue (deletion_persistence.py).              *)
(*                                                                         *)
(* A job stands for one (session, idempotency key) pair: the database      *)
(* keeps one row per pair.  What the handler does between the lease and    *)
(* its settlement is left to module ContentLifecycle; here it only renews  *)
(* its lease and then returns, raises, or finds the lease gone.            *)
(***************************************************************************)
EXTENDS Naturals, FiniteSets

CONSTANTS
    Session,        \* RRA sessions
    Job,            \* (session, idempotency key) pairs
    SessionOf,      \* the session of each job
    Worker,         \* worker processes; a process is its own worker_id
    Direct,         \* sessions whose deletion is recorded through update_session
    MaxAttempts,    \* max_attempts of every job
    LeaseFor,       \* ClaimPolicy.lease_for, in clock units
    RetryDelay,     \* WorkerPolicy.retry_delay
    DrainInterval,  \* deletion_persistence._DRAIN_INTERVAL
    MaxTime,        \* bound on the clock
    MaxBeats,       \* bound on the lease renewals of one execution
    MaxCrashes,     \* bound on worker process crashes
    None            \* SQL NULL

ASSUME DomainAssumption ==
    /\ SessionOf \in [Job -> Session]
    /\ Direct \subseteq Session
    /\ None \notin Nat /\ None \notin Worker /\ None \notin Job
    /\ None \notin {"retries_exhausted", "content_deleted",
                     "retry_scheduled", "lease_reclaimed"}

ASSUME BoundAssumption ==
    /\ MaxAttempts \in Nat \ {0}
    /\ LeaseFor \in Nat \ {0}
    /\ RetryDelay \in Nat \ {0}
    /\ DrainInterval \in Nat
    /\ MaxTime \in Nat /\ MaxBeats \in Nat /\ MaxCrashes \in Nat

VARIABLES
    clock,      \* wall-clock time, common to every process
    requested,  \* sessions with deletion_requested_at set
    deleted,    \* sessions with content_deleted_at set
    cleared,    \* sessions a deletion pass was told not to wait for
    row,        \* rra_report_jobs: job -> row; state "absent" before enqueue
    attempts,   \* rra_report_job_attempts: job -> attempt number -> disposition
    proc,       \* worker process -> where its loop is
    crashes     \* worker crashes so far

queueVars == <<row, attempts>>
sessionVars == <<requested, deleted, cleared>>
vars == <<clock, requested, deleted, cleared, row, attempts, proc, crashes>>

(***************************************************************************)
(* Types                                                                   *)
(***************************************************************************)
Claimable == {"queued", "retryable"}
Terminal == {"succeeded", "dead_lettered"}
JobState == Claimable \cup Terminal \cup {"absent", "running"}
DeadLetterReason == {"retries_exhausted", "content_deleted"}
Disposition == {"retry_scheduled", "lease_reclaimed", "retries_exhausted"}
AttemptNumber == 1..MaxAttempts

JobRow ==
    [state : JobState,
     queued_at : Nat,
     available_at : Nat,
     attempt_count : 0..MaxAttempts,
     lease_owner : Worker \cup {None},
     lease_expires_at : Nat \cup {None},
     completed_at : Nat \cup {None},
     dead_letter_reason : DeadLetterReason \cup {None}]

\* Where a worker process is: waiting between two runs of the loop, recovering
\* expired leases, about to lease the job it picked, holding the statement
\* snapshot of that lease, or executing the job under the attempt it leased.
PC == {"idle", "recovering", "claiming", "leasing", "executing"}

Process ==
    [pc : PC,
     job : Job \cup {None},
     attempt : 0..MaxAttempts,
     now : Nat,
     beats : 0..MaxBeats]

\* The type invariant.
TypeOK ==
    /\ clock \in Nat
    /\ requested \in SUBSET Session
    /\ deleted \in SUBSET Session
    /\ cleared \in SUBSET Session
    /\ row \in [Job -> JobRow]
    /\ attempts \in [Job -> [AttemptNumber -> Disposition \cup {None}]]
    /\ proc \in [Worker -> Process]
    /\ crashes \in Nat

(***************************************************************************)
(* Initial state                                                           *)
(***************************************************************************)
Absent ==
    [state |-> "absent", queued_at |-> 0, available_at |-> 0,
     attempt_count |-> 0, lease_owner |-> None, lease_expires_at |-> None,
     completed_at |-> None, dead_letter_reason |-> None]

Idle == [pc |-> "idle", job |-> None, attempt |-> 0, now |-> 0, beats |-> 0]

Init ==
    /\ clock = 0
    /\ requested = {} /\ deleted = {} /\ cleared = {}
    /\ row = [j \in Job |-> Absent]
    /\ attempts = [j \in Job |-> [n \in AttemptNumber |-> None]]
    /\ proc = [w \in Worker |-> Idle]
    /\ crashes = 0

(***************************************************************************)
(* The rows' predicates and transitions                                    *)
(***************************************************************************)
LiveContent(s) == s \notin requested /\ s \notin deleted

\* The part of claimable_at that the locked job row itself decides.
DueRow(r, t) ==
    /\ r.state \in Claimable
    /\ r.available_at <= t
    /\ r.attempt_count < MaxAttempts

ClaimableAt(j, t) == DueRow(row[j], t) /\ LiveContent(SessionOf[j])

ExpiredLeaseAt(j, t) ==
    /\ row[j].state = "running"
    /\ row[j].lease_expires_at <= t

\* A bug: the orphan pass selects dead-lettered jobs again.
OrphanedAtAgain(j) ==
    /\ SessionOf[j] \in deleted
    /\ row[j].state \in Claimable \cup {"dead_lettered"}

OrphanedAt(j) ==
    /\ SessionOf[j] \in deleted
    /\ row[j].state \in Claimable

\* A bug: the lease is looked up by job alone, so any process may settle it.
ActiveLeaseAnyOwner(w, j, t) ==
    /\ row[j].state = "running"
    /\ row[j].lease_expires_at > t

ActiveLease(w, j, t) ==
    /\ row[j].state = "running"
    /\ row[j].lease_owner = w
    /\ row[j].lease_expires_at > t

Queued(t) ==
    [state |-> "queued", queued_at |-> t, available_at |-> t,
     attempt_count |-> 0, lease_owner |-> None, lease_expires_at |-> None,
     completed_at |-> None, dead_letter_reason |-> None]

\* A bug: leasing forgets to count the attempt.
LeasedUncounted(r, w, t) ==
    [r EXCEPT !.state = "running",
              !.lease_owner = w, !.lease_expires_at = t + LeaseFor]

Leased(r, w, t) ==
    [r EXCEPT !.state = "running", !.attempt_count = @ + 1,
              !.lease_owner = w, !.lease_expires_at = t + LeaseFor]

\* A bug: giving up a lease leaves its expiry on the row.
ReleasedOwner(r) == [r EXCEPT !.lease_owner = None]

Released(r) == [r EXCEPT !.lease_owner = None, !.lease_expires_at = None]

Exhausted(r, t) ==
    [r EXCEPT !.state = "dead_lettered", !.completed_at = t,
              !.dead_letter_reason = "retries_exhausted"]

\* A bug: a job made retryable loses the time it is due at.
RescheduledUndated(r, t) ==
    [r EXCEPT !.state = "retryable", !.available_at = None, !.completed_at = None]

Rescheduled(r, t) ==
    [r EXCEPT !.state = "retryable", !.available_at = t, !.completed_at = None]

Succeeded(r, t) == [r EXCEPT !.state = "succeeded", !.completed_at = t]

Orphaned(r, t) ==
    [r EXCEPT !.state = "dead_lettered", !.completed_at = t,
              !.dead_letter_reason = "content_deleted"]

\* A bug: the attempt limit is compared one too high.
EndAttemptOffByOne(j, t, retryAt, disposition) ==
    LET r == row[j]
        last == r.attempt_count > MaxAttempts
    IN  /\ row' = [row EXCEPT ![j] = IF last THEN Released(Exhausted(r, t))
                                      ELSE Released(Rescheduled(r, retryAt))]
        /\ attempts' = [attempts EXCEPT ![j][r.attempt_count] =
                          IF last THEN "retries_exhausted" ELSE disposition]

\* End the attempt that holds job j: exhaust the job when it was the last one
\* allowed, or else make it claimable again from retryAt on; either way drop
\* the lease and record the attempt.
EndAttempt(j, t, retryAt, disposition) ==
    LET r == row[j]
        last == r.attempt_count >= MaxAttempts
    IN  /\ row' = [row EXCEPT ![j] = IF last THEN Released(Exhausted(r, t))
                                      ELSE Released(Rescheduled(r, retryAt))]
        /\ attempts' = [attempts EXCEPT ![j][r.attempt_count] =
                          IF last THEN "retries_exhausted" ELSE disposition]

\* A bug: a reclaimed lease is not recorded as an attempt.
ReclaimUnrecorded(j, t) ==
    /\ row' = [row EXCEPT ![j] =
                 IF @.attempt_count >= MaxAttempts
                   THEN Released(Exhausted(@, t)) ELSE Released(Rescheduled(@, t))]
    /\ UNCHANGED attempts

Reclaim(j, t) == EndAttempt(j, t, t, "lease_reclaimed")

(***************************************************************************)
(* The service: enqueue, under the lock of the session row                 *)
(***************************************************************************)
\* A bug: enqueue trusts the caller's earlier liveness check.
EnqueueUnchecked(j) ==
    /\ row[j].state = "absent"
    /\ row' = [row EXCEPT ![j] = Queued(clock)]
    /\ UNCHANGED <<clock, requested, deleted, cleared, attempts, proc, crashes>>

\* A second request for the same key answers the row that exists: no change.
Enqueue(j) ==
    /\ LiveContent(SessionOf[j])
    /\ row[j].state = "absent"
    /\ row' = [row EXCEPT ![j] = Queued(clock)]
    /\ UNCHANGED <<clock, requested, deleted, cleared, attempts, proc, crashes>>

(***************************************************************************)
(* A worker process.  run_once takes one clock reading, recovers expired   *)
(* leases, picks the claimable job that has been due longest, leases it    *)
(* and executes it.  Later calls read the clock again: a reading t lies    *)
(* between the process's previous one and the present, because the process *)
(* may be delayed between taking it and using it.                          *)
(***************************************************************************)
At(w, pc) == proc[w].pc = pc

Reading(w) == {t \in 0..clock : proc[w].now <= t}

BeginRun(w) ==
    /\ At(w, "idle")
    /\ proc' = [proc EXCEPT ![w].pc = "recovering", ![w].now = clock]
    /\ UNCHANGED <<clock, requested, deleted, cleared, row, attempts, crashes>>

\* recover_expired acts on one candidate, re-read under the same predicate.
\* It skips candidates that another process holds locked, and a fault on one
\* is isolated to it, so the pass may also end without acting on some.
WorkerRecover(w, j) ==
    /\ At(w, "recovering")
    /\ ExpiredLeaseAt(j, proc[w].now)
    /\ Reclaim(j, proc[w].now)
    /\ UNCHANGED <<clock, requested, deleted, cleared, proc, crashes>>

\* The unlocked pick.  Ties are broken by job_id, which is random.
Pick(w) ==
    /\ At(w, "recovering")
    /\ LET due == {j \in Job : ClaimableAt(j, proc[w].now)}
       IN  \/ /\ due = {}
              /\ proc' = [proc EXCEPT ![w] = Idle]
           \/ \E j \in due :
                /\ \A k \in due : row[j].available_at <= row[k].available_at
                /\ proc' = [proc EXCEPT ![w].pc = "claiming", ![w].job = j]
    /\ UNCHANGED <<clock, requested, deleted, cleared, row, attempts, crashes>>

\* The lease statement takes its snapshot; the subquery over the sessions is
\* answered from it even when the statement then waits for the job row.
LeaseSnapshot(w) ==
    /\ At(w, "claiming")
    /\ proc' = [proc EXCEPT ![w] =
                  IF ClaimableAt(@.job, @.now)
                    THEN [@ EXCEPT !.pc = "leasing"] ELSE Idle]
    /\ UNCHANGED <<clock, requested, deleted, cleared, row, attempts, crashes>>

\* A bug: the process is handed the row as it was read, before it was leased.
LeaseAsRead(w) ==
    /\ At(w, "leasing")
    /\ DueRow(row[proc[w].job], proc[w].now)
    /\ row' = [row EXCEPT ![proc[w].job] = Leased(@, w, proc[w].now)]
    /\ proc' = [proc EXCEPT ![w].pc = "executing",
                            ![w].attempt = row[proc[w].job].attempt_count]
    /\ UNCHANGED <<clock, requested, deleted, cleared, attempts, crashes>>

\* The row is locked and its own clauses are checked against its newest version.
Lease(w) ==
    /\ At(w, "leasing")
    /\ LET j == proc[w].job
           r == Leased(row[j], w, proc[w].now)
       IN  IF DueRow(row[j], proc[w].now)
             THEN /\ row' = [row EXCEPT ![j] = r]
                  /\ proc' = [proc EXCEPT ![w].pc = "executing",
                                          ![w].attempt = r.attempt_count]
             ELSE /\ proc' = [proc EXCEPT ![w] = Idle]
                  /\ UNCHANGED row
    /\ UNCHANGED <<clock, requested, deleted, cleared, attempts, crashes>>

\* One renewal of the lease, at clock reading t.
Heartbeat(w, t) ==
    /\ At(w, "executing") /\ t \in Reading(w)
    /\ proc[w].beats < MaxBeats
    /\ ActiveLease(w, proc[w].job, t)
    /\ row' = [row EXCEPT ![proc[w].job].lease_expires_at = t + LeaseFor]
    /\ proc' = [proc EXCEPT ![w].now = t, ![w].beats = @ + 1]
    /\ UNCHANGED <<clock, requested, deleted, cleared, attempts, crashes>>

\* The handler returned and the job is completed.
Complete(w, t) ==
    /\ At(w, "executing") /\ t \in Reading(w)
    /\ ActiveLease(w, proc[w].job, t)
    /\ row' = [row EXCEPT ![proc[w].job] = Released(Succeeded(@, t))]
    /\ proc' = [proc EXCEPT ![w] = Idle]
    /\ UNCHANGED <<clock, requested, deleted, cleared, attempts, crashes>>

\* The handler raised and the failure is recorded.
Fail(w, t) ==
    /\ At(w, "executing") /\ t \in Reading(w)
    /\ ActiveLease(w, proc[w].job, t)
    /\ EndAttempt(proc[w].job, t, t + RetryDelay, "retry_scheduled")
    /\ proc' = [proc EXCEPT ![w] = Idle]
    /\ UNCHANGED <<clock, requested, deleted, cleared, crashes>>

\* heartbeat, complete or fail finds no active lease: LeaseLost ends the run.
LeaseLost(w, t) ==
    /\ At(w, "executing") /\ t \in Reading(w)
    /\ ~ ActiveLease(w, proc[w].job, t)
    /\ proc' = [proc EXCEPT ![w] = Idle]
    /\ UNCHANGED <<clock, requested, deleted, cleared, row, attempts, crashes>>

\* The process dies and is restarted; its lease stays on the row.
Crash(w) ==
    /\ ~ At(w, "idle")
    /\ crashes < MaxCrashes
    /\ crashes' = crashes + 1
    /\ proc' = [proc EXCEPT ![w] = Idle]
    /\ UNCHANGED <<clock, requested, deleted, cleared, row, attempts>>

(***************************************************************************)
(* The retention sweep.  Its own clock reading may be arbitrarily old.     *)
(***************************************************************************)
SweepExpired(j, t) ==
    /\ ExpiredLeaseAt(j, t)
    /\ Reclaim(j, t)
    /\ UNCHANGED <<clock, requested, deleted, cleared, proc, crashes>>

SweepOrphan(j, t) ==
    /\ OrphanedAt(j)
    /\ row' = [row EXCEPT ![j] = Released(Orphaned(@, t))]
    /\ UNCHANGED <<clock, requested, deleted, cleared, attempts, proc, crashes>>

(***************************************************************************)
(* The deletion of a session, as far as the queue sees it                  *)
(***************************************************************************)
JobsOf(s) == {j \in Job : SessionOf[j] = s}

\* SqlDeletionRepository.begin, under the lock of the session row.
RequestDeletion(s) ==
    /\ s \notin requested
    /\ requested' = requested \cup {s}
    /\ UNCHANGED <<clock, deleted, cleared, row, attempts, proc, crashes>>

\* _settle_unleased: every job nobody has leased is dead-lettered, as of the
\* time of the request.
SettledUnleased(s, requestedAt) ==
    [j \in Job |->
        IF j \in JobsOf(s) /\ row[j].state \in Claimable
          THEN Orphaned(row[j], requestedAt) ELSE row[j]]

\* _needs_drain: a job that exhausted its retries may have a publisher that
\* still writes, until the interval after that moment has passed.
NeedsDrain(s, t, firstAttempt) ==
    /\ firstAttempt
    /\ \E j \in JobsOf(s) :
          /\ row[j].state = "dead_lettered"
          /\ row[j].dead_letter_reason = "retries_exhausted"
          /\ row[j].completed_at + DrainInterval > t

AllSettled(s, rows) == \A j \in JobsOf(s) : rows[j].state \in Terminal \cup {"absent"}

\* defer_for_publication: settle what nobody holds, then wait for the drain and
\* for every lease; a pass that need not wait goes on to remove the content.
\* t is the pass's clock reading.  When the deletion was requested is not kept:
\* it is any time up to t.
DeferForPublication(s, t, requestedAt, firstAttempt) ==
    /\ s \in requested
    /\ row' = SettledUnleased(s, requestedAt)
    /\ cleared' = IF NeedsDrain(s, t, firstAttempt) \/ ~ AllSettled(s, row')
                    THEN cleared ELSE cleared \cup {s}
    /\ UNCHANGED <<clock, requested, deleted, attempts, proc, crashes>>

\* SqlDeletionRepository.complete records content_deleted_at.
DeleteContent(s) ==
    /\ s \in cleared
    /\ deleted' = deleted \cup {s}
    /\ UNCHANGED <<clock, requested, cleared, row, attempts, proc, crashes>>

\* SqlSessionStore.update_session writes both deletion columns directly, with
\* whatever jobs the session has.
UpdateSession(s) ==
    /\ s \in Direct
    /\ requested' = requested \cup {s}
    /\ deleted' = deleted \cup {s}
    /\ UNCHANGED <<clock, cleared, row, attempts, proc, crashes>>

(***************************************************************************)
(* Time.  It matters only while something waits for it: an unexpired       *)
(* lease, a retry that is not due, or a drain interval.                    *)
(***************************************************************************)
TimerPending ==
    \E j \in Job :
        \/ row[j].state = "running" /\ row[j].lease_expires_at > clock
        \/ row[j].state \in Claimable /\ row[j].available_at > clock
        \/ /\ row[j].dead_letter_reason = "retries_exhausted"
           /\ row[j].completed_at + DrainInterval > clock

Tick ==
    /\ TimerPending
    /\ clock < MaxTime
    /\ clock' = clock + 1
    /\ UNCHANGED <<requested, deleted, cleared, row, attempts, proc, crashes>>

Settle(w) == \E t \in Reading(w) : Complete(w, t) \/ Fail(w, t) \/ LeaseLost(w, t)

LoopStep(w) ==
    \/ BeginRun(w) \/ Pick(w) \/ LeaseSnapshot(w) \/ Lease(w) \/ Settle(w)

WorkerStep(w) ==
    \/ LoopStep(w)
    \/ \E j \in Job : WorkerRecover(w, j)
    \/ \E t \in Reading(w) : Heartbeat(w, t)
    \/ Crash(w)

Sweep(j) == \E t \in 0..clock : SweepExpired(j, t) \/ SweepOrphan(j, t)

DeletionStep(s) ==
    \/ RequestDeletion(s)
    \/ \E t \in 0..clock, first \in BOOLEAN : \E requestedAt \in 0..t :
          DeferForPublication(s, t, requestedAt, first)
    \/ DeleteContent(s)
    \/ UpdateSession(s)

Next ==
    \/ \E j \in Job : Enqueue(j) \/ Sweep(j)
    \/ \E w \in Worker : WorkerStep(w)
    \/ \E s \in Session : DeletionStep(s)
    \/ Tick

Spec == Init /\ [][Next]_vars

\* run_forever never stops; a recovery transition that stays enabled in run
\* after run is not skipped forever; the sweep keeps running; time passes.
Fairness ==
    /\ WF_vars(Tick)
    /\ \A w \in Worker : WF_vars(LoopStep(w))
    /\ \A w \in Worker, j \in Job : SF_vars(WorkerRecover(w, j))
    /\ \A j \in Job : WF_vars(SweepOrphan(j, clock))
    /\ \A s \in Session :
          WF_vars(\E first \in BOOLEAN, requestedAt \in 0..clock :
                    DeferForPublication(s, clock, requestedAt, first))

FairSpec == Spec /\ Fairness

(***************************************************************************)
(* Safety                                                                  *)
(***************************************************************************)
Executing(w, j) == At(w, "executing") /\ proc[w].job = j

RowConstraint(r) ==
    /\ r.available_at >= r.queued_at
    /\ (r.state = "running") = (r.lease_owner # None)
    /\ (r.state = "running") = (r.lease_expires_at # None)
    /\ (r.state \in Terminal) = (r.completed_at # None)
    /\ (r.state = "dead_lettered") = (r.dead_letter_reason # None)

\* Every row a transition writes satisfies the CHECK constraints of
\* rra_report_jobs (a violated one would abort the transaction and leave the
\* job unsettled): a lease is on the row exactly while the job runs, a
\* completion time and a dead-letter reason exactly when they are due.
RowConstraints == \A j \in Job : RowConstraint(row[j])

\* Attempts that began and have been given up: all of them, except the one
\* that runs or the one that succeeded.
EndedAttempts(r) ==
    IF r.state \in {"running", "succeeded"} THEN r.attempt_count - 1
                                            ELSE r.attempt_count

LedgerExact(r, a) ==
    /\ \A n \in AttemptNumber :
          /\ (a[n] # None) <=> (n <= EndedAttempts(r))
          /\ a[n] = "retries_exhausted" => n = MaxAttempts
    /\ r.dead_letter_reason = "retries_exhausted" =>
          a[MaxAttempts] = "retries_exhausted"

\* The attempt ledger is exact: across leases, failures, reclaims, crashes and
\* deletions each given-up attempt of a job has exactly one record, numbered
\* without gaps, and the attempt that runs or succeeded has none.  So the
\* insert of _record_attempt never collides with its primary key.  Only the
\* last allowed attempt is ever recorded as exhausting the job, and a job is
\* dead-lettered for exhaustion only with that record.
AttemptLedger == \A j \in Job : LedgerExact(row[j], attempts[j])

\* A process whose worker_id is on the lease of the job it executes works on
\* the attempt the row counts: a delayed process never finds its own name on a
\* later attempt, although _active_lease compares the worker and no attempt.
HolderIsCurrent ==
    \A w \in Worker, j \in Job :
        Executing(w, j) /\ row[j].lease_owner = w =>
            proc[w].attempt = row[j].attempt_count

\* Once a deletion pass need not wait for publication, every job of the
\* session is settled for good, although leases are granted from snapshots
\* that may predate the request and enqueue runs concurrently.
ClearedIsSettled == \A s \in cleared : AllSettled(s, row)

(***************************************************************************)
(* Action properties                                                       *)
(***************************************************************************)
\* A settled job is never touched again: no late failure, reclaim, lease,
\* sweep or deletion pass rewrites a succeeded or dead-lettered row.
SettledIsFinal ==
    [][\A j \in Job : row[j].state \in Terminal => row'[j] = row[j]]_vars

\* Only the process that holds the current attempt of a job completes it, and
\* only it or a recovery after the lease ran out ends the attempt otherwise.
OnlyHolderSettles ==
    [][\A j \in Job : row[j].state = "running" /\ row'[j].state # "running" =>
          \/ \E w \in Worker :
                /\ Executing(w, j)
                /\ proc[w].attempt = row[j].attempt_count
                /\ proc'[w] = Idle
          \/ /\ row'[j].state # "succeeded"
             /\ row[j].lease_expires_at <= clock]_vars

(***************************************************************************)
(* Liveness, under FairSpec                                                *)
(***************************************************************************)
\* Every accepted job is settled in the end, whatever fails, crashes or is
\* deleted: a dead worker's lease is reclaimed, a retry is run, and a job of a
\* deleted session is dead-lettered rather than left in the queue.
JobsSettle == \A j \in Job : row[j].state # "absent" ~> row[j].state \in Terminal

(***************************************************************************)
(* What the queue promises to its clients (module JobPromise)              *)
(***************************************************************************)
Status(r) == IF r.state \in Terminal \cup {"absent"} THEN r.state ELSE "open"

Promise == INSTANCE JobPromise WITH
    status <- [j \in Job |-> Status(row[j])],
    spent <- [j \in Job |-> row[j].attempt_count]

\* The queue keeps the promise of module JobPromise: a job is accepted once,
\* is given at most MaxAttempts executions, succeeds only after at least one,
\* and is settled exactly once.
KeepsPromise == Promise!Spec
===============================================================================
