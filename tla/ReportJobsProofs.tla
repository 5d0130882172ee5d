--------------------------- MODULE ReportJobsProofs ---------------------------
(***************************************************************************)
(* Proofs about module ReportJobs, for any number of sessions, jobs and    *)
(* workers, any attempt limit and any durations.                           *)
(***************************************************************************)
EXTENDS ReportJobs, TLAPS

(***************************************************************************)
(* The inductive invariant: the safety invariants of the specification and *)
(* what they need to survive each step.                                    *)
(***************************************************************************)

\* A row is untouched until it is enqueued, and an attempt that runs or
\* succeeded has been counted; a lease never ends before the job was queued.
RowPast(r) ==
    /\ r.state = "absent" => r.attempt_count = 0
    /\ r.state \in {"running", "succeeded"} => r.attempt_count > 0
    /\ r.state = "running" => r.lease_expires_at >= r.queued_at

RowHistory == \A j \in Job : RowPast(row[j])

\* A process past its pick names a job, its last clock reading is not in the
\* future, and the job it executes was queued before that reading.
ProcessHistory ==
    \A w \in Worker :
        /\ proc[w].pc \in {"claiming", "leasing", "executing"} => proc[w].job \in Job
        /\ proc[w].now <= clock
        /\ At(w, "executing") =>
              /\ row[proc[w].job].state # "absent"
              /\ row[proc[w].job].queued_at <= proc[w].now

IInv ==
    /\ TypeOK
    /\ RowConstraints
    /\ AttemptLedger
    /\ HolderIsCurrent
    /\ RowHistory
    /\ ProcessHistory
    /\ ClearedIsSettled
    /\ cleared \subseteq requested

\* The initial state satisfies the inductive invariant.
LEMMA InitIInv == Init => IInv
<1> SUFFICES ASSUME Init PROVE IInv
    OBVIOUS
<1> USE DomainAssumption, BoundAssumption DEF Init
<1>1. TypeOK
    BY DEF TypeOK, JobRow, Process, Absent, Idle, JobState, PC, AttemptNumber,
           Claimable, Terminal
<1>2. RowConstraints /\ RowHistory
    BY DEF RowConstraints, RowConstraint, RowHistory, RowPast, Absent, Terminal
<1>3. AttemptLedger
    BY DEF AttemptLedger, LedgerExact, EndedAttempts, Absent, AttemptNumber
<1>4. HolderIsCurrent /\ ProcessHistory
    BY DEF HolderIsCurrent, ProcessHistory, Executing, At, Idle
<1>5. ClearedIsSettled /\ cleared \subseteq requested
    BY DEF ClearedIsSettled
<1>6. QED BY <1>1, <1>2, <1>3, <1>4, <1>5 DEF IInv

(***************************************************************************)
(* What one transition of a row writes                                     *)
(***************************************************************************)

\* The transitions of job_persistence.py keep every row well typed.
LEMMA TransitionTypes ==
    ASSUME NEW r \in JobRow, NEW t \in Nat, NEW w \in Worker
    PROVE  /\ Queued(t) \in JobRow
           /\ r.attempt_count < MaxAttempts => Leased(r, w, t) \in JobRow
           /\ Released(Exhausted(r, t)) \in JobRow
           /\ Released(Rescheduled(r, t)) \in JobRow
           /\ Released(Succeeded(r, t)) \in JobRow
           /\ Orphaned(r, t) \in JobRow
           /\ Released(Orphaned(r, t)) \in JobRow
<1> USE DomainAssumption, BoundAssumption
        DEF JobRow, JobState, Claimable, Terminal, DeadLetterReason
<1>1. Queued(t) \in JobRow
    BY DEF Queued
<1>2. ASSUME r.attempt_count < MaxAttempts PROVE Leased(r, w, t) \in JobRow
    <2>1. r.attempt_count + 1 \in 0..MaxAttempts
        BY <1>2
    <2>2. t + LeaseFor \in Nat
        OBVIOUS
    <2>3. QED BY <2>1, <2>2 DEF Leased
<1>3. Released(Exhausted(r, t)) \in JobRow
    BY DEF Released, Exhausted
<1>4. Released(Rescheduled(r, t)) \in JobRow
    BY DEF Released, Rescheduled
<1>5. Released(Succeeded(r, t)) \in JobRow
    BY DEF Released, Succeeded
<1>6. Orphaned(r, t) \in JobRow /\ Released(Orphaned(r, t)) \in JobRow
    BY DEF Released, Orphaned
<1>7. QED BY <1>1, <1>2, <1>3, <1>4, <1>5, <1>6

\* The fields each transition sets, and the ones it keeps.
LEMMA TransitionFields ==
    ASSUME NEW r \in JobRow, NEW t \in Nat, NEW w \in Worker
    PROVE  /\ LET l == Leased(r, w, t) IN
                /\ l.state = "running" /\ l.attempt_count = r.attempt_count + 1
                /\ l.lease_owner = w /\ l.lease_expires_at = t + LeaseFor
                /\ l.queued_at = r.queued_at /\ l.available_at = r.available_at
                /\ l.completed_at = r.completed_at
                /\ l.dead_letter_reason = r.dead_letter_reason
           /\ LET e == Released(Exhausted(r, t)) IN
                /\ e.state = "dead_lettered" /\ e.completed_at = t
                /\ e.dead_letter_reason = "retries_exhausted"
                /\ e.lease_owner = None /\ e.lease_expires_at = None
                /\ e.queued_at = r.queued_at /\ e.available_at = r.available_at
                /\ e.attempt_count = r.attempt_count
           /\ LET e == Released(Rescheduled(r, t)) IN
                /\ e.state = "retryable" /\ e.completed_at = None
                /\ e.dead_letter_reason = r.dead_letter_reason
                /\ e.lease_owner = None /\ e.lease_expires_at = None
                /\ e.queued_at = r.queued_at /\ e.available_at = t
                /\ e.attempt_count = r.attempt_count
           /\ LET e == Released(Succeeded(r, t)) IN
                /\ e.state = "succeeded" /\ e.completed_at = t
                /\ e.dead_letter_reason = r.dead_letter_reason
                /\ e.lease_owner = None /\ e.lease_expires_at = None
                /\ e.queued_at = r.queued_at /\ e.available_at = r.available_at
                /\ e.attempt_count = r.attempt_count
           /\ LET e == Orphaned(r, t) IN
                /\ e.state = "dead_lettered" /\ e.completed_at = t
                /\ e.dead_letter_reason = "content_deleted"
                /\ e.lease_owner = r.lease_owner
                /\ e.lease_expires_at = r.lease_expires_at
                /\ e.queued_at = r.queued_at /\ e.available_at = r.available_at
                /\ e.attempt_count = r.attempt_count
           /\ LET e == Released(Orphaned(r, t)) IN
                /\ e.state = "dead_lettered" /\ e.completed_at = t
                /\ e.dead_letter_reason = "content_deleted"
                /\ e.lease_owner = None /\ e.lease_expires_at = None
                /\ e.queued_at = r.queued_at /\ e.available_at = r.available_at
                /\ e.attempt_count = r.attempt_count
BY DEF JobRow, Leased, Released, Exhausted, Rescheduled, Succeeded, Orphaned

(***************************************************************************)
(* Three kinds of step, and what each preserves                            *)
(***************************************************************************)

\* A step of one process that leaves the database alone and does not start an
\* execution: the polls, the picks, a lost lease, a crash.
LEMMA ProcessStep ==
    ASSUME IInv, NEW w \in Worker, NEW p \in Process,
           UNCHANGED <<clock, requested, deleted, cleared, row, attempts>>,
           crashes' \in Nat,
           proc' = [proc EXCEPT ![w] = p],
           p.pc # "executing",
           p.pc \in {"claiming", "leasing"} => p.job \in Job,
           p.now <= clock
    PROVE  IInv'
<1>1. TypeOK'
    BY DEF IInv, TypeOK
<1>2. RowConstraints' /\ RowHistory' /\ AttemptLedger'
    BY DEF IInv, RowConstraints, RowHistory, AttemptLedger, LedgerExact
<1>3. HolderIsCurrent'
    BY DEF IInv, TypeOK, HolderIsCurrent, Executing, At
<1>4. ProcessHistory'
    BY DEF IInv, TypeOK, ProcessHistory, At
<1>5. ClearedIsSettled' /\ (cleared \subseteq requested)'
    BY DEF IInv, ClearedIsSettled, AllSettled, JobsOf
<1>6. QED BY <1>1, <1>2, <1>3, <1>4, <1>5 DEF IInv

\* A step that touches neither the queue nor a process: time passes, a deletion
\* is requested or recorded.
LEMMA SessionStep ==
    ASSUME IInv, UNCHANGED <<cleared, row, attempts, proc, crashes>>,
           clock' \in Nat, clock' >= clock,
           requested' \in SUBSET Session, requested \subseteq requested',
           deleted' \in SUBSET Session
    PROVE  IInv'
<1>1. TypeOK'
    BY DEF IInv, TypeOK
<1>2. RowConstraints' /\ RowHistory' /\ AttemptLedger'
    BY DEF IInv, RowConstraints, RowHistory, AttemptLedger, LedgerExact
<1>3. HolderIsCurrent'
    BY DEF IInv, TypeOK, HolderIsCurrent, Executing, At
<1>4. ProcessHistory'
    BY DEF IInv, TypeOK, Process, ProcessHistory, At
<1>5. ClearedIsSettled' /\ (cleared \subseteq requested)'
    BY DEF IInv, ClearedIsSettled, AllSettled, JobsOf
<1>6. QED BY <1>1, <1>2, <1>3, <1>4, <1>5 DEF IInv

\* A transition of one job's row, whatever the process that makes it does: the
\* parts of the invariant about the database.
LEMMA RowStep ==
    ASSUME IInv, NEW j \in Job, NEW r \in JobRow,
           NEW a \in [AttemptNumber -> Disposition \cup {None}],
           UNCHANGED <<clock, requested, deleted, cleared, crashes>>,
           row' = [row EXCEPT ![j] = r],
           attempts' = [attempts EXCEPT ![j] = a],
           proc' \in [Worker -> Process],
           RowConstraint(r), RowPast(r), LedgerExact(r, a),
           r.state \notin Terminal => SessionOf[j] \notin cleared
    PROVE  /\ TypeOK' /\ RowConstraints' /\ RowHistory' /\ AttemptLedger'
           /\ ClearedIsSettled' /\ (cleared \subseteq requested)'
<1>1. TypeOK'
    BY DEF IInv, TypeOK
<1>2. \A k \in Job : row'[k] = (IF k = j THEN r ELSE row[k])
                  /\ attempts'[k] = (IF k = j THEN a ELSE attempts[k])
    BY DEF IInv, TypeOK
<1>3. RowConstraints' /\ RowHistory'
    BY <1>2 DEF IInv, RowConstraints, RowHistory
<1>4. AttemptLedger'
    BY <1>2 DEF IInv, AttemptLedger
<1>5. ClearedIsSettled' /\ (cleared \subseteq requested)'
    BY <1>2 DEF IInv, ClearedIsSettled, AllSettled, JobsOf
<1>6. QED BY <1>1, <1>3, <1>4, <1>5

\* A transition of a row by the recovery passes or a deletion, which leave every
\* process where it is and never put a process's name on a lease.
LEMMA DatabaseStep ==
    ASSUME IInv, NEW j \in Job, NEW r \in JobRow,
           NEW a \in [AttemptNumber -> Disposition \cup {None}],
           UNCHANGED <<clock, requested, deleted, cleared, proc, crashes>>,
           row' = [row EXCEPT ![j] = r],
           attempts' = [attempts EXCEPT ![j] = a],
           RowConstraint(r), RowPast(r), LedgerExact(r, a),
           r.state \notin Terminal => SessionOf[j] \notin cleared,
           r.lease_owner = None,
           r.state # "absent",
           row[j].state = "absent" \/ r.queued_at = row[j].queued_at
    PROVE  IInv'
<1>1. proc' \in [Worker -> Process]
    BY DEF IInv, TypeOK
<1>2. \A k \in Job : row'[k] = (IF k = j THEN r ELSE row[k])
    BY DEF IInv, TypeOK
<1>3. HolderIsCurrent'
    BY <1>2, DomainAssumption DEF IInv, HolderIsCurrent, Executing, At
<1>4. ProcessHistory'
    BY <1>2 DEF IInv, TypeOK, ProcessHistory, At
<1>5. QED BY <1>1, <1>3, <1>4, RowStep DEF IInv

\* Ending the attempt that holds a job, as fail and _reclaim do.
LEMMA EndAttemptRow ==
    ASSUME IInv, NEW j \in Job, NEW t \in Nat, NEW retryAt \in Nat,
           NEW d \in {"retry_scheduled", "lease_reclaimed"},
           row[j].state = "running", retryAt >= row[j].queued_at,
           EndAttempt(j, t, retryAt, d)
    PROVE  \E r \in JobRow, a \in [AttemptNumber -> Disposition \cup {None}] :
              /\ row' = [row EXCEPT ![j] = r]
              /\ attempts' = [attempts EXCEPT ![j] = a]
              /\ RowConstraint(r) /\ RowPast(r) /\ LedgerExact(r, a)
              /\ r.lease_owner = None
              /\ r.state \in Terminal \cup {"retryable"}
              /\ r.queued_at = row[j].queued_at
<1> DEFINE last == row[j].attempt_count >= MaxAttempts
           r == IF last THEN Released(Exhausted(row[j], t))
                        ELSE Released(Rescheduled(row[j], retryAt))
           n == row[j].attempt_count
           a == [attempts[j] EXCEPT ![n] =
                   IF last THEN "retries_exhausted" ELSE d]
<1>1. row[j] \in JobRow /\ RowConstraint(row[j]) /\ RowPast(row[j])
      /\ LedgerExact(row[j], attempts[j])
      /\ attempts[j] \in [AttemptNumber -> Disposition \cup {None}]
    BY DEF IInv, TypeOK, RowConstraints, RowHistory, AttemptLedger
<1>2. n \in AttemptNumber
    BY <1>1, BoundAssumption DEF JobRow, RowPast, AttemptNumber
<1>3. r \in JobRow
    BY <1>1, TransitionTypes, DomainAssumption DEF RowConstraint, JobRow
<1>4. a \in [AttemptNumber -> Disposition \cup {None}]
    BY <1>1, <1>2 DEF Disposition
<1>5. /\ r.lease_owner = None /\ r.lease_expires_at = None
      /\ r.queued_at = row[j].queued_at /\ r.attempt_count = n
      /\ last => /\ r.state = "dead_lettered" /\ r.completed_at = t
                 /\ r.dead_letter_reason = "retries_exhausted"
                 /\ r.available_at = row[j].available_at
      /\ ~last => /\ r.state = "retryable" /\ r.completed_at = None
                  /\ r.dead_letter_reason = row[j].dead_letter_reason
                  /\ r.available_at = retryAt
    BY <1>1, TransitionFields DEF RowConstraint, JobRow
<1>6. RowConstraint(r) /\ RowPast(r)
    BY <1>1, <1>5, DomainAssumption DEF RowConstraint, RowPast, JobRow, Terminal
<1>7. LedgerExact(r, a)
    <2>1. EndedAttempts(r) = n /\ EndedAttempts(row[j]) = n - 1
        BY <1>5 DEF EndedAttempts
    <2>2. ASSUME NEW m \in AttemptNumber
          PROVE  /\ (a[m] # None) <=> (m <= EndedAttempts(r))
                 /\ a[m] = "retries_exhausted" => m = MaxAttempts
        <3>1. CASE m = n
            BY <1>1, <1>2, <2>1, <3>1, DomainAssumption, BoundAssumption
               DEF AttemptNumber, JobRow
        <3>2. CASE m # n
            <4>1. a[m] = attempts[j][m]
                BY <1>1, <3>2
            <4>2. (m <= n) <=> (m <= n - 1)
                BY <1>2, <3>2, BoundAssumption DEF AttemptNumber
            <4>3. QED BY <1>1, <2>1, <4>1, <4>2 DEF LedgerExact
        <3>3. QED BY <3>1, <3>2
    <2>3. r.dead_letter_reason = "retries_exhausted" =>
             a[MaxAttempts] = "retries_exhausted"
        <3>1. CASE last
            BY <1>1, <1>2, <3>1, BoundAssumption DEF AttemptNumber, JobRow
        <3>2. CASE ~last
            BY <1>1, <1>5, <3>2, DomainAssumption DEF RowConstraint, Terminal
        <3>3. QED BY <3>1, <3>2
    <2>4. QED BY <2>2, <2>3 DEF LedgerExact
<1>8. row' = [row EXCEPT ![j] = r] /\ attempts' = [attempts EXCEPT ![j] = a]
    BY DEF EndAttempt
<1>9. r.state \in Terminal \cup {"retryable"}
    BY <1>5 DEF Terminal
<1> QED BY <1>3, <1>4, <1>5, <1>6, <1>7, <1>8, <1>9

(***************************************************************************)
(* The actions that change a row                                           *)
(***************************************************************************)

\* Facts about one job's row and one process that the invariant gives.
LEMMA Facts ==
    ASSUME IInv
    PROVE  /\ clock \in Nat /\ crashes \in Nat
           /\ \A j \in Job :
                /\ row[j] \in JobRow /\ RowConstraint(row[j]) /\ RowPast(row[j])
                /\ LedgerExact(row[j], attempts[j])
                /\ attempts[j] \in [AttemptNumber -> Disposition \cup {None}]
                /\ SessionOf[j] \in cleared =>
                     row[j].state \in Terminal \cup {"absent"}
           /\ \A w \in Worker : proc[w] \in Process /\ proc[w].now <= clock
           /\ \A w \in Worker : At(w, "executing") =>
                /\ proc[w].job \in Job
                /\ row[proc[w].job].state # "absent"
                /\ row[proc[w].job].queued_at <= proc[w].now
BY DomainAssumption
   DEF IInv, TypeOK, RowConstraints, RowHistory, AttemptLedger, ProcessHistory,
       ClearedIsSettled, AllSettled, JobsOf, At

LEMMA IdleType == Idle \in Process
BY DomainAssumption, BoundAssumption DEF Idle, Process, PC

\* A process gives up what it was doing and returns to its loop.
LEMMA IdleStep ==
    ASSUME IInv, NEW w \in Worker,
           UNCHANGED <<clock, requested, deleted, cleared, row, attempts>>,
           crashes' \in Nat,
           proc' = [proc EXCEPT ![w] = Idle]
    PROVE  IInv'
<1>1. Idle.pc = "idle" /\ Idle.now = 0
    BY DEF Idle
<1>2. Idle.now <= clock
    BY <1>1, Facts
<1>3. QED BY <1>1, <1>2, IdleType, ProcessStep

LEMMA EnqueueIInv ==
    ASSUME IInv, NEW j \in Job, Enqueue(j) PROVE IInv'
<1>1. Queued(clock) \in JobRow /\ RowConstraint(Queued(clock))
      /\ RowPast(Queued(clock))
    BY Facts, DomainAssumption, BoundAssumption
       DEF Queued, RowConstraint, RowPast, JobRow, JobState, Claimable, Terminal
<1>2. LedgerExact(Queued(clock), attempts[j])
    <2>1. EndedAttempts(Queued(clock)) = 0 /\ EndedAttempts(row[j]) = 0
        BY Facts DEF EndedAttempts, Queued, Enqueue, RowPast
    <2>2. Queued(clock).dead_letter_reason = None
        BY DEF Queued
    <2>3. QED BY <2>1, <2>2, Facts, DomainAssumption DEF LedgerExact
<1>3. attempts' = [attempts EXCEPT ![j] = attempts[j]]
    BY DEF Enqueue, IInv, TypeOK
<1>4. SessionOf[j] \notin cleared
    BY DEF Enqueue, LiveContent, IInv
<1>5. Queued(clock).state = "queued" /\ Queued(clock).lease_owner = None
    BY DEF Queued
<1>6. QED BY <1>1, <1>2, <1>3, <1>4, <1>5, Facts, DatabaseStep DEF Enqueue

LEMMA ReclaimIInv ==
    ASSUME IInv, NEW j \in Job, NEW t \in Nat, ExpiredLeaseAt(j, t), Reclaim(j, t),
           UNCHANGED <<clock, requested, deleted, cleared, proc, crashes>>
    PROVE  IInv'
<1>1. t >= row[j].queued_at /\ row[j].state = "running"
    BY Facts DEF ExpiredLeaseAt, RowPast, JobRow, RowConstraint
<1>2. PICK r \in JobRow, a \in [AttemptNumber -> Disposition \cup {None}] :
              /\ row' = [row EXCEPT ![j] = r]
              /\ attempts' = [attempts EXCEPT ![j] = a]
              /\ RowConstraint(r) /\ RowPast(r) /\ LedgerExact(r, a)
              /\ r.lease_owner = None
              /\ r.state \in Terminal \cup {"retryable"}
              /\ r.queued_at = row[j].queued_at
    BY <1>1, EndAttemptRow DEF Reclaim
<1>3. SessionOf[j] \notin cleared
    BY <1>1, Facts DEF Terminal
<1>4. r.state # "absent"
    BY <1>2 DEF Terminal
<1>5. QED BY <1>2, <1>3, <1>4, DatabaseStep

LEMMA LeaseIInv ==
    ASSUME IInv, NEW w \in Worker, Lease(w) PROVE IInv'
<1> DEFINE j == proc[w].job
           r == Leased(row[j], w, proc[w].now)
<1>1. j \in Job /\ proc[w].now \in Nat /\ proc[w] \in Process
    BY Facts DEF IInv, ProcessHistory, Lease, At, Process
<1>2. CASE DueRow(row[j], proc[w].now)
    <2>1. row' = [row EXCEPT ![j] = r]
          /\ proc' = [proc EXCEPT ![w].pc = "executing",
                                  ![w].attempt = r.attempt_count]
        BY <1>2 DEF Lease
    <2>2. r \in JobRow
        BY <1>1, <1>2, Facts, TransitionTypes DEF DueRow
    <2>3. /\ r.state = "running" /\ r.attempt_count = row[j].attempt_count + 1
          /\ r.lease_owner = w /\ r.lease_expires_at = proc[w].now + LeaseFor
          /\ r.queued_at = row[j].queued_at /\ r.available_at = row[j].available_at
          /\ r.completed_at = row[j].completed_at
          /\ r.dead_letter_reason = row[j].dead_letter_reason
        BY <1>1, Facts, TransitionFields
    <2>4. row[j].queued_at <= proc[w].now
        BY <1>1, <1>2, Facts DEF DueRow, RowConstraint, JobRow
    <2>5. RowConstraint(r) /\ RowPast(r)
        BY <1>1, <1>2, <2>3, <2>4, Facts, DomainAssumption, BoundAssumption
           DEF RowConstraint, RowPast, JobRow, DueRow, Claimable, Terminal
    <2>6. LedgerExact(r, attempts[j])
        <3>1. EndedAttempts(r) = EndedAttempts(row[j])
            BY <1>1, <1>2, <2>3, Facts DEF EndedAttempts, DueRow, Claimable, JobRow
        <3>2. QED BY <1>1, <2>3, <3>1, Facts DEF LedgerExact
    <2>7. attempts' = [attempts EXCEPT ![j] = attempts[j]]
        BY <1>1 DEF Lease, IInv, TypeOK
    <2>8. SessionOf[j] \notin cleared
        BY <1>1, <1>2, Facts DEF DueRow, Claimable, Terminal
    <2>9. proc' \in [Worker -> Process]
        BY <1>1, <2>1, <2>2 DEF IInv, TypeOK, Process, PC, JobRow
    <2>10. /\ \A k \in Job : row'[k] = (IF k = j THEN r ELSE row[k])
           /\ \A v \in Worker : v # w => proc'[v] = proc[v]
           /\ proc'[w].pc = "executing" /\ proc'[w].job = j
           /\ proc'[w].attempt = r.attempt_count /\ proc'[w].now = proc[w].now
        BY <1>1, <2>1 DEF IInv, TypeOK, Process
    <2>11. HolderIsCurrent'
        <3> SUFFICES ASSUME NEW v \in Worker, NEW k \in Job,
                            Executing(v, k)', (row[k].lease_owner = v)'
                     PROVE  (proc[v].attempt = row[k].attempt_count)'
            BY DEF HolderIsCurrent
        <3>1. CASE v = w
            BY <2>10, <3>1 DEF Executing, At
        <3>2. CASE v # w
            BY <2>3, <2>10, <3>2 DEF IInv, HolderIsCurrent, Executing, At
        <3>3. QED BY <3>1, <3>2
    <2>12. ProcessHistory'
        <3> SUFFICES ASSUME NEW v \in Worker
                     PROVE  /\ proc'[v].pc \in {"claiming", "leasing", "executing"}
                                 => proc'[v].job \in Job
                            /\ proc'[v].now <= clock'
                            /\ proc'[v].pc = "executing" =>
                                 /\ row'[proc'[v].job].state # "absent"
                                 /\ row'[proc'[v].job].queued_at <= proc'[v].now
            BY DEF ProcessHistory, At
        <3>1. clock' = clock
            BY DEF Lease
        <3>2. CASE v = w
            BY <1>1, <2>3, <2>4, <2>10, <3>1, <3>2, Facts
        <3>3. CASE v # w
            BY <1>1, <2>3, <2>10, <3>1, <3>3 DEF IInv, ProcessHistory, At
        <3>4. QED BY <3>2, <3>3
    <2>13. UNCHANGED <<clock, requested, deleted, cleared, crashes>>
        BY DEF Lease
    <2>14. /\ TypeOK' /\ RowConstraints' /\ RowHistory' /\ AttemptLedger'
           /\ ClearedIsSettled' /\ (cleared \subseteq requested)'
        BY <1>1, <2>1, <2>2, <2>5, <2>6, <2>7, <2>8, <2>9, <2>13, Facts, RowStep
    <2>15. QED BY <2>11, <2>12, <2>14 DEF IInv
<1>3. CASE ~ DueRow(row[j], proc[w].now)
    BY <1>3, IdleStep, Facts DEF Lease
<1>4. QED BY <1>2, <1>3

\* The process that executes a job settles it and returns to its loop.
LEMMA SettleStep ==
    ASSUME IInv, NEW w \in Worker, NEW j \in Job, NEW r \in JobRow,
           NEW a \in [AttemptNumber -> Disposition \cup {None}],
           UNCHANGED <<clock, requested, deleted, cleared, crashes>>,
           row' = [row EXCEPT ![j] = r],
           attempts' = [attempts EXCEPT ![j] = a],
           proc' = [proc EXCEPT ![w] = Idle],
           RowConstraint(r), RowPast(r), LedgerExact(r, a),
           row[j].state = "running",
           r.lease_owner = None,
           r.state # "absent",
           r.queued_at = row[j].queued_at
    PROVE  IInv'
<1>1. proc' \in [Worker -> Process]
    BY IdleType DEF IInv, TypeOK
<1>2. /\ \A k \in Job : row'[k] = (IF k = j THEN r ELSE row[k])
      /\ \A v \in Worker : v # w => proc'[v] = proc[v]
      /\ proc'[w].pc = "idle" /\ proc'[w].now = 0
    BY DEF IInv, TypeOK, Idle
<1>3. HolderIsCurrent'
    BY <1>2, DomainAssumption DEF IInv, HolderIsCurrent, Executing, At
<1>4. ProcessHistory'
    BY <1>2, Facts DEF IInv, ProcessHistory, At
<1>5. SessionOf[j] \notin cleared
    BY Facts DEF Terminal
<1>6. QED BY <1>1, <1>3, <1>4, <1>5, RowStep DEF IInv

LEMMA CompleteIInv ==
    ASSUME IInv, NEW w \in Worker, NEW t \in Reading(w), Complete(w, t) PROVE IInv'
<1> DEFINE j == proc[w].job
           r == Released(Succeeded(row[j], t))
<1>1. j \in Job /\ t \in Nat /\ row[j].state = "running"
    BY Facts DEF Complete, ActiveLease, Reading
<1>2. r \in JobRow
    BY <1>1, Facts, TransitionTypes, DomainAssumption
<1>3. /\ r.state = "succeeded" /\ r.completed_at = t
      /\ r.dead_letter_reason = row[j].dead_letter_reason
      /\ r.lease_owner = None /\ r.lease_expires_at = None
      /\ r.queued_at = row[j].queued_at /\ r.available_at = row[j].available_at
      /\ r.attempt_count = row[j].attempt_count
    BY <1>1, Facts, TransitionFields
<1>4. RowConstraint(r) /\ RowPast(r)
    BY <1>1, <1>3, Facts, DomainAssumption
       DEF RowConstraint, RowPast, JobRow, Terminal
<1>5. LedgerExact(r, attempts[j])
    <2>1. EndedAttempts(r) = EndedAttempts(row[j])
        BY <1>1, <1>3 DEF EndedAttempts
    <2>2. QED BY <1>1, <1>3, <2>1, Facts DEF LedgerExact
<1>6. /\ attempts' = [attempts EXCEPT ![j] = attempts[j]]
      /\ row' = [row EXCEPT ![j] = r]
      /\ proc' = [proc EXCEPT ![w] = Idle]
      /\ UNCHANGED <<clock, requested, deleted, cleared, crashes>>
    BY <1>1 DEF Complete, IInv, TypeOK
<1>7. attempts[j] \in [AttemptNumber -> Disposition \cup {None}]
    BY <1>1, Facts
<1>8. QED BY <1>1, <1>2, <1>3, <1>4, <1>5, <1>6, <1>7, SettleStep

LEMMA FailIInv ==
    ASSUME IInv, NEW w \in Worker, NEW t \in Reading(w), Fail(w, t) PROVE IInv'
<1> DEFINE j == proc[w].job
<1>1. j \in Job /\ t \in Nat /\ row[j].state = "running" /\ proc[w].now <= t
    BY Facts DEF Fail, ActiveLease, Reading
<1>2. t + RetryDelay \in Nat /\ t + RetryDelay >= row[j].queued_at
    BY <1>1, Facts, BoundAssumption DEF Fail, JobRow, Process
<1>3. PICK r \in JobRow, a \in [AttemptNumber -> Disposition \cup {None}] :
              /\ row' = [row EXCEPT ![j] = r]
              /\ attempts' = [attempts EXCEPT ![j] = a]
              /\ RowConstraint(r) /\ RowPast(r) /\ LedgerExact(r, a)
              /\ r.lease_owner = None
              /\ r.state \in Terminal \cup {"retryable"}
              /\ r.queued_at = row[j].queued_at
    BY <1>1, <1>2, EndAttemptRow DEF Fail
<1>4. r.state # "absent"
    BY <1>3 DEF Terminal
<1>5. /\ proc' = [proc EXCEPT ![w] = Idle]
      /\ UNCHANGED <<clock, requested, deleted, cleared, crashes>>
    BY DEF Fail
<1>6. QED BY <1>1, <1>3, <1>4, <1>5, SettleStep

LEMMA HeartbeatIInv ==
    ASSUME IInv, NEW w \in Worker, NEW t \in Reading(w), Heartbeat(w, t) PROVE IInv'
<1> DEFINE j == proc[w].job
           r == [row[j] EXCEPT !.lease_expires_at = t + LeaseFor]
           p == [proc[w] EXCEPT !.now = t, !.beats = @ + 1]
<1>1. /\ j \in Job /\ t \in Nat /\ row[j].state = "running"
      /\ proc[w].now <= t /\ t <= clock
      /\ row[j].lease_owner = w
      /\ row[j] \in JobRow /\ proc[w] \in Process
    BY Facts DEF Heartbeat, ActiveLease, Reading
<1>2. /\ r \in JobRow
      /\ r.state = row[j].state /\ r.queued_at = row[j].queued_at
      /\ r.available_at = row[j].available_at /\ r.attempt_count = row[j].attempt_count
      /\ r.lease_owner = row[j].lease_owner /\ r.completed_at = row[j].completed_at
      /\ r.dead_letter_reason = row[j].dead_letter_reason
      /\ r.lease_expires_at = t + LeaseFor /\ t + LeaseFor \in Nat
    BY <1>1, BoundAssumption DEF JobRow
<1>3. proc[w].beats + 1 \in 0..MaxBeats
    BY <1>1, BoundAssumption DEF Heartbeat, Process
<1>4. p \in Process /\ p.pc = proc[w].pc /\ p.job = j /\ p.now = t
      /\ p.attempt = proc[w].attempt
    BY <1>1, <1>3 DEF Process
<1>5. row' = [row EXCEPT ![j] = r] /\ proc' = [proc EXCEPT ![w] = p]
      /\ attempts' = [attempts EXCEPT ![j] = attempts[j]]
      /\ UNCHANGED <<clock, requested, deleted, cleared, crashes>>
    BY <1>1 DEF Heartbeat, IInv, TypeOK
<1>6. RowConstraint(r) /\ RowPast(r)
    BY <1>1, <1>2, Facts, DomainAssumption, BoundAssumption
       DEF RowConstraint, RowPast, JobRow, Terminal, Heartbeat, Process
<1>7. LedgerExact(r, attempts[j])
    <2>1. EndedAttempts(r) = EndedAttempts(row[j])
        BY <1>2 DEF EndedAttempts
    <2>2. QED BY <1>1, <1>2, <2>1, Facts DEF LedgerExact
<1>8. proc' \in [Worker -> Process]
    BY <1>4, <1>5 DEF IInv, TypeOK
<1>9. /\ \A k \in Job : /\ row'[k].state = row[k].state
                        /\ row'[k].queued_at = row[k].queued_at
                        /\ row'[k].lease_owner = row[k].lease_owner
                        /\ row'[k].attempt_count = row[k].attempt_count
      /\ \A v \in Worker : /\ proc'[v].pc = proc[v].pc
                           /\ proc'[v].job = proc[v].job
                           /\ proc'[v].attempt = proc[v].attempt
                           /\ v # w => proc'[v].now = proc[v].now
      /\ proc'[w].now = t
    <2> HIDE DEF r, p
    <2>1. \A k \in Job : row'[k] = (IF k = j THEN r ELSE row[k])
        BY <1>5 DEF IInv, TypeOK
    <2>2. \A v \in Worker : proc'[v] = (IF v = w THEN p ELSE proc[v])
        BY <1>5 DEF IInv, TypeOK
    <2>3. QED BY <1>2, <1>4, <2>1, <2>2
<1>10. HolderIsCurrent'
    BY <1>9 DEF IInv, HolderIsCurrent, Executing, At
<1>11. ProcessHistory'
    <2> SUFFICES ASSUME NEW v \in Worker
                 PROVE  /\ proc'[v].pc \in {"claiming", "leasing", "executing"}
                             => proc'[v].job \in Job
                        /\ proc'[v].now <= clock
                        /\ proc'[v].pc = "executing" =>
                             /\ row'[proc'[v].job].state # "absent"
                             /\ row'[proc'[v].job].queued_at <= proc'[v].now
        BY <1>5 DEF ProcessHistory, At
    <2>1. CASE v = w
        <3>1. row[j].queued_at <= t
            BY <1>1, Facts DEF Heartbeat, JobRow, Process
        <3>2. QED BY <1>1, <1>9, <2>1, <3>1
    <2>2. CASE v # w
        BY <1>9, <2>2 DEF IInv, ProcessHistory, At
    <2>3. QED BY <2>1, <2>2
<1>12. SessionOf[j] \notin cleared /\ attempts[j] \in [AttemptNumber -> Disposition \cup {None}]
    BY <1>1, Facts DEF Terminal
<1>13. /\ TypeOK' /\ RowConstraints' /\ RowHistory' /\ AttemptLedger'
       /\ ClearedIsSettled' /\ (cleared \subseteq requested)'
    BY <1>1, <1>2, <1>5, <1>6, <1>7, <1>8, <1>12, RowStep
<1>14. QED BY <1>10, <1>11, <1>13 DEF IInv

LEMMA SweepOrphanIInv ==
    ASSUME IInv, NEW j \in Job, NEW t \in 0..clock, SweepOrphan(j, t) PROVE IInv'
<1> DEFINE r == Released(Orphaned(row[j], t))
<1>1. t \in Nat /\ row[j].state \in Claimable /\ row[j] \in JobRow
    BY Facts DEF SweepOrphan, OrphanedAt
<1>2. /\ r.state = "dead_lettered" /\ r.completed_at = t
      /\ r.dead_letter_reason = "content_deleted"
      /\ r.lease_owner = None /\ r.lease_expires_at = None
      /\ r.queued_at = row[j].queued_at /\ r.available_at = row[j].available_at
      /\ r.attempt_count = row[j].attempt_count
    BY <1>1, DomainAssumption
       DEF Released, Orphaned, JobRow
<1>3. r \in JobRow
    BY <1>1, DomainAssumption
       DEF Released, Orphaned, JobRow, JobState, Terminal, DeadLetterReason
<1>4. RowConstraint(r) /\ RowPast(r)
    BY <1>1, <1>2, Facts, DomainAssumption DEF RowConstraint, RowPast, JobRow, Terminal
<1>5. LedgerExact(r, attempts[j])
    <2>1. EndedAttempts(r) = EndedAttempts(row[j])
        BY <1>1, <1>2 DEF EndedAttempts, Claimable
    <2>2. QED BY <1>2, <2>1, Facts DEF LedgerExact
<1>6. /\ attempts' = [attempts EXCEPT ![j] = attempts[j]]
      /\ row' = [row EXCEPT ![j] = r]
      /\ UNCHANGED <<clock, requested, deleted, cleared, proc, crashes>>
    BY DEF SweepOrphan, IInv, TypeOK
<1>7. r.state \in Terminal
    BY <1>2 DEF Terminal
<1>8. attempts[j] \in [AttemptNumber -> Disposition \cup {None}]
    BY Facts
<1>9. QED BY <1>2, <1>3, <1>4, <1>5, <1>6, <1>7, <1>8, DatabaseStep DEF Terminal

LEMMA DeferIInv ==
    ASSUME IInv, NEW s \in Session, NEW t \in 0..clock, NEW a \in 0..t,
           NEW first \in BOOLEAN, DeferForPublication(s, t, a, first)
    PROVE  IInv'
<1> DEFINE Hit(k) == k \in JobsOf(s) /\ row[k].state \in Claimable
<1>1. t \in Nat /\ a \in Nat
    BY Facts
<1>2. /\ \A k \in Job : Hit(k) => row'[k] = Orphaned(row[k], a)
      /\ \A k \in Job : ~Hit(k) => row'[k] = row[k]
    BY DEF DeferForPublication, SettledUnleased
<1>3. ASSUME NEW k \in Job, Hit(k)
      PROVE  /\ row'[k] \in JobRow
             /\ row'[k].state = "dead_lettered" /\ row'[k].completed_at = a
             /\ row'[k].dead_letter_reason = "content_deleted"
             /\ row'[k].lease_owner = row[k].lease_owner
             /\ row'[k].lease_expires_at = row[k].lease_expires_at
             /\ row'[k].queued_at = row[k].queued_at
             /\ row'[k].available_at = row[k].available_at
             /\ row'[k].attempt_count = row[k].attempt_count
    <2>1. row[k] \in JobRow /\ row'[k] = Orphaned(row[k], a)
        BY <1>2, <1>3, Facts
    <2>2. QED
        BY <1>1, <2>1, DomainAssumption
           DEF Orphaned, JobRow, JobState, Terminal, DeadLetterReason
<1>4. ASSUME NEW k \in Job
      PROVE  row'[k] \in JobRow /\ RowConstraint(row'[k]) /\ RowPast(row'[k])
    <2>1. CASE Hit(k)
        BY <1>1, <1>3, <2>1, Facts, DomainAssumption
           DEF RowConstraint, RowPast, JobRow, Claimable, Terminal
    <2>2. CASE ~Hit(k)
        BY <1>2, <2>2, Facts
    <2>3. QED BY <2>1, <2>2
<1>5. ASSUME NEW k \in Job PROVE LedgerExact(row'[k], attempts[k])
    <2>1. CASE Hit(k)
        <3>1. EndedAttempts(row'[k]) = EndedAttempts(row[k])
            BY <1>3, <2>1 DEF EndedAttempts, Claimable
        <3>2. QED BY <1>3, <2>1, <3>1, Facts DEF LedgerExact
    <2>2. CASE ~Hit(k)
        BY <1>2, <2>2, Facts
    <2>3. QED BY <2>1, <2>2
<1>6. /\ UNCHANGED <<clock, requested, deleted, attempts, proc, crashes>>
      /\ cleared \subseteq cleared'
      /\ cleared' \subseteq cleared \cup {s}
      /\ s \in requested
    BY DEF DeferForPublication
<1>7. TypeOK'
    <2>1. row' \in [Job -> JobRow]
        BY <1>4 DEF DeferForPublication, SettledUnleased
    <2>2. QED BY <1>6, <2>1 DEF IInv, TypeOK
<1>8. RowConstraints' /\ RowHistory' /\ AttemptLedger'
    BY <1>4, <1>5, <1>6 DEF RowConstraints, RowHistory, AttemptLedger
<1>9. \A k \in Job : /\ row'[k].lease_owner = row[k].lease_owner
                     /\ row'[k].attempt_count = row[k].attempt_count
                     /\ row'[k].queued_at = row[k].queued_at
                     /\ row[k].state # "absent" => row'[k].state # "absent"
                     /\ row[k].state \in Terminal \cup {"absent"} =>
                          row'[k].state \in Terminal \cup {"absent"}
    BY <1>2, <1>3 DEF Terminal
<1>10. HolderIsCurrent'
    BY <1>6, <1>9 DEF IInv, HolderIsCurrent, Executing, At
<1>11. ProcessHistory'
    BY <1>6, <1>9 DEF IInv, ProcessHistory, At
<1>12. ClearedIsSettled'
    <2> SUFFICES ASSUME NEW c \in cleared', NEW k \in JobsOf(c)
                 PROVE  row'[k].state \in Terminal \cup {"absent"}
        BY DEF ClearedIsSettled, AllSettled, JobsOf
    <2>1. CASE c \in cleared
        BY <1>9, <2>1, Facts DEF JobsOf
    <2>2. CASE c \notin cleared
        <3>1. c = s /\ AllSettled(s, row')
            BY <1>6, <2>2 DEF DeferForPublication
        <3>2. QED BY <3>1 DEF AllSettled
    <2>3. QED BY <2>1, <2>2
<1>13. (cleared \subseteq requested)'
    BY <1>6 DEF IInv
<1>14. QED BY <1>7, <1>8, <1>10, <1>11, <1>12, <1>13 DEF IInv

(***************************************************************************)
(* Every step preserves the inductive invariant                            *)
(***************************************************************************)
LEMMA NextIInv == IInv /\ [Next]_vars => IInv'
<1> SUFFICES ASSUME IInv, [Next]_vars PROVE IInv'
    OBVIOUS
<1>1. ASSUME NEW j \in Job, Enqueue(j) PROVE IInv'
    BY <1>1, EnqueueIInv
<1>2. ASSUME NEW j \in Job, NEW t \in 0..clock, SweepExpired(j, t) PROVE IInv'
    BY <1>2, Facts, ReclaimIInv DEF SweepExpired
<1>3. ASSUME NEW j \in Job, NEW t \in 0..clock, SweepOrphan(j, t) PROVE IInv'
    BY <1>3, SweepOrphanIInv
<1>4. ASSUME NEW w \in Worker, BeginRun(w) PROVE IInv'
    <2> DEFINE p == [proc[w] EXCEPT !.pc = "recovering", !.now = clock]
    <2>1. p \in Process /\ p.pc = "recovering" /\ p.now = clock
        BY Facts DEF Process, PC
    <2>2. proc' = [proc EXCEPT ![w] = p]
        BY <1>4 DEF BeginRun, IInv, TypeOK
    <2> HIDE DEF p
    <2>3. clock <= clock /\ crashes' \in Nat
          /\ UNCHANGED <<clock, requested, deleted, cleared, row, attempts>>
        BY <1>4, Facts DEF BeginRun
    <2>4. QED BY <2>1, <2>2, <2>3, ProcessStep
<1>5. ASSUME NEW w \in Worker, NEW j \in Job, WorkerRecover(w, j) PROVE IInv'
    BY <1>5, Facts, ReclaimIInv DEF WorkerRecover, Process
<1>6. ASSUME NEW w \in Worker, Pick(w) PROVE IInv'
    <2>1. CASE proc' = [proc EXCEPT ![w] = Idle]
        BY <1>6, <2>1, IdleStep, Facts DEF Pick
    <2>2. ASSUME NEW j \in Job,
                 proc' = [proc EXCEPT ![w].pc = "claiming", ![w].job = j]
          PROVE  IInv'
        <3> DEFINE p == [proc[w] EXCEPT !.pc = "claiming", !.job = j]
        <3>1. p \in Process /\ p.pc = "claiming" /\ p.job = j /\ p.now = proc[w].now
            BY Facts DEF Process, PC
        <3>2. proc' = [proc EXCEPT ![w] = p]
            BY <2>2 DEF IInv, TypeOK
        <3> HIDE DEF p
        <3>3. QED BY <1>6, <3>1, <3>2, Facts, ProcessStep DEF Pick
    <2>3. QED BY <1>6, <2>1, <2>2 DEF Pick
<1>7. ASSUME NEW w \in Worker, LeaseSnapshot(w) PROVE IInv'
    <2>1. CASE proc' = [proc EXCEPT ![w] = Idle]
        BY <1>7, <2>1, IdleStep, Facts DEF LeaseSnapshot
    <2>2. CASE proc' = [proc EXCEPT ![w] = [proc[w] EXCEPT !.pc = "leasing"]]
        <3> DEFINE p == [proc[w] EXCEPT !.pc = "leasing"]
        <3>1. p \in Process /\ p.pc = "leasing" /\ p.job = proc[w].job
              /\ p.now = proc[w].now /\ p.job \in Job
            BY <1>7, Facts DEF Process, PC, LeaseSnapshot, At, IInv, ProcessHistory
        <3>2. proc' = [proc EXCEPT ![w] = p]
            BY <2>2
        <3> HIDE DEF p
        <3>3. QED BY <1>7, <3>1, <3>2, Facts, ProcessStep DEF LeaseSnapshot
    <2>3. QED BY <1>7, <2>1, <2>2 DEF LeaseSnapshot, IInv, TypeOK
<1>8. ASSUME NEW w \in Worker, Lease(w) PROVE IInv'
    BY <1>8, LeaseIInv
<1>9. ASSUME NEW w \in Worker, NEW t \in Reading(w), Heartbeat(w, t) PROVE IInv'
    BY <1>9, HeartbeatIInv
<1>10. ASSUME NEW w \in Worker, NEW t \in Reading(w), Complete(w, t) PROVE IInv'
    BY <1>10, CompleteIInv
<1>11. ASSUME NEW w \in Worker, NEW t \in Reading(w), Fail(w, t) PROVE IInv'
    BY <1>11, FailIInv
<1>12. ASSUME NEW w \in Worker, NEW t \in Reading(w), LeaseLost(w, t) PROVE IInv'
    BY <1>12, IdleStep, Facts DEF LeaseLost
<1>13. ASSUME NEW w \in Worker, Crash(w) PROVE IInv'
    <2>1. crashes' \in Nat
        BY <1>13, Facts DEF Crash
    <2>2. QED BY <1>13, <2>1, IdleStep DEF Crash
<1>14. ASSUME NEW s \in Session, RequestDeletion(s) PROVE IInv'
    BY <1>14, Facts, SessionStep DEF RequestDeletion, IInv, TypeOK
<1>15. ASSUME NEW s \in Session, NEW t \in 0..clock, NEW a \in 0..t,
              NEW first \in BOOLEAN, DeferForPublication(s, t, a, first)
       PROVE  IInv'
    BY <1>15, DeferIInv
<1>16. ASSUME NEW s \in Session, DeleteContent(s) \/ UpdateSession(s) PROVE IInv'
    BY <1>16, Facts, SessionStep DEF DeleteContent, UpdateSession, IInv, TypeOK
<1>17. CASE Tick
    BY <1>17, Facts, SessionStep DEF Tick, IInv, TypeOK
<1>18. CASE UNCHANGED vars
    BY <1>18, Facts, SessionStep DEF vars, IInv, TypeOK
<1>19. QED
    BY <1>1, <1>2, <1>3, <1>4, <1>5, <1>6, <1>7, <1>8, <1>9, <1>10, <1>11, <1>12,
       <1>13, <1>14, <1>15, <1>16, <1>17, <1>18
       DEF Next, Sweep, WorkerStep, LoopStep, Settle, DeletionStep

\* The inductive invariant holds in every reachable state.
LEMMA Invariance == Spec => []IInv
<1>1. QED BY InitIInv, NextIInv, PTL DEF Spec

(***************************************************************************)
(* The theorems                                                            *)
(***************************************************************************)

\* Every reachable state is well typed.
THEOREM TypeCorrect == Spec => []TypeOK
<1>1. IInv => TypeOK
    BY DEF IInv
<1>2. QED BY <1>1, Invariance, PTL

\* No transition ever writes a row that the CHECK constraints of
\* rra_report_jobs would refuse.
THEOREM RowsAreValid == Spec => []RowConstraints
<1>1. IInv => RowConstraints
    BY DEF IInv
<1>2. QED BY <1>1, Invariance, PTL

\* The attempt ledger is exact in every reachable state.
THEOREM LedgerIsExact == Spec => []AttemptLedger
<1>1. IInv => AttemptLedger
    BY DEF IInv
<1>2. QED BY <1>1, Invariance, PTL

\* A process that finds its worker_id on a lease holds the counted attempt.
THEOREM HoldersAreCurrent == Spec => []HolderIsCurrent
<1>1. IInv => HolderIsCurrent
    BY DEF IInv
<1>2. QED BY <1>1, Invariance, PTL

\* A deletion pass that need not wait never meets an unsettled job again.
THEOREM DeletionMeetsNoOpenJob == Spec => []ClearedIsSettled
<1>1. IInv => ClearedIsSettled
    BY DEF IInv
<1>2. QED BY <1>1, Invariance, PTL

\* A settled row is final: every action that writes a row writes one whose
\* state is neither succeeded nor dead_lettered.
LEMMA SettledStep ==
    ASSUME IInv, [Next]_vars, NEW j \in Job, row[j].state \in Terminal
    PROVE  row'[j] = row[j]
<1>1. ASSUME NEW k \in Job, NEW r, row[k].state \notin Terminal,
             row' = [row EXCEPT ![k] = r]
      PROVE  row'[j] = row[j]
    BY <1>1 DEF IInv, TypeOK
<1>2. ASSUME NEW k \in Job, NEW t, NEW u, NEW d, EndAttempt(k, t, u, d),
             row[k].state = "running"
      PROVE  row'[j] = row[j]
    BY <1>1, <1>2 DEF EndAttempt, Terminal
<1>3. ASSUME NEW w \in Worker, NEW t, ActiveLease(w, proc[w].job, t), At(w, "executing")
      PROVE  proc[w].job \in Job /\ row[proc[w].job].state = "running"
    BY <1>3, Facts DEF ActiveLease
<1>4. ASSUME NEW k \in Job, Enqueue(k) PROVE row'[j] = row[j]
    BY <1>1, <1>4 DEF Enqueue, Terminal
<1>5. ASSUME NEW k \in Job, Sweep(k) PROVE row'[j] = row[j]
    BY <1>1, <1>2, <1>5
       DEF Sweep, SweepExpired, SweepOrphan, ExpiredLeaseAt, Reclaim, OrphanedAt,
           Claimable, Terminal
<1>6. ASSUME NEW w \in Worker, WorkerStep(w) PROVE row'[j] = row[j]
    <2>1. ASSUME NEW k \in Job, WorkerRecover(w, k) PROVE row'[j] = row[j]
        BY <1>2, <2>1 DEF WorkerRecover, ExpiredLeaseAt, Reclaim
    <2>2. CASE Lease(w)
        BY <1>1, <2>2 DEF Lease, DueRow, IInv, ProcessHistory, At, Claimable, Terminal
    <2>3. ASSUME NEW t \in Reading(w), Heartbeat(w, t) \/ Complete(w, t)
          PROVE  row'[j] = row[j]
        BY <1>1, <1>3, <2>3 DEF Heartbeat, Complete, Terminal, IInv, TypeOK
    <2>4. ASSUME NEW t \in Reading(w), Fail(w, t) PROVE row'[j] = row[j]
        BY <1>2, <1>3, <2>4 DEF Fail
    <2>5. QED
        BY <1>6, <2>1, <2>2, <2>3, <2>4
           DEF WorkerStep, LoopStep, Settle, BeginRun, Pick, LeaseSnapshot, LeaseLost, Crash
<1>7. ASSUME NEW s \in Session, DeletionStep(s) PROVE row'[j] = row[j]
    BY <1>7
       DEF DeletionStep, RequestDeletion, DeferForPublication, SettledUnleased,
           DeleteContent, UpdateSession, Claimable, Terminal
<1>8. QED BY <1>4, <1>5, <1>6, <1>7 DEF Next, Tick, vars

\* No step of any process changes a settled job.
THEOREM SettledJobsAreFinal == Spec => SettledIsFinal
<1>1. IInv /\ [Next]_vars =>
         [\A j \in Job : row[j].state \in Terminal => row'[j] = row[j]]_vars
    BY SettledStep
<1>2. QED BY <1>1, Invariance, PTL DEF Spec, SettledIsFinal

\* A step that takes a job out of running is the holder's own settlement, or a
\* reclaim of a lease that has run out.
LEMMA SettlesStep ==
    ASSUME IInv, [Next]_vars, NEW j \in Job,
           row[j].state = "running", row'[j].state # "running"
    PROVE  \/ \E w \in Worker :
                 /\ Executing(w, j)
                 /\ proc[w].attempt = row[j].attempt_count
                 /\ proc'[w] = Idle
           \/ /\ row'[j].state # "succeeded"
              /\ row[j].lease_expires_at <= clock
<1> DEFINE Held == \E w \in Worker :
                      /\ Executing(w, j)
                      /\ proc[w].attempt = row[j].attempt_count
                      /\ proc'[w] = Idle
           Lapsed == row'[j].state # "succeeded" /\ row[j].lease_expires_at <= clock
<1>1. ASSUME NEW k \in Job, NEW r, row' = [row EXCEPT ![k] = r],
             row[k].state # "running" \/ r.state = "running"
      PROVE  FALSE
    BY <1>1 DEF IInv, TypeOK
<1>2. ASSUME NEW k \in Job, NEW t \in Nat, t <= clock, ExpiredLeaseAt(k, t), Reclaim(k, t)
      PROVE  Lapsed
    <2>1. k = j
        BY <1>2 DEF Reclaim, EndAttempt, IInv, TypeOK
    <2>2. row[j].lease_expires_at <= clock
        BY <1>2, <2>1, Facts DEF ExpiredLeaseAt, RowConstraint, JobRow
    <2>3. /\ Released(Exhausted(row[j], t)).state = "dead_lettered"
          /\ Released(Rescheduled(row[j], t)).state = "retryable"
        BY Facts DEF Released, Exhausted, Rescheduled, JobRow
    <2>4. row'[j] \in {Released(Exhausted(row[j], t)), Released(Rescheduled(row[j], t))}
        BY <1>2, <2>1 DEF Reclaim, EndAttempt, IInv, TypeOK
    <2>5. row'[j].state # "succeeded"
        BY <2>3, <2>4
    <2>6. QED BY <2>2, <2>5
<1>3. ASSUME NEW w \in Worker, NEW t \in Reading(w), Complete(w, t) \/ Fail(w, t)
      PROVE  Held
    <2>1. proc[w].job \in Job /\ At(w, "executing")
          /\ ActiveLease(w, proc[w].job, t) /\ proc'[w] = Idle
        BY <1>3, Facts DEF Complete, Fail, IInv, TypeOK
    <2>2. proc[w].job = j
        BY <1>3, <2>1 DEF Complete, Fail, EndAttempt, IInv, TypeOK
    <2>3. QED BY <2>1, <2>2 DEF ActiveLease, IInv, HolderIsCurrent, Executing
<1>4. ASSUME NEW k \in Job, Enqueue(k) \/ Sweep(k) PROVE Lapsed
    <2>1. ~ Enqueue(k)
        BY <1>1 DEF Enqueue
    <2>2. ASSUME NEW t \in 0..clock PROVE ~ SweepOrphan(k, t)
        BY <1>1 DEF SweepOrphan, OrphanedAt, Claimable
    <2>3. PICK t \in 0..clock : SweepExpired(k, t)
        BY <1>4, <2>1, <2>2 DEF Sweep
    <2>4. QED BY <1>2, <2>3, Facts DEF SweepExpired
<1>5. ASSUME NEW w \in Worker, WorkerStep(w) PROVE Held \/ Lapsed
    <2>1. ASSUME NEW k \in Job, WorkerRecover(w, k) PROVE Lapsed
        BY <1>2, <2>1, Facts DEF WorkerRecover, Process
    <2>2. ~ Lease(w)
        BY <1>1 DEF Lease, DueRow, IInv, ProcessHistory, At, Claimable
    <2>3. ASSUME NEW t \in Reading(w) PROVE ~ Heartbeat(w, t)
        BY Facts DEF Heartbeat, ActiveLease, IInv, TypeOK, JobRow
    <2>4. row' # row
        OBVIOUS
    <2>5. QED
        BY <1>3, <1>5, <2>1, <2>2, <2>3, <2>4
           DEF WorkerStep, LoopStep, Settle, BeginRun, Pick, LeaseSnapshot, LeaseLost, Crash
<1>6. ASSUME NEW s \in Session PROVE ~ DeletionStep(s)
    BY DEF DeletionStep, RequestDeletion, DeferForPublication, SettledUnleased,
           DeleteContent, UpdateSession, Claimable
<1>7. QED BY <1>4, <1>5, <1>6 DEF Next, Tick, vars

\* A lease is ended by the process that holds the attempt, or after it ran out;
\* a job succeeds only through the process that holds its current attempt.
THEOREM HoldersSettle == Spec => OnlyHolderSettles
<1>1. IInv /\ [Next]_vars =>
        [\A j \in Job : row[j].state = "running" /\ row'[j].state # "running" =>
          \/ \E w \in Worker :
                /\ Executing(w, j)
                /\ proc[w].attempt = row[j].attempt_count
                /\ proc'[w] = Idle
          \/ /\ row'[j].state # "succeeded"
             /\ row[j].lease_expires_at <= clock]_vars
    BY SettlesStep
<1>2. QED BY <1>1, Invariance, PTL DEF Spec, OnlyHolderSettles

(***************************************************************************)
(* The queue implements module JobPromise                                  *)
(***************************************************************************)
statusMap == [j \in Job |-> Status(row[j])]
spentMap == [j \in Job |-> row[j].attempt_count]

\* A step that changes one row is, in the abstract, the change of one job.
LEMMA OneJobStep ==
    ASSUME IInv, NEW k \in Job, NEW r, row' = [row EXCEPT ![k] = r]
    PROVE  /\ statusMap' = [statusMap EXCEPT ![k] = Status(r)]
           /\ spentMap' = [spentMap EXCEPT ![k] = r.attempt_count]
<1>1. row \in [Job -> JobRow]
    BY DEF IInv, TypeOK
<1>2. QED BY <1>1 DEF statusMap, spentMap

\* A step that changes one row and leaves its count alone spends nothing.
LEMMA UnspentStep ==
    ASSUME IInv, NEW k \in Job, NEW r, row' = [row EXCEPT ![k] = r],
           r.attempt_count = row[k].attempt_count
    PROVE  /\ statusMap' = [statusMap EXCEPT ![k] = Status(r)]
           /\ spentMap' = spentMap
<1>1. row \in [Job -> JobRow]
    BY DEF IInv, TypeOK
<1>2. statusMap' = [statusMap EXCEPT ![k] = Status(r)]
    BY <1>1 DEF statusMap
<1>3. \A j \in Job : row'[j].attempt_count = row[j].attempt_count
    BY <1>1
<1>4. QED BY <1>2, <1>3 DEF spentMap

\* Ending an attempt keeps the job open or gives it up.
LEMMA EndAttemptPromise ==
    ASSUME IInv, NEW k \in Job, NEW t \in Nat, NEW u \in Nat, NEW d,
           row[k].state = "running", EndAttempt(k, t, u, d)
    PROVE  Promise!GiveUp({k}) \/ UNCHANGED <<statusMap, spentMap>>
<1> DEFINE gone == Released(Exhausted(row[k], t))
           again == Released(Rescheduled(row[k], u))
<1>1. row[k] \in JobRow /\ row \in [Job -> JobRow]
    BY DEF IInv, TypeOK
<1>2. statusMap[k] = "open"
    BY DEF statusMap, Status, Terminal
<1>3. /\ gone.state = "dead_lettered"
      /\ gone.attempt_count = row[k].attempt_count
      /\ again.state = "retryable"
      /\ again.attempt_count = row[k].attempt_count
    BY <1>1 DEF Released, Exhausted, Rescheduled, JobRow
<1>4. row' = [row EXCEPT ![k] = gone] \/ row' = [row EXCEPT ![k] = again]
    BY DEF EndAttempt
<1>5. Status(gone) = "dead_lettered" /\ Status(again) = "open"
    BY <1>3 DEF Status, Terminal
<1> HIDE DEF gone, again
<1>6. CASE row' = [row EXCEPT ![k] = gone]
    <2>1. statusMap' = [statusMap EXCEPT ![k] = Status(gone)] /\ spentMap' = spentMap
        BY <1>3, <1>6, UnspentStep
    <2>2. statusMap' = [j \in Job |-> IF j \in {k} THEN "dead_lettered" ELSE statusMap[j]]
        BY <1>5, <2>1 DEF statusMap
    <2>3. QED BY <1>2, <2>1, <2>2 DEF Promise!GiveUp, statusMap, spentMap
<1>7. CASE row' = [row EXCEPT ![k] = again]
    <2>1. statusMap' = [statusMap EXCEPT ![k] = Status(again)] /\ spentMap' = spentMap
        BY <1>3, <1>7, UnspentStep
    <2>2. QED BY <1>2, <1>5, <2>1 DEF statusMap
<1>8. QED BY <1>4, <1>6, <1>7

\* Each step of the queue is a step of the promise or changes nothing it sees.
LEMMA PromiseStep ==
    ASSUME IInv, [Next]_vars
    PROVE  Promise!Next \/ UNCHANGED <<statusMap, spentMap>>
<1> DEFINE Kept == Promise!Next \/ UNCHANGED <<statusMap, spentMap>>
<1>1. CASE row' = row
    BY <1>1 DEF statusMap, spentMap
<1>2. ASSUME NEW k \in Job, NEW t \in Nat, NEW u \in Nat, NEW d,
             row[k].state = "running", EndAttempt(k, t, u, d)
      PROVE  Kept
    <2>1. {k} \in SUBSET Job
        OBVIOUS
    <2>2. QED BY <1>2, <2>1, EndAttemptPromise DEF Promise!Next
<1>3. ASSUME NEW k \in Job, Enqueue(k) PROVE Kept
    <2>1. Status(Queued(clock)) = "open" /\ Queued(clock).attempt_count = 0
        BY DEF Status, Queued, Terminal
    <2>2. statusMap[k] = "absent" /\ spentMap[k] = 0
        BY <1>3, Facts DEF Enqueue, statusMap, spentMap, Status, RowPast
    <2>3. /\ statusMap' = [statusMap EXCEPT ![k] = "open"]
          /\ spentMap' = [spentMap EXCEPT ![k] = 0]
        BY <1>3, <2>1, OneJobStep DEF Enqueue
    <2>4. spentMap' = spentMap
        BY <2>2, <2>3 DEF spentMap
    <2>5. Promise!Accept(k)
        BY <2>2, <2>3, <2>4 DEF Promise!Accept, statusMap, spentMap
    <2>6. QED BY <2>5 DEF Promise!Next
<1>4. ASSUME NEW w \in Worker, Lease(w), row' # row PROVE Kept
    <2>0. PICK k \in Job : k = proc[w].job
        BY <1>4, Facts DEF Lease, IInv, ProcessHistory, At
    <2> DEFINE r == Leased(row[k], w, proc[w].now)
    <2>1. row[k] \in JobRow /\ DueRow(row[k], proc[w].now)
          /\ row' = [row EXCEPT ![k] = r]
        BY <1>4, <2>0, Facts DEF Lease
    <2>2. r.state = "running" /\ r.attempt_count = row[k].attempt_count + 1
        BY <2>1 DEF Leased, JobRow
    <2>3. statusMap[k] = "open" /\ spentMap[k] = row[k].attempt_count
        BY <2>1 DEF statusMap, spentMap, Status, DueRow, Claimable, Terminal
    <2>4. Status(r) = "open"
        BY <2>2 DEF Status, Terminal
    <2> HIDE DEF r
    <2>5. /\ statusMap' = [statusMap EXCEPT ![k] = "open"]
          /\ spentMap' = [spentMap EXCEPT ![k] = row[k].attempt_count + 1]
        BY <2>1, <2>2, <2>4, OneJobStep
    <2>6. statusMap' = statusMap
        BY <2>3, <2>5 DEF statusMap
    <2>7. Promise!Grant(k)
        BY <2>1, <2>3, <2>5, <2>6 DEF Promise!Grant, statusMap, spentMap, DueRow
    <2>8. QED BY <2>7 DEF Promise!Next
<1>5. ASSUME NEW w \in Worker, NEW t \in Reading(w), Heartbeat(w, t) PROVE Kept
    <2> DEFINE k == proc[w].job
               r == [row[k] EXCEPT !.lease_expires_at = t + LeaseFor]
    <2>1. k \in Job /\ row[k] \in JobRow /\ row[k].state = "running"
          /\ row' = [row EXCEPT ![k] = r]
        BY <1>5, Facts DEF Heartbeat, ActiveLease, IInv, TypeOK
    <2>2. r.state = "running" /\ r.attempt_count = row[k].attempt_count
        BY <2>1 DEF JobRow
    <2>3. Status(r) = Status(row[k])
        BY <2>1, <2>2 DEF Status
    <2> HIDE DEF k, r
    <2>4. statusMap' = [statusMap EXCEPT ![k] = Status(r)] /\ spentMap' = spentMap
        BY <2>1, <2>2, UnspentStep
    <2>5. QED BY <2>1, <2>3, <2>4 DEF statusMap
<1>6. ASSUME NEW w \in Worker, NEW t \in Reading(w), Complete(w, t) PROVE Kept
    <2> DEFINE k == proc[w].job
               r == Released(Succeeded(row[k], t))
    <2>1. k \in Job /\ row[k] \in JobRow /\ row[k].state = "running"
          /\ row' = [row EXCEPT ![k] = r] /\ row[k].attempt_count > 0
        BY <1>6, Facts DEF Complete, ActiveLease, RowPast
    <2>2. r.state = "succeeded" /\ r.attempt_count = row[k].attempt_count
        BY <2>1 DEF Released, Succeeded, JobRow
    <2>3. Status(r) = "succeeded"
        BY <2>2 DEF Status, Terminal
    <2>4. statusMap[k] = "open" /\ spentMap[k] = row[k].attempt_count
        BY <2>1 DEF statusMap, spentMap, Status, Terminal
    <2> HIDE DEF k, r
    <2>5. statusMap' = [statusMap EXCEPT ![k] = Status(r)] /\ spentMap' = spentMap
        BY <2>1, <2>2, UnspentStep
    <2>6. Promise!Succeed(k)
        BY <2>1, <2>3, <2>4, <2>5 DEF Promise!Succeed, statusMap, spentMap
    <2>7. k \in Job
        BY <2>1
    <2>8. QED BY <2>6, <2>7 DEF Promise!Next
<1>7. ASSUME NEW w \in Worker, NEW t \in Reading(w), Fail(w, t) PROVE Kept
    BY <1>2, <1>7, Facts, BoundAssumption DEF Fail, ActiveLease, Reading
<1>8. ASSUME NEW k \in Job, NEW t \in 0..clock, SweepOrphan(k, t) PROVE Kept
    <2> DEFINE r == Released(Orphaned(row[k], t))
    <2>1. row[k] \in JobRow /\ row[k].state \in Claimable
          /\ row' = [row EXCEPT ![k] = r]
        BY <1>8, Facts DEF SweepOrphan, OrphanedAt
    <2>2. r.state = "dead_lettered" /\ r.attempt_count = row[k].attempt_count
        BY <2>1 DEF Released, Orphaned, JobRow
    <2>3. Status(r) = "dead_lettered"
        BY <2>2 DEF Status, Terminal
    <2>4. statusMap[k] = "open" /\ spentMap[k] = row[k].attempt_count
        BY <2>1 DEF statusMap, spentMap, Status, Terminal, Claimable
    <2> HIDE DEF r
    <2>5. statusMap' = [statusMap EXCEPT ![k] = Status(r)] /\ spentMap' = spentMap
        BY <2>1, <2>2, UnspentStep
    <2>6. statusMap' = [j \in Job |-> IF j \in {k} THEN "dead_lettered" ELSE statusMap[j]]
        BY <2>3, <2>5 DEF statusMap
    <2>7. Promise!GiveUp({k})
        BY <2>4, <2>5, <2>6 DEF Promise!GiveUp, statusMap, spentMap
    <2>8. {k} \in SUBSET Job
        OBVIOUS
    <2>9. QED BY <2>7, <2>8 DEF Promise!Next
<1>9. ASSUME NEW s \in Session, NEW t \in 0..clock, NEW a \in 0..t,
             NEW first \in BOOLEAN, DeferForPublication(s, t, a, first)
      PROVE  Kept
    <2> DEFINE J == {k \in JobsOf(s) : row[k].state \in Claimable}
    <2>1. J \in SUBSET Job /\ \A k \in J : row[k].state \in Claimable
        BY DEF JobsOf
    <2>2. \A k \in Job : row'[k] = (IF k \in J THEN Orphaned(row[k], a) ELSE row[k])
        BY <1>9 DEF DeferForPublication, SettledUnleased, JobsOf
    <2>3. \A k \in Job : /\ Orphaned(row[k], a).state = "dead_lettered"
                         /\ Orphaned(row[k], a).attempt_count = row[k].attempt_count
        BY Facts DEF Orphaned, JobRow
    <2> HIDE DEF J
    <2>4. spentMap' = spentMap
        BY <2>2, <2>3 DEF spentMap
    <2>5. statusMap' = [k \in Job |-> IF k \in J THEN "dead_lettered" ELSE statusMap[k]]
        BY <2>2, <2>3 DEF statusMap, Status, Terminal
    <2>6. \A k \in J : statusMap[k] = "open"
        BY <2>1 DEF statusMap, Status, Claimable, Terminal
    <2>7. CASE J = {}
        BY <2>4, <2>5, <2>7 DEF statusMap
    <2>8. CASE J # {}
        <3>1. Promise!GiveUp(J)
            BY <2>4, <2>5, <2>6, <2>8 DEF Promise!GiveUp, statusMap, spentMap
        <3>2. QED BY <2>1, <3>1 DEF Promise!Next
    <2>9. QED BY <2>7, <2>8
<1>10. ASSUME NEW k \in Job, NEW t \in Nat, ExpiredLeaseAt(k, t), Reclaim(k, t) PROVE Kept
    BY <1>2, <1>10 DEF ExpiredLeaseAt, Reclaim
<1>11. ASSUME NEW k \in Job, Sweep(k) PROVE Kept
    BY <1>8, <1>10, <1>11, Facts DEF Sweep, SweepExpired
<1>12. ASSUME NEW w \in Worker, WorkerStep(w) PROVE Kept
    <2>1. ASSUME NEW k \in Job, WorkerRecover(w, k) PROVE Kept
        BY <1>10, <2>1, Facts DEF WorkerRecover, Process
    <2>2. QED
        BY <1>1, <1>4, <1>5, <1>6, <1>7, <1>12, <2>1
           DEF WorkerStep, LoopStep, Settle, BeginRun, Pick, LeaseSnapshot, LeaseLost, Crash
<1>13. ASSUME NEW s \in Session, DeletionStep(s) PROVE Kept
    BY <1>1, <1>9, <1>13
       DEF DeletionStep, RequestDeletion, DeleteContent, UpdateSession
<1>14. QED BY <1>1, <1>3, <1>11, <1>12, <1>13 DEF Next, Tick, vars

\* The queue implements the promise its clients rely on.
THEOREM QueueKeepsPromise == Spec => KeepsPromise
<1>1. Init => Promise!Init
    BY DEF Init, Promise!Init, Status, Absent
<1>2. IInv /\ [Next]_vars => [Promise!Next]_(Promise!promiseVars)
    BY PromiseStep DEF Promise!promiseVars, statusMap, spentMap
<1>3. QED BY <1>1, <1>2, Invariance, PTL DEF Spec, KeepsPromise, Promise!Spec
===============================================================================
