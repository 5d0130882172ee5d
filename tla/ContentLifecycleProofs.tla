------------------------ MODULE ContentLifecycleProofs ------------------------
(***************************************************************************)
(* The safety properties of ContentLifecycle for any number of jobs,       *)
(* workers, passes, uploads, attempts, faults and crashes.                 *)
(*                                                                         *)
(* None of them is inductive alone.  What is stored stays stored because   *)
(* every execution has an attempt, and so keys, of its own; that the drain *)
(* is served rests on what a pass waited for, which no later step undoes,  *)
(* and on the store being swept after the wait; and the evidence accounts  *)
(* for every attempt because the rows a failing pass has seen are still    *)
(* there when the next one completes.                                      *)
(***************************************************************************)
EXTENDS ContentLifecycle, TLAPS

Executing(w) == worker[w].pc \notin {"idle", "leasing"}

\* What a worker knows about the job it executes.  Until it commits, no report
\* is its own; what it has put stays in the store while the session is live.
WorkerKnows(w) ==
    /\ worker[w].pc # "idle" => worker[w].job \in Job
    /\ Executing(w) => worker[w].attempt \in 1..job[worker[w].job].attempt
    /\ worker[w].pc \in {"finding", "rendering", "bounding", "storing", "committing",
                         "rolling_back"} => report[worker[w].job] # worker[w].attempt
    /\ worker[w].pc \in {"idle", "leasing", "finding", "rendering", "bounding"} =>
          worker[w].stored = 0
    /\ worker[w].pc = "storing" => worker[w].stored < Kinds
    /\ worker[w].pc = "committing" => worker[w].stored = Kinds
    /\ worker[w].pc \in {"storing", "committing"} /\ Live => StoredKeys(w) \subseteq objects
    /\ worker[w].pc = "succeeding" => report[worker[w].job] # 0 \/ deleted

\* Every execution has an attempt of its own.
OneExecution ==
    \A v, w \in Worker :
        /\ v # w /\ Executing(v) /\ Executing(w)
        /\ worker[v].job = worker[w].job
        => worker[v].attempt # worker[w].attempt

ReportsCounted == \A j \in Job : report[j] \in 0..job[j].attempt

ExhaustedIsDead ==
    \A j \in Job : job[j].reason = "retries_exhausted" => job[j].state = "dead_lettered"

\* Nothing can write for a job whose drain has passed.
DrainedIsQuiet ==
    \A j \in drained :
        /\ job[j].reason = "retries_exhausted"
        /\ \A w \in Worker : At(w, "storing") => worker[w].job # j
        /\ \A x \in inflight : x \notin Upload => x[1] # j

\* What a deletion waits for before it removes anything.
Prepared ==
    /\ AllSettled(job)
    /\ \A j \in Job : job[j].reason = "retries_exhausted" => j \in drained

Emptied == \A x \in objects : x \in Upload \/ job[x[1]].reason # "retries_exhausted"

PassKnows(p) ==
    /\ pass[p].pc # "idle" => requested
    /\ pass[p].pc \notin {"idle", "deferring"} => Prepared
    /\ pass[p].pc \in {"removing", "completing"} => Emptied
    /\ pass[p].pc \in {"deferring", "targeting", "sweeping", "removing", "completing"} =>
          pass[p].failed = {}
    /\ pass[p].pc \in {"sweeping", "removing", "completing", "failing"} =>
          pass[p].targets \subseteq Targets \/ deleted
    /\ pass[p].pc = "failing" => pass[p].failed # {} /\ pass[p].failed \subseteq pass[p].targets
    /\ pass[p].drained \subseteq drained

\* How far the deletion is.
DeletionGood ==
    /\ deleted <=> deletion.state = "complete"
    /\ requested <=> deletion.state # "none"
    /\ deletion.attempt > 0 => requested /\ Prepared /\ (deleted \/ Targets # {})
    /\ deleted => Prepared /\ Emptied /\ \A j \in Job : report[j] = 0

IInv ==
    /\ TypeOK
    /\ \A w \in Worker : WorkerKnows(w)
    /\ OneExecution
    /\ ReportsCounted
    /\ ExhaustedIsDead
    /\ DrainedIsQuiet
    /\ \A p \in Pass : PassKnows(p)
    /\ DeletionGood
    /\ PublishedIsStored
    /\ SucceededIsPublished
    /\ EvidenceLedger

\* A key has one job, attempt and number, and no key of an artifact is an upload's.
LEMMA KeyFacts ==
  /\ \A j \in Job, n \in Attempt, k \in 1..Kinds :
       <<j, n, k>> \in Key /\ <<j, n, k>> \notin Upload
  /\ \A x \in Key : x \notin Upload => x \in ArtifactKey /\ x[1] \in Job
  /\ None \notin Upload /\ None \notin Worker /\ None \notin Job
  /\ MaxAttempts \in Nat /\ Kinds \in Nat /\ MaxAttempts > 0 /\ Kinds > 0
<1>1. \A j \in Job, n \in Attempt, k \in 1..Kinds : <<j, n, k>> \in ArtifactKey
  BY DEF ArtifactKey
<1>2. \A x \in ArtifactKey : x[1] \in Job
  BY DEF ArtifactKey
<1> QED BY <1>1, <1>2, KeysAssumption, LifecycleAssumption DEF Key, LifecycleAssumption

-----------------------------------------------------------------------------
(* Types.                                                                  *)

LEMMA TypesBegin == Init => TypeOK
<1> SUFFICES ASSUME Init PROVE TypeOK
  OBVIOUS
<1>1. NoJob \in JobRow /\ IdleWorker \in WorkerState /\ IdlePass \in PassState
  BY KeyFacts DEF NoJob, JobRow, IdleWorker, WorkerState, WorkerPC, IdlePass, PassState, PassPC
<1>2. "idle" \in UploaderPC /\ deletion \in DeletionRow
  BY DEF Init, UploaderPC, DeletionRow
<1>3. /\ job \in [Job -> JobRow] /\ worker \in [Worker -> WorkerState]
      /\ pass \in [Pass -> PassState] /\ uploader \in [Upload -> UploaderPC]
      /\ report \in [Job -> 0..MaxAttempts]
  BY <1>1, <1>2, KeyFacts DEF Init
<1>4. /\ expired \in SUBSET Job /\ drained \in SUBSET Job /\ objects \in SUBSET Key
      /\ inflight \in SUBSET Key /\ faults \in Nat /\ crashes \in Nat
      /\ evidence \subseteq Nat \X Key \X {"deleted", "failed"}
      /\ upload \in Upload \cup {None} /\ requested \in BOOLEAN /\ deleted \in BOOLEAN
  BY DEF Init
<1> QED BY <1>2, <1>3, <1>4 DEF TypeOK

LEMMA NextKeyIsKey ==
  ASSUME IInv, NEW w \in Worker, worker[w].pc = "storing"
  PROVE  /\ NextKey(w) \in Key /\ NextKey(w) \notin Upload
         /\ NextKey(w)[1] = worker[w].job
<1>1. /\ worker[w] \in WorkerState /\ WorkerKnows(w)
  BY DEF IInv, TypeOK
<1>2. job[worker[w].job].attempt \in 0..MaxAttempts
  BY <1>1 DEF IInv, TypeOK, WorkerKnows, JobRow
<1>3. worker[w].attempt \in Attempt /\ worker[w].stored + 1 \in 1..Kinds /\ worker[w].job \in Job
  BY <1>1, <1>2, KeyFacts DEF WorkerKnows, Executing, WorkerState, Attempt
<1> QED BY <1>3, KeyFacts DEF NextKey

LEMMA TypesStep == IInv /\ [Next]_vars => TypeOK'
<1> SUFFICES ASSUME IInv, [Next]_vars PROVE TypeOK'
  OBVIOUS
<1> USE KeyFacts
<1>t. TypeOK
  BY DEF IInv
<1>i. NoJob \in JobRow /\ IdleWorker \in WorkerState /\ IdlePass \in PassState
  BY DEF NoJob, JobRow, IdleWorker, WorkerState, WorkerPC, IdlePass, PassState, PassPC, Attempt
<1>w. \A w \in Worker : worker[w] \in WorkerState /\ WorkerKnows(w)
  BY DEF IInv, TypeOK
<1>1. ASSUME NEW j \in Job, Enqueue(j) PROVE TypeOK'
  <2>1. job[j] \in JobRow
    BY <1>t DEF TypeOK
  <2>2. [job[j] EXCEPT !.state = "queued"] \in JobRow
    BY <2>1 DEF JobRow, Claimable
  <2> QED
    BY <1>t, <1>1, <2>2 DEF Enqueue, TypeOK, sessionVars, rowVars, storeVars,
                    deletionVars, procVars, boundVars
<1>2. ASSUME NEW w \in Worker, NEW j \in Job, Claim(w, j) PROVE TypeOK'
  <2>1. [worker[w] EXCEPT !.pc = "leasing", !.job = j] \in WorkerState
    BY <1>w DEF WorkerState, WorkerPC
  <2> QED
    BY <1>t, <1>2, <2>1 DEF Claim, TypeOK, sessionVars, queueVars, rowVars,
         storeVars, deletionVars, boundVars
<1>3. ASSUME NEW w \in Worker, Lease(w) PROVE TypeOK'
  <2>1. worker[w].job \in Job
    BY <1>w, <1>3 DEF Lease, WorkerKnows
  <2>2. CASE Due(worker[w].job)
    <3>1. job[worker[w].job] \in JobRow /\ job[worker[w].job].attempt + 1 \in 0..MaxAttempts
      BY <1>t, <2>1, <2>2 DEF Due, TypeOK, JobRow
    <3>2. [job[worker[w].job] EXCEPT !.state = "running", !.owner = w, !.attempt = @ + 1]
            \in JobRow
      BY <3>1 DEF JobRow
    <3>3. job' \in [Job -> JobRow]
      BY <1>t, <1>3, <2>1, <2>2, <3>1, <3>2 DEF Lease, TypeOK
    <3>4. [worker[w] EXCEPT !.pc = "finding", !.attempt = job[worker[w].job].attempt + 1]
            \in WorkerState
      BY <1>w, <3>1 DEF WorkerState, WorkerPC
    <3>5. worker' \in [Worker -> WorkerState]
      BY <1>t, <1>3, <2>2, <3>4 DEF Lease, TypeOK
    <3> QED
      BY <1>t, <1>3, <2>2, <3>3, <3>5 DEF Lease, TypeOK, sessionVars, rowVars, storeVars,
           deletionVars, boundVars
  <2>3. CASE ~Due(worker[w].job)
    BY <1>t, <1>i, <1>3, <2>3 DEF Lease, TypeOK, sessionVars, rowVars, storeVars,
                                  deletionVars, boundVars
  <2> QED BY <2>2, <2>3
<1>4. ASSUME NEW j \in Job, LeaseExpires(j) \/ Drain(j) PROVE TypeOK'
  BY <1>t, <1>4 DEF LeaseExpires, Drain, TypeOK, sessionVars, rowVars, storeVars,
                    deletionVars, procVars, boundVars
<1>5. ASSUME NEW j \in Job PROVE GivenUp(job[j]) \in JobRow
  <2>1. job[j] \in JobRow
    BY <1>t DEF TypeOK
  <2>2. [job[j] EXCEPT !.state = "dead_lettered", !.owner = None, !.reason = "retries_exhausted"]
          \in JobRow
    BY <2>1 DEF JobRow, Terminal
  <2>3. [job[j] EXCEPT !.state = "retryable", !.owner = None] \in JobRow
    BY <2>1 DEF JobRow, Claimable
  <2> QED BY <2>2, <2>3 DEF GivenUp
<1>6. ASSUME NEW j \in Job, Reclaim(j) PROVE TypeOK'
  BY <1>t, <1>5, <1>6 DEF Reclaim, TypeOK, sessionVars, rowVars, storeVars,
                          deletionVars, procVars, boundVars
<1>7. ASSUME NEW w \in Worker, NEW pc \in WorkerPC, Goto(w, pc)
      PROVE  worker' \in [Worker -> WorkerState]
  BY <1>t, <1>7 DEF Goto, TypeOK, WorkerState
<1>8. ASSUME NEW w \in Worker, worker' = [worker EXCEPT ![w] = IdleWorker]
      PROVE  worker' \in [Worker -> WorkerState]
  BY <1>t, <1>i, <1>8 DEF TypeOK
<1>9. ASSUME NEW w \in Worker,
             FindDelivery(w) \/ Render(w) \/ HeartbeatLost(w) \/ StageRaises(w)
      PROVE  TypeOK'
  <2>1. worker' \in [Worker -> WorkerState]
    BY <1>7, <1>8, <1>9 DEF FindDelivery, Render, HeartbeatLost, StageRaises, WorkerPC
  <2>2. expired' \in SUBSET Job
    BY <1>t, <1>9 DEF FindDelivery, Render, HeartbeatLost, StageRaises, TypeOK, queueVars
  <2> QED
    BY <1>t, <1>9, <2>1, <2>2 DEF FindDelivery, Render, HeartbeatLost, StageRaises, TypeOK,
         sessionVars, queueVars, rowVars, storeVars, deletionVars, boundVars
<1>10. ASSUME NEW w \in Worker, Boundary(w) PROVE TypeOK'
  <2>1. CASE Goto(w, "succeeding")
    <3>1. worker' \in [Worker -> WorkerState]
      BY <1>7, <2>1 DEF WorkerPC
    <3> QED
      BY <1>t, <1>10, <3>1 DEF Boundary, TypeOK, sessionVars, queueVars, rowVars,
           storeVars, deletionVars, boundVars
  <2>2. CASE worker' = [worker EXCEPT ![w].pc = "storing", ![w].owner = job[worker[w].job].owner,
                                      ![w].fence = job[worker[w].job].attempt]
    <3>1. job[worker[w].job] \in JobRow
      BY <1>t, <1>w, <1>10 DEF Boundary, At, TypeOK, WorkerKnows
    <3>2. worker' \in [Worker -> WorkerState]
      <4>1. [worker[w] EXCEPT !.pc = "storing", !.owner = job[worker[w].job].owner,
                              !.fence = job[worker[w].job].attempt] \in WorkerState
        BY <1>w, <3>1 DEF WorkerState, WorkerPC, JobRow
      <4> QED BY <1>t, <2>2, <4>1 DEF TypeOK
    <3> QED
      BY <1>t, <1>10, <3>2 DEF Boundary, TypeOK, sessionVars, queueVars, rowVars,
           storeVars, deletionVars, boundVars
  <2> QED BY <1>10, <2>1, <2>2 DEF Boundary
<1>11. ASSUME NEW w \in Worker, Put(w) PROVE TypeOK'
  <2>1. NextKey(w) \in Key /\ worker[w].stored + 1 \in 0..Kinds
    BY <1>11, <1>w, NextKeyIsKey DEF Put, At, WorkerKnows, WorkerState
  <2>2. worker' \in [Worker -> WorkerState]
    <3>1. ASSUME NEW pc \in {"committing", "storing"}
          PROVE  [worker[w] EXCEPT !.stored = @ + 1, !.pc = pc] \in WorkerState
      BY <1>w, <2>1, <3>1 DEF WorkerState, WorkerPC
    <3> QED BY <1>t, <1>11, <3>1 DEF Put, TypeOK
  <2> QED
    BY <1>t, <1>11, <2>1, <2>2 DEF Put, TypeOK, sessionVars, queueVars, rowVars,
         deletionVars, boundVars
<1>12. ASSUME NEW w \in Worker, PutFails(w) PROVE TypeOK'
  <2>1. NextKey(w) \in Key
    BY <1>12, NextKeyIsKey DEF PutFails, At
  <2>2. worker' \in [Worker -> WorkerState]
    BY <1>7, <1>12 DEF PutFails, WorkerPC
  <2>3. inflight' \in SUBSET Key
    BY <1>t, <1>12, <2>1 DEF PutFails, TypeOK
  <2> QED
    BY <1>t, <1>12, <2>2, <2>3 DEF PutFails, Fault, TypeOK, sessionVars, queueVars, rowVars,
         deletionVars
<1>13. ASSUME NEW w \in Worker, Commit(w) \/ CommitRefused(w) \/ Reconcile(w) PROVE TypeOK'
  <2>1. worker' \in [Worker -> WorkerState]
    BY <1>7, <1>13 DEF Commit, CommitRefused, Reconcile, WorkerPC
  <2>2. faults' \in Nat /\ crashes' \in Nat
    BY <1>t, <1>13 DEF Commit, CommitRefused, Reconcile, Fault, TypeOK
  <2>3. report' \in [Job -> 0..MaxAttempts]
    BY <1>t, <1>w, <1>13 DEF Commit, CommitRefused, Reconcile, TypeOK, WorkerState, rowVars
  <2> QED
    BY <1>t, <1>13, <2>1, <2>2, <2>3 DEF Commit, CommitRefused, Reconcile, TypeOK,
         sessionVars, queueVars, rowVars, storeVars, deletionVars
<1>14. ASSUME NEW w \in Worker, Rollback(w) PROVE TypeOK'
  <2>1. worker' \in [Worker -> WorkerState]
    BY <1>7, <1>14 DEF Rollback, WorkerPC
  <2>2. objects' \in SUBSET Key /\ faults' \in Nat
    BY <1>t, <1>14 DEF Rollback, Fault, TypeOK
  <2> QED
    BY <1>t, <1>14, <2>1, <2>2 DEF Rollback, TypeOK, sessionVars, queueVars, rowVars,
         deletionVars
<1>15. ASSUME NEW w \in Worker, Settle(w) PROVE TypeOK'
  <2>1. worker' \in [Worker -> WorkerState]
    BY <1>8, <1>15 DEF Settle
  <2>2. worker[w].job \in Job
    BY <1>w, <1>15 DEF Settle, WorkerKnows
  <2>3. job' \in [Job -> JobRow]
    <3>1. [job[worker[w].job] EXCEPT !.state = "succeeded", !.owner = None] \in JobRow
      <4>1. job[worker[w].job] \in JobRow
        BY <1>t, <2>2 DEF TypeOK
      <4> QED BY <4>1 DEF JobRow, Terminal
    <3>2. GivenUp(job[worker[w].job]) \in JobRow
      BY <1>5, <2>2
    <3> QED BY <1>t, <1>15, <2>2, <3>1, <3>2 DEF Settle, TypeOK
  <2> QED
    BY <1>t, <1>15, <2>1, <2>3 DEF Settle, TypeOK, sessionVars, rowVars, storeVars,
         deletionVars, boundVars
<1>16. ASSUME NEW w \in Worker, Crash(w) PROVE TypeOK'
  <2>1. worker' \in [Worker -> WorkerState]
    BY <1>8, <1>16 DEF Crash
  <2>2. inflight' \in SUBSET Key
    BY <1>t, <1>16, NextKeyIsKey DEF Crash, At, TypeOK
  <2> QED
    BY <1>t, <1>16, <2>1, <2>2 DEF Crash, TypeOK, sessionVars, queueVars, rowVars,
         deletionVars
<1>17. ASSUME NEW u \in Upload, UploadStep(u) \/ CrashUpload(u) PROVE TypeOK'
  <2>1. u \in Key
    BY DEF Key
  <2> DEFINE Rest == /\ sessionVars' = sessionVars /\ queueVars' = queueVars
                     /\ report' = report /\ deletionVars' = deletionVars
                     /\ worker' = worker /\ pass' = pass
  <2>2. BeginUpload(u) \/ AbandonUpload(u) => TypeOK'
    BY <1>t DEF BeginUpload, AbandonUpload, Upl, TypeOK, UploaderPC, sessionVars, queueVars,
         rowVars, storeVars, deletionVars, boundVars
  <2>3. StoreUpload(u) => TypeOK'
    BY <1>t, <2>1 DEF StoreUpload, Fault, Upl, TypeOK, UploaderPC, sessionVars, queueVars,
         rowVars, deletionVars
  <2>4. RecordUpload(u) \/ RecordUploadFails(u) => TypeOK'
    BY <1>t DEF RecordUpload, RecordUploadFails, Fault, Upl, TypeOK, UploaderPC, sessionVars,
         queueVars, storeVars, deletionVars, boundVars
  <2>5. DiscardUpload(u) => TypeOK'
    BY <1>t DEF DiscardUpload, Fault, Upl, TypeOK, UploaderPC, sessionVars, queueVars,
         rowVars, deletionVars
  <2>6. CrashUpload(u) => TypeOK'
    BY <1>t, <2>1 DEF CrashUpload, Upl, TypeOK, UploaderPC, sessionVars, queueVars,
         rowVars, deletionVars
  <2> QED BY <1>17, <2>2, <2>3, <2>4, <2>5, <2>6 DEF UploadStep
<1>18. ASSUME NEW x \in inflight, Land(x) PROVE TypeOK'
  BY <1>t, <1>18 DEF Land, TypeOK, sessionVars, queueVars, rowVars, deletionVars,
       procVars, boundVars
<1>19. ASSUME NEW p \in Pass, NEW seen \in SUBSET drained, Begin(p, seen) PROVE TypeOK'
  <2>1. [IdlePass EXCEPT !.pc = "deferring", !.attempt = deletion.attempt,
                         !.backingOff = BackingOff, !.drained = seen] \in PassState
    BY <1>t DEF IdlePass, PassState, PassPC, BackingOff, TypeOK, DeletionRow
  <2>2. deletion' \in DeletionRow
    BY <1>t, <1>19 DEF Begin, TypeOK, DeletionRow
  <2> QED
    BY <1>t, <1>19, <2>1, <2>2 DEF Begin, TypeOK, queueVars, rowVars, storeVars, boundVars
<1>20. ASSUME NEW p \in Pass, Defer(p) PROVE TypeOK'
  <2>1. SettledUnleased \in [Job -> JobRow]
    <3>1. ASSUME NEW j \in Job
          PROVE  /\ job[j] \in JobRow
                 /\ [job[j] EXCEPT !.state = "dead_lettered", !.reason = "content_deleted"]
                      \in JobRow
      <4>1. job[j] \in JobRow
        BY <1>t DEF TypeOK
      <4> QED BY <4>1 DEF JobRow, Terminal
    <3> QED BY <3>1 DEF SettledUnleased
  <2>2. job' \in [Job -> JobRow]
    BY <1>t, <1>20, <2>1 DEF Defer, TypeOK
  <2>3. deletion' \in DeletionRow
    BY <1>t, <1>20 DEF Defer, TypeOK, DeletionRow
  <2>4. [pass[p] EXCEPT !.pc = "targeting"] \in PassState
    BY <1>t DEF TypeOK, PassState, PassPC
  <2>5. pass' \in [Pass -> PassState]
    BY <1>t, <1>i, <1>20, <2>4 DEF Defer, TypeOK
  <2> QED
    BY <1>t, <1>20, <2>2, <2>3, <2>5 DEF Defer, TypeOK, sessionVars, rowVars, storeVars,
         boundVars
<1>21. Targets \subseteq Key
  <2>1. ASSUME NEW j \in Job PROVE Published(j) \subseteq Key
    <3>1. report[j] \in 0..MaxAttempts
      BY <1>t DEF TypeOK
    <3>2. ASSUME report[j] # 0 PROVE Keys(j, report[j]) \subseteq Key
      BY <3>1, <3>2 DEF Keys, Attempt
    <3> QED BY <3>2 DEF Published
  <2>2. upload # None => upload \in Key
    BY <1>t DEF TypeOK, Key
  <2>3. \A x \in Targets : (\E j \in Job : x \in Published(j)) \/ (x = upload /\ x # None)
    <3> SUFFICES ASSUME NEW x \in Targets
                 PROVE  (\E j \in Job : x \in Published(j)) \/ (x = upload /\ x # None)
      OBVIOUS
    <3>1. x \in UNION {Published(j) : j \in Job} \/ x \in {upload} \ {None}
      BY DEF Targets
    <3>2. x \in UNION {Published(j) : j \in Job} => \E j \in Job : x \in Published(j)
      OBVIOUS
    <3> QED BY <3>1, <3>2
  <2> QED BY <2>1, <2>2, <2>3
<1>22. ASSUME NEW p \in Pass, GetTargets(p) PROVE TypeOK'
  BY <1>t, <1>21, <1>22 DEF GetTargets, TypeOK, PassState, PassPC, sessionVars, queueVars,
       rowVars, storeVars, deletionVars, boundVars
<1>23. ASSUME NEW p \in Pass, SweepPrefix(p) \/ SweepPrefixFails(p) \/ RemoveTargets(p)
       PROVE TypeOK'
  <2>1. pass[p] \in PassState
    BY <1>t DEF TypeOK
  <2>2. pass' \in [Pass -> PassState]
    <3>1. SweepPrefix(p) => pass' \in [Pass -> PassState]
      BY <1>t DEF SweepPrefix, TypeOK, PassState, PassPC
    <3>2. [pass[p] EXCEPT !.pc = "failing", !.failed = pass[p].targets] \in PassState
      BY <2>1 DEF PassState, PassPC
    <3>3. SweepPrefixFails(p) => pass' \in [Pass -> PassState]
      BY <1>t, <1>i, <3>2 DEF SweepPrefixFails, TypeOK
    <3>4. ASSUME NEW failed \in SUBSET pass[p].targets
          PROVE  [pass EXCEPT ![p].failed = failed,
                     ![p].pc = IF failed = {} THEN "completing" ELSE "failing"]
                   \in [Pass -> PassState]
      BY <1>t, <2>1 DEF TypeOK, PassState, PassPC
    <3>5. RemoveTargets(p) => pass' \in [Pass -> PassState]
      <4> SUFFICES ASSUME RemoveTargets(p) PROVE pass' \in [Pass -> PassState]
        OBVIOUS
      <4>1. PICK failed \in SUBSET pass[p].targets :
              pass' = [pass EXCEPT ![p].failed = failed,
                         ![p].pc = IF failed = {} THEN "completing" ELSE "failing"]
        BY DEF RemoveTargets
      <4> QED BY <3>4, <4>1
    <3> QED BY <1>23, <3>1, <3>3, <3>5
  <2>3. objects' \in SUBSET Key /\ faults' \in Nat /\ crashes' \in Nat
    <3>1. SweepPrefix(p) => objects' = {} /\ UNCHANGED <<faults, crashes>>
      BY DEF SweepPrefix, boundVars
    <3>2. SweepPrefixFails(p) => objects' \subseteq objects /\ UNCHANGED crashes /\ Fault
      BY DEF SweepPrefixFails
    <3>3. RemoveTargets(p) => /\ objects' \subseteq objects /\ UNCHANGED crashes
                              /\ UNCHANGED faults \/ Fault
      BY DEF RemoveTargets
    <3> QED BY <1>t, <1>23, <3>1, <3>2, <3>3 DEF Fault, TypeOK
  <2> QED
    BY <1>t, <1>23, <2>2, <2>3 DEF SweepPrefix, SweepPrefixFails, RemoveTargets, TypeOK,
         sessionVars, queueVars, rowVars, deletionVars, boundVars
<1>24. ASSUME NEW p \in Pass PROVE Evidence(p) \subseteq Nat \X Key \X {"deleted", "failed"}
  BY <1>t DEF Evidence, TypeOK, PassState
<1>25. ASSUME NEW p \in Pass, CompletePass(p) PROVE TypeOK'
  <2>1. pass' \in [Pass -> PassState]
    BY <1>t, <1>i, <1>25 DEF CompletePass, TypeOK
  <2>2. deletion' \in DeletionRow
    <3>1. deletion \in DeletionRow
      BY <1>t DEF TypeOK
    <3>2. ASSUME NEW n \in {deletion.attempt, deletion.attempt + 1}
          PROVE  [deletion EXCEPT !.state = "complete", !.attempt = n] \in DeletionRow
      <4>1. n \in Nat
        BY <3>1, <3>2 DEF DeletionRow
      <4> QED BY <3>1, <4>1 DEF DeletionRow
    <3>3. \/ deletion' = deletion
          \/ deletion' = [deletion EXCEPT !.state = "complete",
                             !.attempt = IF pass[p].targets = {} THEN @ ELSE @ + 1]
      BY <1>25 DEF CompletePass
    <3>4. CASE deletion' = deletion
      BY <3>1, <3>4
    <3>5. CASE deletion' = [deletion EXCEPT !.state = "complete",
                              !.attempt = IF pass[p].targets = {} THEN @ ELSE @ + 1]
      <4>1. CASE pass[p].targets = {}
        BY <3>2, <3>5, <4>1
      <4>2. CASE pass[p].targets # {}
        BY <3>2, <3>5, <4>2
      <4> QED BY <4>1, <4>2
    <3> QED BY <3>3, <3>4, <3>5
  <2>3. evidence' \subseteq Nat \X Key \X {"deleted", "failed"}
    BY <1>t, <1>24, <1>25 DEF CompletePass, TypeOK
  <2> QED
    <3>1. /\ report' \in [Job -> 0..MaxAttempts] /\ upload' \in Upload \cup {None}
          /\ deleted' \in BOOLEAN
      <4>1. \/ UNCHANGED <<report, upload, deleted>>
            \/ report' = [j \in Job |-> 0] /\ upload' = None /\ deleted' = TRUE
        BY <1>25 DEF CompletePass
      <4>2. 0 \in 0..MaxAttempts
        OBVIOUS
      <4> QED BY <1>t, <4>1, <4>2 DEF TypeOK
    <3> QED
      BY <1>t, <1>25, <2>1, <2>2, <2>3, <3>1 DEF CompletePass, TypeOK, queueVars, storeVars,
           boundVars
<1>26. ASSUME NEW p \in Pass, FailPass(p) PROVE TypeOK'
  <2>1. pass' \in [Pass -> PassState]
    BY <1>t, <1>i, <1>26 DEF FailPass, TypeOK
  <2>2. deletion' \in DeletionRow
    <3>1. deletion \in DeletionRow
      BY <1>t DEF TypeOK
    <3>2. \/ deletion' = deletion
          \/ deletion' = [state |-> "retryable", attempt |-> deletion.attempt + 1, due |-> FALSE]
      BY <1>26 DEF FailPass, deletionVars
    <3>3. [state |-> "retryable", attempt |-> deletion.attempt + 1, due |-> FALSE]
            \in DeletionRow
      BY <3>1 DEF DeletionRow
    <3> QED BY <3>1, <3>2, <3>3
  <2>3. evidence' \subseteq Nat \X Key \X {"deleted", "failed"}
    BY <1>t, <1>24, <1>26 DEF FailPass, TypeOK, deletionVars
  <2> QED
    BY <1>t, <1>26, <2>1, <2>2, <2>3 DEF FailPass, TypeOK, sessionVars, queueVars, rowVars,
         storeVars, boundVars
<1>27. ASSUME NEW p \in Pass, CrashPass(p) PROVE TypeOK'
  BY <1>t, <1>i, <1>27 DEF CrashPass, TypeOK, sessionVars, queueVars, rowVars, storeVars,
       deletionVars
<1>28. ASSUME RetryDue PROVE TypeOK'
  BY <1>t, <1>28 DEF RetryDue, TypeOK, DeletionRow, sessionVars, queueVars, rowVars,
       storeVars, procVars, boundVars
<1>29. ASSUME UNCHANGED vars PROVE TypeOK'
  BY <1>t, <1>29 DEF vars, TypeOK
<1> QED
  BY <1>1, <1>2, <1>3, <1>4, <1>6, <1>9, <1>10, <1>11, <1>12, <1>13, <1>14, <1>15, <1>16,
     <1>17, <1>18, <1>19, <1>20, <1>22, <1>23, <1>25, <1>26, <1>27, <1>28, <1>29
  DEF Next, QueueStep, WorkerStep, RunStep, PassStep

-----------------------------------------------------------------------------
(* What a step can do to the session, the jobs and the rows.               *)

LEMMA SessionMoves ==
  ASSUME IInv, [Next]_vars
  PROVE  (requested => requested') /\ (deleted => deleted')
<1>t. requested \in BOOLEAN /\ deleted \in BOOLEAN
  BY DEF IInv, TypeOK
<1>1. ASSUME NEW j \in Job, QueueStep(j) PROVE UNCHANGED sessionVars
  BY <1>1 DEF QueueStep, Enqueue, LeaseExpires, Reclaim, Drain
<1>2. ASSUME NEW w \in Worker, WorkerStep(w) PROVE UNCHANGED sessionVars
  BY <1>2 DEF WorkerStep, RunStep, Claim, Lease, FindDelivery, Render, HeartbeatLost,
     StageRaises, Boundary, Put, PutFails, Commit, CommitRefused, Reconcile, Rollback,
     Settle, Crash
<1>3. ASSUME NEW u \in Upload, UploadStep(u) \/ CrashUpload(u) PROVE UNCHANGED sessionVars
  BY <1>3 DEF UploadStep, BeginUpload, AbandonUpload, StoreUpload, RecordUpload,
     RecordUploadFails, DiscardUpload, CrashUpload
<1>4. ASSUME NEW x \in inflight, Land(x) PROVE UNCHANGED sessionVars
  BY <1>4 DEF Land
<1>5. ASSUME NEW p \in Pass, NEW seen \in SUBSET drained, Begin(p, seen)
      PROVE  requested' = TRUE /\ UNCHANGED deleted
  BY <1>5 DEF Begin
<1>6. ASSUME NEW p \in Pass, CompletePass(p)
      PROVE  UNCHANGED requested /\ (deleted' = deleted \/ deleted' = TRUE)
  BY <1>6 DEF CompletePass
<1>7. ASSUME NEW p \in Pass, PassStep(p) \/ CrashPass(p), ~CompletePass(p)
      PROVE  UNCHANGED sessionVars
  BY <1>7 DEF PassStep, Defer, GetTargets, SweepPrefix, SweepPrefixFails, RemoveTargets,
     FailPass, CrashPass
<1>8. ASSUME RetryDue \/ UNCHANGED vars PROVE UNCHANGED sessionVars
  BY <1>8 DEF RetryDue, vars, sessionVars
<1> QED
  BY <1>t, <1>1, <1>2, <1>3, <1>4, <1>5, <1>6, <1>7, <1>8 DEF Next, PassStep, sessionVars

\* Attempts are only counted up, a settled job stays as it settled, and nothing
\* moves a job once all are settled and the session is closed.
JobMove(j) ==
    /\ job[j].attempt <= job'[j].attempt
    /\ job[j].state \in Terminal => job'[j] = job[j]
    /\ job'[j].reason = "retries_exhausted" /\ job[j].reason # "retries_exhausted" =>
          job[j].state = "running" /\ job'[j].state = "dead_lettered"
    /\ job'[j].state = "succeeded" /\ job[j].state # "succeeded" =>
          \E w \in Worker : worker[w].pc = "succeeding" /\ worker[w].job = j
    /\ AllSettled(job) /\ requested => job'[j] = job[j]

LEMMA JobMoves ==
  ASSUME IInv, [Next]_vars, NEW j \in Job
  PROVE  JobMove(j)
<1>t. job \in [Job -> JobRow] /\ job[j] \in JobRow /\ job[j].attempt \in Nat
  BY DEF IInv, TypeOK, JobRow
<1>0. ASSUME UNCHANGED job PROVE JobMove(j)
  BY <1>t, <1>0 DEF JobMove
<1>s. AllSettled(job) => job[j].state \in Terminal \cup {"absent"}
  BY DEF AllSettled
<1>1. ASSUME NEW i \in Job, QueueStep(i) PROVE JobMove(j)
  <2>1. CASE Enqueue(i)
    BY <1>t, <2>1 DEF Enqueue, Live, JobMove, Terminal
  <2>2. CASE Reclaim(i)
    <3>1. CASE i = j
      <4>1. /\ GivenUp(job[j]).attempt = job[j].attempt
            /\ GivenUp(job[j]).state \in {"dead_lettered", "retryable"}
            /\ GivenUp(job[j]).state = "retryable" => GivenUp(job[j]).reason = job[j].reason
        BY <1>t DEF GivenUp, JobRow
      <4>2. job'[j] = GivenUp(job[j]) /\ job[j].state = "running"
        BY <1>t, <2>2, <3>1 DEF Reclaim
      <4> QED BY <1>s, <1>t, <4>1, <4>2 DEF JobMove, Terminal
    <3>2. CASE i # j
      BY <1>t, <2>2, <3>2 DEF Reclaim, JobMove
    <3> QED BY <3>1, <3>2
  <2>3. CASE LeaseExpires(i) \/ Drain(i)
    BY <1>0, <2>3 DEF LeaseExpires, Drain
  <2> QED BY <1>1, <2>1, <2>2, <2>3 DEF QueueStep
<1>2. ASSUME NEW w \in Worker, WorkerStep(w) PROVE JobMove(j)
  <2>k. WorkerKnows(w)
    BY DEF IInv
  <2>1. CASE Lease(w)
    <3>1. CASE Due(worker[w].job)
      <4>1. worker[w].job \in Job
        BY <2>k, <2>1 DEF WorkerKnows, Lease
      <4>2. job[worker[w].job].state \notin Terminal \cup {"absent"}
        BY <3>1 DEF Due, Claimable, Terminal
      <4>3. ~AllSettled(job)
        BY <4>1, <4>2 DEF AllSettled
      <4>4. CASE worker[w].job = j
        <5>1. /\ job'[j].attempt = job[j].attempt + 1 /\ job'[j].state = "running"
              /\ job'[j].reason = job[j].reason
          BY <1>t, <2>1, <3>1, <4>4 DEF Lease, JobRow
        <5> QED BY <1>t, <4>2, <4>3, <4>4, <5>1 DEF JobMove
      <4>5. CASE worker[w].job # j
        BY <1>t, <2>1, <3>1, <4>5 DEF Lease, JobMove
      <4> QED BY <4>4, <4>5
    <3>2. CASE ~Due(worker[w].job)
      BY <1>0, <2>1, <3>2 DEF Lease
    <3> QED BY <3>1, <3>2
  <2>2. CASE Settle(w)
    <3>1. CASE OnRow(w, worker[w].job) /\ worker[w].job = j
      <4>1. /\ GivenUp(job[j]).attempt = job[j].attempt
            /\ GivenUp(job[j]).state \in {"dead_lettered", "retryable"}
            /\ GivenUp(job[j]).state = "retryable" => GivenUp(job[j]).reason = job[j].reason
        BY <1>t DEF GivenUp, JobRow
      <4>2. job[j].state = "running"
        BY <3>1 DEF OnRow
      <4>3. \/ job' = job
            \/ job' = [job EXCEPT ![j] = IF At(w, "failing") THEN GivenUp(@)
                                         ELSE [@ EXCEPT !.state = "succeeded", !.owner = None]]
        BY <2>2, <3>1 DEF Settle
      <4>4. CASE At(w, "failing")
        <5>1. job'[j] = job[j] \/ job'[j] = GivenUp(job[j])
          BY <1>t, <4>3, <4>4
        <5> QED BY <1>s, <1>t, <4>1, <4>2, <5>1 DEF JobMove, Terminal
      <4>5. CASE ~At(w, "failing")
        <5>1. worker[w].pc = "succeeding"
          BY <2>2, <4>5 DEF Settle, At
        <5>2. job' = job \/ /\ job'[j].attempt = job[j].attempt
                            /\ job'[j].reason = job[j].reason
          BY <1>t, <4>3, <4>5 DEF JobRow
        <5> QED BY <1>0, <1>s, <1>t, <3>1, <4>2, <5>1, <5>2 DEF JobMove, Terminal
      <4> QED BY <4>4, <4>5
    <3>2. CASE ~OnRow(w, worker[w].job) \/ worker[w].job # j
      BY <1>0, <1>t, <2>2, <3>2 DEF Settle, JobMove
    <3> QED BY <3>1, <3>2
  <2>3. CASE ~Lease(w) /\ ~Settle(w)
    BY <1>0, <1>2, <2>3 DEF WorkerStep, RunStep, Claim, FindDelivery, Render, HeartbeatLost,
       StageRaises, Boundary, Put, PutFails, Commit, CommitRefused, Reconcile, Rollback,
       Crash, queueVars
  <2> QED BY <2>1, <2>2, <2>3
<1>3. ASSUME NEW u \in Upload, UploadStep(u) \/ CrashUpload(u) PROVE JobMove(j)
  BY <1>0, <1>3 DEF UploadStep, BeginUpload, AbandonUpload, StoreUpload, RecordUpload,
     RecordUploadFails, DiscardUpload, CrashUpload, queueVars
<1>4. ASSUME NEW x \in inflight, Land(x) PROVE JobMove(j)
  BY <1>0, <1>4 DEF Land, queueVars
<1>5. ASSUME NEW p \in Pass, NEW seen \in SUBSET drained, Begin(p, seen) PROVE JobMove(j)
  BY <1>0, <1>5 DEF Begin, queueVars
<1>6. ASSUME NEW p \in Pass, PassStep(p) \/ CrashPass(p) PROVE JobMove(j)
  <2>1. CASE Defer(p)
    <3>1. job'[j] \in {job[j], SettledUnleased[j]}
      BY <2>1 DEF Defer
    <3>2. CASE job[j].state \in Claimable
      <4>1. /\ SettledUnleased[j].attempt = job[j].attempt
            /\ SettledUnleased[j].state = "dead_lettered"
            /\ SettledUnleased[j].reason = "content_deleted"
        BY <1>t, <3>2 DEF SettledUnleased, JobRow
      <4> QED BY <1>s, <1>t, <3>1, <3>2, <4>1 DEF JobMove, Terminal, Claimable
    <3>3. CASE job[j].state \notin Claimable
      BY <1>t, <3>1, <3>3 DEF SettledUnleased, JobMove
    <3> QED BY <3>2, <3>3
  <2>2. CASE ~Defer(p)
    BY <1>0, <1>6, <2>2 DEF PassStep, GetTargets, SweepPrefix, SweepPrefixFails,
       RemoveTargets, CompletePass, FailPass, CrashPass, queueVars
  <2> QED BY <2>1, <2>2
<1>7. ASSUME RetryDue \/ UNCHANGED vars PROVE JobMove(j)
  BY <1>0, <1>7 DEF RetryDue, vars, queueVars
<1> QED BY <1>1, <1>2, <1>3, <1>4, <1>5, <1>6, <1>7 DEF Next

\* A report row is written by the commit of an execution while the session is
\* live, and removed by the pass that completes the deletion.
ReportMove(j) ==
    \/ report'[j] = report[j]
    \/ \E w \in Worker : /\ Commit(w) /\ worker[w].job = j /\ report[j] = 0 /\ Live
                         /\ report'[j] = worker[w].attempt
    \/ report'[j] = 0 /\ ~deleted /\ deleted'

LEMMA ReportMoves ==
  ASSUME IInv, [Next]_vars, NEW j \in Job
  PROVE  ReportMove(j)
<1>t. report \in [Job -> 0..MaxAttempts]
  BY DEF IInv, TypeOK
<1>0. ASSUME UNCHANGED report PROVE ReportMove(j)
  BY <1>0 DEF ReportMove
<1>1. ASSUME NEW i \in Job, QueueStep(i) PROVE ReportMove(j)
  BY <1>0, <1>1 DEF QueueStep, Enqueue, LeaseExpires, Reclaim, Drain, rowVars
<1>2. ASSUME NEW w \in Worker, Commit(w) PROVE ReportMove(j)
  BY <1>t, <1>2 DEF Commit, Fenced, ReportMove
<1>3. ASSUME NEW w \in Worker, WorkerStep(w), ~Commit(w) PROVE ReportMove(j)
  BY <1>0, <1>3 DEF WorkerStep, RunStep, Claim, Lease, FindDelivery, Render, HeartbeatLost,
     StageRaises, Boundary, Put, PutFails, CommitRefused, Reconcile, Rollback,
     Settle, Crash, rowVars
<1>4. ASSUME NEW u \in Upload, UploadStep(u) \/ CrashUpload(u) PROVE ReportMove(j)
  BY <1>0, <1>4 DEF UploadStep, BeginUpload, AbandonUpload, StoreUpload, RecordUpload,
     RecordUploadFails, DiscardUpload, CrashUpload, rowVars
<1>5. ASSUME NEW x \in inflight, Land(x) PROVE ReportMove(j)
  BY <1>0, <1>5 DEF Land, rowVars
<1>6. ASSUME NEW p \in Pass, CompletePass(p) PROVE ReportMove(j)
  <2>1. deletion.state # "complete" => ~deleted
    BY DEF IInv, DeletionGood
  <2> QED BY <1>0, <1>6, <2>1 DEF CompletePass, Overtaken, ReportMove
<1>7. ASSUME NEW p \in Pass, (\E seen \in SUBSET drained : Begin(p, seen)) \/ PassStep(p) \/ CrashPass(p),
             ~CompletePass(p)
      PROVE  ReportMove(j)
  BY <1>0, <1>7 DEF Begin, PassStep, Defer, GetTargets, SweepPrefix, SweepPrefixFails,
     RemoveTargets, FailPass, CrashPass, rowVars
<1>8. ASSUME RetryDue \/ UNCHANGED vars PROVE ReportMove(j)
  BY <1>0, <1>8 DEF RetryDue, vars, rowVars
<1> QED BY <1>1, <1>2, <1>3, <1>4, <1>5, <1>6, <1>7, <1>8 DEF Next, WorkerStep, RunStep, PassStep

-----------------------------------------------------------------------------
(* Executions.                                                             *)

\* What is put stays put: only the roll-back of the same execution, or a pass,
\* removes it, and a pass runs only once the session is closed.
LEMMA StoredStays ==
  ASSUME IInv, [Next]_vars, NEW j \in Job, NEW n \in Attempt, Live',
         \A v \in Worker : Rollback(v) => worker[v].job # j \/ worker[v].attempt # n
  PROVE  Keys(j, n) \cap objects \subseteq objects'
<1>u. \A u \in Upload : u \notin Keys(j, n)
  BY KeyFacts DEF Keys
<1>l. Live
  BY SessionMoves DEF Live
<1>p. \A p \in Pass : pass[p].pc = "idle"
  BY <1>l DEF IInv, PassKnows, Live
<1>0. ASSUME objects \subseteq objects' PROVE Keys(j, n) \cap objects \subseteq objects'
  BY <1>0
<1>1. ASSUME NEW i \in Job, QueueStep(i) PROVE UNCHANGED objects
  BY <1>1 DEF QueueStep, Enqueue, LeaseExpires, Reclaim, Drain, storeVars
<1>2. ASSUME NEW w \in Worker, Rollback(w) PROVE Keys(j, n) \cap objects \subseteq objects'
  <2>1. objects \ StoredKeys(w) \subseteq objects'
    BY <1>2 DEF Rollback
  <2>2. StoredKeys(w) \cap Keys(j, n) = {}
    BY <1>2 DEF StoredKeys, Keys
  <2> QED BY <2>1, <2>2
<1>3. ASSUME NEW w \in Worker, WorkerStep(w), ~Rollback(w) PROVE objects \subseteq objects'
  BY <1>3 DEF WorkerStep, RunStep, Claim, Lease, FindDelivery, Render, HeartbeatLost,
     StageRaises, Boundary, Put, PutFails, Commit, CommitRefused, Reconcile,
     Settle, Crash, storeVars
<1>4. ASSUME NEW u \in Upload, UploadStep(u) \/ CrashUpload(u) PROVE objects \ {u} \subseteq objects'
  BY <1>4 DEF UploadStep, BeginUpload, AbandonUpload, StoreUpload, RecordUpload,
     RecordUploadFails, DiscardUpload, CrashUpload, storeVars
<1>5. ASSUME NEW x \in inflight, Land(x) PROVE objects \subseteq objects'
  BY <1>5 DEF Land
<1>6. ASSUME NEW p \in Pass, NEW seen \in SUBSET drained, Begin(p, seen) PROVE UNCHANGED objects
  BY <1>6 DEF Begin, storeVars
<1>7. ASSUME NEW p \in Pass PROVE ~PassStep(p) /\ ~CrashPass(p)
  BY <1>p DEF PassStep, Defer, GetTargets, SweepPrefix, SweepPrefixFails, RemoveTargets,
     CompletePass, FailPass, CrashPass
<1>8. ASSUME RetryDue \/ UNCHANGED vars PROVE UNCHANGED objects
  BY <1>8 DEF RetryDue, vars, storeVars
<1> QED BY <1>u, <1>0, <1>1, <1>2, <1>3, <1>4, <1>5, <1>6, <1>7, <1>8 DEF Next

LEMMA StoredKeysStay ==
  ASSUME IInv, [Next]_vars, NEW w \in Worker, worker[w].pc \in {"storing", "committing"},
         Live'
  PROVE  StoredKeys(w) \subseteq objects'
<1>k. WorkerKnows(w) /\ worker[w] \in WorkerState /\ Live
  BY SessionMoves DEF IInv, TypeOK, Live
<1> DEFINE j == worker[w].job
           n == worker[w].attempt
<1>1. j \in Job /\ n \in Attempt
  <2>1. j \in Job /\ n \in 1..job[j].attempt
    BY <1>k DEF WorkerKnows, Executing
  <2>2. job[j].attempt \in 0..MaxAttempts
    BY <2>1 DEF IInv, TypeOK, JobRow
  <2> QED BY <2>1, <2>2, KeyFacts DEF Attempt
<1>2. StoredKeys(w) \subseteq Keys(j, n) \cap objects
  <2>1. worker[w].stored \in 0..Kinds
    BY <1>k DEF WorkerState
  <2>2. StoredKeys(w) \subseteq Keys(j, n)
    BY <2>1, KeyFacts DEF StoredKeys, Keys
  <2> QED BY <1>k, <2>2 DEF WorkerKnows
<1>3. ASSUME NEW v \in Worker, Rollback(v) PROVE worker[v].job # j \/ worker[v].attempt # n
  <2>1. Executing(v) /\ Executing(w) /\ v # w
    BY <1>3 DEF Rollback, At, Executing
  <2> QED BY <2>1 DEF IInv, OneExecution
<1> QED BY <1>1, <1>2, <1>3, StoredStays

\* A worker that does not move keeps what it knows.
LEMMA WorkerRests ==
  ASSUME IInv, [Next]_vars, NEW w \in Worker, worker'[w] = worker[w]
  PROVE  WorkerKnows(w)'
<1>k. WorkerKnows(w) /\ worker[w] \in WorkerState
  BY DEF IInv, TypeOK
<1>1. (requested => requested') /\ (deleted => deleted')
  BY SessionMoves
<1>2. Live' => Live
  BY <1>1 DEF Live
<1>i. CASE worker[w].pc = "idle"
  BY <1>k, <1>i DEF WorkerKnows, Executing
<1>l. CASE worker[w].pc = "leasing"
  BY <1>k, <1>l DEF WorkerKnows, Executing
<1>e. CASE Executing(w)
  <2> DEFINE j == worker[w].job
  <2>1. j \in Job /\ worker[w].attempt \in 1..job[j].attempt
    BY <1>k, <1>e DEF WorkerKnows, Executing
  <2>2. job[j].attempt <= job'[j].attempt
    BY <2>1, JobMoves DEF JobMove
  <2>3. job[j].attempt \in Nat /\ job'[j].attempt \in Nat
    BY <2>1, TypesStep DEF IInv, TypeOK, JobRow
  <2>4. worker[w].attempt \in 1..job'[j].attempt
    BY <2>1, <2>2, <2>3
  <2>5. ReportMove(j)
    BY <2>1, ReportMoves
  <2>6. ASSUME NEW v \in Worker, Commit(v), worker[v].job = j
        PROVE  worker[v].attempt # worker[w].attempt /\ worker[v].attempt # 0
    <3>1. Executing(v) /\ WorkerKnows(v)
      BY <2>6 DEF Commit, At, Executing, IInv
    <3>2. worker'[v].pc # worker[v].pc
      BY <2>6 DEF IInv, TypeOK, WorkerState, Commit, At, Goto
    <3>3. v # w
      BY <3>2
    <3> QED BY <1>e, <2>1, <2>6, <3>1, <3>3 DEF IInv, OneExecution, WorkerKnows
  <2>7. report[j] # worker[w].attempt => report'[j] # worker[w].attempt
    BY <2>1, <2>5, <2>6 DEF ReportMove
  <2>8. report[j] # 0 \/ deleted => report'[j] # 0 \/ deleted'
    BY <1>1, <2>5, <2>6 DEF ReportMove
  <2>9. StoredKeys(w)' = StoredKeys(w)
    BY DEF StoredKeys
  <2>10. worker[w].pc \in {"storing", "committing"} /\ Live' => StoredKeys(w) \subseteq objects'
    BY StoredKeysStay
  <2> QED BY <1>k, <1>2, <2>1, <2>4, <2>7, <2>8, <2>9, <2>10 DEF WorkerKnows, Executing
<1> QED BY <1>i, <1>l, <1>e DEF Executing


\* Only its own steps move a worker.
LEMMA OthersRest ==
  ASSUME IInv, [Next]_vars, NEW w \in Worker, ~WorkerStep(w)
  PROVE  worker'[w] = worker[w]
<1>k. worker \in [Worker -> WorkerState]
  BY DEF IInv, TypeOK
<1>15. ASSUME NEW v \in Worker, v # w, WorkerStep(v) PROVE worker'[w] = worker[w]
  BY <1>k, <1>15 DEF WorkerStep, RunStep, Claim, Lease, FindDelivery, Render, HeartbeatLost,
     StageRaises, Boundary, Put, PutFails, Commit, CommitRefused, Reconcile, Rollback,
     Settle, Crash, Goto
<1>16. ASSUME NEW j \in Job, QueueStep(j) PROVE worker'[w] = worker[w]
  BY <1>16 DEF QueueStep, Enqueue, LeaseExpires, Reclaim, Drain, procVars
<1>17. ASSUME NEW u \in Upload, UploadStep(u) \/ CrashUpload(u) PROVE worker'[w] = worker[w]
  BY <1>17 DEF UploadStep, BeginUpload, AbandonUpload, StoreUpload, RecordUpload,
     RecordUploadFails, DiscardUpload, CrashUpload
<1>18. ASSUME NEW x \in inflight, Land(x) PROVE worker'[w] = worker[w]
  BY <1>18 DEF Land, procVars
<1>19. ASSUME NEW p \in Pass,
              (\E seen \in SUBSET drained : Begin(p, seen)) \/ PassStep(p) \/ CrashPass(p)
       PROVE  worker'[w] = worker[w]
  BY <1>19 DEF Begin, PassStep, Defer, GetTargets, SweepPrefix, SweepPrefixFails, RemoveTargets,
     CompletePass, FailPass, CrashPass
<1>20. ASSUME RetryDue \/ UNCHANGED vars PROVE worker'[w] = worker[w]
  BY <1>20 DEF RetryDue, vars, procVars
<1> QED BY <1>15, <1>16, <1>17, <1>18, <1>19, <1>20 DEF Next

LEMMA WorkersStep == IInv /\ [Next]_vars => \A w \in Worker : WorkerKnows(w)'
<1> SUFFICES ASSUME IInv, [Next]_vars, NEW w \in Worker PROVE WorkerKnows(w)'
  OBVIOUS
<1>k. WorkerKnows(w) /\ worker[w] \in WorkerState /\ worker \in [Worker -> WorkerState]
  BY DEF IInv, TypeOK
<1>0. ASSUME worker'[w] = worker[w] PROVE WorkerKnows(w)'
  BY <1>0, WorkerRests
<1>i. ASSUME worker'[w] = IdleWorker PROVE WorkerKnows(w)'
  BY <1>i DEF IdleWorker, WorkerKnows, Executing
<1>m. worker'[w].job \in Job => job[worker'[w].job].attempt <= job'[worker'[w].job].attempt
  BY JobMoves DEF JobMove
<1>n. \A j \in Job : job[j].attempt \in Nat /\ job'[j].attempt \in Nat /\ report[j] \in Nat
  BY TypesStep DEF IInv, TypeOK, JobRow
<1>1. ASSUME NEW j \in Job, Claim(w, j) PROVE WorkerKnows(w)'
  <2>1. /\ worker[w].pc = "idle" /\ worker'[w].pc = "leasing" /\ worker'[w].job = j
        /\ worker'[w].stored = worker[w].stored
    BY <1>k, <1>1 DEF Claim, WorkerState
  <2> QED BY <1>k, <2>1 DEF WorkerKnows, Executing
<1>2. ASSUME Lease(w) PROVE WorkerKnows(w)'
  <2> DEFINE j == worker[w].job
  <2>1. CASE Due(j)
    <3>1. j \in Job
      BY <1>k, <1>2 DEF Lease, WorkerKnows
    <3>2. /\ worker'[w].pc = "finding" /\ worker'[w].job = j
          /\ worker'[w].attempt = job[j].attempt + 1 /\ report' = report
          /\ worker'[w].stored = 0
      BY <1>k, <1>2, <2>1 DEF Lease, WorkerKnows, WorkerState, rowVars
    <3>3. job'[j].attempt = job[j].attempt + 1
      BY <1>2, <2>1, <3>1 DEF Lease, IInv, TypeOK, JobRow
    <3>4. report[j] # job[j].attempt + 1
      BY <1>n, <3>1 DEF IInv, ReportsCounted
    <3> QED BY <1>n, <3>1, <3>2, <3>3, <3>4 DEF WorkerKnows, Executing
  <2>2. CASE ~Due(j)
    BY <1>i, <1>k, <1>2, <2>2 DEF Lease
  <2> QED BY <2>1, <2>2
<1>3. ASSUME FindDelivery(w) PROVE WorkerKnows(w)'
  <2>1. /\ worker' = [worker EXCEPT ![w].pc = IF report[worker[w].job] # 0 THEN "succeeding"
                                                                          ELSE "rendering"]
        /\ worker[w].pc = "finding" /\ report' = report /\ job' = job
    BY <1>3 DEF FindDelivery, Goto, At, rowVars, queueVars
  <2> QED BY <1>k, <2>1 DEF WorkerKnows, Executing, WorkerState
<1>4. ASSUME Render(w) PROVE WorkerKnows(w)'
  <2>1. /\ worker' = [worker EXCEPT ![w].pc = "bounding"]
        /\ worker[w].pc = "rendering" /\ report' = report /\ job' = job
    BY <1>4 DEF Render, Goto, At, rowVars
  <2> QED BY <1>k, <2>1 DEF WorkerKnows, Executing, WorkerState
<1>5. ASSUME HeartbeatLost(w) \/ Settle(w) \/ Crash(w) PROVE WorkerKnows(w)'
  BY <1>i, <1>k, <1>5 DEF HeartbeatLost, Settle, Crash
<1>6. ASSUME StageRaises(w) PROVE WorkerKnows(w)'
  <2>1. /\ worker' = [worker EXCEPT ![w].pc = "failing"]
        /\ worker[w].pc \in {"finding", "rendering", "bounding"} /\ job' = job
    BY <1>6 DEF StageRaises, Goto, queueVars
  <2> QED BY <1>k, <2>1 DEF WorkerKnows, Executing, WorkerState
<1>7. ASSUME Boundary(w) PROVE WorkerKnows(w)'
  <2>0. worker[w].pc = "bounding" /\ report' = report /\ job' = job
    BY <1>7 DEF Boundary, At, rowVars, queueVars
  <2>1. CASE report[worker[w].job] # 0 /\ Goto(w, "succeeding")
    BY <1>k, <2>0, <2>1 DEF Goto, WorkerKnows, Executing, WorkerState
  <2>2. CASE worker' = [worker EXCEPT ![w].pc = "storing", ![w].owner = job[worker[w].job].owner,
                                      ![w].fence = job[worker[w].job].attempt]
    <3>1. /\ worker'[w].pc = "storing" /\ worker'[w].job = worker[w].job
          /\ worker'[w].attempt = worker[w].attempt /\ worker'[w].stored = worker[w].stored
      BY <1>k, <2>2 DEF WorkerState
    <3>2. worker[w].stored = 0 /\ 0 < Kinds
      BY <1>k, <2>0, KeyFacts DEF WorkerKnows
    <3>3. StoredKeys(w)' = {}
      BY <3>1, <3>2 DEF StoredKeys
    <3>4. /\ worker[w].job \in Job /\ worker[w].attempt \in 1..job[worker[w].job].attempt
          /\ report[worker[w].job] # worker[w].attempt
      BY <1>k, <2>0 DEF WorkerKnows, Executing
    <3>5. StoredKeys(w)' \subseteq objects'
      BY <3>3
    <3>6. /\ worker'[w].job \in Job /\ worker'[w].stored < Kinds
          /\ worker'[w].attempt \in 1..job'[worker'[w].job].attempt
          /\ report'[worker'[w].job] # worker'[w].attempt
      BY <2>0, <3>1, <3>2, <3>4
    <3> QED BY <3>1, <3>5, <3>6 DEF WorkerKnows, Executing
  <2> QED BY <1>7, <2>1, <2>2 DEF Boundary
<1>8. ASSUME Put(w) PROVE WorkerKnows(w)'
  <2>1. /\ worker[w].pc = "storing" /\ report' = report /\ job' = job
        /\ worker'[w].stored = worker[w].stored + 1
        /\ worker'[w].job = worker[w].job /\ worker'[w].attempt = worker[w].attempt
        /\ worker'[w].pc = IF worker[w].stored + 1 = Kinds THEN "committing" ELSE "storing"
    BY <1>k, <1>8 DEF Put, At, WorkerState, rowVars, queueVars
  <2>2. worker[w].stored < Kinds /\ worker[w].stored \in Nat /\ Kinds \in Nat
    BY <1>k, <2>1, KeyFacts DEF WorkerKnows, WorkerState
  <2>3. StoredKeys(w)' \subseteq StoredKeys(w) \cup {NextKey(w)}
    BY <2>1, <2>2 DEF StoredKeys, NextKey
  <2>4. Live' = Live /\ objects' = objects \cup {NextKey(w)}
    BY <1>8 DEF Put, Live, sessionVars
  <2>5. Live' => StoredKeys(w)' \subseteq objects'
    BY <1>k, <2>1, <2>3, <2>4 DEF WorkerKnows
  <2>6. worker'[w].pc \in {"committing", "storing"} /\ (worker'[w].pc = "committing" => worker[w].stored + 1 = Kinds)
    BY <2>1
  <2>7. worker'[w].pc = "storing" => worker[w].stored + 1 < Kinds
    BY <2>1, <2>2
  <2> QED BY <1>k, <2>1, <2>5, <2>6, <2>7 DEF WorkerKnows, Executing
<1>9. ASSUME PutFails(w) PROVE WorkerKnows(w)'
  <2>1. /\ worker' = [worker EXCEPT ![w].pc = "rolling_back"]
        /\ worker[w].pc = "storing" /\ report' = report /\ job' = job
    BY <1>9 DEF PutFails, Goto, At, rowVars, queueVars
  <2> QED BY <1>k, <2>1 DEF WorkerKnows, Executing, WorkerState
<1>10. ASSUME Commit(w) PROVE WorkerKnows(w)'
  <2>1. /\ worker[w].pc = "committing" /\ job' = job
        /\ worker' = [worker EXCEPT ![w].pc = "succeeding"]
             \/ worker' = [worker EXCEPT ![w].pc = "reconciling"]
        /\ report' = [report EXCEPT ![worker[w].job] = worker[w].attempt]
    BY <1>10 DEF Commit, Goto, At, queueVars
  <2>2. report'[worker[w].job] # 0
    <3>1. worker[w].job \in Job /\ worker[w].attempt \in 1..job[worker[w].job].attempt
      BY <1>k, <2>1 DEF WorkerKnows, Executing
    <3> QED BY <1>n, <2>1, <3>1 DEF IInv, TypeOK
  <2> QED BY <1>k, <2>1, <2>2 DEF WorkerKnows, Executing, WorkerState
<1>11. ASSUME CommitRefused(w) PROVE WorkerKnows(w)'
  <2>1. /\ worker' = [worker EXCEPT ![w].pc = "reconciling"]
        /\ worker[w].pc = "committing" /\ job' = job
    BY <1>11 DEF CommitRefused, Goto, At, queueVars
  <2> QED BY <1>k, <2>1 DEF WorkerKnows, Executing, WorkerState
<1>12. ASSUME Reconcile(w) PROVE WorkerKnows(w)'
  <2>1. /\ worker[w].pc = "reconciling" /\ job' = job /\ report' = report
        /\ \/ worker' = [worker EXCEPT ![w].pc = "failing"]
           \/ worker' = [worker EXCEPT ![w].pc = IF report[worker[w].job] = worker[w].attempt
                                                    THEN "succeeding" ELSE "rolling_back"]
    BY <1>12 DEF Reconcile, Goto, At, rowVars, queueVars
  <2>2. worker[w].attempt # 0
    BY <1>k, <1>n, <2>1 DEF WorkerKnows, Executing
  <2> QED BY <1>k, <2>1, <2>2 DEF WorkerKnows, Executing, WorkerState
<1>13. ASSUME Rollback(w) PROVE WorkerKnows(w)'
  <2>1. /\ worker' = [worker EXCEPT ![w].pc = "failing"]
        /\ worker[w].pc = "rolling_back" /\ job' = job
    BY <1>13 DEF Rollback, Goto, At, queueVars
  <2> QED BY <1>k, <2>1 DEF WorkerKnows, Executing, WorkerState
<1>14. ASSUME WorkerStep(w) PROVE WorkerKnows(w)'
  BY <1>1, <1>2, <1>3, <1>4, <1>5, <1>6, <1>7, <1>8, <1>9, <1>10, <1>11, <1>12, <1>13, <1>14
  DEF WorkerStep, RunStep
<1>15. CASE ~WorkerStep(w)
  BY <1>0, <1>15, OthersRest
<1> QED BY <1>14, <1>15

LEMMA OneExecutionStep == IInv /\ [Next]_vars => OneExecution'
<1> SUFFICES ASSUME IInv, [Next]_vars, NEW v \in Worker, NEW w \in Worker, v # w,
                    Executing(v)', Executing(w)', worker'[v].job = worker'[w].job
             PROVE  worker'[v].attempt # worker'[w].attempt
  BY DEF OneExecution
<1> DEFINE Kept(x) == /\ Executing(x) /\ worker'[x].job = worker[x].job
                      /\ worker'[x].attempt = worker[x].attempt
           Leased(x) == /\ Lease(x) /\ worker'[x].job = worker[x].job
                        /\ worker'[x].attempt = job[worker[x].job].attempt + 1
                        /\ worker[x].job \in Job
                        /\ \A y \in Worker : y # x => worker'[y] = worker[y]
<1>1. ASSUME NEW x \in Worker, Executing(x)' PROVE Kept(x) \/ Leased(x)
  <2>k. worker \in [Worker -> WorkerState]
    BY DEF IInv, TypeOK
  <2>0. ASSUME worker'[x] = worker[x] PROVE Kept(x)
    BY <1>1, <2>0 DEF Executing
  <2>1. CASE WorkerStep(x)
    <3>1. CASE HeartbeatLost(x) \/ Settle(x) \/ Crash(x)
      BY <1>1, <2>k, <3>1 DEF HeartbeatLost, Settle, Crash, IdleWorker, Executing
    <3>2. CASE \E j \in Job : Claim(x, j)
      BY <1>1, <2>k, <3>2 DEF Claim, WorkerState, Executing
    <3>3. CASE Lease(x)
      <4>1. CASE Due(worker[x].job)
        <5>1. worker[x].job \in Job
          BY <3>3 DEF Lease, IInv, WorkerKnows
        <5> QED BY <2>k, <3>3, <4>1, <5>1 DEF Lease, WorkerState
      <4>2. CASE ~Due(worker[x].job)
        BY <1>1, <2>k, <3>3, <4>2 DEF Lease, IdleWorker, Executing
      <4> QED BY <4>1, <4>2
    <3>4. CASE FindDelivery(x) \/ Render(x) \/ StageRaises(x) \/ PutFails(x) \/ Commit(x)
               \/ CommitRefused(x) \/ Reconcile(x) \/ Rollback(x)
      <4>1. PICK pc \in WorkerPC : Goto(x, pc)
        BY <3>4 DEF FindDelivery, Render, StageRaises, PutFails, Commit, CommitRefused,
           Reconcile, Rollback, WorkerPC
      <4>2. Executing(x)
        BY <3>4 DEF FindDelivery, Render, StageRaises, PutFails, Commit, CommitRefused,
           Reconcile, Rollback, At, Executing
      <4> QED BY <2>k, <4>1, <4>2 DEF Goto, WorkerState
    <3>5. CASE Boundary(x)
      BY <2>k, <3>5 DEF Boundary, At, Goto, WorkerState, Executing
    <3>6. CASE Put(x)
      BY <2>k, <3>6 DEF Put, At, WorkerState, Executing
    <3> QED BY <2>1, <3>1, <3>2, <3>3, <3>4, <3>5, <3>6 DEF WorkerStep, RunStep
  <2>2. CASE ~WorkerStep(x)
    BY <2>0, <2>2, OthersRest
  <2> QED BY <2>1, <2>2
<1>2. CASE Kept(v) /\ Kept(w)
  BY <1>2 DEF IInv, OneExecution
<1>3. ASSUME NEW x \in Worker, NEW y \in Worker, Kept(x), Leased(y),
             worker'[x].job = worker'[y].job
      PROVE  worker'[x].attempt # worker'[y].attempt
  <2>1. worker[x].attempt \in 1..job[worker[x].job].attempt /\ worker[x].job = worker[y].job
    BY <1>3 DEF IInv, WorkerKnows
  <2>2. job[worker[y].job].attempt \in Nat
    BY <1>3 DEF IInv, TypeOK, JobRow
  <2> QED BY <1>3, <2>1, <2>2
<1>4. CASE Leased(v) /\ Leased(w)
  <2>1. worker'[w] = worker[w] /\ worker[w].pc = "leasing"
    BY <1>4 DEF Lease, At
  <2> QED BY <2>1 DEF Executing
<1> QED BY <1>1, <1>2, <1>3, <1>4

LEMMA ReportsCountedStep == IInv /\ [Next]_vars => ReportsCounted'
<1> SUFFICES ASSUME IInv, [Next]_vars, NEW j \in Job PROVE report'[j] \in 0..job'[j].attempt
  BY DEF ReportsCounted
<1>1. job[j].attempt <= job'[j].attempt /\ job[j].attempt \in Nat /\ job'[j].attempt \in Nat
  BY JobMoves, TypesStep DEF JobMove, IInv, TypeOK, JobRow
<1>2. report[j] \in 0..job[j].attempt
  BY DEF IInv, ReportsCounted
<1>3. ASSUME NEW w \in Worker, Commit(w), worker[w].job = j
      PROVE  worker[w].attempt \in 0..job[j].attempt
  BY <1>1, <1>3 DEF Commit, At, IInv, WorkerKnows, Executing
<1> QED BY <1>1, <1>2, <1>3, ReportMoves DEF ReportMove

LEMMA ExhaustedStep == IInv /\ [Next]_vars => ExhaustedIsDead'
<1> SUFFICES ASSUME IInv, [Next]_vars, NEW j \in Job, job'[j].reason = "retries_exhausted"
             PROVE  job'[j].state = "dead_lettered"
  BY DEF ExhaustedIsDead
<1>1. JobMove(j)
  BY JobMoves
<1>2. CASE job[j].reason = "retries_exhausted"
  BY <1>1, <1>2 DEF IInv, ExhaustedIsDead, JobMove, Terminal
<1>3. CASE job[j].reason # "retries_exhausted"
  BY <1>1, <1>3 DEF JobMove
<1> QED BY <1>2, <1>3

LEMMA SucceededStep == IInv /\ [Next]_vars => SucceededIsPublished'
<1> SUFFICES ASSUME IInv, [Next]_vars, NEW j \in Job, job'[j].state = "succeeded", ~deleted'
             PROVE  report'[j] # 0
  BY DEF SucceededIsPublished
<1>1. JobMove(j) /\ ReportMove(j) /\ ~deleted
  BY JobMoves, ReportMoves, SessionMoves
<1>2. ASSUME NEW w \in Worker, Commit(w) PROVE worker[w].attempt # 0
  <2>1. worker[w].job \in Job /\ worker[w].attempt \in 1..job[worker[w].job].attempt
    BY <1>2 DEF Commit, At, IInv, WorkerKnows, Executing
  <2> QED BY <2>1
<1>3. report[j] # 0
  <2>1. CASE job[j].state = "succeeded"
    BY <1>1, <2>1 DEF IInv, SucceededIsPublished
  <2>2. CASE job[j].state # "succeeded"
    <3>1. PICK w \in Worker : worker[w].pc = "succeeding" /\ worker[w].job = j
      BY <1>1, <2>2 DEF JobMove
    <3> QED BY <1>1, <3>1 DEF IInv, WorkerKnows
  <2> QED BY <2>1, <2>2
<1> QED BY <1>1, <1>2, <1>3 DEF ReportMove

\* A roll-back never reaches what a row names: the report of a job is never the
\* one an execution that rolls back has put.
LEMMA PublishedStep == IInv /\ [Next]_vars => PublishedIsStored'
<1> SUFFICES ASSUME IInv, [Next]_vars, Live', NEW j \in Job
             PROVE  Published(j)' \subseteq objects'
  BY DEF PublishedIsStored
<1>1. Live
  BY SessionMoves DEF Live
<1>2. report'[j] \in 0..MaxAttempts /\ report[j] \in 0..MaxAttempts
  BY TypesStep DEF IInv, TypeOK
<1>3. CASE report'[j] = 0
  BY <1>3 DEF Published
<1>4. CASE report'[j] = report[j] /\ report[j] # 0
  <2> DEFINE n == report[j]
  <2>1. n \in Attempt
    BY <1>2, <1>4 DEF Attempt
  <2>2. Published(j)' = Keys(j, n) /\ Published(j) = Keys(j, n)
    BY <1>4 DEF Published
  <2>3. Keys(j, n) \subseteq objects
    BY <1>1, <2>2 DEF IInv, PublishedIsStored
  <2>4. ASSUME NEW v \in Worker, Rollback(v) PROVE worker[v].job # j \/ worker[v].attempt # n
    BY <2>4 DEF Rollback, At, IInv, WorkerKnows
  <2> QED BY <2>1, <2>2, <2>3, <2>4, StoredStays
<1>5. ASSUME NEW w \in Worker, Commit(w), worker[w].job = j, report'[j] = worker[w].attempt,
             report'[j] # 0
      PROVE  Published(j)' \subseteq objects'
  <2>1. WorkerKnows(w) /\ worker[w].pc = "committing" /\ worker[w].stored = Kinds
        /\ objects' = objects
    BY <1>5 DEF IInv, WorkerKnows, Commit, At, storeVars
  <2>2. StoredKeys(w) = Keys(j, report'[j])
    BY <1>5, <2>1 DEF StoredKeys, Keys
  <2>3. Published(j)' = Keys(j, report'[j])
    BY <1>5 DEF Published
  <2> QED BY <1>1, <2>1, <2>2, <2>3 DEF WorkerKnows
<1> QED BY <1>3, <1>4, <1>5, ReportMoves DEF ReportMove

-----------------------------------------------------------------------------
(* The drain.                                                              *)

\* A worker comes to store for a job only while the job is running, and only a
\* worker that stores, or an upload, leaves a write behind.
LEMMA WritesMove ==
  ASSUME IInv, [Next]_vars
  PROVE  /\ \A w \in Worker : worker'[w].pc = "storing" =>
               /\ worker'[w].job = worker[w].job /\ worker[w].job \in Job
               /\ worker[w].pc = "storing" \/ job[worker[w].job].state = "running"
         /\ \A x \in inflight' : \/ x \in inflight \/ x \in Upload
                                 \/ \E w \in Worker : worker[w].pc = "storing" /\ x[1] = worker[w].job
         /\ \A x \in objects' : \/ x \in objects \/ x \in Upload \/ x \in inflight
                                \/ \E w \in Worker : worker[w].pc = "storing" /\ x[1] = worker[w].job
<1> DEFINE Writes == \E w \in Worker : worker[w].pc = "storing"
           In(x) == \/ x \in inflight \/ x \in Upload
                    \/ \E w \in Worker : worker[w].pc = "storing" /\ x[1] = worker[w].job
           Ob(x) == \/ x \in objects \/ x \in Upload \/ x \in inflight
                    \/ \E w \in Worker : worker[w].pc = "storing" /\ x[1] = worker[w].job
<1>k. worker \in [Worker -> WorkerState]
  BY DEF IInv, TypeOK
<1>1. ASSUME NEW w \in Worker, worker'[w].pc = "storing"
      PROVE  /\ worker'[w].job = worker[w].job /\ worker[w].job \in Job
             /\ worker[w].pc = "storing" \/ job[worker[w].job].state = "running"
  <2>0. WorkerKnows(w)
    BY DEF IInv
  <2>1. ASSUME worker'[w] = worker[w]
        PROVE  worker[w].pc = "storing" /\ worker[w].job \in Job /\ worker'[w].job = worker[w].job
    BY <1>1, <2>0, <2>1 DEF WorkerKnows
  <2>2. CASE ~WorkerStep(w)
    BY <2>1, <2>2, OthersRest
  <2>3. CASE Boundary(w)
    <3>1. worker[w].pc = "bounding" /\ worker[w].job \in Job
      BY <2>0, <2>3 DEF Boundary, At, WorkerKnows
    <3>2. ~Goto(w, "succeeding")
      BY <1>k, <1>1 DEF Goto, WorkerState
    <3> QED BY <1>k, <2>3, <3>1, <3>2 DEF Boundary, WorkerState
  <2>4. CASE Put(w)
    BY <1>k, <2>0, <2>4 DEF Put, At, WorkerState, WorkerKnows
  <2>5. ASSUME WorkerStep(w), ~Boundary(w), ~Put(w) PROVE worker'[w].pc # "storing"
    <3>1. ASSUME NEW pc \in WorkerPC, Goto(w, pc) PROVE worker'[w].pc = pc
      BY <1>k, <3>1 DEF Goto, WorkerState
    <3>2. CASE FindDelivery(w) \/ Render(w) \/ StageRaises(w) \/ PutFails(w) \/ Commit(w)
               \/ CommitRefused(w) \/ Reconcile(w) \/ Rollback(w)
      BY <3>1, <3>2 DEF FindDelivery, Render, StageRaises, PutFails, Commit,
         CommitRefused, Reconcile, Rollback, WorkerPC
    <3>3. CASE HeartbeatLost(w) \/ Settle(w) \/ Crash(w)
      BY <1>k, <3>3 DEF HeartbeatLost, Settle, Crash, IdleWorker
    <3>4. CASE \E j \in Job : Claim(w, j)
      BY <1>k, <3>4 DEF Claim, WorkerState
    <3>5. CASE Lease(w)
      BY <1>k, <3>5 DEF Lease, WorkerState, IdleWorker
    <3> QED BY <2>5, <3>2, <3>3, <3>4, <3>5 DEF WorkerStep, RunStep
  <2> QED BY <1>1, <2>2, <2>3, <2>4, <2>5
<1>2. ASSUME NEW w \in Worker, WorkerStep(w)
      PROVE  (\A x \in inflight' : In(x)) /\ (\A x \in objects' : Ob(x))
  <2>1. worker[w].pc = "storing" => NextKey(w)[1] = worker[w].job
    BY NextKeyIsKey
  <2>2. CASE Put(w)
    <3>1. objects' = objects \cup {NextKey(w)} /\ inflight' = inflight /\ worker[w].pc = "storing"
      BY <2>2 DEF Put, At
    <3> QED BY <2>1, <3>1
  <2>3. CASE PutFails(w) \/ Crash(w)
    <3>1. /\ objects' = objects
          /\ inflight' = inflight \/ (worker[w].pc = "storing" /\ inflight' \subseteq inflight \cup {NextKey(w)})
      BY <2>3 DEF PutFails, Crash, At
    <3> QED BY <2>1, <3>1
  <2>4. CASE Rollback(w)
    <3>1. inflight' = inflight /\ objects' \subseteq objects
      BY <2>4 DEF Rollback
    <3> QED BY <3>1
  <2>5. ASSUME ~Put(w), ~PutFails(w), ~Crash(w), ~Rollback(w)
        PROVE  inflight' = inflight /\ objects' = objects
    BY <1>2, <2>5 DEF WorkerStep, RunStep, Claim, Lease, FindDelivery, Render,
       HeartbeatLost, StageRaises, Boundary, Commit, CommitRefused, Reconcile, Settle, storeVars
  <2> QED BY <2>2, <2>3, <2>4, <2>5
<1>3. ASSUME NEW j \in Job, QueueStep(j) PROVE UNCHANGED <<objects, inflight>>
  BY <1>3 DEF QueueStep, Enqueue, LeaseExpires, Reclaim, Drain, storeVars
<1>4. ASSUME NEW u \in Upload, UploadStep(u) \/ CrashUpload(u)
      PROVE  inflight' \subseteq inflight \cup {u} /\ objects' \subseteq objects \cup {u}
  BY <1>4 DEF UploadStep, BeginUpload, AbandonUpload, StoreUpload, RecordUpload,
     RecordUploadFails, DiscardUpload, CrashUpload, storeVars
<1>5. ASSUME NEW x \in inflight, Land(x)
      PROVE  inflight' \subseteq inflight /\ objects' \subseteq objects \cup inflight
  BY <1>5 DEF Land
<1>6. ASSUME NEW p \in Pass,
             (\E seen \in SUBSET drained : Begin(p, seen)) \/ PassStep(p) \/ CrashPass(p)
      PROVE  inflight' = inflight /\ objects' \subseteq objects
  BY <1>6 DEF Begin, PassStep, Defer, GetTargets, SweepPrefix, SweepPrefixFails, RemoveTargets,
     CompletePass, FailPass, CrashPass, storeVars
<1>7. ASSUME RetryDue \/ UNCHANGED vars PROVE UNCHANGED <<objects, inflight>>
  BY <1>7 DEF RetryDue, vars, storeVars
<1>8. (\A x \in inflight' : In(x)) /\ (\A x \in objects' : Ob(x))
  BY <1>2, <1>3, <1>4, <1>5, <1>6, <1>7 DEF Next
<1> QED BY <1>1, <1>8

LEMMA DrainedMoves ==
  ASSUME IInv, [Next]_vars
  PROVE  /\ drained \subseteq drained'
         /\ \A j \in drained' : j \in drained \/ Drain(j)
<1>1. ASSUME NEW j \in Job, QueueStep(j)
      PROVE  UNCHANGED drained \/ (Drain(j) /\ drained' = drained \cup {j})
  BY <1>1 DEF QueueStep, Enqueue, LeaseExpires, Reclaim, Drain
<1>2. ASSUME NEW w \in Worker, WorkerStep(w) PROVE UNCHANGED drained
  BY <1>2 DEF WorkerStep, RunStep, Claim, Lease, FindDelivery, Render, HeartbeatLost,
     StageRaises, Boundary, Put, PutFails, Commit, CommitRefused, Reconcile, Rollback,
     Settle, Crash, queueVars
<1>3. ASSUME NEW u \in Upload, UploadStep(u) \/ CrashUpload(u) PROVE UNCHANGED drained
  BY <1>3 DEF UploadStep, BeginUpload, AbandonUpload, StoreUpload, RecordUpload,
     RecordUploadFails, DiscardUpload, CrashUpload, queueVars
<1>4. ASSUME NEW x \in inflight, Land(x) PROVE UNCHANGED drained
  BY <1>4 DEF Land, queueVars
<1>5. ASSUME NEW p \in Pass,
             (\E seen \in SUBSET drained : Begin(p, seen)) \/ PassStep(p) \/ CrashPass(p)
      PROVE  UNCHANGED drained
  BY <1>5 DEF Begin, PassStep, Defer, GetTargets, SweepPrefix, SweepPrefixFails, RemoveTargets,
     CompletePass, FailPass, CrashPass, queueVars
<1>6. ASSUME RetryDue \/ UNCHANGED vars PROVE UNCHANGED drained
  BY <1>6 DEF RetryDue, vars, queueVars
<1> QED BY <1>1, <1>2, <1>3, <1>4, <1>5, <1>6 DEF Next

LEMMA DrainedStep == IInv /\ [Next]_vars => DrainedIsQuiet'
<1> SUFFICES ASSUME IInv, [Next]_vars, NEW j \in drained'
             PROVE  /\ job'[j].reason = "retries_exhausted"
                    /\ \A w \in Worker : worker'[w].pc = "storing" => worker'[w].job # j
                    /\ \A x \in inflight' : x \notin Upload => x[1] # j
  BY DEF DrainedIsQuiet, At
<1>1. j \in Job
  BY TypesStep DEF TypeOK
<1>2. /\ job[j].reason = "retries_exhausted"
      /\ \A w \in Worker : worker[w].pc = "storing" => worker[w].job # j
      /\ \A x \in inflight : x \notin Upload => x[1] # j
  BY DrainedMoves DEF Drain, At, IInv, DrainedIsQuiet
<1>3. job[j].state = "dead_lettered"
  BY <1>1, <1>2 DEF IInv, ExhaustedIsDead
<1>4. job'[j] = job[j]
  BY <1>1, <1>3, JobMoves DEF JobMove, Terminal
<1> QED BY <1>2, <1>3, <1>4, WritesMove

LEMMA PreparedStays ==
  ASSUME IInv, [Next]_vars, Prepared, requested
  PROVE  Prepared' /\ \A j \in Job : job'[j] = job[j]
<1>1. \A j \in Job : job'[j] = job[j]
  BY JobMoves DEF JobMove, Prepared
<1> QED BY <1>1, DrainedMoves DEF Prepared, AllSettled

LEMMA EmptiedStays ==
  ASSUME IInv, [Next]_vars, Prepared, requested, Emptied
  PROVE  Emptied'
<1>1. \A j \in Job : job'[j] = job[j]
  BY PreparedStays
<1> SUFFICES ASSUME NEW x \in objects', x \notin Upload
             PROVE  job'[x[1]].reason # "retries_exhausted"
  BY DEF Emptied
<1>2. x[1] \in Job
  BY TypesStep, KeyFacts DEF TypeOK
<1>3. CASE x \in objects
  BY <1>1, <1>2, <1>3 DEF Emptied
<1>4. CASE x \in inflight \/ \E w \in Worker : worker[w].pc = "storing" /\ x[1] = worker[w].job
  <2>1. x[1] \notin drained
    BY <1>4 DEF IInv, DrainedIsQuiet, At
  <2> QED BY <1>1, <1>2, <2>1 DEF Prepared
<1> QED BY <1>3, <1>4, WritesMove

-----------------------------------------------------------------------------
(* Deletion passes.                                                        *)

\* The rows a deletion has to account for only grow, until one completes.
LEMMA TargetsMove ==
  ASSUME IInv, [Next]_vars
  PROVE  Targets \subseteq Targets' \/ deleted'
<1>t. \A j \in Job : report[j] \in Nat
  BY DEF IInv, TypeOK
<1>1. upload' = upload \/ upload = None \/ deleted'
  <2>1. ASSUME NEW j \in Job, QueueStep(j) PROVE UNCHANGED upload
    BY <2>1 DEF QueueStep, Enqueue, LeaseExpires, Reclaim, Drain, rowVars
  <2>2. ASSUME NEW w \in Worker, WorkerStep(w) PROVE UNCHANGED upload
    BY <2>2 DEF WorkerStep, RunStep, Claim, Lease, FindDelivery, Render, HeartbeatLost,
       StageRaises, Boundary, Put, PutFails, Commit, CommitRefused, Reconcile, Rollback,
       Settle, Crash, rowVars
  <2>3. ASSUME NEW u \in Upload, UploadStep(u) \/ CrashUpload(u)
        PROVE  upload' = upload \/ upload = None
    BY <2>3 DEF UploadStep, BeginUpload, AbandonUpload, StoreUpload, RecordUpload,
       RecordUploadFails, DiscardUpload, CrashUpload, rowVars
  <2>4. ASSUME NEW x \in inflight, Land(x) PROVE UNCHANGED upload
    BY <2>4 DEF Land, rowVars
  <2>5. ASSUME NEW p \in Pass,
               (\E seen \in SUBSET drained : Begin(p, seen)) \/ PassStep(p) \/ CrashPass(p)
        PROVE  upload' = upload \/ deleted'
    BY <2>5 DEF Begin, PassStep, Defer, GetTargets, SweepPrefix, SweepPrefixFails,
       RemoveTargets, CompletePass, FailPass, CrashPass, rowVars
  <2>6. ASSUME RetryDue \/ UNCHANGED vars PROVE UNCHANGED upload
    BY <2>6 DEF RetryDue, vars, rowVars
  <2> QED BY <2>1, <2>2, <2>3, <2>4, <2>5, <2>6 DEF Next
<1>2. ASSUME NEW j \in Job, ~deleted', report[j] # 0 PROVE report'[j] = report[j]
  BY <1>2, ReportMoves DEF ReportMove
<1> SUFFICES ASSUME ~deleted', NEW x \in Targets PROVE x \in Targets'
  OBVIOUS
<1>3. (\E j \in Job : x \in Published(j)) \/ (x = upload /\ x # None)
  <2>1. x \in UNION {Published(j) : j \in Job} \/ x \in {upload} \ {None}
    BY DEF Targets
  <2>2. x \in UNION {Published(j) : j \in Job} => \E j \in Job : x \in Published(j)
    OBVIOUS
  <2> QED BY <2>1, <2>2
<1>4. ASSUME NEW j \in Job, x \in Published(j) PROVE x \in Targets'
  <2>1. x \in Keys(j, report[j]) /\ report[j] # 0
    BY <1>4 DEF Published
  <2>2. x \in Published(j)'
    BY <1>2, <2>1 DEF Published
  <2> QED BY <2>2 DEF Targets
<1>5. ASSUME x = upload, x # None PROVE x \in Targets'
  BY <1>1, <1>5 DEF Targets
<1> QED BY <1>3, <1>4, <1>5

LEMMA PassRests ==
  ASSUME IInv, [Next]_vars, NEW p \in Pass, pass'[p] = pass[p]
  PROVE  PassKnows(p)'
<1>k. PassKnows(p)
  BY DEF IInv
<1>1. /\ requested => requested'
      /\ deleted => deleted'
      /\ requested /\ Prepared => Prepared'
      /\ requested /\ Prepared /\ Emptied => Emptied'
      /\ Targets \subseteq Targets' \/ deleted'
      /\ drained \subseteq drained'
  BY SessionMoves, PreparedStays, EmptiedStays, TargetsMove, DrainedMoves
<1>2. pass[p].pc # "idle" => requested
  BY <1>k DEF PassKnows
<1>3. pass[p].pc \in {"removing", "completing"} => Emptied /\ Prepared /\ requested
  BY <1>k DEF PassKnows
<1> QED BY <1>k, <1>1, <1>2, <1>3 DEF PassKnows

LEMMA PassesStep == IInv /\ [Next]_vars => \A p \in Pass : PassKnows(p)'
<1> SUFFICES ASSUME IInv, [Next]_vars, NEW p \in Pass PROVE PassKnows(p)'
  OBVIOUS
<1>k. PassKnows(p) /\ pass[p] \in PassState /\ pass \in [Pass -> PassState]
  BY DEF IInv, TypeOK
<1>s. /\ requested => requested'
      /\ requested /\ Prepared => Prepared'
      /\ requested /\ Prepared /\ Emptied => Emptied'
      /\ Targets \subseteq Targets' \/ deleted'
      /\ deleted => deleted'
      /\ drained \subseteq drained'
  BY SessionMoves, PreparedStays, EmptiedStays, TargetsMove, DrainedMoves
<1>0. ASSUME pass'[p] = pass[p] PROVE PassKnows(p)'
  BY <1>0, PassRests
<1>i. ASSUME pass'[p] = IdlePass PROVE PassKnows(p)'
  BY <1>i DEF IdlePass, PassKnows
<1>1. ASSUME NEW seen \in SUBSET drained, Begin(p, seen) PROVE PassKnows(p)'
  <2>1. /\ pass'[p].pc = "deferring" /\ pass'[p].drained = seen /\ pass'[p].failed = {}
        /\ requested'
    BY <1>k, <1>1 DEF Begin, IdlePass
  <2> QED BY <1>s, <2>1 DEF PassKnows
<1>2. ASSUME Defer(p) PROVE PassKnows(p)'
  <2> DEFINE wait == NeedsDrain(p) \/ ~ AllSettled(SettledUnleased)
  <2>1. CASE wait \/ pass[p].backingOff
    BY <1>i, <1>k, <1>2, <2>1 DEF Defer
  <2>2. CASE ~wait /\ ~pass[p].backingOff
    <3>1. /\ job' = SettledUnleased /\ pass' = [pass EXCEPT ![p].pc = "targeting"]
          /\ pass[p].pc = "deferring" /\ UNCHANGED <<requested, drained>>
      BY <1>2, <2>2 DEF Defer, sessionVars
    <3>2. requested
      BY <1>k, <3>1 DEF PassKnows
    <3>3. AllSettled(job)'
      BY <2>2, <3>1 DEF AllSettled
    <3>4. ASSUME NEW j \in Job, job'[j].reason = "retries_exhausted" PROVE j \in drained
      <4>1. job[j] \in JobRow
        BY DEF IInv, TypeOK
      <4>2. job[j].reason = "retries_exhausted"
        BY <3>1, <3>4, <4>1 DEF SettledUnleased, JobRow
      <4>3. CASE deletion.attempt > 0
        BY <4>2, <4>3 DEF IInv, DeletionGood, Prepared
      <4>4. CASE deletion.attempt = 0
        <5>1. j \in pass[p].drained
          BY <2>2, <4>2, <4>4 DEF NeedsDrain
        <5> QED BY <1>k, <5>1 DEF PassKnows
      <4> QED BY <4>3, <4>4 DEF IInv, TypeOK, DeletionRow
    <3>5. Prepared'
      BY <3>1, <3>3, <3>4 DEF Prepared
    <3>6. /\ pass'[p].pc = "targeting" /\ pass'[p].failed = pass[p].failed
          /\ pass'[p].drained = pass[p].drained
      BY <1>k, <3>1 DEF PassState
    <3> QED BY <1>k, <1>s, <3>1, <3>2, <3>5, <3>6 DEF PassKnows
  <2> QED BY <2>1, <2>2
<1>3. ASSUME GetTargets(p) PROVE PassKnows(p)'
  <2>1. /\ pass[p].pc = "targeting" /\ pass'[p].pc = "sweeping" /\ pass'[p].targets = Targets
        /\ pass'[p].failed = pass[p].failed /\ pass'[p].drained = pass[p].drained
    BY <1>k, <1>3 DEF GetTargets, PassState
  <2> QED BY <1>k, <1>s, <2>1 DEF PassKnows
<1>4. ASSUME SweepPrefix(p) PROVE PassKnows(p)'
  <2>1. /\ pass[p].pc = "sweeping" /\ pass'[p].pc \in {"completing", "removing"}
        /\ pass'[p].targets = pass[p].targets /\ objects' = {}
        /\ pass'[p].failed = pass[p].failed /\ pass'[p].drained = pass[p].drained
    BY <1>k, <1>4 DEF SweepPrefix, PassState
  <2>2. Emptied'
    BY <2>1 DEF Emptied
  <2> QED BY <1>k, <1>s, <2>1, <2>2 DEF PassKnows
<1>5. ASSUME SweepPrefixFails(p) PROVE PassKnows(p)'
  <2>1. CASE pass[p].targets = {}
    BY <1>i, <1>k, <1>5, <2>1 DEF SweepPrefixFails
  <2>2. CASE pass[p].targets # {}
    <3>1. /\ pass[p].pc = "sweeping" /\ pass'[p].pc = "failing"
          /\ pass'[p].targets = pass[p].targets
          /\ pass'[p].failed = pass[p].targets /\ pass'[p].drained = pass[p].drained
      BY <1>k, <1>5, <2>2 DEF SweepPrefixFails, PassState
    <3> QED BY <1>k, <1>s, <2>2, <3>1 DEF PassKnows
  <2> QED BY <2>1, <2>2
<1>6. ASSUME RemoveTargets(p) PROVE PassKnows(p)'
  <2>1. PICK failed \in SUBSET pass[p].targets :
          pass' = [pass EXCEPT ![p].failed = failed,
                     ![p].pc = IF failed = {} THEN "completing" ELSE "failing"]
    BY <1>6 DEF RemoveTargets
  <2>2. /\ pass[p].pc = "removing" /\ pass'[p].failed = failed
        /\ pass'[p].pc = IF failed = {} THEN "completing" ELSE "failing"
        /\ pass'[p].targets = pass[p].targets /\ pass'[p].drained = pass[p].drained
    BY <1>k, <1>6, <2>1 DEF RemoveTargets, PassState
  <2> QED BY <1>k, <1>s, <2>2 DEF PassKnows
<1>7. ASSUME CompletePass(p) \/ FailPass(p) \/ CrashPass(p) PROVE PassKnows(p)'
  BY <1>i, <1>k, <1>7 DEF CompletePass, FailPass, CrashPass
<1>8. ASSUME NEW q \in Pass, q # p,
             (\E seen \in SUBSET drained : Begin(q, seen)) \/ PassStep(q) \/ CrashPass(q)
      PROVE  pass'[p] = pass[p]
  BY <1>k, <1>8 DEF Begin, PassStep, Defer, GetTargets, SweepPrefix, SweepPrefixFails,
     RemoveTargets, CompletePass, FailPass, CrashPass
<1>9. ASSUME NEW j \in Job, QueueStep(j) PROVE UNCHANGED pass
  BY <1>9 DEF QueueStep, Enqueue, LeaseExpires, Reclaim, Drain, procVars
<1>10. ASSUME NEW w \in Worker, WorkerStep(w) PROVE UNCHANGED pass
  BY <1>10 DEF WorkerStep, RunStep, Claim, Lease, FindDelivery, Render, HeartbeatLost,
     StageRaises, Boundary, Put, PutFails, Commit, CommitRefused, Reconcile, Rollback,
     Settle, Crash
<1>11. ASSUME NEW u \in Upload, UploadStep(u) \/ CrashUpload(u) PROVE UNCHANGED pass
  BY <1>11 DEF UploadStep, BeginUpload, AbandonUpload, StoreUpload, RecordUpload,
     RecordUploadFails, DiscardUpload, CrashUpload
<1>12. ASSUME NEW x \in inflight, Land(x) PROVE UNCHANGED pass
  BY <1>12 DEF Land, procVars
<1>13. ASSUME RetryDue \/ UNCHANGED vars PROVE UNCHANGED pass
  BY <1>13 DEF RetryDue, vars, procVars
<1> QED
  BY <1>0, <1>1, <1>2, <1>3, <1>4, <1>5, <1>6, <1>7, <1>8, <1>9, <1>10, <1>11, <1>12, <1>13
  DEF Next, PassStep

-----------------------------------------------------------------------------
(* The deletion and its evidence.                                          *)

\* Only passes and the clock move the deletion, and only by the steps named here.
LEMMA DeletionMoves ==
  ASSUME IInv, [Next]_vars
  PROVE  \/ UNCHANGED <<requested, deleted, deletion, evidence>>
         \/ \E p \in Pass, seen \in SUBSET drained : Begin(p, seen)
         \/ \E p \in Pass : Defer(p) \/ CompletePass(p) \/ FailPass(p)
         \/ RetryDue
<1>1. ASSUME NEW j \in Job, QueueStep(j) PROVE UNCHANGED <<requested, deleted, deletion, evidence>>
  BY <1>1 DEF QueueStep, Enqueue, LeaseExpires, Reclaim, Drain, sessionVars, deletionVars
<1>2. ASSUME NEW w \in Worker, WorkerStep(w)
      PROVE  UNCHANGED <<requested, deleted, deletion, evidence>>
  BY <1>2 DEF WorkerStep, RunStep, Claim, Lease, FindDelivery, Render, HeartbeatLost,
     StageRaises, Boundary, Put, PutFails, Commit, CommitRefused, Reconcile, Rollback,
     Settle, Crash, sessionVars, deletionVars
<1>3. ASSUME NEW u \in Upload, UploadStep(u) \/ CrashUpload(u)
      PROVE  UNCHANGED <<requested, deleted, deletion, evidence>>
  BY <1>3 DEF UploadStep, BeginUpload, AbandonUpload, StoreUpload, RecordUpload,
     RecordUploadFails, DiscardUpload, CrashUpload, sessionVars, deletionVars
<1>4. ASSUME NEW x \in inflight, Land(x) PROVE UNCHANGED <<requested, deleted, deletion, evidence>>
  BY <1>4 DEF Land, sessionVars, deletionVars
<1>5. ASSUME NEW p \in Pass,
             GetTargets(p) \/ SweepPrefix(p) \/ SweepPrefixFails(p) \/ RemoveTargets(p)
               \/ CrashPass(p)
      PROVE  UNCHANGED <<requested, deleted, deletion, evidence>>
  BY <1>5 DEF GetTargets, SweepPrefix, SweepPrefixFails, RemoveTargets, CrashPass,
     sessionVars, deletionVars
<1>6. ASSUME UNCHANGED vars PROVE UNCHANGED <<requested, deleted, deletion, evidence>>
  BY <1>6 DEF vars
<1> QED BY <1>1, <1>2, <1>3, <1>4, <1>5, <1>6 DEF Next, PassStep

LEMMA DeletionStep == IInv /\ [Next]_vars => DeletionGood'
<1> SUFFICES ASSUME IInv, [Next]_vars PROVE DeletionGood'
  OBVIOUS
<1>g. DeletionGood /\ deletion \in DeletionRow /\ deletion.attempt \in Nat
  BY DEF IInv, TypeOK, DeletionRow
<1>b. requested \in BOOLEAN /\ deleted \in BOOLEAN /\ requested' \in BOOLEAN /\ deleted' \in BOOLEAN
  BY TypesStep DEF IInv, TypeOK
<1>s. /\ requested => requested'
      /\ requested /\ Prepared => Prepared'
      /\ requested /\ Prepared /\ Emptied => Emptied'
      /\ Targets \subseteq Targets' \/ deleted'
      /\ deleted => deleted'
  BY SessionMoves, PreparedStays, EmptiedStays, TargetsMove
<1>r. deleted => requested
  BY <1>g DEF DeletionGood
<1>z. ASSUME deleted PROVE \A j \in Job : report'[j] = 0
  <2>1. \A w \in Worker : ~Commit(w)
    BY <1>z DEF Commit, Fenced, Live
  <2> QED BY <1>g, <1>z, <2>1, ReportMoves DEF ReportMove, DeletionGood
\* What stays true while no attempt is recorded.
<1>0. ASSUME UNCHANGED deleted, deletion'.attempt = deletion.attempt,
             deletion'.state = "complete" <=> deletion.state = "complete",
             requested' <=> deletion'.state # "none"
      PROVE  DeletionGood'
  <2>1. deletion'.attempt > 0 => requested' /\ Prepared' /\ (deleted' \/ Targets' # {})
    <3> SUFFICES ASSUME deletion.attempt > 0
                 PROVE  requested' /\ Prepared' /\ (deleted' \/ Targets' # {})
      BY <1>0
    <3>1. requested /\ Prepared /\ (deleted \/ Targets # {})
      BY <1>g DEF DeletionGood
    <3> QED BY <1>s, <3>1
  <2>2. deleted' => Prepared' /\ Emptied'
    BY <1>g, <1>r, <1>s, <1>0 DEF DeletionGood
  <2>3. deleted' => \A j \in Job : report'[j] = 0
    BY <1>0, <1>z
  <2> QED BY <1>g, <1>0, <2>1, <2>2, <2>3 DEF DeletionGood
<1>1. CASE UNCHANGED <<requested, deleted, deletion, evidence>>
  BY <1>g, <1>0, <1>1 DEF DeletionGood
<1>2. ASSUME NEW p \in Pass, NEW seen \in SUBSET drained, Begin(p, seen) PROVE DeletionGood'
  <2>1. /\ deletion'.state \notin {"none", "complete"} /\ deletion'.attempt = deletion.attempt
        /\ requested' /\ UNCHANGED deleted /\ deletion.state # "complete"
    BY <1>g, <1>2 DEF Begin, DeletionRow
  <2> QED BY <1>0, <2>1
<1>3. ASSUME NEW p \in Pass, Defer(p) PROVE DeletionGood'
  <2>1. requested
    BY <1>3 DEF Defer, IInv, PassKnows
  <2>2. /\ deletion'.attempt = deletion.attempt /\ UNCHANGED <<requested, deleted>>
        /\ \/ deletion' = deletion
           \/ deletion.state # "complete" /\ deletion'.state = "retryable"
    BY <1>g, <1>3 DEF Defer, MayDefer, DeletionRow, sessionVars
  <2> QED BY <1>g, <1>0, <2>1, <2>2 DEF DeletionGood
<1>4. ASSUME RetryDue PROVE DeletionGood'
  <2>1. /\ deletion'.attempt = deletion.attempt /\ UNCHANGED <<requested, deleted>>
        /\ deletion'.state = deletion.state
    BY <1>g, <1>4 DEF RetryDue, BackingOff, DeletionRow, sessionVars
  <2> QED BY <1>g, <1>0, <2>1 DEF DeletionGood
<1>5. ASSUME NEW p \in Pass, CompletePass(p) PROVE DeletionGood'
  <2>k. requested /\ Prepared /\ Emptied
    BY <1>5 DEF CompletePass, IInv, PassKnows
  <2>1. CASE Overtaken(p) \/ pass[p].targets # Targets
    BY <1>g, <1>0, <1>5, <2>1 DEF CompletePass, DeletionGood
  <2>2. CASE ~(Overtaken(p) \/ pass[p].targets # Targets)
    <3>1. /\ deleted' /\ UNCHANGED requested /\ report' = [j \in Job |-> 0]
          /\ deletion'.state = "complete"
      BY <1>g, <1>5, <2>2 DEF CompletePass, DeletionRow
    <3> QED BY <1>s, <2>k, <3>1 DEF DeletionGood
  <2> QED BY <2>1, <2>2
<1>6. ASSUME NEW p \in Pass, FailPass(p) PROVE DeletionGood'
  <2>k. /\ requested /\ Prepared
        /\ pass[p].targets \subseteq Targets \/ deleted
        /\ pass[p].failed # {} /\ pass[p].failed \subseteq pass[p].targets
    BY <1>6 DEF FailPass, IInv, PassKnows
  <2>1. CASE Overtaken(p)
    BY <1>g, <1>0, <1>6, <2>1 DEF FailPass, DeletionGood, sessionVars, deletionVars
  <2>2. CASE ~Overtaken(p)
    <3>1. /\ UNCHANGED <<requested, deleted>> /\ deletion.state # "complete"
          /\ deletion'.state = "retryable"
      BY <1>6, <2>2 DEF FailPass, Overtaken, sessionVars
    <3>2. ~deleted
      BY <1>g, <3>1 DEF DeletionGood
    <3>3. Targets' # {}
      BY <1>s, <2>k, <3>1, <3>2
    <3> QED BY <1>s, <2>k, <3>1, <3>2, <3>3 DEF DeletionGood
  <2> QED BY <2>1, <2>2
<1> QED BY <1>1, <1>2, <1>3, <1>4, <1>5, <1>6, DeletionMoves

\* A ledger of n attempts, the last of which completed the deletion if done.
Accounts(book, n, done) ==
    /\ {e[1] : e \in book} = 1..n
    /\ \A e, f \in book : e[1] = f[1] /\ e[2] = f[2] => e = f
    /\ \A i \in 1..n : (\E e \in book : e[1] = i /\ e[3] = "failed") <=> ~ (done /\ i = n)

\* One more attempt: its entries carry the next number and one outcome for each
\* target, and report a failure unless the attempt is the last.
LEMMA AccountsGrow ==
  ASSUME NEW book, NEW new, NEW n \in Nat, NEW done \in BOOLEAN, Accounts(book, n, FALSE),
         new # {}, \A e \in new : e[1] = n + 1,
         \A e, f \in new : e[2] = f[2] => e = f,
         (\E e \in new : e[3] = "failed") <=> ~done
  PROVE  Accounts(book \cup new, n + 1, done)
<1>0. \A e \in book : e[1] \in 1..n
  BY DEF Accounts
<1>1. {e[1] : e \in book \cup new} = 1..(n + 1)
  <2>1. {e[1] : e \in book \cup new} = {e[1] : e \in book} \cup {n + 1}
    OBVIOUS
  <2> QED BY <2>1 DEF Accounts
<1>2. ASSUME NEW e \in book \cup new, NEW f \in book \cup new, e[1] = f[1], e[2] = f[2]
      PROVE  e = f
  <2>1. CASE e \in book /\ f \in book
    BY <1>2, <2>1 DEF Accounts
  <2>2. CASE e \in new /\ f \in new
    BY <1>2, <2>2
  <2>3. CASE (e \in book /\ f \in new) \/ (e \in new /\ f \in book)
    BY <1>0, <1>2, <2>3
  <2> QED BY <2>1, <2>2, <2>3
<1>3. ASSUME NEW i \in 1..(n + 1)
      PROVE  (\E e \in book \cup new : e[1] = i /\ e[3] = "failed") <=> ~ (done /\ i = n + 1)
  <2>1. CASE i = n + 1
    <3>1. \A e \in book : e[1] # i
      BY <1>0, <2>1
    <3> QED BY <2>1, <3>1
  <2>2. CASE i # n + 1
    <3>1. i \in 1..n /\ \A e \in new : e[1] # i
      BY <2>2
    <3>2. \E e \in book : e[1] = i /\ e[3] = "failed"
      BY <3>1 DEF Accounts
    <3> QED BY <2>2, <3>2
  <2> QED BY <2>1, <2>2
<1> QED BY <1>1, <1>2, <1>3 DEF Accounts

LEMMA LedgerStep == IInv /\ [Next]_vars => EvidenceLedger'
<1> SUFFICES ASSUME IInv, [Next]_vars PROVE EvidenceLedger'
  OBVIOUS
<1>g. DeletionGood /\ deletion \in DeletionRow /\ deletion.attempt \in Nat /\ EvidenceLedger
  BY DEF IInv, TypeOK, DeletionRow
<1>0. ASSUME UNCHANGED evidence, deletion'.attempt = deletion.attempt,
             deletion'.state = "complete" <=> deletion.state = "complete"
      PROVE  EvidenceLedger'
  BY <1>g, <1>0 DEF EvidenceLedger
<1>1. CASE UNCHANGED <<requested, deleted, deletion, evidence>>
  BY <1>0, <1>1
<1>2. ASSUME NEW p \in Pass, NEW seen \in SUBSET drained, Begin(p, seen) PROVE EvidenceLedger'
  BY <1>g, <1>0, <1>2 DEF Begin, DeletionRow
<1>3. ASSUME NEW p \in Pass, Defer(p) PROVE EvidenceLedger'
  BY <1>g, <1>0, <1>3 DEF Defer, MayDefer, DeletionRow
<1>4. ASSUME RetryDue PROVE EvidenceLedger'
  BY <1>g, <1>0, <1>4 DEF RetryDue, BackingOff, DeletionRow
<1>5. ASSUME NEW p \in Pass, NEW done \in BOOLEAN, deletion.state # "complete",
             pass[p].attempt = deletion.attempt, pass[p].targets # {},
             (pass[p].failed \cap pass[p].targets = {}) <=> done,
             evidence' = evidence \cup Evidence(p),
             deletion'.attempt = deletion.attempt + 1, (deletion'.state = "complete") <=> done
      PROVE  EvidenceLedger'
  <2> DEFINE n == deletion.attempt
  <2>1. Accounts(evidence, n, FALSE)
    BY <1>g, <1>5 DEF EvidenceLedger, Accounts
  <2>2. Evidence(p) # {} /\ \A e \in Evidence(p) : e[1] = n + 1
    <3>1. PICK t \in pass[p].targets : TRUE
      BY <1>5
    <3>2. Evidence(p) # {}
      BY <3>1 DEF Evidence
    <3> QED BY <1>5, <3>2 DEF Evidence
  <2>3. \A e, f \in Evidence(p) : e[2] = f[2] => e = f
    BY DEF Evidence
  <2>4. (\E e \in Evidence(p) : e[3] = "failed") <=> ~done
    <3>1. ASSUME NEW e \in Evidence(p), e[3] = "failed" PROVE ~done
      BY <1>5, <3>1 DEF Evidence
    <3>2. ASSUME ~done PROVE \E e \in Evidence(p) : e[3] = "failed"
      <4>1. PICK t \in pass[p].targets : t \in pass[p].failed
        BY <1>5, <3>2
      <4>2. <<pass[p].attempt + 1, t, "failed">> \in Evidence(p)
        BY <4>1 DEF Evidence
      <4> QED BY <4>2
    <3> QED BY <3>1, <3>2
  <2>5. Accounts(evidence \cup Evidence(p), n + 1, done)
    <3>1. n \in Nat
      BY <1>g
    <3> DEFINE new == Evidence(p)
    <3>2. /\ new # {} /\ \A e \in new : e[1] = n + 1
          /\ \A e, f \in new : e[2] = f[2] => e = f
          /\ (\E e \in new : e[3] = "failed") <=> ~done
      BY <2>2, <2>3, <2>4
    <3> HIDE DEF n, new
    <3>3. Accounts(evidence \cup new, n + 1, done)
      BY <2>1, <3>1, <3>2, AccountsGrow
    <3> QED BY <3>3 DEF new
  <2> QED BY <1>5, <2>5 DEF EvidenceLedger, Accounts
<1>6. ASSUME NEW p \in Pass, CompletePass(p) PROVE EvidenceLedger'
  <2>k. pass[p].failed = {}
    BY <1>6 DEF CompletePass, IInv, PassKnows
  <2>1. CASE Overtaken(p) \/ pass[p].targets # Targets
    BY <1>0, <1>6, <2>1 DEF CompletePass
  <2>2. CASE ~(Overtaken(p) \/ pass[p].targets # Targets)
    <3>1. /\ evidence' = evidence \cup Evidence(p) /\ deletion'.state = "complete"
          /\ deletion'.attempt = IF pass[p].targets = {} THEN deletion.attempt
                                                         ELSE deletion.attempt + 1
          /\ deletion.state # "complete" /\ pass[p].attempt = deletion.attempt
          /\ pass[p].targets = Targets
      BY <1>g, <1>6, <2>2 DEF CompletePass, Overtaken, DeletionRow
    <3>2. CASE pass[p].targets = {}
      <4>1. deletion.attempt = 0
        BY <1>g, <3>1, <3>2 DEF DeletionGood
      <4>2. evidence' = evidence
        BY <3>1, <3>2 DEF Evidence
      <4> QED BY <1>g, <3>1, <3>2, <4>1, <4>2 DEF EvidenceLedger
    <3>3. CASE pass[p].targets # {}
      BY <1>5, <2>k, <3>1, <3>3
    <3> QED BY <3>2, <3>3
  <2> QED BY <2>1, <2>2
<1>7. ASSUME NEW p \in Pass, FailPass(p) PROVE EvidenceLedger'
  <2>k. pass[p].failed # {} /\ pass[p].failed \subseteq pass[p].targets
    BY <1>7 DEF FailPass, IInv, PassKnows
  <2>1. CASE Overtaken(p)
    BY <1>0, <1>7, <2>1 DEF FailPass, deletionVars
  <2>2. CASE ~Overtaken(p)
    <3>1. /\ evidence' = evidence \cup Evidence(p) /\ deletion'.state = "retryable"
          /\ deletion'.attempt = deletion.attempt + 1
          /\ deletion.state # "complete" /\ pass[p].attempt = deletion.attempt
      BY <1>7, <2>2 DEF FailPass, Overtaken
    <3> QED BY <1>5, <2>k, <3>1
  <2> QED BY <2>1, <2>2
<1> QED BY <1>1, <1>2, <1>3, <1>4, <1>6, <1>7, DeletionMoves

-----------------------------------------------------------------------------
(* The inductive invariant and the theorems.                               *)

LEMMA ContentBegins == Init => IInv
<1> SUFFICES ASSUME Init PROVE IInv
  OBVIOUS
<1>1. TypeOK
  BY TypesBegin
<1>2. \A w \in Worker : WorkerKnows(w) /\ ~Executing(w)
  BY DEF Init, IdleWorker, WorkerKnows, Executing
<1>3. \A p \in Pass : PassKnows(p)
  BY DEF Init, IdlePass, PassKnows
<1>4. /\ ReportsCounted /\ ExhaustedIsDead /\ PublishedIsStored /\ SucceededIsPublished
  <2>1. \A j \in Job : report[j] = 0 /\ job[j] = NoJob
    BY DEF Init
  <2>2. None # "retries_exhausted"
    BY LifecycleAssumption DEF LifecycleAssumption
  <2> QED
    BY <2>1, <2>2 DEF NoJob, ReportsCounted, ExhaustedIsDead, PublishedIsStored,
       Published, SucceededIsPublished
<1>5. DrainedIsQuiet /\ DeletionGood
  BY DEF Init, DrainedIsQuiet, DeletionGood
<1>6. EvidenceLedger
  BY DEF Init, EvidenceLedger
<1> QED BY <1>1, <1>2, <1>3, <1>4, <1>5, <1>6 DEF IInv, OneExecution

LEMMA ContentStep == IInv /\ [Next]_vars => IInv'
BY TypesStep, WorkersStep, OneExecutionStep, ReportsCountedStep, ExhaustedStep, DrainedStep,
   PassesStep, DeletionStep, PublishedStep, SucceededStep, LedgerStep
DEF IInv

LEMMA ContentInductive == Spec => []IInv
BY ContentBegins, ContentStep, PTL DEF Spec

\* The rows, the store and the processes keep their types.
THEOREM ContentTypes == Spec => []TypeOK
<1>1. IInv => TypeOK
  BY DEF IInv
<1> QED BY <1>1, ContentInductive, PTL

\* Until a deletion is requested every artifact a row names is in the store,
\* whoever rolls back, dies or is reclaimed (_rollback and _commit of
\* artifact_publication.py, artifact_persistence.py).
THEOREM PublishedStaysStored == Spec => []PublishedIsStored
<1>1. IInv => PublishedIsStored
  BY DEF IInv
<1> QED BY <1>1, ContentInductive, PTL

\* A job that succeeded has its report, until the session's deletion completes
\* (find_delivery, publish and the settlement of the lease).
THEOREM SuccessHasReport == Spec => []SucceededIsPublished
<1>1. IInv => SucceededIsPublished
  BY DEF IInv
<1> QED BY <1>1, ContentInductive, PTL

\* Once the deletion is complete nothing runs and no report row is left
\* (defer_for_publication, complete and the fence of the commit).
THEOREM DeletionSettles == Spec => []DeletedIsSettled
<1>1. IInv => DeletedIsSettled
  BY DEF IInv, DeletionGood, Prepared, DeletedIsSettled
<1> QED BY <1>1, ContentInductive, PTL

\* Once the deletion is complete no object of an exhausted job is in the store,
\* whatever its publishers had under way (the drain of defer_for_publication).
THEOREM DrainServes == Spec => []DrainIsServed
<1>1. IInv => DrainIsServed
  BY DEF IInv, DeletionGood, Emptied, DrainIsServed
<1> QED BY <1>1, ContentInductive, PTL

\* Racing passes record every attempt once, each target with one outcome, and a
\* failure in every attempt but the last (complete and fail of
\* SqlDeletionRepository).
THEOREM EvidenceAccounts == Spec => []EvidenceLedger
<1>1. IInv => EvidenceLedger
  BY DEF IInv
<1> QED BY <1>1, ContentInductive, PTL

\* A published report is replaced by no other, and removed only by the pass that
\* completes the deletion (the conditions of the commit and of complete).
THEOREM ReportStands == Spec => ReportIsStable
<1>1. ASSUME IInv, [Next]_vars
      PROVE  [\A j \in Job : report'[j] # report[j] =>
                \/ report[j] = 0 /\ Live
                \/ report'[j] = 0 /\ ~ deleted /\ deleted']_vars
  BY <1>1, ReportMoves DEF ReportMove
<1> QED BY <1>1, ContentInductive, PTL DEF Spec, ReportIsStable

\* A complete deletion is neither reopened nor completed again
\* (ck_deletion_completion, and what complete and fail test under their lock).
THEOREM CompletionStands == Spec => CompletionIsFinal
<1>1. ASSUME IInv, [Next]_vars
      PROVE  [deletion.state = "complete" => UNCHANGED <<deletion, evidence, deleted>>]_vars
  <2> SUFFICES ASSUME deletion.state = "complete"
               PROVE  UNCHANGED <<deletion, evidence, deleted>>
    OBVIOUS
  <2>1. \A p \in Pass, seen \in SUBSET drained : ~Begin(p, seen)
    BY DEF Begin
  <2>2. ASSUME NEW p \in Pass, Defer(p) PROVE UNCHANGED <<deletion, evidence, deleted>>
    BY <2>2 DEF Defer, MayDefer, sessionVars
  <2>3. ASSUME NEW p \in Pass, CompletePass(p) PROVE UNCHANGED <<deletion, evidence, deleted>>
    BY <2>3 DEF CompletePass, Overtaken
  <2>4. ASSUME NEW p \in Pass, FailPass(p) PROVE UNCHANGED <<deletion, evidence, deleted>>
    BY <2>4 DEF FailPass, Overtaken, deletionVars, sessionVars
  <2>5. ~RetryDue
    BY DEF RetryDue, BackingOff
  <2> QED BY <1>1, <2>1, <2>2, <2>3, <2>4, <2>5, DeletionMoves
<1> QED BY <1>1, ContentInductive, PTL DEF Spec, CompletionIsFinal
=============================================================================
