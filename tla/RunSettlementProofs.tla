-------------------------- MODULE RunSettlementProofs --------------------------
(***************************************************************************)
(* RunLedger and RunFollowsJob for any number of jobs, workers, requests,  *)
(* attempts and crashes.                                                   *)
(*                                                                         *)
(* Neither is inductive alone.  That a failed run belongs to a             *)
(* dead-lettered job rests on what a process inside the recorder knows:    *)
(* `abandoned` is only ever called about a dead-lettered job, which stays  *)
(* dead-lettered until the write; that a completed run is delivered rests  *)
(* on the test made before the write, which no later step undoes.          *)
(***************************************************************************)
EXTENDS RunSettlement, TLAPS

InRecorder == {"reading", "checking", "writing"}

\* What a process knows about the job it works on.
ActorKnows(a) ==
    /\ actor[a].pc \notin {"idle", "new", "done"} => actor[a].job \in Job
    /\ actor[a].pc \in InRecorder =>
          /\ actor[a].verb \in Verb
          /\ actor[a].verb = "abandoned" => job[actor[a].job].state = "dead_lettered"
    /\ actor[a].pc = "writing" /\ actor[a].verb = "settled" => actor[a].job \in delivered

ActorsKnow == \A a \in Actor : ActorKnows(a)

IInv == TypeOK /\ ActorsKnow /\ RunLedger /\ RunFollowsJob

\* The initial state satisfies the inductive invariant.
LEMMA InitIInv == Init => IInv
<1> SUFFICES ASSUME Init PROVE IInv
  OBVIOUS
<1>1. TypeOK
  <2>1. job \in [Job -> JobRow]
    BY SettlementAssumption DEF Init, JobRow, Claimable, Terminal, SettlementAssumption
  <2>2. ASSUME NEW a \in Actor
        PROVE  Rest(a) \in ActorState /\ [Rest(a) EXCEPT !.pc = "new"] \in ActorState
    BY DEF Rest, ActorState, ActorPC
  <2>3. actor \in [Actor -> ActorState]
    BY <2>2 DEF Init
  <2>4. /\ run \in [Job -> {"none", "started", "completed", "failed"}]
        /\ trail \in [Job -> [started : Nat, ended : Nat]]
    BY DEF Init
  <2> QED  BY <2>1, <2>3, <2>4 DEF TypeOK, Init
<1>2. ActorsKnow
  BY DEF Init, ActorsKnow, ActorKnows, InRecorder, Rest, Actor
<1>3. RunLedger /\ RunFollowsJob
  BY DEF Init, RunLedger, RunFollowsJob
<1> QED  BY <1>1, <1>2, <1>3 DEF IInv

\* Going to rest keeps what the processes know.
LEMMA RestKnows ==
    ASSUME IInv, NEW a \in Actor, Ends(a), UNCHANGED <<job, delivered>>
    PROVE  actor' \in [Actor -> ActorState] /\ ActorsKnow'
<1>1. actor' = [actor EXCEPT ![a] = Rest(a)] /\ Rest(a) \in ActorState
  BY DEF Ends, Rest, ActorState, ActorPC
<1>2. actor' \in [Actor -> ActorState]
  BY <1>1 DEF IInv, TypeOK
<1>3. ASSUME NEW b \in Actor PROVE ActorKnows(b)'
  <2>1. CASE b = a
    <3>1. actor'[b] = Rest(a)
      BY <1>1, <2>1 DEF IInv, TypeOK
    <3> QED  BY <3>1 DEF ActorKnows, Rest, InRecorder
  <2>2. CASE b # a
    <3>1. actor'[b] = actor[b]
      BY <1>1, <2>2 DEF IInv, TypeOK
    <3>2. ActorKnows(b)
      BY DEF IInv, ActorsKnow
    <3> QED  BY <3>1, <3>2 DEF ActorKnows
  <2> QED  BY <2>1, <2>2
<1> QED  BY <1>2, <1>3 DEF ActorsKnow

\* So does any step of one process whose next state knows its job, when no job
\* leaves the dead letter and no delivery is lost.
LEMMA OneActorKnows ==
    ASSUME IInv, NEW a \in Actor, NEW s \in ActorState,
           actor' = [actor EXCEPT ![a] = s],
           \A j \in Job : job[j].state = "dead_lettered" => job'[j].state = "dead_lettered",
           delivered \subseteq delivered',
           s.pc \notin {"idle", "new", "done"} => s.job \in Job,
           s.pc \in InRecorder =>
              /\ s.verb \in Verb
              /\ s.verb = "abandoned" => job'[s.job].state = "dead_lettered",
           s.pc = "writing" /\ s.verb = "settled" => s.job \in delivered'
    PROVE  actor' \in [Actor -> ActorState] /\ ActorsKnow'
<1>1. actor' \in [Actor -> ActorState]
  BY DEF IInv, TypeOK
<1>2. ASSUME NEW b \in Actor PROVE ActorKnows(b)'
  <2>1. CASE b = a
    <3>1. actor'[b] = s
      BY <2>1 DEF IInv, TypeOK
    <3> QED  BY <3>1 DEF ActorKnows
  <2>2. CASE b # a
    <3>1. actor'[b] = actor[b]
      BY <2>2 DEF IInv, TypeOK
    <3>2. ActorKnows(b)
      BY DEF IInv, ActorsKnow
    <3> QED  BY <3>1, <3>2 DEF ActorKnows, InRecorder
  <2> QED  BY <2>1, <2>2
<1> QED  BY <1>1, <1>2 DEF ActorsKnow

\* A process moves on about the same job.
LEMMA GotoKnows ==
    ASSUME IInv, NEW a \in Actor, NEW pc \in ActorPC, Goto(a, pc),
           \A j \in Job : job[j].state = "dead_lettered" => job'[j].state = "dead_lettered",
           delivered \subseteq delivered',
           actor[a].job \in Job,
           pc \in InRecorder => actor[a].pc \in InRecorder,
           pc = "writing" /\ actor[a].verb = "settled" => actor[a].job \in delivered'
    PROVE  actor' \in [Actor -> ActorState] /\ ActorsKnow'
<1> DEFINE s == [actor[a] EXCEPT !.pc = pc]
<1>1. actor[a] \in ActorState /\ ActorKnows(a)
  BY DEF IInv, TypeOK, ActorsKnow
<1>2. s \in ActorState /\ actor' = [actor EXCEPT ![a] = s]
  BY <1>1 DEF Goto, ActorState, IInv, TypeOK
<1>3. s.pc = pc /\ s.job = actor[a].job /\ s.verb = actor[a].verb
  BY <1>1 DEF ActorState
<1> HIDE DEF s
<1> QED  BY <1>1, <1>2, <1>3, OneActorKnows DEF ActorKnows

\* A process calls the recorder.
LEMMA RecordsKnows ==
    ASSUME IInv, NEW a \in Actor, NEW j \in Job, NEW verb \in Verb,
           NEW after \in {"idle", "completing", "done"}, Records(a, j, verb, after),
           \A i \in Job : job[i].state = "dead_lettered" => job'[i].state = "dead_lettered",
           delivered \subseteq delivered',
           verb = "abandoned" => job'[j].state = "dead_lettered"
    PROVE  actor' \in [Actor -> ActorState] /\ ActorsKnow'
<1> DEFINE s == [pc |-> "reading", job |-> j, verb |-> verb, after |-> after]
<1>1. s \in ActorState /\ actor' = [actor EXCEPT ![a] = s]
  BY DEF Records, ActorState, ActorPC
<1>2. s.pc = "reading" /\ s.job = j /\ s.verb = verb
  OBVIOUS
<1> HIDE DEF s
<1> QED  BY <1>1, <1>2, OneActorKnows

\* The parts of the invariant after a step that writes no run.
LEMMA RunsUntouched ==
    ASSUME IInv, UNCHANGED runVars,
           actor' \in [Actor -> ActorState] /\ ActorsKnow',
           job' \in [Job -> JobRow],
           \A j \in Job : job[j].state = "dead_lettered" => job'[j].state = "dead_lettered",
           delivered \subseteq delivered',
           requested' \in BOOLEAN, expired' \in SUBSET Job, delivered' \in SUBSET Job,
           crashes' \in Nat
    PROVE  IInv'
<1>1. RunLedger'
  BY DEF IInv, RunLedger, runVars
<1>2. RunFollowsJob'
  BY DEF IInv, RunFollowsJob, runVars
<1>3. TypeOK'
  BY DEF IInv, TypeOK, runVars
<1> QED  BY <1>1, <1>2, <1>3 DEF IInv

\* A queue step that no process takes part in keeps what they know.
LEMMA QueueKnows ==
    ASSUME IInv, UNCHANGED <<actor, delivered>>,
           \A j \in Job : job[j].state = "dead_lettered" => job'[j].state = "dead_lettered"
    PROVE  actor' \in [Actor -> ActorState] /\ ActorsKnow'
<1>1. actor' \in [Actor -> ActorState]
  BY DEF IInv, TypeOK
<1>2. ASSUME NEW b \in Actor PROVE ActorKnows(b)'
  BY DEF IInv, ActorsKnow, ActorKnows, InRecorder
<1> QED  BY <1>1, <1>2 DEF ActorsKnow

\* Giving an attempt up yields a row.
LEMMA GivenUpType ==
    ASSUME NEW r \in JobRow PROVE GivenUp(r) \in JobRow
BY DEF GivenUp, JobRow, Claimable, Terminal

\* Leasing, settling and recovering write rows of the type and never touch a
\* dead-lettered job.
LEMMA QueueSteps ==
    ASSUME TypeOK
    PROVE  /\ \A w \in Worker, j \in Job : Lease(w, j) => job' \in [Job -> JobRow]
           /\ \A j \in Job : Reclaim(j) => job' \in [Job -> JobRow]
           /\ SettleUnleased => job' \in [Job -> JobRow]
           /\ \A w \in Worker :
                 (actor[w].job \in Job /\ (Complete(w) \/ Fail(w))) => job' \in [Job -> JobRow]
           /\ \A r \in Request, j \in Job : Enqueue(r, j) => job' \in [Job -> JobRow]
<1>J. ASSUME NEW j \in Job PROVE job[j] \in JobRow
  BY DEF TypeOK
<1>1. ASSUME NEW w \in Worker, NEW j \in Job, Lease(w, j) PROVE job' \in [Job -> JobRow]
  <2>1. job[j].attempt \in 0..MaxAttempts /\ job[j].attempt < MaxAttempts
    BY <1>1, <1>J DEF Lease, JobRow
  <2>2. job[j].attempt + 1 \in 0..MaxAttempts
    BY <2>1, SettlementAssumption DEF SettlementAssumption
  <2>3. [state |-> "running", owner |-> w, attempt |-> job[j].attempt + 1] \in JobRow
    BY <2>2 DEF JobRow
  <2> QED  BY <1>1, <2>3 DEF Lease, TypeOK
<1>2. ASSUME NEW j \in Job, Reclaim(j) PROVE job' \in [Job -> JobRow]
  BY <1>2, <1>J, GivenUpType DEF Reclaim, TypeOK
<1>3. ASSUME SettleUnleased PROVE job' \in [Job -> JobRow]
  <2>1. \A j \in Job : [job[j] EXCEPT !.state = "dead_lettered"] \in JobRow
    BY <1>J DEF JobRow, Terminal
  <2> QED  BY <1>3, <1>J, <2>1 DEF SettleUnleased
<1>4. ASSUME NEW w \in Worker, actor[w].job \in Job, Complete(w)
      PROVE  job' \in [Job -> JobRow]
  <2>1. [job[actor[w].job] EXCEPT !.state = "succeeded", !.owner = None] \in JobRow
    BY <1>J, <1>4 DEF JobRow, Terminal
  <2> QED  BY <1>4, <2>1 DEF Complete, TypeOK
<1>5. ASSUME NEW w \in Worker, actor[w].job \in Job, Fail(w)
      PROVE  job' \in [Job -> JobRow]
  BY <1>5, <1>J, GivenUpType DEF Fail, TypeOK
<1>6. ASSUME NEW r \in Request, NEW j \in Job, Enqueue(r, j)
      PROVE  job' \in [Job -> JobRow]
  <2>1. [job[j] EXCEPT !.state = IF @ = "absent" THEN "queued" ELSE @] \in JobRow
    BY <1>J DEF JobRow, Claimable
  <2> QED  BY <1>6, <2>1 DEF Enqueue, TypeOK
<1> QED  BY <1>1, <1>2, <1>3, <1>4, <1>5, <1>6

\* A dead-lettered job stays dead-lettered in every step of the queue.
LEMMA DeadLetterStays ==
    ASSUME TypeOK, NEW i \in Job, job[i].state = "dead_lettered",
           \/ \E w \in Worker, j \in Job : Lease(w, j)
           \/ \E j \in Job : Reclaim(j)
           \/ SettleUnleased
           \/ \E w \in Worker : actor[w].job \in Job /\ (Complete(w) \/ Fail(w))
           \/ \E r \in Request, j \in Job : Enqueue(r, j)
           \/ UNCHANGED job
    PROVE  job'[i].state = "dead_lettered"
<1>1. ASSUME NEW w \in Worker, NEW j \in Job, Lease(w, j) PROVE job'[i] = job[i]
  BY <1>1 DEF Lease, TypeOK, Claimable
<1>2. ASSUME NEW j \in Job, Reclaim(j) PROVE job'[i] = job[i]
  BY <1>2 DEF Reclaim, TypeOK
<1>3. ASSUME SettleUnleased PROVE job'[i] = job[i]
  BY <1>3 DEF SettleUnleased, TypeOK, Claimable
<1>4. ASSUME NEW w \in Worker, Complete(w) \/ Fail(w), actor[w].job \in Job
      PROVE  job'[i] = job[i]
  BY <1>4 DEF Complete, Fail, OnRow, TypeOK
<1>5. ASSUME NEW r \in Request, NEW j \in Job, Enqueue(r, j)
      PROVE  job'[i].state = "dead_lettered"
  <2>1. CASE j = i
    <3>1. job'[i] = [job[i] EXCEPT !.state = "dead_lettered"] /\ job[i] \in JobRow
      BY <1>5, <2>1 DEF Enqueue, TypeOK
    <3> QED  BY <3>1 DEF JobRow
  <2>2. CASE j # i
    BY <1>5, <2>2 DEF Enqueue, TypeOK
  <2> QED  BY <2>1, <2>2
<1> QED  BY <1>1, <1>2, <1>3, <1>4, <1>5

\* A step of the queue alone.
LEMMA QueueIInv ==
    ASSUME IInv
    PROVE  /\ \A j \in Job : Queue(j) => IInv'
           /\ RequestDeletion \/ SettleUnleased => IInv'
<1> USE DEF IInv
<1>1. ASSUME NEW j \in Job, LeaseExpires(j) PROVE IInv'
  <2>1. actor' \in [Actor -> ActorState] /\ ActorsKnow'
    BY <1>1, QueueKnows DEF LeaseExpires
  <2> QED  BY <1>1, <2>1, RunsUntouched DEF LeaseExpires, TypeOK
<1>2. ASSUME NEW j \in Job, Reclaim(j) PROVE IInv'
  <2>1. \A i \in Job : job[i].state = "dead_lettered" => job'[i].state = "dead_lettered"
    BY <1>2, DeadLetterStays
  <2>2. actor' \in [Actor -> ActorState] /\ ActorsKnow'
    BY <1>2, <2>1, QueueKnows DEF Reclaim
  <2>3. job' \in [Job -> JobRow]
    BY <1>2, QueueSteps
  <2> QED  BY <1>2, <2>1, <2>2, <2>3, RunsUntouched DEF Reclaim, TypeOK
<1>3. ASSUME RequestDeletion PROVE IInv'
  <2>1. actor' \in [Actor -> ActorState] /\ ActorsKnow'
    BY <1>3, QueueKnows DEF RequestDeletion, queueVars
  <2> QED  BY <1>3, <2>1, RunsUntouched DEF RequestDeletion, queueVars, TypeOK
<1>4. ASSUME SettleUnleased PROVE IInv'
  <2>1. \A i \in Job : job[i].state = "dead_lettered" => job'[i].state = "dead_lettered"
    BY <1>4, DeadLetterStays
  <2>2. actor' \in [Actor -> ActorState] /\ ActorsKnow'
    BY <1>4, <2>1, QueueKnows DEF SettleUnleased
  <2>3. job' \in [Job -> JobRow]
    BY <1>4, QueueSteps
  <2> QED  BY <1>4, <2>1, <2>2, <2>3, RunsUntouched DEF SettleUnleased, TypeOK
<1> QED  BY <1>1, <1>2, <1>3, <1>4 DEF Queue

\* A step of a worker outside the recorder.
LEMMA WorkerIInv ==
    ASSUME IInv, NEW w \in Worker
    PROVE  /\ Execution(w) => IInv'
           /\ \A j \in Job : Lease(w, j) \/ Reconcile(w, j) => IInv'
<1> USE DEF IInv
<1>K. w \in Actor /\ actor[w] \in ActorState /\ ActorKnows(w)
  BY DEF Actor, TypeOK, ActorsKnow
<1>1. ASSUME NEW j \in Job, Lease(w, j) PROVE IInv'
  <2> DEFINE s == [actor[w] EXCEPT !.pc = "executing", !.job = j]
  <2>1. s \in ActorState /\ actor' = [actor EXCEPT ![w] = s]
    BY <1>1, <1>K DEF Lease, ActorState, ActorPC, TypeOK
  <2>2. s.pc = "executing" /\ s.job = j
    BY <1>K DEF ActorState
  <2>3. \A i \in Job : job[i].state = "dead_lettered" => job'[i].state = "dead_lettered"
    BY <1>1, DeadLetterStays
  <2> HIDE DEF s
  <2>4. actor' \in [Actor -> ActorState] /\ ActorsKnow'
    BY <1>1, <1>K, <2>1, <2>2, <2>3, OneActorKnows DEF InRecorder, Lease
  <2>5. job' \in [Job -> JobRow]
    BY <1>1, QueueSteps
  <2> QED  BY <1>1, <2>3, <2>4, <2>5, RunsUntouched DEF Lease, TypeOK
<1>2. ASSUME NEW j \in Job, Reconcile(w, j) PROVE IInv'
  <2>1. /\ VerbOf(job[j].state) \in Verb
        /\ VerbOf(job[j].state) = "abandoned" => job[j].state = "dead_lettered"
    BY <1>2 DEF Reconcile, VerbOf, Verb, Terminal
  <2>2. actor' \in [Actor -> ActorState] /\ ActorsKnow'
    BY <1>2, <1>K, <2>1, RecordsKnows DEF Reconcile, queueVars
  <2> QED  BY <1>2, <2>2, RunsUntouched DEF Reconcile, queueVars, TypeOK
<1>3. ASSUME Deliver(w) PROVE IInv'
  <2>1. actor[w].job \in Job
    BY <1>3, <1>K DEF Deliver, At, ActorKnows
  <2>2. /\ delivered' = delivered \cup {actor[w].job}
        /\ Records(w, actor[w].job, "settled", "completing")
        /\ UNCHANGED <<requested, job, expired, run, trail, crashes>>
    BY <1>3 DEF Deliver, queueVars, runVars
  <2>3. actor' \in [Actor -> ActorState] /\ ActorsKnow'
    BY <1>K, <2>1, <2>2, RecordsKnows DEF Verb
  <2> QED  BY <2>1, <2>2, <2>3, RunsUntouched DEF TypeOK, runVars
<1>4. ASSUME HeartbeatLost(w) PROVE IInv'
  <2>1. actor' \in [Actor -> ActorState] /\ ActorsKnow'
    BY <1>4, <1>K, RestKnows DEF HeartbeatLost, queueVars
  <2> QED  BY <1>4, <2>1, RunsUntouched DEF HeartbeatLost, queueVars, TypeOK
<1>5. ASSUME HandlerRaises(w) PROVE IInv'
  <2>1. actor[w].job \in Job
    BY <1>5, <1>K DEF HandlerRaises, At, ActorKnows
  <2>2. actor' \in [Actor -> ActorState] /\ ActorsKnow'
    BY <1>5, <1>K, <2>1, GotoKnows DEF HandlerRaises, queueVars, ActorPC, InRecorder
  <2> QED  BY <1>5, <2>2, RunsUntouched DEF HandlerRaises, queueVars, TypeOK
<1>6. ASSUME Complete(w) \/ Fail(w) PROVE IInv'
  <2>1. actor[w].job \in Job
    BY <1>6, <1>K DEF Complete, Fail, At, ActorKnows
  <2>2. \A i \in Job : job[i].state = "dead_lettered" => job'[i].state = "dead_lettered"
    BY <1>6, <2>1, DeadLetterStays
  <2>3. job' \in [Job -> JobRow]
    BY <1>6, <2>1, QueueSteps
  <2>4. UNCHANGED <<requested, expired, delivered, run, trail, crashes>>
    BY <1>6 DEF Complete, Fail, runVars
  <2>5. \/ Ends(w)
        \/ /\ job'[actor[w].job].state = "dead_lettered"
           /\ Records(w, actor[w].job, "abandoned", "idle")
    BY <1>6 DEF Complete, Fail
  <2>6. actor' \in [Actor -> ActorState] /\ ActorsKnow'
    <3>1. CASE Ends(w)
      <4>1. Rest(w) \in ActorState /\ actor' = [actor EXCEPT ![w] = Rest(w)]
        BY <3>1 DEF Ends, Rest, ActorState, ActorPC
      <4>2. Rest(w).pc = "idle"
        BY DEF Rest
      <4> QED  BY <1>K, <2>2, <2>4, <4>1, <4>2, OneActorKnows DEF InRecorder
    <3>2. CASE /\ job'[actor[w].job].state = "dead_lettered"
               /\ Records(w, actor[w].job, "abandoned", "idle")
      BY <1>K, <2>1, <2>2, <2>4, <3>2, RecordsKnows DEF Verb
    <3> QED  BY <2>5, <3>1, <3>2
  <2> QED  BY <2>2, <2>3, <2>4, <2>6, RunsUntouched DEF TypeOK, runVars
<1> QED  BY <1>1, <1>2, <1>3, <1>4, <1>5, <1>6 DEF Execution

\* A step of a report request outside the recorder.
LEMMA RequestIInv ==
    ASSUME IInv, NEW r \in Request, Requesting(r)
    PROVE  IInv'
<1> USE DEF IInv
<1>K. r \in Actor /\ actor[r] \in ActorState /\ ActorKnows(r)
  BY DEF Actor, TypeOK, ActorsKnow
<1>1. ASSUME NEW j \in Job, Enqueue(r, j) PROVE IInv'
  <2> DEFINE s == [actor[r] EXCEPT !.pc = "resolving", !.job = j]
  <2>1. s \in ActorState /\ actor' = [actor EXCEPT ![r] = s]
    BY <1>1, <1>K DEF Enqueue, ActorState, ActorPC, TypeOK
  <2>2. s.pc = "resolving" /\ s.job = j
    BY <1>K DEF ActorState
  <2>3. \A i \in Job : job[i].state = "dead_lettered" => job'[i].state = "dead_lettered"
    BY <1>1, DeadLetterStays
  <2> HIDE DEF s
  <2>4. actor' \in [Actor -> ActorState] /\ ActorsKnow'
    BY <1>1, <1>K, <2>1, <2>2, <2>3, OneActorKnows DEF InRecorder, Enqueue
  <2>5. job' \in [Job -> JobRow]
    BY <1>1, QueueSteps
  <2> QED  BY <1>1, <2>3, <2>4, <2>5, RunsUntouched DEF Enqueue, TypeOK
<1>2. ASSUME Resolve(r) PROVE IInv'
  <2>1. actor[r].job \in Job
    BY <1>2, <1>K DEF Resolve, At, ActorKnows
  <2>2. UNCHANGED <<requested, job, expired, delivered, run, trail, crashes>>
    BY <1>2 DEF Resolve, queueVars, runVars
  <2>3. actor' \in [Actor -> ActorState] /\ ActorsKnow'
    <3>1. CASE Ends(r)
      BY <1>K, <2>2, <3>1, RestKnows
    <3>2. CASE Goto(r, "linking")
      BY <1>K, <2>1, <2>2, <3>2, GotoKnows DEF ActorPC, InRecorder
    <3> QED  BY <1>2, <3>1, <3>2 DEF Resolve
  <2> QED  BY <2>2, <2>3, RunsUntouched DEF TypeOK, runVars
<1>3. ASSUME StartLinked(r) PROVE IInv'
  <2> DEFINE j == actor[r].job
  <2>1. j \in Job
    BY <1>3, <1>K DEF StartLinked, At, ActorKnows
  <2>2. UNCHANGED <<requested, job, expired, delivered, crashes>> /\ Goto(r, "rereading")
    BY <1>3 DEF StartLinked, queueVars
  <2>3. actor' \in [Actor -> ActorState] /\ ActorsKnow'
    BY <1>K, <2>1, <2>2, GotoKnows DEF ActorPC, InRecorder
  <2>4. CASE UNCHANGED runVars
    BY <2>2, <2>3, <2>4, RunsUntouched DEF TypeOK
  <2>5. CASE /\ run[j] = "none"
             /\ run' = [run EXCEPT ![j] = "started"]
             /\ trail' = [trail EXCEPT ![j].started = @ + 1]
    <3>1. trail[j] \in [started : Nat, ended : Nat] /\ trail[j].started = 0 /\ trail[j].ended = 0
      BY <2>1, <2>5 DEF TypeOK, RunLedger
    <3>2. trail' = [trail EXCEPT ![j] = [started |-> 1, ended |-> 0]]
      <4>1. [trail[j] EXCEPT !.started = trail[j].started + 1] = [started |-> 1, ended |-> 0]
        BY <3>1
      <4>2. trail' = [trail EXCEPT ![j] = [trail[j] EXCEPT !.started = trail[j].started + 1]]
        BY <2>1, <2>5 DEF TypeOK
      <4> HIDE DEF j
      <4> QED  BY <4>1, <4>2
    <3>3. RunLedger' /\ RunFollowsJob'
      BY <2>1, <2>2, <2>5, <3>2 DEF RunLedger, RunFollowsJob, TypeOK
    <3>4. TypeOK'
      BY <2>1, <2>2, <2>3, <2>5, <3>2 DEF TypeOK
    <3> QED  BY <2>3, <3>3, <3>4
  <2> QED  BY <1>3, <2>4, <2>5 DEF StartLinked
<1>4. ASSUME Reread(r) PROVE IInv'
  <2> DEFINE j == actor[r].job
  <2>1. j \in Job
    BY <1>4, <1>K DEF Reread, At, ActorKnows
  <2>2. UNCHANGED <<requested, job, expired, delivered, run, trail, crashes>>
    BY <1>4 DEF Reread, queueVars, runVars
  <2>3. actor' \in [Actor -> ActorState] /\ ActorsKnow'
    <3>1. CASE Ends(r)
      BY <1>K, <2>2, <3>1, RestKnows
    <3>2. CASE job[j].state \in Terminal /\ Records(r, j, VerbOf(job[j].state), "done")
      <4>1. /\ VerbOf(job[j].state) \in Verb
            /\ VerbOf(job[j].state) = "abandoned" => job[j].state = "dead_lettered"
        BY <3>2 DEF VerbOf, Verb, Terminal
      <4> QED  BY <1>K, <2>1, <2>2, <3>2, <4>1, RecordsKnows
    <3> QED  BY <1>4, <3>1, <3>2 DEF Reread
  <2> QED  BY <2>2, <2>3, RunsUntouched DEF TypeOK, runVars
<1> QED  BY <1>1, <1>2, <1>3, <1>4 DEF Requesting

\* A step inside the recorder.
LEMMA RecorderIInv ==
    ASSUME IInv, NEW a \in Actor, Recorder(a)
    PROVE  IInv'
<1> USE DEF IInv
<1> DEFINE j == actor[a].job
<1>K. /\ actor[a] \in ActorState /\ ActorKnows(a)
      /\ j \in Job /\ actor[a].verb \in Verb /\ actor[a].pc \in InRecorder
  BY DEF TypeOK, ActorsKnow, Recorder, ReadLink, Check, Write, At, ActorKnows, InRecorder
<1>U. UNCHANGED <<requested, job, expired, delivered, crashes>>
  BY DEF Recorder, ReadLink, Check, Write, queueVars
<1>R. Returns(a) => actor' \in [Actor -> ActorState] /\ ActorsKnow'
  <2>1. CASE Ends(a)
    BY <1>U, <2>1, RestKnows
  <2>2. CASE Goto(a, "completing")
    BY <1>K, <1>U, <2>2, GotoKnows DEF ActorPC, InRecorder
  <2> QED  BY <2>1, <2>2 DEF Returns
<1>1. ASSUME ReadLink(a) PROVE IInv'
  <2>1. actor' \in [Actor -> ActorState] /\ ActorsKnow'
    <3>1. CASE Goto(a, "checking")
      BY <1>K, <1>U, <3>1, GotoKnows DEF ActorPC, InRecorder
    <3> QED  BY <1>1, <1>R, <3>1 DEF ReadLink
  <2> QED  BY <1>1, <1>U, <2>1, RunsUntouched DEF ReadLink, TypeOK
<1>2. ASSUME Check(a) PROVE IInv'
  <2>1. actor' \in [Actor -> ActorState] /\ ActorsKnow'
    <3>1. CASE Goto(a, "writing") /\ (actor[a].verb = "settled" => j \in delivered)
      BY <1>K, <1>U, <3>1, GotoKnows DEF ActorPC, InRecorder
    <3>2. CASE Ends(a)
      BY <1>U, <3>2, RestKnows
    <3> QED  BY <1>2, <3>1, <3>2 DEF Check
  <2> QED  BY <1>2, <1>U, <2>1, RunsUntouched DEF Check, TypeOK
<1>3. ASSUME Write(a) PROVE IInv'
  <2>1. CASE Ends(a) /\ UNCHANGED runVars
    <3>1. actor' \in [Actor -> ActorState] /\ ActorsKnow'
      BY <1>U, <2>1, RestKnows
    <3> QED  BY <1>U, <2>1, <3>1, RunsUntouched DEF TypeOK
  <2>2. CASE /\ run[j] = "started"
             /\ run' = [run EXCEPT ![j] = IF actor[a].verb = "settled" THEN "completed"
                                                                       ELSE "failed"]
             /\ trail' = [trail EXCEPT ![j].ended = @ + 1]
             /\ Returns(a)
    <3>1. /\ trail[j] \in [started : Nat, ended : Nat]
          /\ trail[j].started = 1 /\ trail[j].ended = 0
      BY <1>K, <2>2 DEF TypeOK, RunLedger
    <3>2. trail' = [trail EXCEPT ![j] = [started |-> 1, ended |-> 1]]
      <4>1. [trail[j] EXCEPT !.ended = trail[j].ended + 1] = [started |-> 1, ended |-> 1]
        BY <3>1
      <4>2. trail' = [trail EXCEPT ![j] = [trail[j] EXCEPT !.ended = trail[j].ended + 1]]
        BY <1>K, <2>2 DEF TypeOK
      <4> HIDE DEF j
      <4> QED  BY <4>1, <4>2
    <3>3. /\ actor[a].verb = "settled" => j \in delivered
          /\ actor[a].verb # "settled" => job[j].state = "dead_lettered"
      BY <1>3, <1>K DEF Write, At, ActorKnows, Verb
    <3>4. actor' \in [Actor -> ActorState] /\ ActorsKnow'
      BY <1>R, <2>2
    <3>5. RunLedger'
      BY <1>K, <2>2, <3>2 DEF RunLedger, TypeOK
    <3>6. RunFollowsJob'
      BY <1>K, <1>U, <2>2, <3>3 DEF RunFollowsJob, TypeOK
    <3>7. TypeOK'
      BY <1>K, <1>U, <2>2, <3>2, <3>4 DEF TypeOK
    <3> QED  BY <3>4, <3>5, <3>6, <3>7
  <2> QED  BY <1>3, <2>1, <2>2 DEF Write
<1> QED  BY <1>1, <1>2, <1>3 DEF Recorder

\* Every step keeps the inductive invariant.
LEMMA NextIInv == IInv /\ [Next]_vars => IInv'
<1> SUFFICES ASSUME IInv, [Next]_vars PROVE IInv'
  OBVIOUS
<1>1. ASSUME NEW a \in Actor, Crash(a) PROVE IInv'
  <2>1. actor' \in [Actor -> ActorState] /\ ActorsKnow'
    BY <1>1, RestKnows DEF Crash, queueVars
  <2> QED  BY <1>1, <2>1, RunsUntouched DEF Crash, queueVars, IInv, TypeOK
<1>2. CASE UNCHANGED vars
  <2>1. TypeOK'
    BY <1>2 DEF IInv, TypeOK, vars
  <2>2. ActorsKnow'
    BY <1>2 DEF IInv, ActorsKnow, ActorKnows, vars
  <2>3. RunLedger' /\ RunFollowsJob'
    BY <1>2 DEF IInv, RunLedger, RunFollowsJob, vars
  <2> QED  BY <2>1, <2>2, <2>3 DEF IInv
<1>3. CASE Next
  <2>1. ASSUME NEW w \in Worker,
               Execution(w) \/ (\E j \in Job : Lease(w, j) \/ Reconcile(w, j))
        PROVE  IInv'
    BY <2>1, WorkerIInv
  <2>2. ASSUME NEW r \in Request, Requesting(r) PROVE IInv'
    BY <2>2, RequestIInv
  <2>3. ASSUME NEW a \in Actor, Recorder(a) PROVE IInv'
    BY <2>3, RecorderIInv
  <2>4. ASSUME (\E j \in Job : Queue(j)) \/ RequestDeletion \/ SettleUnleased PROVE IInv'
    BY <2>4, QueueIInv
  <2> QED  BY <1>1, <1>3, <2>1, <2>2, <2>3, <2>4 DEF Next
<1> QED  BY <1>2, <1>3

\* The inductive invariant holds in every reachable state.
LEMMA SpecIInv == Spec => []IInv
<1>1. Init => IInv
  BY InitIInv
<1>2. IInv /\ [Next]_vars => IInv'
  BY NextIInv
<1> QED  BY <1>1, <1>2, PTL DEF Spec

\* Rows, runs and processes keep their types, the attempt limit included.
THEOREM SettlementTypes == Spec => []TypeOK
<1>1. IInv => TypeOK
  BY DEF IInv
<1> QED  BY <1>1, SpecIInv, PTL

\* However many workers and requests race for it, a run is started once and ended
\* at most once, with one audit event for each.
THEOREM RunEndsOnce == Spec => []RunLedger
<1>1. IInv => RunLedger
  BY DEF IInv
<1> QED  BY <1>1, SpecIInv, PTL

\* A failed run belongs to a job given up for good and a completed run to a
\* delivered report.
THEOREM RunMatchesJob == Spec => []RunFollowsJob
<1>1. IInv => RunFollowsJob
  BY DEF IInv
<1> QED  BY <1>1, SpecIInv, PTL
===============================================================================
