-------------------------- MODULE WorkspaceRecords --------------------------
(***************************************************************************)
(* The commercial workspace: dataset versions, their analysis runs, pins,  *)
(* source profiles, tombstones and the revocation ledger, written by       *)
(* concurrent requests; the deletion of a version, which ends its content  *)
(* before its records; the purge of raw uploads; and a restore from a      *)
(* backup beneath the record store.                                        *)
(*                                                                         *)
(* A request that takes row locks acquires them in the order of the code   *)
(* and writes when it commits; what it reads without a lock it reads in a  *)
(* step of its own.  One upload belongs to one session and makes at most   *)
(* one version, so a version stands for its upload and session as well.    *)
(***************************************************************************)
EXTENDS Naturals, FiniteSets

CONSTANTS Versions, Runs, Requests, Nobody

ASSUME WorkspaceAssumption ==
  /\ Nobody \notin Requests
  /\ Versions \cap Runs = {}

VARIABLES
  content,     \* of a version's session: its state, retention, upload row and object
  version,     \* rca_dataset_versions
  run,         \* rca_analysis_runs with their bindings
  pins,        \* rca_workspace_pins: the objects pinned
  profiles,    \* rca_source_profiles: the versions that have one
  graves,      \* rca_workspace_tombstones: rows per object
  ledger,      \* rca_workspace_revocations
  deletions,   \* "completed" audit events of a version's deletion
  lockedBy,    \* the request that holds the lock of a row, or Nobody
  asked,       \* where each request is
  restored     \* versions put back from a backup since they were ended

wvars == <<content, version, run, pins, profiles, graves, ledger, deletions,
           lockedBy, asked, restored>>

Objects == Versions \cup Runs

ContentState == {"live", "requested", "deleted"}
VersionState == {"absent", "active", "tombstoned"}
RunState == {"absent", "started", "completed", "failed"}

Task == {"none", "create", "start", "complete", "fail", "profile", "pin",
         "delete", "purge"}
Step == {"read", "ended", "version", "runs", "done"}

\* The version of a run never changes: `of` is part of its identity.
WorkspaceTypeOK ==
  /\ content \in [Versions -> [state : ContentState, retained : BOOLEAN,
                               row : BOOLEAN, object : BOOLEAN]]
  /\ version \in [Versions -> [state : VersionState, sealed : BOOLEAN, due : BOOLEAN]]
  /\ run \in [Runs -> [of : Versions, state : RunState, active : BOOLEAN, bound : BOOLEAN]]
  /\ pins \subseteq Objects
  /\ profiles \subseteq Versions
  /\ graves \in [Objects -> Nat]
  /\ ledger \subseteq Versions
  /\ deletions \in [Versions -> Nat]
  /\ lockedBy \in [Objects -> Requests \cup {Nobody}]
  /\ asked \in [Requests -> [task : Task, at : Step, object : Objects]]
  /\ restored \subseteq Versions

-----------------------------------------------------------------------------
(* What the store reads.                                                   *)

RunsOf(v) == {r \in Runs : run[r].of = v /\ run[r].state # "absent"}
LiveRunsOf(v) == {r \in RunsOf(v) : run[r].active}

LiveVersion(v) == version[v].state = "active" /\ v \notin ledger
LiveRun(r) == run[r].state # "absent" /\ run[r].active /\ run[r].of \notin ledger

\* A pin asks for the retention state only.
Pinnable(o) ==
  IF o \in Versions THEN version[o].state = "active"
                    ELSE run[o].state # "absent" /\ run[o].active

\* An upload and a profile that may still be read.
Admitted(v) == content[v].state = "live" /\ content[v].row

VersionOf(o) == IF o \in Versions THEN o ELSE run[o].of

-----------------------------------------------------------------------------
(* Requests and their locks.                                               *)

Fresh(q) == asked[q].task = "none"
At(q, task, step) == asked[q].task = task /\ asked[q].at = step
Move(q, task, step, o) ==
  asked' = [asked EXCEPT ![q] = [task |-> task, at |-> step, object |-> o]]

Free(o) == lockedBy[o] = Nobody
Held(q) == {o \in Objects : lockedBy[o] = q}
Release(q) ==
  lockedBy' = [o \in Objects |-> IF lockedBy[o] = q THEN Nobody ELSE lockedBy[o]]

Finish(q) ==
  /\ asked' = [asked EXCEPT ![q].at = "done"]
  /\ Release(q)

Records == <<version, run, pins, profiles, graves, ledger, deletions>>

Others == <<pins, profiles, graves, ledger, deletions>>

\* Every request that locks a version does so before any run of it.
LocksVersion(q) ==
  \/ asked[q].task \in {"start", "complete", "profile"} /\ asked[q].at = "read"
  \/ At(q, "delete", "ended")

LocksRun(q) == At(q, "complete", "version") \/ At(q, "fail", "read")

\* A bug: a completion locks its run before the version.
WantedRunFirst(q) ==
  IF At(q, "complete", "read") THEN {asked[q].object}
  ELSE IF LocksVersion(q) \/ At(q, "complete", "version") THEN {VersionOf(asked[q].object)}
  ELSE IF LocksRun(q) THEN {asked[q].object}
  ELSE IF At(q, "delete", "version") THEN LiveRunsOf(asked[q].object) \ Held(q)
  ELSE {}

\* The row locks a request asks for next.
Wanted(q) ==
  IF LocksVersion(q) THEN {VersionOf(asked[q].object)}
  ELSE IF LocksRun(q) THEN {asked[q].object}
  ELSE IF At(q, "delete", "version") THEN LiveRunsOf(asked[q].object) \ Held(q)
  ELSE {}

Lock(q, o) ==
  /\ o \in Wanted(q) /\ Free(o)
  /\ lockedBy' = [lockedBy EXCEPT ![o] = q]
  /\ asked' = [asked EXCEPT ![q].at =
       IF LocksVersion(q) \/ At(q, "delete", "version") THEN "version" ELSE "runs"]
  /\ UNCHANGED <<content, Records, restored>>

-----------------------------------------------------------------------------
(* Recording: versions, runs, profiles.                                    *)

\* The unlocked reads a request decides by before it takes a lock.
Read(q) ==
  /\ Fresh(q)
  /\ \/ \E v \in Versions :
          /\ Admitted(v)
          /\ \/ Move(q, "create", "read", v)
             \/ LiveVersion(v) /\ Move(q, "profile", "read", v)
     \/ \E r \in Runs :
          /\ LiveVersion(run[r].of)
          /\ \/ /\ run[r].state = "absent" /\ Admitted(run[r].of)
                /\ \A p \in Requests : asked[p].object # r
                /\ Move(q, "start", "read", r)
             \/ /\ LiveRun(r) /\ run[r].state = "started"
                /\ \/ Admitted(run[r].of) /\ Move(q, "complete", "read", r)
                   \/ Move(q, "fail", "read", r)
     \/ \E o \in Objects : Pinnable(o) /\ Move(q, "pin", "read", o)
     \/ \E v \in Versions :
          \/ LiveVersion(v) /\ Move(q, "delete", "read", v)
          \/ version[v].due /\ content[v].row /\ Move(q, "purge", "read", v)
  /\ UNCHANGED <<content, Records, lockedBy, restored>>

\* The session's row is locked and its content promoted before the version is
\* inserted; the second insert of an upload's version is refused and rolled back.
CreateVersion(q) ==
  LET v == asked[q].object IN
  /\ At(q, "create", "read")
  /\ content[v].state = "live"
  /\ content' = [content EXCEPT ![v].retained = TRUE]
  /\ version' = [version EXCEPT ![v].state = IF @ = "absent" THEN "active" ELSE @]
  /\ Finish(q)
  /\ UNCHANGED <<run, Others, restored>>

\* A deletion was requested since: nothing is retained and nothing recorded.
CreateRefused(q) ==
  /\ At(q, "create", "read")
  /\ content[asked[q].object].state # "live"
  /\ Finish(q)
  /\ UNCHANGED <<content, Records, restored>>

\* A bug: whatever state the parent is in.
ParentThere(q) == version[VersionOf(asked[q].object)].state # "absent"

\* A parent that is not active refuses; the ledger is not asked.
ParentActive(q) == version[VersionOf(asked[q].object)].state = "active"

StartRun(q) ==
  /\ At(q, "start", "version")
  /\ run' = [run EXCEPT ![asked[q].object].state = IF ParentActive(q) THEN "started" ELSE @,
                        ![asked[q].object].active = ParentActive(q)]
  /\ Finish(q)
  /\ UNCHANGED <<content, version, Others, restored>>

AddProfile(q) ==
  /\ At(q, "profile", "version")
  /\ profiles' = IF ParentActive(q) THEN profiles \cup {asked[q].object} ELSE profiles
  /\ Finish(q)
  /\ UNCHANGED <<content, version, run, pins, graves, ledger, deletions, restored>>

\* A bug: the revocation ledger is not asked.
StillStartedHere(r) == run[r].active /\ run[r].state = "started"

\* Under the lock the run must still be live, the ledger included, and started.
StillStarted(r) == LiveRun(r) /\ run[r].state = "started"

\* A bug: the version is not sealed.
CompleteUnsealed(q) ==
  LET r == asked[q].object IN
  /\ At(q, "complete", "runs")
  /\ run' = [run EXCEPT ![r].state = IF StillStarted(r) THEN "completed" ELSE @,
                        ![r].bound = StillStarted(r) \/ @]
  /\ Finish(q)
  /\ UNCHANGED <<content, version, Others, restored>>

\* The run, its bindings and the seal of its version commit together.
RecordCompletion(q) ==
  LET r == asked[q].object IN
  /\ At(q, "complete", "runs")
  /\ IF StillStarted(r)
       THEN /\ run' = [run EXCEPT ![r].state = "completed", ![r].bound = TRUE]
            /\ version' = [version EXCEPT ![run[r].of].sealed = TRUE]
       ELSE UNCHANGED <<run, version>>
  /\ Finish(q)
  /\ UNCHANGED <<content, Others, restored>>

FailRun(q) ==
  LET r == asked[q].object IN
  /\ At(q, "fail", "runs")
  /\ run' = [run EXCEPT ![r].state = IF StillStarted(r) THEN "failed" ELSE @]
  /\ Finish(q)
  /\ UNCHANGED <<content, version, Others, restored>>

\* The liveness of the object was read in an earlier statement.
Pin(q) ==
  /\ At(q, "pin", "read")
  /\ pins' = pins \cup {asked[q].object}
  /\ Finish(q)
  /\ UNCHANGED <<content, version, run, profiles, graves, ledger, deletions, restored>>

Unpin(o) ==
  /\ o \in pins
  /\ pins' = pins \ {o}
  /\ UNCHANGED <<content, version, run, profiles, graves, ledger, deletions,
                 lockedBy, asked, restored>>

-----------------------------------------------------------------------------
(* The end of content.                                                     *)

\* A deletion of the session's content is requested: by its holder, when its
\* window ends, or by the deletion of the version.
RequestContentEnd(v) ==
  /\ content[v].state = "live"
  /\ content' = [content EXCEPT ![v].state = "requested"]
  /\ UNCHANGED <<Records, lockedBy, asked, restored>>

CompleteContentEnd(v) ==
  /\ content[v].state = "requested"
  /\ content' = [content EXCEPT ![v] = [@ EXCEPT !.state = "deleted",
                                                 !.row = FALSE, !.object = FALSE]]
  /\ UNCHANGED <<Records, lockedBy, asked, restored>>

\* The sessions of a version are those of its upload and of its runs' reports.
HasSessions(v) == content[v].row \/ RunsOf(v) # {}

EndDerivedContent(q) ==
  LET v == asked[q].object IN
  /\ At(q, "delete", "read")
  /\ HasSessions(v) => content[v].state = "deleted"
  /\ asked' = [asked EXCEPT ![q].at = "ended"]
  /\ UNCHANGED <<content, Records, lockedBy, restored>>

\* A live run publishes, or the store failed: the holder must ask again.
DeletionDeferred(q) ==
  /\ At(q, "delete", "read")
  /\ content[asked[q].object].state = "requested"
  /\ Finish(q)
  /\ UNCHANGED <<content, Records, restored>>

\* The version and its runs are tombstoned and unpinned, the ledger and the
\* audit event written, in one unit of work.
DeleteVersion(q) ==
  LET v == asked[q].object
      cascaded == LiveRunsOf(v)
  IN
  /\ At(q, "delete", "version")
  /\ version[v].state = "active"
  /\ cascaded \subseteq Held(q)
  /\ version' = [version EXCEPT ![v].state = "tombstoned"]
  /\ run' = [r \in Runs |-> IF r \in cascaded THEN [run[r] EXCEPT !.active = FALSE] ELSE run[r]]
  /\ graves' = [o \in Objects |-> IF o = v \/ o \in cascaded THEN graves[o] + 1 ELSE graves[o]]
  /\ pins' = pins \ ({v} \cup RunsOf(v))
  /\ ledger' = ledger \cup {v}
  /\ deletions' = [deletions EXCEPT ![v] = @ + 1]
  /\ Finish(q)
  /\ UNCHANGED <<content, profiles, restored>>

AlreadyDeleted(q) ==
  /\ At(q, "delete", "version")
  /\ version[asked[q].object].state # "active"
  /\ Finish(q)
  /\ UNCHANGED <<content, Records, restored>>

-----------------------------------------------------------------------------
(* The sweep of raw uploads, crashes, and a restore.                       *)

SealAges(v) ==
  /\ version[v].sealed /\ ~version[v].due
  /\ version' = [version EXCEPT ![v].due = TRUE]
  /\ UNCHANGED <<content, run, Others, lockedBy, asked, restored>>

\* Objects first, then rows: a pass that dies in between is repeated.
PurgeObject(q) ==
  /\ At(q, "purge", "read")
  /\ content' = [content EXCEPT ![asked[q].object].object = FALSE]
  /\ asked' = [asked EXCEPT ![q].at = "ended"]
  /\ UNCHANGED <<Records, lockedBy, restored>>

PurgeRow(q) ==
  /\ At(q, "purge", "ended")
  /\ content' = [content EXCEPT ![asked[q].object].row = FALSE]
  /\ Finish(q)
  /\ UNCHANGED <<Records, restored>>

\* A request's process dies: its transaction is rolled back.
Abandon(q) ==
  /\ ~Fresh(q) /\ asked[q].at # "done"
  /\ Finish(q)
  /\ UNCHANGED <<content, Records, restored>>

\* Rows put back beneath the record store, past its guards; the ledger stays.
Restore(v) ==
  /\ version[v].state = "tombstoned" /\ v \notin restored
  /\ version' = [version EXCEPT ![v].state = "active"]
  /\ run' = [r \in Runs |-> IF r \in RunsOf(v) THEN [run[r] EXCEPT !.active = TRUE] ELSE run[r]]
  /\ restored' = restored \cup {v}
  /\ UNCHANGED <<content, Others, lockedBy, asked>>

-----------------------------------------------------------------------------

\* Versions are recorded or not, and runs of recorded versions started or not.
FirstVersion(s) == [state |-> s, sealed |-> FALSE, due |-> FALSE]
FirstRun(v, s) == [of |-> v, state |-> s, active |-> s = "started", bound |-> FALSE]

WorkspaceInit ==
  /\ version \in [Versions -> {FirstVersion(s) : s \in {"absent", "active"}}]
  /\ content = [v \in Versions |-> [state |-> "live", row |-> TRUE, object |-> TRUE,
                                    retained |-> version[v].state = "active"]]
  /\ run \in [Runs -> {FirstRun(m[1], m[2]) : m \in Versions \X {"absent", "started"}}]
  /\ \A r \in Runs : run[r].state = "started" => version[run[r].of].state = "active"
  /\ pins = {} /\ profiles = {} /\ ledger = {} /\ restored = {}
  /\ graves = [o \in Objects |-> 0]
  /\ deletions = [v \in Versions |-> 0]
  /\ lockedBy = [o \in Objects |-> Nobody]
  /\ asked \in [Requests -> {[task |-> "none", at |-> "done", object |-> o] : o \in Versions}]

WorkspaceStep(q) ==
  \/ Read(q) \/ \E o \in Objects : Lock(q, o)
  \/ CreateVersion(q) \/ CreateRefused(q) \/ StartRun(q) \/ AddProfile(q)
  \/ RecordCompletion(q) \/ FailRun(q) \/ Pin(q)
  \/ EndDerivedContent(q) \/ DeletionDeferred(q) \/ DeleteVersion(q) \/ AlreadyDeleted(q)
  \/ PurgeObject(q) \/ PurgeRow(q) \/ Abandon(q)

WorkspaceNext ==
  \/ \E q \in Requests : WorkspaceStep(q)
  \/ \E o \in Objects : Unpin(o)
  \/ \E v \in Versions : RequestContentEnd(v) \/ CompleteContentEnd(v) \/ SealAges(v) \/ Restore(v)

WorkspaceSpec == WorkspaceInit /\ [][WorkspaceNext]_wvars

-----------------------------------------------------------------------------

\* A version ends with everything that is its own: its content ended before,
\* its runs are tombstoned with it, each end has one tombstone row, and the
\* ledger and the audit trail say so exactly once.  What a restore put back is
\* not spoken of here.
EndsTogether ==
  \A v \in Versions \ restored :
    LET ended == version[v].state = "tombstoned" IN
    /\ ended <=> v \in ledger
    /\ ended => content[v].state = "deleted"
    /\ deletions[v] = IF ended THEN 1 ELSE 0
    /\ \A o \in {v} \cup RunsOf(v) : graves[o] = IF ended THEN 1 ELSE 0
    /\ \A r \in RunsOf(v) : run[r].active <=> ~ended

\* A run is complete with its bindings and only under a sealed version; the raw
\* upload of content nobody deleted goes only after the horizon of that seal;
\* and the content of a recorded version is retained until it is deleted.
SealedByCompletion ==
  /\ \A r \in Runs :
       /\ run[r].bound <=> run[r].state = "completed"
       /\ run[r].bound => version[run[r].of].sealed
  /\ \A v \in Versions :
       /\ ~content[v].object /\ content[v].state = "live" =>
            version[v].due /\ \E r \in RunsOf(v) : run[r].bound
       /\ content[v].row /\ ~content[v].object =>
            \E q \in Requests : At(q, "purge", "ended") \/ At(q, "purge", "done")
       /\ version[v].state = "active" => content[v].retained

WaitsFor(p, q) == \E o \in Wanted(p) : lockedBy[o] = q

\* No set of requests waits for itself: completions, failures, starts, profiles
\* and the tombstone cascade take their row locks in one order.
NoLockCycle ==
  \A waiting \in (SUBSET {p \in Requests : Wanted(p) # {}}) \ {{}} :
    \E p \in waiting : \A q \in waiting : ~WaitsFor(p, q)

\* What the ledger names stays as it ended, whatever is restored: it never
\* leaves the ledger, and no run of it changes its state or its bindings.
RevokedIsFrozen ==
  [][\A v \in ledger :
       /\ v \in ledger' /\ ~LiveVersion(v)'
       /\ version'[v].sealed = version[v].sealed
       /\ \A r \in RunsOf(v) :
            run'[r].state = run[r].state /\ run'[r].bound = run[r].bound]_wvars
=============================================================================
