# Khepri: TLA+ models, model checks and proofs

Khepri turns one retail CSV or XLSX file into a published report (the *RRA*: sessions, intake,
profiling, facts, analyses, narrative, report jobs, artifacts, deletion) and keeps the results in a
commercial workspace (the *RCA*: accounts, organizations, invitations, dataset versions, analysis
runs, comparisons, decision pages). It runs as web processes, worker processes and a retention
sweep over one PostgreSQL database and one S3-compatible object store. There is no broker: the
queue is a table, and everything that coordinates processes is a row lock, a lease, a unique
constraint or a CHECK constraint. This directory models that coordination, and the computations
whose answers a client is shown.

## Inventory

Paths are under `src/src/khepri/`. `PROJECT.json` lists every component with its sources and its
status; this table says what each is.

| component | state it keeps | operations | hard because | correct when |
|---|---|---|---|---|
| report job queue (`rra/job_persistence.py`, `jobs.py`, `claim_queue.py`) | `rra_report_jobs`, `rra_report_job_attempts` | enqueue, lease, heartbeat, complete, fail, recover_expired, recover_orphans | leases expire under delayed clocks; recovery, workers, the sweep and deletions write the same row | one settlement per job, bounded attempts, exact ledger, only the holder settles, every job settles |
| worker and claim loop (`runtime/worker.py`, `rra/worker.py`) | the process | recover, pick, lease, execute, settle | processes die or stall at any point | a dead worker's job is run again |
| pipeline and publication, object store (`rra/pipeline.py`, `artifact_publication.py`, `artifact_persistence.py`, `delivery_persistence.py`, `storage.py`) | objects, `rra_report_artifacts`, deliveries | find_delivery, boundary, put, commit, reconcile, rollback | two stores without a common transaction; the answer to a commit may be lost | rows never name missing objects; a succeeded job has a report |
| session deletion (`rra/deletion.py`, `deletion_persistence.py`, `persistence.py`) | `rra_deletion_jobs`, `rra_deletion_evidence`, two session columns | begin, defer_for_publication, get_targets, sweep, complete, fail | racing passes, live publishers, backoff, late writes | completes, once, with exact evidence, and leaves nothing |
| upload intake (`rra/intake.py`) | `rra_uploads`, one object | begin, append, complete | minutes between the check of the session and the write | no upload outlives its session |
| run recording (`runtime/pipeline_recording.py`, `workspace_recording.py`, `rca/workspace/run_reports.py`) | `rca_analysis_runs`, links, audit events | requested, settled, abandoned, reconcile, complete_run, fail_run | job and run are written in separate transactions by three kinds of process | the run follows its job, is ended once and in the end |
| workspace records and their deletion (`rca/workspace/*`, `runtime/workspace_deletion.py`, `workspace_retention.py`) | versions, runs, bindings, profiles, pins, tombstones, the revocation ledger, both sides of a deletion | add, seal, start, complete, fail, tombstone with its cascade, pin, promote, purge; a restore beneath them | lock order, a cascade racing completions and new children, rows that a backup brings back | a version ends with all that is its own; the ledger outlives a restore; nothing waits in a circle |
| beta invitations, consent, sessions (`rra/sessions.py`) and the facts of a session (`rra/datasets.py`, `packages.py`) | the invitation, `rra_beta_sessions`, the profile, the packages | redeem, consent, upload, profile, build facts, request deletion, purge | repositories write copies read earlier; two releases of the server run side by side | one invitation opens one session; a session has one reading; consent never revives a deletion |
| accounts, identity, organizations, memberships (`rca/lifecycle.py`, `organizations.py`, `persistence.py`) | accounts, identities, memberships, events | disable, enable, purge, unlink, create, promote, demote, revoke | the final owner under concurrent reductions | an organization keeps an owner who can log in |
| commercial invitations (`rca/invitations.py`, `invitation_*.py`) | `rca_invitations` | issue, list, verify, redeem, delete, cascade, expire, purge | verified in one transaction, consumed in another | an invitation admits at most one account, once |
| commercial sessions and recovery (`rca/session_*.py`, `recovery_security*.py`, `switching.py`, `authorization*.py`) | `rca_sessions`, recovery events | sign in, switch, authorize, log out, recover, hard stop, sweep | each request reads four things in four transactions | an ended session stays ended; nobody is served on what an earlier request knew |
| envelope migration (`rra/envelope_migration.py`) | artifact rows and objects | list, lock, fetch, overwrite, commit, verify | object and row cannot change together; passes die and race publications and deletions | rows and objects say what each other says; "verified" is true |
| profiling and column mapping (`rra/profiling.py`, `mapping.py`, `admissibility.py`) | computed | type, score, award, declare | awards in rounds change who competes | one column, one meaning |
| facts (`rra/facts.py`, `aggregates.py`, `admission.py`, `bases.py`) | computed | admit, measure, refuse, aggregate, label | returns, missing values, zero denominators, matched rows | every figure is the one of the rows or is refused for a true reason |
| analyses, bundle, surfaces (`rra/analysis/*`, `bundle.py`, `rendering/*`) | computed | compare, decompose, concentrate, attach; assemble; render, reconcile | partial periods, ties, rounding, sampled curves, three surfaces in two languages | figures add up; each surface says all of it and nothing else |
| narrative (`rra/narrative.py`, `deterministic_narrative.py`) | computed, a provider's draft | draft, validate, fall back | the draft is anybody's text | every number in it is a cited fact |
| coverage attestations (`rra/coverage*.py`, `profile_request.py`) | the profile's manifest | attest, answer, prove completeness, sign | racing callers, profiles from before manifests | an answer is to the question asked |
| comparison of versions (`runtime/comparison_*.py`, `rra/crossversion_*.py`) | computed over two runs | scope, load, admit, compare, audit | the reads are apart; two populations may differ in a dozen ways | like is compared with like; the order decides nothing but the sign |
| semantic views and decision page (`rra/semantic_views/`, `runtime/shell_decisions.py`) | computed over runs | admit a query, read sources, project; seven reads, one page | membership or content ends between two reads | filters bind; a lost read never strengthens a claim |
| web shell (`runtime/shell_*.py`) | computed over the history | overview, data, analyses, analysis, team, switch, handoffs | one snapshot joined with later reads | what has ended is not shown or handed out |
| retention sweep (`runtime/retention_sweep.py`) | none of its own | recovery, expiry, horizons | runs beside everything else | one fault does not stop the others |
| landing and legal pages, benchmark, telemetry, infrastructure, governance validator | none, or append-only rows | | | not modelled |

Interactions: a request inserts a job under the lock of its session row and then starts a run; a
worker leases the job, renders, puts objects, commits rows and settles job and run; the deletion
locks the session row, settles unleased jobs, waits for leased ones and for the *drain* of
exhausted ones, and then removes objects and rows; a workspace deletion ends the content first and
tombstones the records after; the sweep reclaims expired leases, settles orphaned jobs and calls
the deletion of every expired session. The pages read what all of these leave behind, one
transaction at a time. `PROJECT.json` lists the hazards of this traffic, each at its line.

## Modules

| module | models | checked or proved in |
|---|---|---|
| `ReportJobs` | the queue with its clock, two tables, the worker loop, the sweep and the deletion as far as the queue sees it | `MCReportJobs`, `ReportJobsProofs` |
| `JobPromise` | what a client of the queue may rely on: accepted once, at most `MaxAttempts` executions, settled once | implemented by `ReportJobs` (`KeepsPromise`) |
| `ContentLifecycle` | one session's content: publication, upload, racing deletion passes, an unreliable object store | `MCContentLifecycle`, `ContentLifecycleProofs` |
| `RunSettlement` | the run in the workspace that follows a job | `MCRunSettlement`, `RunSettlementProofs` |
| `Ownership` | accounts, external identities, organizations, memberships with their events, open invitations | `MCOwnership`, `OwnershipProofs` |
| `WorkspaceRecords` | versions, runs, pins, profiles, tombstones, the ledger, and the deletion of a version on both sides | `MCServices`, `TenantProofs` |
| `SessionAccess` | commercial sessions, recovery, switching, and the authorization of a request | `MCServices`, `TenantProofs` |
| `InvitationLife` | a commercial invitation from issue to purge | `MCServices`, `TenantProofs` |
| `RetailJourney` | a beta session from its invitation to its fact packages | `MCServices`, `TenantProofs` |
| `EnvelopeMigration` | the passes that rewrite artifacts sealed in the first format | `MCServices`, `TenantProofs` |
| `ColumnMapping` | profiling, inference, award and declaration of columns | `MCFigures` |
| `FactPackage` | the fact package of an extract | `MCFigures` |
| `RetailAnalyses`, `ReportBundle`, `ReportSurfaces` | the analyses of a package; the bundle and its assembler; what pages, workbook and charts state | `MCFigures` |
| `NarrativeDraft` | the deterministic draft and the validation of any draft | `MCFigures` |
| `CoverageManifest`, `CoverageEvidence` | an attestation and what it proves; racing callers, the evidence of the package | `MCEvidence`, `EvidenceProofs` |
| `CrossVersion` | a comparison of two versions, from the request to its audit event | `MCEvidence`, `EvidenceProofs` |
| `SemanticViews` | the eight published views and their request | `MCEvidence` |
| `DecisionSurface` | the decision page: seven reads of views put together | `MCEvidence`, `MCDecisionSurface` |
| `WorkspaceShell` | every page of the shell over the history, and the two handoffs | `MCEvidence`, `ShellProofs` |

The compositions: `MCServices` puts the five services and the computations side by side, and
`ServicesProofs` shows that what is proved of a part holds there; `ReportBundle` extends `RetailAnalyses` and is itself instantiated, with
`ReportSurfaces`, over one package; `CoverageEvidence` and `CrossVersion` extend `CoverageManifest`;
`SemanticViews` instantiates `CrossVersion` for its views of two populations; `DecisionSurface`
instantiates `SemanticViews` for its reads, and both read bundles that `MCEvidence` has
`ReportBundle` compute.

**ReportJobs.** `row[j]` is the row of `rra_report_jobs` with its nullable columns, `attempts[j]`
the rows of `rra_report_job_attempts`, `proc[w]` where a worker is. Every method of
`SqlReportJobRepository` that writes is an action. A process takes a clock reading and may use it
late: `Reading(w)` is any time from its previous reading to the present, and the sweep's reading is
arbitrarily old. The lease statement is two steps, because PostgreSQL answers its subquery over
live sessions from the statement's snapshot and re-tests only the locked row (`LeaseSnapshot`,
`Lease`). `cleared` records the sessions whose deletion pass was told it need not wait.

**ContentLifecycle.** The queue without its clock: a lease may expire at any moment, and an expired
lease that is still on the row may or may not be accepted, which covers every clock reading. A
worker goes through find_delivery, the rendering stages, boundary, one put per artifact, commit,
and where needed reconcile and rollback. A store call may fail; a put that failed or whose process
died may still land later (`inflight`, `Land`). The commit may take effect and lose its answer; its
fate is decided before the publisher asks `is_committed`. A deletion pass goes through begin,
defer, targets, sweep, removal and complete or fail; several passes run at once. `Drain` is the
code's own assumption: five minutes after a job is exhausted none of its publishers writes.

**RunSettlement.** Workers and requests are actors that call the recorder; the recorder's reads and
its locked write are separate steps. The session's content is retained by the workspace, so it
ends by a requested deletion only; the dataset version is not tombstoned.

**Ownership.** A request of a client is split where PostgreSQL at READ COMMITTED lets others in: the
service's own read (`DisableRead`, `EnableRead`, `UnlinkRead`, `PromoteRead`), the snapshot from which
a locking SELECT chooses its rows (`ReductionSnapshot`, `ChangeSnapshot`), the moment they are locked
and re-tested and the guard is counted (`ReductionDecide`, `ChangeDecide`), and the commit. A row
the snapshot did not choose is not locked. A row lock is held from the decision to the commit, and
every write of a membership row waits for it (`Free`). Owners, links and offers are added at any
moment, also while a reduction is under way: the code allows it, and its guard does not cover all
of it. What it does not cover is recorded in three history variables that no step reads:
`overtaken` has the memberships that became an owner's after a reduction *of that membership* chose
its rows, `relinked` the owners given a provider subject while its unlinking for another account
goes on, `late` the invitations made after their maker's revocation chose what to delete. The
properties except these and nothing else; a promotion beside the demotion of somebody else, say, is
not excepted. Taken from the callers: an issuer is an owner who can act,
and a creator can log in. Accounts exist from the start. Of an invitation the module keeps that it
is open, or expired and not redeemed, to whom, by whom and for which role; its own life is in
`InvitationLife`. An expired one may still be redeemed, by a request that began before it expired. Of `disabled_at`
it keeps whether the account horizon has passed. A request's rows are locked together, so a
deadlock of two locking statements is not a behaviour of the model.

**WorkspaceRecords.** A request holds one errand (start, complete or fail a run, add a profile, pin,
end a version, promote, purge) and takes it one statement at a time: each lock it takes, each
re-test under the lock, and the write. `Wanted(q)` is the row it waits for and `lockedBy` who has
it. The deletion of a version ends its content, and only when that is over tombstones the version
with its runs, writes the ledger and the audit event. `Restore` puts rows back from a backup
beneath the store; the ledger and the audit trail are not part of what it restores.

**SessionAccess.** `asking[c]` is the request of a client with what it has read so far; sign-in,
switch, logout, recovery and an authorized errand are each a sequence of statements. `seen[c]`
remembers, for the properties, what was true of the request's actor at some moment since it began.
A request may die after any statement; recovery with the same key may be asked again, by another.

**InvitationLife.** A redemption verifies in one transaction, and in another locks the account,
re-reads everything and consumes with one conditional UPDATE. Reading an expired row destroys its
verifier. Redemption re-reads the row without a lock; the UPDATE's own condition is what decides: the
row must stand and be unredeemed. Its third condition, `expires_at > now`, decides nothing new, for
`now` is the instant the request began and was verified with; `ExpiredAtStart` says what an operation may make
of an expiry, and `Consume` does not ask again, so an invitation that expired after it was verified is
redeemed even where another read has destroyed its verifier. The session of the redeemer is likewise
re-read for a revocation only. A revoked membership deletes the open offers to its account and those
it made; the module does not keep who made an offer and lets the cascade take any others of the house.

**RetailJourney.** A call of a web process reads the session, and later writes by what it read:
`SaveConsent` writes the consent columns only, `AddProfileRow` inserts under a unique key and is
answered from the winner's row when it loses. Two releases of the server may serve one session.
A beta invitation too is redeemed by the instant it was presented at, whatever expires meanwhile.

**EnvelopeMigration.** A *seal* is one encryption of one artifact: `FirstSeal` in the first format,
later numbers in the second. A row names the seal its digest was recorded from, an object holds
one. A pass lists sessions, locks a candidate, fetches, overwrites, commits; it may die anywhere, a
write may fail, take effect unseen, or land after its caller gave up (`stray`).

**The computations** (`ColumnMapping` to `ReportSurfaces`, `NarrativeDraft`, `CoverageEvidence`,
`CrossVersion`, `SemanticViews`, `DecisionSurface`, `WorkspaceShell`). Each has four variables: what it
was given, what it is computed from, how far it is, and what it answered. Where the code reads once
and computes, a behaviour is one or a few steps and the inputs are enumerated; where it reads
several times, each read is a step and the world may change between two. Amounts are integers in
the smallest unit the code keeps; dates are small integers; names are tagged model values; text is
its tokens, with what the checks look at around the digits of a number. Rounding is done as the
code does it (half to even, on exact fractions). Reference definitions in the properties are
written from what a figure means (a sum over sets of rows, a definition of a share) and not from
the way the code reaches it (a pass over rows with running totals).

`MCFigures` and `MCEvidence` give these their inputs. One computation runs at a time, so they share
four variables `given`, `terms`, `partial`, `answer`, and `part` says which one runs.

`PROJECT.json` maps the state and the actions to the lines they stand for; a helper or a constant whose
lines lie within those of the definitions that use it has no entry of its own. Definitions marked "A bug" are
mutated forms of the definition below them; they are used to show that each property can fail.

## What the runs check

| run | instance | shows |
|---|---|---|
| `queue` | 2 workers, 1 job, 2 attempts, clock to 12, 1 renewal, 1 crash | `RowConstraints`, `AttemptLedger`, `HolderIsCurrent`, `ClearedIsSettled`, `SettledIsFinal`, `OnlyHolderSettles`, the refinement `KeepsPromise`, and the liveness `JobsSettle` |
| `publication` | 2 workers, 2 passes, 2 artifacts, 2 attempts, 1 fault, 1 crash | `PublishedIsStored`, `SucceededIsPublished`, `DeletedIsSettled`, `DrainIsServed`, `EvidenceLedger`, `ReportIsStable`, `CompletionIsFinal` |
| `deletion_live` | 1 worker, 2 passes, 1 upload, 1 fault, 1 crash | the liveness `DeletionCompletes` |
| `settlement` | 2 workers, 2 requests, 2 attempts, 1 crash | `RunLedger`, `RunFollowsJob`, and the liveness `RunsSettle` |
| `ownership` | 2 accounts, 1 organization, 1 link, 1 invitation, 4 requests | `OwnerKeptUnlessOvertaken` (FR-013 as far as the code keeps it), `OwnerEventsChain` (FR-014), `OffersStand`, `TombstoneTerminal` |
| `services` | the five services and nine computations, one per behaviour (below) | twelve properties (below) |
| `leftover` | violated: `NothingIsLeft` | a publisher reclaimed before its last attempt puts an object after the deletion completed |
| `late_upload` | violated: `NoUploadIsLeft` | an upload begun before the deletion has its row recorded after it; its object is swept if it was put early enough |
| `holder` | violated: `HolderPublishes` | a worker without a lease publishes under its successor's |
| `run_left_started` | violated: `EveryRunSettles` | a run that stays `started` once its session is deleted |
| `owner_race` | violated: `OwnerKept`, with 3 requests | an account becomes an owner between the snapshot and the commit of its own disablement |
| `concentration_hidden` | violated: `AdmittedIsShown` | the decision page calls its concentration section unavailable because the view admitted figures for it |

The violated runs state what a comment or document of the repository says; `PROJECT.json`
(`findings`) quotes it beside what the code does.

**The run `services`** is the sum of its parts, not their product: the first state chooses `part`, only
that part moves, and the others rest in one state. The parts share no state in the code that a step
of one would change for another, apart from what each models itself. About one million states in
all.

| part | instance | properties |
|---|---|---|
| workspace | 1 version, 2 runs, 3 requests | `EndsTogether`: content, version, runs, tombstones, ledger and audit end together and once. `SealedByCompletion`: a completed run has its bindings and a sealed version, and a raw upload goes only after its horizon. `NoLockCycle`: no set of requests waits for itself. `RevokedIsFrozen`: what the ledger names stays as it ended, whatever is restored |
| session | 1 account, 1 organization, 2 sessions, 1 recovery key, 2 clients | `SessionEndIsFinal`: an ended session is never live again. `EndedAsPromised`: an answered recovery has ended every session there was. `ServedWhileMember`: whoever is served was a member with a live session at some moment of that request |
| invitation | 2 guests, 1 organization, 2 invitations, 2 redemptions | `InvitationSpentOnce`: at most one membership, of the account it is addressed to, none once withdrawn; the row says which |
| journey | 3 callers, 2 questions, 2 releases, 2 uploads | `OneReading`: who is answered is answered for its own question from the one profile. `DeletionStands`: consent saved late does not revive a deletion |
| envelope | 2 files, 2 sessions, 2 passes, 3 seals, 1 write given up | `SealedAsRecorded`: rows and objects agree whatever died where, and "verified" is true |
| mapping, facts, bundle, narrative | enumerated inputs of `MCFigures` | `FiguresHold`: no column serves two semantics and awards are stable; profit, ratios, buckets and averages agree with the rows and refusals are true; growth explains the change, shares are shares, a delivered report is reconciled, every figure and caveat of the bundle is on its pages, marks stay in the plot; every number of an accepted narrative is a cited fact, in both languages; and, of the parts below, the daily values of a basis add up to its rows, and differences and percentages of a comparison follow from the two packages and change sign when these are turned round |
| coverage, comparison | attestations differing from one another in one respect; two versions that differ in one respect each | `EvidenceHolds`: a profile answers the question asked and repetition never conflicts; completeness, signatures and projections agree; evidence is offered only of what was attested; like is compared with like, the order of the two decides neither whether nor why not, nothing revoked is compared, one audit event |
| views, decision, shell | a library of three runs; pages over it; a history of two versions with three runs | `PagesHold`: nothing is answered outside the caller's scope or of what has ended; filters bind and narrowing only removes; every metric is accounted for; no lost read strengthens a claim; what ended is neither shown nor handed out; candidates are in the order of their latest completed runs |

The three properties of the computations are conjunctions: each conjunct is a named definition
beside the code it is about (`SharesAreShares`, `OrderNeverDecides`, `NoReadStrengthensAClaim`, ...)
with its own comment.

**Bounds.** Two workers are enough for one to hold the lease another believes it has; two attempts
separate "last" from "not last", and a reclaim from an exhaustion; two artifacts let a publication
fail half way; two passes race. In `queue` one job suffices because jobs share nothing but the pick
order and the deletion (the theorems cover any number). The clock bound of 12 leaves room for two
attempts with renewal, retry delay, expiry and drain; `Tick` only advances while something waits.
In `ownership` four requests are two reductions and two that add an owner, a link or an offer between
their steps: `overtaken` matters with two, `relinked` (an unlinking, another of the
same subject that finishes first, its link to a second account, and the organization that one
creates) only with four. One organization of two accounts is where a last owner is lost; requests that reach
several organizations at once, and any number of each, are the theorems'.
`MaxFaults` and `MaxCrashes` of 1 put one failure at every point of every behaviour. In the
workspace, three requests are a deletion, a child of the version and a second deletion or another
child; one version suffices because no statement locks rows of two. Three callers of a session are
the winner, the loser and one that comes late. Inputs of the computations are built around a plain
case, each varying one thing or a pair that interacts; the shapes were chosen by the branches of
the code they are to reach, and TLC reports every disjunct of the next-state relations taken.

**Symmetry** is used in `publication`, `ownership` and `services`, which check safety only. In `services`
it permutes the two sessions and the two clients; runs, invitations and files take their values
from the same pairs, and nothing in the parts orders them.

**Fairness.** `run_forever` never returns, so a worker's loop steps are weakly fair, and so is each
call that has begun. `recover` runs before every claim, so a recovery transition that is enabled
again and again is taken (strong fairness: the candidate list may skip a row that is locked).
The sweep is scheduled for ever and calls the deletion of every expired session until it is
complete; its calls use a fresh clock often enough (strong fairness of `Begin` with all drains
counted). That is the beta session's seven-day window: the deletion of content the workspace
retains is repeated only by its holder, and `DeletionCompletes` says nothing about it. A write in
flight lands or dies. No fairness is assumed of crashes, faults, requests or the decision to
delete. The services of the run `services` have no liveness property: a commercial request that dies is
repeated only by whoever made it, which the code does not promise.

## What is proved

TLC checks small instances; the theorems below hold for every value of the constants: any number of
jobs, sessions, workers, requests, passes, accounts, versions, files and attempts. The assumptions
on constants are `DomainAssumption`, `BoundAssumption`, `SettlementAssumption`,
`OwnershipAssumption`, `InvitationAssumption`, `JourneyAssumption`, `SessionAssumption`,
`WorkspaceAssumption`, `LifecycleAssumption`, `KeysAssumption` and `EnvelopeAssumption`. They say that
the placeholder for "nothing" is no element of the sets it is compared with, that bounds are
natural numbers, and (`KeysAssumption`) that an upload's object key is never an artifact's, which the
code ensures by the prefixes `inputs/` and `reports/`. No set of processes or rows is assumed finite.
The theorems about owners, their trail and their offers have no further hypothesis: they hold of every
interleaving the code allows. Those about computations suppose the shape of their inputs, which is
discussed below. `PROJECT.json` lists each theorem with the property it states.

*Queue* (`ReportJobsProofs`). The inductive invariant `IInv` conjoins `TypeOK`, `RowConstraints`,
`AttemptLedger`, `HolderIsCurrent`, `ClearedIsSettled` and two history facts: `RowHistory` (a row's
attempt count says what it has been through) and `ProcessHistory` (the attempt a process works on
never exceeds the row's count). They are needed because `_active_lease` compares a worker's name
only: `HolderIsCurrent` survives a new lease only if the same process cannot still be executing an
older attempt of that job, which is a fact about where a process is when it leases. From `IInv`
follow the invariants `TypeCorrect`, `RowsAreValid`, `LedgerIsExact`, `HoldersAreCurrent`,
`DeletionMeetsNoOpenJob`, the action properties `SettledJobsAreFinal` and `HoldersSettle`, and the
refinement `QueueKeepsPromise`.

*Content* (`ContentLifecycleProofs`). Eight theorems from one `IInv`. Reports stay stored because
every execution has an attempt, and therefore object keys, of its own (`OneExecution`,
`WorkerKnows`): a reclaimed publisher that rolls back late removes its own objects only.
`DeletionSettles` and `DrainServes` rest on `PassKnows`: what a pass waited for (`Prepared`) no later
step undoes, because a settled job stays settled, none is enqueued once a deletion is requested, and
nothing can write for a job whose drain has passed (`DrainedIsQuiet`); the sweep of the store comes
after the wait (`Emptied`), so it finds whatever a publisher left before it died.
`EvidenceAccounts` is not a fact about one pass: a failing pass writes its outcomes late, and they
still match the targets because the rows it saw are there unless another pass has completed the
deletion. `ReportStands` adds the step property that a recorded report is replaced by
nobody and removed only by that completion.

*Runs* (`RunSettlementProofs`). `IInv` conjoins `TypeOK`, `RunLedger`, `RunFollowsJob` and
`ActorsKnow`: a process calls `abandoned` only about a job that is dead-lettered, which is final,
and reaches the write of a completion only when the report is delivered. `RunEndsOnce` needs the
re-test under the lock; `RunMatchesJob` needs that nothing leaves `dead_lettered`.

*Owners* (`OwnershipProofs`). The code does not keep FR-013 without exception (`owner_race`), so
`OwnersLostOnlyWhenOvertaken` says what it does keep, of every interleaving: an organization without
an owner who can log in has a membership in `overtaken` or `relinked`. The property alone is not
inductive: what makes a commit safe is what its request counted some steps before, and the rows it
locked need not be all the owner rows there are. `IInv` adds `OwnRowChosen` (a reduction chose the
account's own row wherever it owns, but where it was overtaken), `LaterChoseEarlier` (of two
reductions that meet in an organization, the one that took its snapshot later chose the other's row),
`LocksHold` (a locked row stays an owner's and has one holder), `Guarded` (what a decided request
counted is still so, or the history holds something against the organization) and `Remembered` (a
disablement destroys the verifier for good; the subject of an unlinking is its account's, nobody's,
or of somebody noted in `relinked`). The argument: a commit takes an owner from an organization where
its own row was locked and counted (`OwnerLoss`); another decided request that relies on that owner
would have met it, one of the two chose the other's row, and the two would hold one row together,
which `LocksHold` excludes. Owners added meanwhile only add to what was counted (`OwnersGrow`), so a
promotion beside a reduction does no harm unless it is of the very account the reduction is about.
Both exceptions are needed: without `overtaken` the property is `OwnerKept`'s violation, and TLC finds
one without `relinked` among four requests. `TombstonesTerminal` needs that a tombstone's horizon
has passed (`Buried`), so that no clock event touches it.

*Owners' trail and offers* (`OwnershipProofs`). `OwnerTrailChains` and `OffersStayFounded`, also of every
interleaving. The role an event starts from is read long before the event is written. `TrailIInv` adds
to `IInv` that a decided change still reads truly whether the member is an owner, but where it was
overtaken (`ReadStands`: its row is locked, or was not an owner's and has not become one since), that the cascade of a
decided revocation chose all the open offers it must close, but for those in `late` (`CascadeStands`),
and that a membership is an owner's when its last event says so (`TrailFollows`), so that the next
event leaves from where its predecessor arrived.

*Invitations* (`TenantProofs`). `SpentOnce` for any number of guests, organizations, invitations and
racing redemptions. The inductive invariant `InvitationIInv` adds to the types `Engaged` (a request
past its first read names an issued invitation and the guest it is addressed to), that one not yet
issued admitted nobody (`Issued`), and `InvitationSpentOnce`. The argument: every step but the issue and the consuming UPDATE
only *narrows* a row (`Narrows`: it loses its verifier, or expires, or goes), and narrowing keeps the
property (`NarrowingSteps`). The UPDATE finds an unredeemed row, and an unredeemed row admitted nobody so far; whether it has
expired meanwhile makes no difference, which is why the code's old `now` does no harm to *this* property.
Nothing is needed of the transaction that verified, which is why it may be any number of steps old.

*Beta journey* (same module). `OneReadingHolds` needs `JourneyIInv`: an upload that is removed
takes its name out of the profile, so the next one cannot be mistaken for it (`UploadNamed`); while
the content is there, what a call is about to answer or to insert is still what the profile says
(`Agreement`), also where two inserts raced; and content is deleted only after a request
(`DeletedWasRequested`). `DeletionIsFinal` is a step property of the same invariant: a consent is
saved from a copy read earlier, but the write leaves the deletion columns alone.

*Sessions* (same module). Every step makes a session row only `Later`: it moves to another
organization while it is live, or it is revoked, expires or is purged. `EndIsFinal` follows.
`RecoveryEnds` is about two requests that present one recovery key: the second answers from the
record of the first and does not revoke anything itself. `RecoveryIInv` therefore says that who asks
with one key for one account asks to end the same sessions (`OneMeaning`), that a recorded key was
recorded by a request still remembered, and that what a recorded key was asked to end has ended.
`ServedMembers` uses `ServedIInv`: what a request saw when it read (a live session, an active account,
the membership) it has seen, whatever the four later transactions change. It does *not* say that the
four facts held together, because in the code they need not.

*Workspace records* (same module). `WorkspaceIInv` conjoins the types, what each request
knows (`RequestGood`: a deletion past its content found it ended; a purge is of a version that is
due), that a run has one start, and what holds of a version or a run by itself (`VersionGood`,
`RunGood`). Each step touches the rows of one version and its runs, so most of a step's proof is that
the others are left alone. `RevocationHolds` needs that completions and failures ask the ledger under
the lock, because a restore may put an ended version's rows back as they were.

*Lock order* (same module). `LocksAreOrdered` says that no set of requests waits for itself, for
any set. The argument is not a global order of locks. Whoever is waited for holds its version, or is a failure
that holds one run and wants nothing more (`Holders`, `HoldsItsVersion`). If the holder of a version
waits in turn, it wants a run of that same version; the version being its own, the run can only be
held by a failure, which waits for nobody. So a chain of waiting ends after two links.

*Envelope migration* (same module). `EnvelopeIInv`: a pass that has a row in hand
has locked that row's session, so no other pass and no deletion touches the file
(`RowInHand`, `OnePassLocks`); an object written and not yet committed is the one the row will commit
(`WrittenStands`); every first-format row that a verifying pass has not counted yet is still in its
list (`YetToCount`), which is what makes the verdict "verified" true. Files whose write was given up
while it could still land are excepted (`StrayIsGivenUp`), as the module's property says.

*The services side by side* (`ServicesProofs`). `ServicesKeepTheirTypes` and
`ServicesKeepTheirPromises` are about `MCServices` as a whole: a behaviour of the composition is, seen
through the variables of a part, a behaviour of that part, because every other part leaves them alone
(`WorkspacePart`, `SessionPart`, `InvitationPart`, `JourneyPart`, `EnvelopePart`).

*Coverage* (`EvidenceProofs`). `QuestionsAreAnswered` and `AttestationsAgree`, for any number of
callers and any declarations. `CoverageInv` says that a caller who is past the first check declared a
usable manifest, that the record is one a caller or an earlier release could store, and that who was
told "answered" or "conflict" was told so by the record that is still there (it is written once). The
part about windows is arithmetic on one manifest: the days counted from the first of a window are all
of them exactly where each is proven (`OrdinalsFull`), which ties completeness to the full calendar;
shifting every day of a manifest shifts its ordinals. Supposed of the inputs: days are integers
(`QuestionsAreDeclared`), a profile of an earlier release has the fields of one (`LegacyIsRecorded`),
and the absent value is neither a mode nor a record (`MissingIsApart`).

*Comparison* (same module). `ComparisonsAreOfLikeWithLike`, for any versions, runs and requests and
revocations at any point. `ComparisonInv` keeps that each loaded operand is the latest completed run
of its version as it was when it was read (`OperandsAreFresh`), and that an admitted outcome found no
cause in the list of fourteen (`AdmittedUnlikeNothing`). That the order of the two does not matter is proved
cause by cause: each is symmetric, and the least index that holds is the same (`CausesAlike`). The latest run
exists because identifiers tell the runs apart. Supposed: versions are kept as the tables keep them
(`WorldsAreKept`: finitely many runs with distinct identifiers, a package signs all scopes of its
manifest or none), and the absent value is no word of the outcome (`MissingIsNoWord`).

*Both beside the services* (`ServicesProofs`). `EvidenceIsProved` is the run's `EvidenceHolds`.
`MCEvidence` instantiates the two modules at its samples; `Proved` instantiates the proofs at the same
samples, and one lemma for each operator shows that the two instances agree. That the samples have
the shapes supposed above is the assumption `EvidenceAssumption`, which TLC evaluates.

*Web shell* (`ShellProofs`). `PagesAreOfWhatWasRead` is `ShellHolds` for any address and any workspace
that is sound at the start (`WorkspacesAreSound`: rows refer to rows, tombstones and the ledger agree,
what was restored was revoked; TLC evaluates this of the samples, `ShellAssumption`). `ShellInv` conjoins `Sound(workspace)`, which every step of the world
keeps (a run settles, data ends or expires, a backup returns rows, the member leaves), with either `PageGoes` (a page under way:
everything it remembers was there when it was read, and what may have ended since is named) or
`AnswerHolds` (an answer was made of such a page, and what it says still follows). The answer is about
rows that later reads may no longer find, so the properties speak of `page.history` and of the moment
of each event; the proof follows that distinction read by read.

The proofs changed the models where these were wrong. The latest of several runs that started at one
moment was any of them in `WorkspaceShell`; the code breaks the tie by the run's identifier, so
`Before` orders by both, and the sample workspaces now hold a tie. Several `CASE` expressions
(`CardStatus`, `WholeTotal`, `MappingReason`, `CounterpartLabel`, `Resolve`, `ReportKey`) had arms that
overlap, of which TLC takes the first and the logic takes any; their guards are now exclusive, as the
code's `if`/`elif` are.

What stays with TLC:

- Liveness (`JobsSettle`, `RunsSettle`, `DeletionCompletes`): the prover has no rule for the fairness
  conditions used here, and none for `ENABLED`.
- `FiguresHold`, and of `PagesHold` the views, the decision page and `CandidatesCompare`: what these
  computations answer is defined by folds and recursive functions over sequences of rows, and what
  such a definition gives for every input needs induction over data. For that reason the sums of
  coverage and comparison (`EvidenceAddsUp`, `FiguresFollow`, `DifferencesNegate`) are conjuncts of `FiguresHold`
  and not of `EvidenceHolds`.
- The runs that expect a violation.

## Not modelled

- The wording, layout and copy of pages, workbook and templates; the document form and digests of
  bundles and packages (canonical JSON, hashing); fonts, the Chromium print, the workbook's cells.
- Parsing and validation of CSV and XLSX, the decimal scale of amounts, time zones' calendars.
- Cryptography, token and cookie formats, HTTP forms, routing, headers, rate limits.
- Landing and legal pages, the benchmark harness, telemetry (append-only), infrastructure, and the
  governance validator, which keep no state a property could be about.
- The refusal of deletion targets outside the session's prefix, the purge of deletion evidence and
  of membership events after their horizons, sign-up and the derivation of verifiers, the repair of
  upload identities.

The note of each component in `PROJECT.json` says what is left out of it.

## Remarks on the code

Things met while modelling that no run states, because nothing in the repository says otherwise
strongly enough, or because the effect is of no consequence to a client.

- `rra/mapping.py:609`: a declared column is said to win "including where inference found nothing",
  but `_pointed_at` (647) looks among the inferred candidates only; of two columns with one safe
  label it takes the first.
- `rra/facts.py:1289`: the caveat of figures derived over matched rows is stated even where average
  order value is refused; with revenue unmapped and a return row present, revenue is refused for the
  incomplete coverage of a column that is not mapped.
- Growth's refusal `decomposition_not_additive` cannot be reached for revenue kept at its stated
  precision. The curve is sampled by a float quotient (the model uses the exact one). Breakdowns
  by category have no worksheet of their own. The last point's mark of a line chart hangs half a
  mark over the drawing's edge.
- `rra/narrative.py:829`: the test for a label comes before the test for a percentage, so where a
  product is labelled "7" the text "7%" passes; figures of the two languages are compared as values,
  without their units.
- `runtime/comparison_operands.py:249`: completeness of a retained operand is asked with the
  manifest's own digests, which always agree. A coverage signature may be a full calendar although
  the last day is partial; comparisons ask for completeness separately.
- An attester named like the reserved marker for unrecorded attribution passes the form's checks and
  raises `ManifestRefused`, which `rra/api.py:259` does not catch; a profile from before manifests
  whose attester is unrecorded can never be answered again by a question that attests.
- Concentration figures state no dimension, so a product or category filter on `ConcentrationView`
  always answers empty (its missing column is the run `concentration_hidden`). Views of one
  population answer from the package after the session has ended; comparisons do not. No published
  view requires evidence or fixes a filter.
- `runtime/shell_decisions.py`: the fallback for an unread evidence reading cannot be reached. The
  mapping notice of the shell compares a version with itself. The shell joins the history's snapshot
  with pins and recency read later.
- `rca/workspace/pins.py:117`: a pin tests its object and inserts later without a lock, and
  `pins_for_scope` lists pin rows alone, so a pin written after the cascade stays listed for ever.
- `rca/invitation_persistence.py:363-366` says that the UPDATE of a redemption compares `expires_at`
  "with a `now` the caller re-read at transition time", because the transaction may wait after the
  verification. The caller reads no second instant: `rca/invitation_service.py:239` passes the `now` it
  verified with (200), and the session's `is_live_at` (388) gets the same. An invitation, or a session,
  that expires during the wait is therefore accepted. The model does as the code.
- A run may be recorded completed while its job is dead-lettered
  (`runtime/pipeline_recording.py:513` against lines 23-24 there), where the report was delivered
  and the job's last attempt was reclaimed.

## Plan

Done: the queue and its promise; content (publication, intake, deletion); runs that follow jobs;
owners, their trail and their offers; workspace records; sessions, invitations, the beta journey, the
envelope migration; the computations from column to page; a proof of every safety property of the
components that keep state, of what attestations and comparisons say, of the pages of the shell, and
of the services side by side.

Left, in this order:

1. Abstract specifications for the components besides the queue (a report as a write-once register
   that a deletion clears, an invitation as a token that is used once) with their refinements proved.
2. Two versions in the run of `WorkspaceRecords`, and the recording of a run composed with it.
3. The decision page: that no lost read strengthens a claim, which needs no induction over data once
   its seven readings are kept apart from the views they are made of.
4. Lemmas about single steps of the computations that need no induction (what one row adds to a
   total, when a figure is refused).
