---------------------------- MODULE WorkspaceShell ----------------------------
(***************************************************************************)
(* The web shell over the commercial workspace: one request of one account *)
(* is answered from a snapshot of the history and from later reads of what *)
(* the history does not hold, while runs end, versions are deleted, backups *)
(* are restored, content expires and the membership may be revoked.        *)
(***************************************************************************)
EXTENDS Integers, Sequences, FiniteSets, FiniteSetsExt, SequencesExt, TLC

CONSTANTS
  Missing,
  Addresses,     \* what may be asked
  Workspaces     \* the account's organizations and the records of one of them

VARIABLES asked, workspace, page, shown
hvars == <<asked, workspace, page, shown>>

TOMBSTONE_SECTIONS == {"overview", "comparison", "concentration", "growth", "basket"}
FAMILY_SECTIONS == TOMBSTONE_SECTIONS \ {"overview"}
GROUPS == {"answered", "caveated", "refused"}
REQUIRED_ARTIFACT_KINDS == {"web", "evidence", "pdf", "excel"}   \* each in its languages
ARTIFACT_TARGETS == REQUIRED_ARTIFACT_KINDS
RECENT == 5

AllVersions == DOMAIN workspace.versions
AllRuns == DOMAIN workspace.runs
VersionOf(r) == workspace.runs[r].version
RunsOf(v) == {r \in AllRuns : VersionOf(r) = v}

----------------------------------------------------------------------------
(* What the store returns of one scope.                                    *)

Kept(v) == workspace.versions[v].state = "active" /\ v \notin workspace.revoked
KeptRun(r) == workspace.runs[r].active /\ VersionOf(r) \notin workspace.revoked

\* Latest first; of one instant the later identifier.
Later(at, a, b) == at[a] > at[b] \/ (at[a] = at[b] /\ a > b)
LatestFirst(objects, at) ==
  [n \in 1..Cardinality(objects) |-> CHOOSE o \in objects : Cardinality({p \in objects : Later(at, p, o)}) = n - 1]
NewestFirst(runs) == LatestFirst(runs, [r \in runs |-> workspace.runs[r].started])

\* One snapshot of versions, runs, bindings and tombstones.
HistoryForScope ==
  [versions |-> [v \in {v \in AllVersions : Kept(v)} |-> workspace.versions[v]],
   runs |-> [r \in {r \in AllRuns : KeptRun(r)} |-> workspace.runs[r]],
   bindings |-> UNION {{<<r, k>> : k \in workspace.runs[r].bound} : r \in {r \in AllRuns : KeptRun(r)}},
   graves |-> workspace.graves]

OccurredAt(o) ==
  CASE o \in AllVersions -> workspace.versions[o].created
    [] o \in AllRuns /\ workspace.runs[o].completed # Missing -> workspace.runs[o].completed
    [] OTHER -> workspace.runs[o].started
RecentActivity ==
  LET kept == {v \in AllVersions : Kept(v)} \cup {r \in AllRuns : KeptRun(r)}
      listed == LatestFirst(kept, [o \in kept |-> OccurredAt(o)])
  IN SubSeq(listed, 1, IF Len(listed) < RECENT THEN Len(listed) ELSE RECENT)

ContentIsLive(v) ==
  /\ ~workspace.content[v].requested
  /\ workspace.clock < workspace.content[v].expires

----------------------------------------------------------------------------
(* Words for a row.                                                        *)

Unrenderable == "unrenderable"

\* A completed run without all of its artifacts has no word.
ReportKey(run, bound) ==
  CASE run.state = "started" -> "not_yet"
    [] run.state = "completed" /\ REQUIRED_ARTIFACT_KINDS \subseteq bound -> "available"
    [] run.state = "completed" /\ ~(REQUIRED_ARTIFACT_KINDS \subseteq bound) -> Unrenderable
    [] OTHER -> "unavailable"
BoundIn(history, r) == {b[2] : b \in {b \in history.bindings : b[1] = r}}

Resumable(provenance) == provenance # Missing /\ provenance.reachable
AvailabilityKey(word, provenance) ==
  IF word = "available" /\ ~Resumable(provenance) THEN "unreachable" ELSE word

Readiness(version, uses) ==
  CASE version.sealed -> "in_use"
    [] ~version.sealed /\ uses # {} -> "analysis_started"
    [] OTHER -> "awaiting"
DataRow(history, v) ==
  LET uses == {r \in DOMAIN history.runs : history.runs[r].version = v}
  IN [version |-> v, uses |-> uses, readiness |-> Readiness(history.versions[v], uses)]

\* A row's data: deleted where a tombstone says so, whatever the rows say.
DataReference(history, v) ==
  CASE v \in history.graves -> "deleted"
    [] v \notin history.graves /\ v \in DOMAIN history.versions -> "kept"
    [] OTHER -> Missing

\* AllRuns and tombstones of runs; of a run that is both, the tombstone stands.
SpineRow(history, r) ==
  IF r \in history.graves
  THEN [run |-> r, deleted |-> TRUE, state |-> Missing, report |-> Missing,
        data |-> DataReference(history, VersionOf(r))]
  ELSE [run |-> r, deleted |-> FALSE, state |-> history.runs[r].state,
        report |-> ReportKey(history.runs[r], BoundIn(history, r)),
        data |-> DataReference(history, history.runs[r].version)]
SpineRows(history) ==
  LET listed == NewestFirst(DOMAIN history.runs \cup (history.graves \cap AllRuns))
  IN [n \in DOMAIN listed |-> SpineRow(history, listed[n])]

RowAvailability(row, found) ==
  IF row.run \in DOMAIN found /\ ~row.deleted
  THEN [row EXCEPT !.report = AvailabilityKey(row.report, found[row.run])] ELSE row

Comparable(row) == ~row.deleted /\ row.state = "completed" /\ row.data = "kept"
\* The versions to compare, by their newest row.
CompareCandidates(rows) ==
  FoldLeft(LAMBDA seen, row : IF Comparable(row) /\ VersionOf(row.run) \notin Range(seen)
                              THEN Append(seen, VersionOf(row.run)) ELSE seen, <<>>, rows)

----------------------------------------------------------------------------
(* The notice that a method changed.                                       *)

Before(a, b, runs) == runs[a].started < runs[b].started \/ (runs[a].started = runs[b].started /\ a < b)
PreviousCompleted(r, runs) ==
  LET earlier == {p \in DOMAIN runs : runs[p].version = runs[r].version /\ runs[p].state = "completed" /\ Before(p, r, runs)}
  IN IF earlier = {} THEN Missing ELSE CHOOSE p \in earlier : \A q \in earlier : q = p \/ Before(q, p, runs)

Group(provenance, section) == provenance.sections[section]
FamilyChanges(before, after) ==
  IF Missing \in {before, after} THEN {}
  ELSE {<<s, before.families[s], after.families[s]>> :
          s \in {s \in DOMAIN before.families \cap DOMAIN after.families : before.families[s] # after.families[s]}}
\* The mapping is the version's own, and so is that of both.
VersionChanges(p, r) ==
  {<<name, p[name], r[name]>> : name \in {n \in {"package", "formula"} : p[n] # r[n]}}
AvailabilityChanges(before, after) ==
  IF Missing \in {before, after} THEN {}
  ELSE {<<s, Group(before, s), Group(after, s)>> :
          s \in {s \in TOMBSTONE_SECTIONS : Group(before, s) # Group(after, s)}}

MethodologyChange(runs, r, earlier, found) ==
  LET changed == IF earlier = Missing \/ runs[r].state # "completed" THEN {}
                 ELSE VersionChanges(runs[earlier], runs[r]) \cup FamilyChanges(found[earlier], found[r])
  IN IF changed = {} THEN Missing
     ELSE [previous |-> earlier, versions |-> changed, availability |-> AvailabilityChanges(found[earlier], found[r])]

----------------------------------------------------------------------------
(* The request.                                                            *)

NoAnswer == [kind |-> Missing]
NotThere == [kind |-> "unavailable"]

ShellInit ==
  /\ asked \in Addresses
  /\ workspace \in Workspaces
  /\ page = [step |-> "asked", history |-> Missing, of |-> {}, records |-> <<>>, links |-> <<>>, found |-> <<>>,
             resumed |-> Missing, pins |-> {},
             \* Kept to state what holds: what had ended when the request came.
             gone |-> workspace.revoked, dry |-> {v \in AllVersions : ~ContentIsLive(v)}]
  /\ shown = NoAnswer

Answered(answer) ==
  /\ shown' = answer
  /\ page' = [page EXCEPT !.step = "done"]
Goes(step) == page' = [page EXCEPT !.step = step] /\ UNCHANGED shown
Looks == UNCHANGED <<asked, workspace>>

Member == workspace.active \in workspace.memberships
POSTS == {"artifact", "journey"}
HISTORY == {"overview", "data", "analyses", "analysis", "artifact"}

\* The session says which organization is active; what the address names is
\* compared with it.
ResolveCaller ==
  /\ page.step = "asked"
  /\ IF /\ asked.signed
        /\ asked.surface = "artifact" => asked.kind \in ARTIFACT_TARGETS
        /\ asked.surface \in POSTS => Member /\ asked.organization = workspace.active
     THEN Goes(IF asked.surface \in POSTS THEN "scope" ELSE IF Member THEN "organizations" ELSE "nowhere")
     ELSE Answered(NotThere)
  /\ Looks

\* A caller without an organization of the session still chooses among others.
ListOrganizations ==
  /\ page.step \in {"organizations", "nowhere"}
  /\ LET active == IF page.step = "organizations" THEN workspace.active ELSE Missing
     IN CASE workspace.memberships = {} -> Answered([kind |-> "no_membership"])
          [] workspace.memberships # {} /\ asked.surface = "switcher" ->
               Answered([kind |-> "switcher", organizations |-> workspace.memberships, active |-> active])
          [] workspace.memberships # {} /\ asked.surface = "team" /\ active # Missing /\ asked.organization = active ->
               Answered([kind |-> "team", organization |-> active])
          [] workspace.memberships # {} /\ asked.surface \in HISTORY /\ active # Missing /\ asked.organization = active ->
               Goes("scope")
          [] OTHER -> Answered(NotThere)
  /\ Looks

ResolveScope ==
  /\ page.step = "scope"
  /\ IF ~Member THEN Answered(NotThere)
     ELSE IF asked.surface = "journey" THEN Answered([kind |-> "handed", session |-> Missing, scope |-> workspace.active])
     ELSE Goes("history")
  /\ Looks

\* Whose retained record is read beside the history.
Awaited(history) ==
  CASE asked.surface = "analyses" -> {r \in DOMAIN history.runs : history.runs[r].state = "completed"}
    [] asked.surface = "analysis" -> {asked.run}
    [] asked.surface = "artifact" /\ asked.run \in DOMAIN history.runs ->
         IF ReportKey(history.runs[asked.run], BoundIn(history, asked.run)) = "available" THEN {asked.run} ELSE {}
    [] OTHER -> {}

ReadHistory ==
  /\ page.step = "history"
  /\ LET history == HistoryForScope
         known == asked.run \in DOMAIN history.runs
         of == Awaited(history)
     IN IF asked.surface \in {"analysis", "artifact"} /\ (~known \/ of = {}) THEN Answered(NotThere)
        ELSE page' = [page EXCEPT !.history = history, !.of = of,
               !.step = IF of # {} THEN "records" ELSE IF asked.surface = "overview" THEN "pins" ELSE "render"] /\ UNCHANGED shown
  /\ Looks

\* The record of each, the job it is linked to, and the job's session.
ReadRecords ==
  /\ page.step = "records"
  /\ page' = [page EXCEPT !.records = [r \in page.of |-> workspace.runs[r].record], !.step = "links"]
  /\ UNCHANGED shown /\ Looks
ReadLinks ==
  /\ page.step = "links"
  /\ page' = [page EXCEPT !.links = [r \in page.of |-> workspace.runs[r].link], !.step = "jobs"]
  /\ UNCHANGED shown /\ Looks

\* A link into another scope has no word; a run without a record has none to have.
Foreign == {r \in page.of : page.records[r] # Missing /\ page.links[r] = "foreign"}
ProvenanceOf(r) ==
  IF page.records[r] = Missing \/ r \in Foreign THEN Missing
  ELSE [sections |-> page.records[r].sections, families |-> page.records[r].families,
        reachable |-> page.links[r] = "own" /\ ContentIsLive(VersionOf(r))]
Earlier(history) == PreviousCompleted(asked.run, history.runs)

ReadJobs ==
  /\ page.step = "jobs"
  /\ LET \* The predecessor of the run looked at: what cannot be read of it is not compared.
         predecessor == asked.surface = "analysis" /\ page.of # {asked.run}
         found == [r \in page.of \cup DOMAIN page.found |-> IF r \in page.of THEN ProvenanceOf(r) ELSE page.found[r]]
         next == IF asked.surface = "analysis" /\ ~predecessor THEN Earlier(page.history) ELSE Missing
     IN IF \/ ~predecessor /\ Foreign # {}
           \/ asked.surface = "artifact" /\ ~Resumable(found[asked.run])
        THEN Answered(NotThere)
        ELSE /\ page' = [page EXCEPT !.found = found, !.of = IF next = Missing THEN {} ELSE {next},
                  !.step = IF next # Missing THEN "records" ELSE IF asked.surface = "artifact" THEN "resume" ELSE "render"]
             /\ UNCHANGED shown
  /\ Looks

ReadPins ==
  /\ page.step = "pins"
  /\ page' = [page EXCEPT !.pins = workspace.pins, !.step = "render"]
  /\ UNCHANGED shown /\ Looks

\* The bridge resolves the scope again and returns the session as it then is.
ResumeSession ==
  /\ page.step = "resume"
  /\ IF ~Member THEN Answered(NotThere)
     ELSE page' = [page EXCEPT !.resumed = workspace.content[VersionOf(asked.run)], !.step = "check"] /\ UNCHANGED shown
  /\ Looks

\* A fresh clock decides.
StillLive == ~page.resumed.requested /\ workspace.clock < page.resumed.expires
HandOff ==
  /\ page.step = "check"
  /\ IF StillLive
     THEN Answered([kind |-> "handed", session |-> VersionOf(asked.run), scope |-> workspace.active, job |-> asked.run])
     ELSE Answered(NotThere)
  /\ Looks

LatestWork(history) == IF DOMAIN history.runs = {} THEN Missing ELSE NewestFirst(DOMAIN history.runs)[1]
OverviewView(history) ==
  [kind |-> "overview", latest |-> LatestWork(history),
   processing |-> {r \in DOMAIN history.runs : history.runs[r].state = "started"},
   attention |-> {r \in DOMAIN history.runs : history.runs[r].state = "failed"},
   pinned |-> page.pins, recent |-> RecentActivity]
DataView(history) == [kind |-> "data", rows |-> {DataRow(history, v) : v \in DOMAIN history.versions}]
AnalysesView(history) ==
  LET spine == SpineRows(history)
      rows == [n \in DOMAIN spine |-> RowAvailability(spine[n], page.found)]
  IN IF \E n \in DOMAIN rows : rows[n].report = Unrenderable THEN NotThere
     ELSE [kind |-> "analyses", rows |-> rows, candidates |-> CompareCandidates(rows)]
AnalysisView(history) ==
  LET r == asked.run
      word == AvailabilityKey(ReportKey(history.runs[r], BoundIn(history, r)), page.found[r])
  IN IF word = Unrenderable THEN NotThere
     ELSE [kind |-> "analysis", run |-> r, state |-> history.runs[r].state, report |-> word,
           artifacts |-> IF word = "available" THEN REQUIRED_ARTIFACT_KINDS ELSE {},
           trust |-> [g \in GROUPS |-> IF page.found[r] = Missing THEN {}
                                       ELSE {s \in TOMBSTONE_SECTIONS : Group(page.found[r], s) = g}],
           change |-> MethodologyChange(history.runs, r, Earlier(history), page.found)]

Render ==
  /\ page.step = "render"
  /\ Answered(CASE asked.surface = "overview" -> OverviewView(page.history)
                [] asked.surface = "data" -> DataView(page.history)
                [] asked.surface = "analyses" -> AnalysesView(page.history)
                [] asked.surface = "analysis" -> AnalysisView(page.history))
  /\ Looks

Asking == ResolveCaller \/ ListOrganizations \/ ResolveScope \/ ReadHistory \/ ReadRecords \/ ReadLinks \/ ReadJobs
  \/ ReadPins \/ ResumeSession \/ HandOff \/ Render

----------------------------------------------------------------------------
(* Meanwhile.                                                              *)

Serving == page.step # "done"
Elsewhere == UNCHANGED <<asked, page, shown>>

\* A completed run is sealed, bound and recorded in one transaction.
CompleteRun(r) ==
  /\ Serving /\ KeptRun(r) /\ workspace.runs[r].state = "started"
  /\ workspace.runs[r].link = "own" /\ ContentIsLive(VersionOf(r))
  /\ workspace' = [workspace EXCEPT
       !.runs[r].state = "completed", !.runs[r].completed = workspace.clock, !.runs[r].bound = REQUIRED_ARTIFACT_KINDS,
       !.runs[r].record = workspace.runs[r].becomes, !.versions[VersionOf(r)].sealed = TRUE]
  /\ Elsewhere
FailRun(r) ==
  /\ Serving /\ KeptRun(r) /\ workspace.runs[r].state = "started"
  /\ workspace' = [workspace EXCEPT !.runs[r].state = "failed"]
  /\ Elsewhere

\* A deletion ends the content first, and the records in one transaction after it.
EndContent(v) ==
  /\ Serving /\ ~workspace.content[v].requested
  /\ workspace' = [workspace EXCEPT !.content[v].requested = TRUE, !.content[v].since = page.step]   \* the step is kept to state HandoffIsCurrent
  /\ Elsewhere
TombstoneVersion(v) ==
  /\ Serving /\ Kept(v) /\ workspace.content[v].requested
  /\ LET ended == {r \in RunsOf(v) : workspace.runs[r].active}
     IN workspace' = [workspace EXCEPT
          !.versions[v].state = "tombstoned", !.revoked = @ \cup {v}, !.graves = @ \cup {v} \cup ended,
          !.runs = [r \in AllRuns |-> IF r \in ended THEN [@[r] EXCEPT !.active = FALSE] ELSE @[r]],
          !.pins = @ \ ({v} \cup RunsOf(v))]
  /\ Elsewhere
\* A backup taken before a deletion is put back beneath the store; the ledger is kept apart.
Restore(v) ==
  /\ Serving /\ workspace.versions[v].state = "tombstoned"
  /\ workspace' = [workspace EXCEPT
       !.versions[v].state = "active", !.graves = @ \ ({v} \cup RunsOf(v)), !.content[v].requested = FALSE,
       !.runs = [r \in AllRuns |-> IF r \in RunsOf(v) THEN [@[r] EXCEPT !.active = TRUE] ELSE @[r]], !.restored = @ \cup {v}]
  /\ Elsewhere

TimePasses ==
  /\ Serving /\ \E v \in AllVersions : workspace.clock < workspace.content[v].expires
  /\ workspace' = [workspace EXCEPT !.clock = @ + 1]
  /\ Elsewhere
MembershipEnds ==
  /\ Serving /\ Member
  /\ workspace' = [workspace EXCEPT !.memberships = @ \ {workspace.active}, !.left = page.step]
  /\ Elsewhere

Meanwhile ==
  \/ TimePasses \/ MembershipEnds
  \/ \E r \in AllRuns : CompleteRun(r) \/ FailRun(r)
  \/ \E v \in AllVersions : EndContent(v) \/ TombstoneVersion(v) \/ Restore(v)

ShellNext == Asking \/ Meanwhile

ShellSpec == ShellInit /\ [][ShellNext]_hvars

ShellTypeOK ==
  /\ page.step \in {"asked", "organizations", "nowhere", "scope", "history", "records", "links", "jobs", "pins", "resume",
                    "check", "render", "done"}
  /\ shown.kind \in {Missing, "unavailable", "no_membership", "switcher", "team", "overview", "data", "analyses", "analysis", "handed"}
  /\ shown.kind # Missing <=> page.step = "done"
  /\ page.of \subseteq AllRuns

----------------------------------------------------------------------------
(* What is kept of an organization.                                        *)

\* What is stored of a version and of a run.
RunIsRecorded(run) ==
  /\ run = [version |-> run.version, started |-> run.started, state |-> run.state, active |-> run.active,
            link |-> run.link, package |-> run.package, formula |-> run.formula, completed |-> run.completed,
            bound |-> run.bound, record |-> run.record, becomes |-> run.becomes]
  /\ run.started \in Int /\ (run.completed # Missing => run.completed \in Int)
  /\ run.state \in {"started", "completed", "failed"}
  /\ run.active \in BOOLEAN /\ run.bound \subseteq REQUIRED_ARTIFACT_KINDS
VersionIsRecorded(version) ==
  /\ version = [state |-> version.state, created |-> version.created, sealed |-> version.sealed]
  /\ version.created \in Int /\ version.sealed \in BOOLEAN
ContentIsRecorded(content) ==
  /\ content = [requested |-> content.requested, since |-> content.since, expires |-> content.expires]
  /\ content.requested \in BOOLEAN /\ content.expires \in Int

Recorded(w) ==
  /\ w = [memberships |-> w.memberships, active |-> w.active, left |-> w.left, clock |-> w.clock,
          versions |-> w.versions, runs |-> w.runs, revoked |-> w.revoked, restored |-> w.restored,
          pins |-> w.pins, graves |-> w.graves, content |-> w.content]
  /\ w.clock \in Int
  /\ w.versions = [v \in DOMAIN w.versions |-> w.versions[v]]
  /\ w.runs = [r \in DOMAIN w.runs |-> w.runs[r]]
  /\ w.content = [v \in DOMAIN w.versions |-> w.content[v]]
  /\ DOMAIN w.versions \subseteq Int /\ DOMAIN w.runs \subseteq Int
  /\ IsFiniteSet(DOMAIN w.versions) /\ IsFiniteSet(DOMAIN w.runs)
  /\ DOMAIN w.versions \cap DOMAIN w.runs = {}
  /\ Missing \notin DOMAIN w.versions /\ Missing \notin DOMAIN w.runs /\ Missing \notin w.memberships
  /\ \A v \in DOMAIN w.versions : VersionIsRecorded(w.versions[v]) /\ ContentIsRecorded(w.content[v])
  /\ \A r \in DOMAIN w.runs : RunIsRecorded(w.runs[r]) /\ w.runs[r].version \in DOMAIN w.versions

\* A version and its runs end together; what was put back beneath the ledger is
\* there again although the ledger names it; and what completed is sealed.
VersionsEnd(versions, ended, graves) ==
  \A v \in DOMAIN versions :
    versions[v].state = (IF v \in ended THEN "tombstoned" ELSE "active") /\ (v \in graves <=> v \in ended)
RunsEnd(runs, ended, graves) ==
  \A r \in DOMAIN runs :
    (runs[r].active <=> runs[r].version \notin ended) /\ (r \in graves <=> runs[r].version \in ended)
Sealed(versions, runs) ==
  \A v \in DOMAIN versions :
    versions[v].sealed <=> \E r \in DOMAIN runs : runs[r].version = v /\ runs[r].state = "completed"
EndTogether(w) ==
  /\ w.restored \subseteq w.revoked /\ w.revoked \subseteq DOMAIN w.versions
  /\ VersionsEnd(w.versions, w.revoked \ w.restored, w.graves)
  /\ RunsEnd(w.runs, w.revoked \ w.restored, w.graves)
  /\ Sealed(w.versions, w.runs)

WorkspacesAreSound ==
  \A w \in Workspaces : Recorded(w) /\ EndTogether(w) /\ w.left = Missing

----------------------------------------------------------------------------
(* What holds of it.                                                       *)

Shows(surface) == shown.kind = surface
KeptRows == {n \in DOMAIN shown.rows : ~shown.rows[n].deleted}
ShownAsKept ==
  CASE Shows("overview") -> ({shown.latest} \ {Missing}) \cup shown.processing \cup shown.attention \cup Range(shown.recent)
    [] Shows("data") -> UNION {{row.version} \cup row.uses : row \in shown.rows}
    [] Shows("analyses") -> {shown.rows[n].run : n \in KeptRows}   \* whose versions CandidatesCompare compares
    [] Shows("analysis") -> {shown.run} \cup (IF shown.change = Missing THEN {} ELSE {shown.change.previous})
    [] Shows("handed") -> {shown.session} \ {Missing}
    [] OTHER -> {}

\* What a deletion ended before the request is shown as kept nowhere, handed over
\* nowhere and compared with nothing, although a backup put its rows back.
EndedStaysEnded ==
  ShownAsKept \cap UNION {{v} \cup RunsOf(v) : v \in page.gone} = {}

\* The history is of one moment: a run is one row, kept or ended, whatever ends
\* meanwhile, a kept row's data is kept and an ended row's ended; data is in use
\* exactly where a run of it was completed; and none is later than the latest.
HistoryIsOfOneMoment ==
  /\ Shows("analyses") =>
       /\ \A r \in {r \in AllRuns : VersionOf(r) \notin workspace.restored} : Cardinality({n \in DOMAIN shown.rows : shown.rows[n].run = r}) = 1
       /\ \A n \in DOMAIN shown.rows : shown.rows[n].data = IF shown.rows[n].deleted THEN "deleted" ELSE "kept"
       /\ \A n \in KeptRows : shown.rows[n].state = "completed" => shown.rows[n].report \in {"available", "unreachable"}
  /\ Shows("overview") => \A r \in DOMAIN page.history.runs : page.history.runs[r].started <= page.history.runs[shown.latest].started
  /\ Shows("data") => \A row \in shown.rows :
       /\ row.readiness = "in_use" => \E r \in RunsOf(row.version) : workspace.runs[r].state = "completed"
       /\ (\E r \in row.uses : page.history.runs[r].state = "completed") => row.readiness = "in_use"

\* The list fails as a whole only for a record that was never this scope's or a
\* report without all of its artifacts, and a run's page only for its own, whatever
\* its predecessor's is like.
OneRecordHidesNoOther ==
  Shows("unavailable") /\ asked.signed /\ Member /\ asked.organization = workspace.active =>
    LET foreign == {r \in AllRuns : workspace.runs[r].link = "foreign"
                    \/ (workspace.runs[r].state = "completed" /\ workspace.runs[r].bound # REQUIRED_ARTIFACT_KINDS)} IN
    /\ asked.surface = "analyses" => foreign # {}
    /\ asked.surface = "analysis" /\ asked.run \in AllRuns => VersionOf(asked.run) \in workspace.revoked \/ asked.run \in foreign
    /\ asked.surface \notin {"overview", "data"}

Words == CASE Shows("analyses") -> {<<shown.rows[n].run, shown.rows[n].report>> : n \in KeptRows}
           [] Shows("analysis") -> {<<shown.run, shown.report>>}
           [] OTHER -> {}
\* A report is offered only when it was completed with every artifact and its
\* content was live during the request, and withheld from a completed run only
\* when it cannot be reached.
ReportWordIsTrue ==
  \A word \in Words :
    LET run == workspace.runs[word[1]]
        v == run.version
    IN /\ word[2] = "available" => /\ run.state = "completed" /\ run.bound = REQUIRED_ARTIFACT_KINDS
                                   /\ run.record # Missing /\ run.link = "own"
                                   /\ v \notin page.dry \ workspace.restored
       /\ word[2] = "unreachable" => \/ run.record = Missing \/ run.link # "own"
                                     \/ ~ContentIsLive(v) \/ v \in workspace.restored
       /\ word[2] = "unavailable" => run.state = "failed"
       /\ word[2] = "not_yet" => page.history.runs[word[1]].state = "started"

\* A session is handed over to a member of its own organization, for a run whose
\* report was complete, and only while its content is live: a deletion is seen up
\* to the last reading of the session, and an expiry up to the last clock.
HandoffIsCurrent ==
  Shows("handed") =>
    /\ asked.signed /\ shown.scope = asked.organization /\ workspace.left \in {Missing, "check"}
    /\ shown.session # Missing =>
         LET content == workspace.content[shown.session] IN
         /\ shown.job \in RunsOf(shown.session) /\ workspace.runs[shown.job].link = "own"
         /\ workspace.runs[shown.job].bound = REQUIRED_ARTIFACT_KINDS
         /\ workspace.clock < content.expires
         /\ content.requested => content.since = "check" \/ shown.session \in workspace.restored
         /\ shown.session \notin page.dry \ workspace.restored

\* No page of an organization is shown to a caller who left it before its scope
\* was resolved, nor under another organization's address.
LeaversSeeNothing ==
  shown.kind \in HISTORY =>
    asked.signed /\ asked.organization = workspace.active /\ workspace.left \notin {"asked", "organizations", "scope"}

\* A notice compares a completed run with the last one completed before it over
\* the same data, and names every identifier that both recorded and that differs.
NoticeIsFair ==
  Shows("analysis") =>
    LET r == shown.run
        runs == page.history.runs
        own == workspace.runs[r]
        earlier(p, q) == runs[p].started < runs[q].started \/ (runs[p].started = runs[q].started /\ p < q)
        before == {p \in DOMAIN runs : runs[p].version = own.version /\ runs[p].state = "completed" /\ earlier(p, r)}
        last(p) == \A q \in before : q = p \/ earlier(q, p)
    IN /\ shown.change # Missing =>
            LET p == shown.change.previous IN
            /\ shown.state = "completed" /\ p \in before /\ last(p)
            /\ \A c \in shown.change.availability : c[2] # c[3]
            /\ shown.change.versions # {}
       /\ shown.change = Missing /\ shown.state = "completed" => \A p \in before :
            last(p) =>
              /\ runs[p].package = own.package /\ runs[p].formula = own.formula
              /\ (Missing \notin {workspace.runs[p].record, page.found[r]} /\ workspace.runs[p].link # "foreign") =>
                   \A s \in DOMAIN runs[p].record.families \cap DOMAIN own.record.families :
                     runs[p].record.families[s] = own.record.families[s]

\* Each version with a completed run that is kept is a candidate, once, in the
\* order of its newest such run.
CandidatesCompare ==
  Shows("analyses") =>
    LET newest(v) == CHOOSE n \in KeptRows :
          /\ VersionOf(shown.rows[n].run) = v /\ shown.rows[n].state = "completed"
          /\ \A m \in KeptRows : VersionOf(shown.rows[m].run) = v /\ shown.rows[m].state = "completed" => n <= m
    IN /\ Range(shown.candidates) = {VersionOf(shown.rows[n].run) : n \in {n \in KeptRows : shown.rows[n].state = "completed"}}
       /\ \A i, j \in DOMAIN shown.candidates : i < j => newest(shown.candidates[i]) < newest(shown.candidates[j])

ShellHolds ==
  /\ ShellTypeOK /\ EndedStaysEnded /\ HistoryIsOfOneMoment /\ OneRecordHidesNoOther /\ ReportWordIsTrue
  /\ HandoffIsCurrent /\ LeaversSeeNothing /\ NoticeIsFair
============================================================================
