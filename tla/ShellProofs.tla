------------------------------ MODULE ShellProofs ------------------------------
(***************************************************************************)
(* Proofs about WorkspaceShell for any addresses and any workspaces that   *)
(* are sound at the start.  Whatever ends, settles or comes back from a    *)
(* backup meanwhile, the workspace stays sound; a page under way knows     *)
(* only what its reads found and what still stands of it; and the answer   *)
(* made of such a page says nothing that they do not bear out.             *)
(***************************************************************************)
EXTENDS WorkspaceShell, FiniteSetTheorems, SequenceTheorems, TLAPS

----------------------------------------------------------------------------
(* Lists that are latest first.                                            *)

Above(objects, at, o) == {p \in objects : Later(at, p, o)}

\* Of two objects one is later, and whatever is later than the later one is later
\* than the other.
LEMMA AboveShrinks ==
  ASSUME NEW objects \in SUBSET Int, IsFiniteSet(objects), NEW at \in [objects -> Int],
         NEW a \in objects, NEW b \in objects, Later(at, a, b)
  PROVE  Cardinality(Above(objects, at, a)) < Cardinality(Above(objects, at, b))
<1> DEFINE A == Above(objects, at, a)
           B == Above(objects, at, b)
<1>1. A \in SUBSET B /\ a \in B /\ a \notin A /\ B \in SUBSET objects
  <2>1. \A p \in objects : at[p] \in Int /\ p \in Int
    OBVIOUS
  <2>2. \A p \in objects : Later(at, p, a) => Later(at, p, b)
    BY <2>1 DEF Later
  <2>3. ~Later(at, a, a)
    BY <2>1 DEF Later
  <2> QED BY <2>2, <2>3 DEF Above
<1> HIDE DEF A, B
<1>2. IsFiniteSet(B)
  BY <1>1, FS_Subset
<1>3. IsFiniteSet(A) /\ Cardinality(A) <= Cardinality(B) /\ (Cardinality(B) = Cardinality(A) => B = A)
  BY <1>1, <1>2, FS_Subset
<1>4. Cardinality(A) \in Nat /\ Cardinality(B) \in Nat
  BY <1>2, <1>3, FS_CardinalityType
<1>5. Cardinality(A) < Cardinality(B)
  BY <1>1, <1>3, <1>4
<1> QED BY <1>5 DEF A, B

LEMMA OneIsLater ==
  ASSUME NEW objects \in SUBSET Int, NEW at \in [objects -> Int],
         NEW a \in objects, NEW b \in objects, a # b
  PROVE  Later(at, a, b) \/ Later(at, b, a)
BY DEF Later

\* Every place of the list has its object, each object its place.
LEMMA Ranked ==
  ASSUME NEW objects \in SUBSET Int, IsFiniteSet(objects), NEW at \in [objects -> Int]
  PROVE  LET list == LatestFirst(objects, at)
             size == Cardinality(objects)
         IN /\ size \in Nat /\ DOMAIN list = 1..size
            /\ \A n \in 1..size : list[n] \in objects /\ Cardinality(Above(objects, at, list[n])) = n - 1
            /\ \A o \in objects : \E n \in 1..size : list[n] = o
<1> DEFINE list == LatestFirst(objects, at)
           size == Cardinality(objects)
           rank == [o \in objects |-> Cardinality(Above(objects, at, o)) + 1]
<1>1. size \in Nat
  BY FS_CardinalityType
<1>2. IsFiniteSet(1..size) /\ Cardinality(1..size) = size
  BY <1>1, FS_Interval
<1>3. ASSUME NEW o \in objects
      PROVE  Cardinality(Above(objects, at, o)) \in Nat /\ Cardinality(Above(objects, at, o)) < size
  <2>1. Above(objects, at, o) \in SUBSET objects /\ o \notin Above(objects, at, o)
    BY DEF Above, Later
  <2>2. IsFiniteSet(Above(objects, at, o)) /\ Cardinality(Above(objects, at, o)) <= size
        /\ (size = Cardinality(Above(objects, at, o)) => objects = Above(objects, at, o))
    BY <2>1, FS_Subset
  <2>3. Cardinality(Above(objects, at, o)) \in Nat
    BY <2>2, FS_CardinalityType
  <2> HIDE DEF size
  <2> QED BY <1>1, <2>1, <2>2, <2>3
<1>4. rank \in [objects -> 1..size]
  <2>1. \A o \in objects : Cardinality(Above(objects, at, o)) + 1 \in 1..size
    <3> HIDE DEF size
    <3> QED BY <1>1, <1>3
  <2> HIDE DEF size
  <2> QED BY <2>1
<1>5. \A a, b \in objects : rank[a] = rank[b] => a = b
  <2> SUFFICES ASSUME NEW a \in objects, NEW b \in objects, rank[a] = rank[b], a # b PROVE FALSE
    OBVIOUS
  <2>1. Cardinality(Above(objects, at, a)) = Cardinality(Above(objects, at, b))
    BY <1>3
  <2>2. Cardinality(Above(objects, at, a)) < Cardinality(Above(objects, at, b))
        \/ Cardinality(Above(objects, at, b)) < Cardinality(Above(objects, at, a))
    BY OneIsLater, AboveShrinks
  <2> QED BY <1>3, <2>1, <2>2
<1>6. rank \in Surjection(objects, 1..size)
  <2>1. rank \in Injection(objects, 1..size)
    <3> HIDE DEF rank, size
    <3> QED BY <1>4, <1>5 DEF Injection, IsInjective
  <2> HIDE DEF rank
  <2> QED BY <1>2, <2>1, FS_Injection
<1>7. \A n \in 1..size : \E o \in objects : Cardinality(Above(objects, at, o)) = n - 1
  <2>1. \A n \in 1..size : \E o \in objects : rank[o] = n
    <3> HIDE DEF rank, size
    <3> QED BY <1>4, <1>6 DEF Surjection
  <2> SUFFICES ASSUME NEW n \in 1..size PROVE \E o \in objects : Cardinality(Above(objects, at, o)) = n - 1
    OBVIOUS
  <2>2. PICK o \in objects : rank[o] = n
    BY <2>1
  <2> HIDE DEF size
  <2> QED BY <1>1, <1>3, <2>2
<1>8. DOMAIN list = 1..size /\ \A n \in 1..size : list[n] = CHOOSE o \in objects : Cardinality(Above(objects, at, o)) = n - 1
  BY DEF LatestFirst, Above
<1>9. \A n \in 1..size : list[n] \in objects /\ Cardinality(Above(objects, at, list[n])) = n - 1
  <2> HIDE DEF size, list
  <2> QED BY <1>7, <1>8
<1>10. \A o \in objects : \E n \in 1..size : list[n] = o
  <2> SUFFICES ASSUME NEW o \in objects PROVE \E n \in 1..size : list[n] = o
    OBVIOUS
  <2> DEFINE n == rank[o]
  <2>1. n \in 1..size /\ n = Cardinality(Above(objects, at, o)) + 1
    BY <1>4
  <2>2. list[n] \in objects /\ Cardinality(Above(objects, at, list[n])) = n - 1
    <3> HIDE DEF n, list, size
    <3> QED BY <1>9, <2>1
  <2>3. rank[list[n]] = n
    <3>1. rank[list[n]] = Cardinality(Above(objects, at, list[n])) + 1
      BY <2>2
    <3> HIDE DEF n, list, size, rank
    <3> QED BY <1>1, <2>1, <2>2, <3>1
  <2>4. list[n] = o
    <3> HIDE DEF list, rank
    <3> QED BY <1>5, <2>2, <2>3
  <2> HIDE DEF list, size, n
  <2> QED BY <2>1, <2>4
<1> HIDE DEF list, size, rank
<1> QED BY <1>1, <1>8, <1>9, <1>10 DEF list, size

\* The first of a list is the latest, and each object is listed once.
LEMMA FirstIsLatest ==
  ASSUME NEW objects \in SUBSET Int, IsFiniteSet(objects), NEW at \in [objects -> Int], objects # {}
  PROVE  LET first == LatestFirst(objects, at)[1]
         IN first \in objects /\ \A o \in objects : o = first \/ Later(at, first, o)
<1> DEFINE list == LatestFirst(objects, at)
           size == Cardinality(objects)
<1>1. /\ size \in Nat
      /\ \A n \in 1..size : list[n] \in objects /\ Cardinality(Above(objects, at, list[n])) = n - 1
      /\ \A o \in objects : \E n \in 1..size : list[n] = o
  BY Ranked
<1> HIDE DEF list, size
<1>2. 1 \in 1..size
  <2>1. PICK o \in objects : TRUE
    OBVIOUS
  <2>2. PICK n \in 1..size : list[n] = o
    BY <1>1, <2>1
  <2> QED BY <1>1, <2>2
<1>3. list[1] \in objects /\ Cardinality(Above(objects, at, list[1])) = 0
  BY <1>1, <1>2
<1>4. Above(objects, at, list[1]) = {}
  <2>1. Above(objects, at, list[1]) \in SUBSET objects
    BY DEF Above
  <2>2. IsFiniteSet(Above(objects, at, list[1]))
    BY <2>1, FS_Subset
  <2> QED BY <1>3, <2>2, FS_EmptySet
<1>5. \A o \in objects : o = list[1] \/ Later(at, list[1], o)
  BY <1>3, <1>4, OneIsLater DEF Above
<1> QED BY <1>3, <1>5 DEF list

LEMMA ListedOnce ==
  ASSUME NEW objects \in SUBSET Int, IsFiniteSet(objects), NEW at \in [objects -> Int], NEW o \in objects
  PROVE  LET list == LatestFirst(objects, at)
         IN Cardinality({n \in DOMAIN list : list[n] = o}) = 1
<1> DEFINE list == LatestFirst(objects, at)
           size == Cardinality(objects)
<1>1. /\ size \in Nat /\ DOMAIN list = 1..size
      /\ \A n \in 1..size : list[n] \in objects /\ Cardinality(Above(objects, at, list[n])) = n - 1
      /\ \A p \in objects : \E n \in 1..size : list[n] = p
  BY Ranked
<1> HIDE DEF list, size
<1>2. PICK n \in 1..size : list[n] = o
  BY <1>1
<1>3. \A m \in 1..size : list[m] = o => m = n
  <2> SUFFICES ASSUME NEW m \in 1..size, list[m] = o PROVE m = n
    OBVIOUS
  <2>1. Cardinality(Above(objects, at, o)) = n - 1 /\ Cardinality(Above(objects, at, o)) = m - 1
    BY <1>1, <1>2
  <2> QED BY <2>1, <1>1
<1>4. {m \in DOMAIN list : list[m] = o} = {n}
  BY <1>1, <1>2, <1>3
<1>5. Cardinality({m \in DOMAIN list : list[m] = o}) = 1
  BY <1>4, FS_Singleton
<1> QED BY <1>5 DEF list

----------------------------------------------------------------------------
(* What a workspace is, and how it goes on.                                *)

\* A member has not left.
MemberStays(w) == w.active \in w.memberships => w.left = Missing

Sound(w) == Recorded(w) /\ EndTogether(w) /\ MemberStays(w)

\* What a step of somebody else leaves as it was.
RunStands(run, after) ==
  /\ after.version = run.version /\ after.started = run.started /\ after.link = run.link
  /\ after.package = run.package /\ after.formula = run.formula
  /\ run.state # "started" => /\ after.state = run.state /\ after.bound = run.bound
                              /\ after.record = run.record /\ after.completed = run.completed
ContentStands(content, after, back) ==
  /\ after.expires = content.expires
  /\ content.requested => after.requested \/ back
  /\ after.requested => (content.requested /\ after.since = content.since) \/ after.since = page.step
Onward(w, after) ==
  /\ after.active = w.active /\ w.clock <= after.clock
  /\ DOMAIN after.versions = DOMAIN w.versions /\ DOMAIN after.runs = DOMAIN w.runs
  /\ w.revoked \subseteq after.revoked /\ w.restored \subseteq after.restored
  /\ \A r \in DOMAIN w.runs : RunStands(w.runs[r], after.runs[r])
  /\ \A v \in DOMAIN w.versions : ContentStands(w.content[v], after.content[v], v \in after.restored)
  /\ \/ after.left = w.left /\ after.memberships = w.memberships
     \/ after.left = page.step /\ w.left = Missing /\ after.active \notin after.memberships

LEMMA RunStandsAsIs ==
  ASSUME NEW run PROVE RunStands(run, run)
BY DEF RunStands

LEMMA ContentStandsAsIs ==
  ASSUME NEW content, NEW back PROVE ContentStands(content, content, back)
BY DEF ContentStands

LEMMA TimeGoesOn ==
  ASSUME Sound(workspace), TimePasses
  PROVE  Sound(workspace') /\ Onward(workspace, workspace')
<1>1. workspace' = [memberships |-> workspace.memberships, active |-> workspace.active, left |-> workspace.left,
                    clock |-> workspace.clock + 1, versions |-> workspace.versions, runs |-> workspace.runs,
                    revoked |-> workspace.revoked, restored |-> workspace.restored, pins |-> workspace.pins,
                    graves |-> workspace.graves, content |-> workspace.content]
  BY DEF TimePasses, Sound, Recorded
<1> DEFINE w == workspace'
<1>2. Recorded(w)
  BY <1>1 DEF Sound, Recorded
<1>3. EndTogether(w) /\ MemberStays(w)
  BY <1>1 DEF Sound, EndTogether, MemberStays
<1>4. Onward(workspace, w)
  BY <1>1, RunStandsAsIs, ContentStandsAsIs DEF Onward, Sound, Recorded
<1> QED BY <1>2, <1>3, <1>4 DEF Sound

LEMMA MembershipGoesOn ==
  ASSUME Sound(workspace), MembershipEnds
  PROVE  Sound(workspace') /\ Onward(workspace, workspace')
<1>1. workspace' = [memberships |-> workspace.memberships \ {workspace.active}, active |-> workspace.active, left |-> page.step,
                    clock |-> workspace.clock, versions |-> workspace.versions, runs |-> workspace.runs,
                    revoked |-> workspace.revoked, restored |-> workspace.restored, pins |-> workspace.pins,
                    graves |-> workspace.graves, content |-> workspace.content]
  BY DEF MembershipEnds, Sound, Recorded
<1> DEFINE w == workspace'
<1>2. Recorded(w)
  BY <1>1 DEF Sound, Recorded
<1>3. EndTogether(w) /\ MemberStays(w)
  BY <1>1 DEF Sound, EndTogether, MemberStays
<1>4. Onward(workspace, w)
  BY <1>1, RunStandsAsIs, ContentStandsAsIs DEF Onward, Sound, Recorded, MembershipEnds, Member, MemberStays
<1> QED BY <1>2, <1>3, <1>4 DEF Sound

\* A change of records, taken apart.
Changed(versions, runs, revoked, restored, pins, graves, content) ==
  [memberships |-> workspace.memberships, active |-> workspace.active, left |-> workspace.left,
   clock |-> workspace.clock, versions |-> versions, runs |-> runs, revoked |-> revoked, restored |-> restored,
   pins |-> pins, graves |-> graves, content |-> content]
RecordsGoOn(versions, runs, revoked, restored, graves, content) ==
  /\ versions = [v \in AllVersions |-> versions[v]] /\ content = [v \in AllVersions |-> content[v]]
  /\ runs = [r \in AllRuns |-> runs[r]]
  /\ \A v \in AllVersions : VersionIsRecorded(versions[v]) /\ ContentIsRecorded(content[v])
  /\ \A r \in AllRuns : RunIsRecorded(runs[r]) /\ RunStands(workspace.runs[r], runs[r])
  /\ \A v \in AllVersions : ContentStands(workspace.content[v], content[v], v \in restored)
  /\ workspace.revoked \subseteq revoked /\ workspace.restored \subseteq restored /\ restored \subseteq revoked
  /\ revoked \subseteq AllVersions
  /\ VersionsEnd(versions, revoked \ restored, graves)
  /\ RunsEnd(runs, revoked \ restored, graves)
  /\ Sealed(versions, runs)

LEMMA ChangeIsSound ==
  ASSUME Sound(workspace), NEW versions, NEW runs, NEW revoked, NEW restored, NEW pins, NEW graves, NEW content,
         RecordsGoOn(versions, runs, revoked, restored, graves, content)
  PROVE  /\ Sound(Changed(versions, runs, revoked, restored, pins, graves, content))
         /\ Onward(workspace, Changed(versions, runs, revoked, restored, pins, graves, content))
<1> DEFINE w == Changed(versions, runs, revoked, restored, pins, graves, content)
<1>1. /\ w.memberships = workspace.memberships /\ w.active = workspace.active /\ w.left = workspace.left
      /\ w.clock = workspace.clock /\ w.versions = versions /\ w.runs = runs /\ w.revoked = revoked
      /\ w.restored = restored /\ w.graves = graves /\ w.content = content
      /\ w = [memberships |-> w.memberships, active |-> w.active, left |-> w.left, clock |-> w.clock,
              versions |-> w.versions, runs |-> w.runs, revoked |-> w.revoked, restored |-> w.restored,
              pins |-> w.pins, graves |-> w.graves, content |-> w.content]
  BY DEF Changed
<1> HIDE DEF w
<1>2. /\ DOMAIN versions = DOMAIN workspace.versions /\ DOMAIN runs = DOMAIN workspace.runs
      /\ versions = [v \in DOMAIN versions |-> versions[v]] /\ content = [v \in DOMAIN versions |-> content[v]]
      /\ runs = [r \in DOMAIN runs |-> runs[r]]
  BY DEF AllVersions, AllRuns, RecordsGoOn
<1>3. /\ workspace.clock \in Int /\ DOMAIN workspace.versions \subseteq Int /\ DOMAIN workspace.runs \subseteq Int
      /\ IsFiniteSet(DOMAIN workspace.versions) /\ IsFiniteSet(DOMAIN workspace.runs)
      /\ DOMAIN workspace.versions \cap DOMAIN workspace.runs = {}
      /\ Missing \notin DOMAIN workspace.versions \cup DOMAIN workspace.runs \cup workspace.memberships
      /\ \A r \in DOMAIN workspace.runs : workspace.runs[r].version \in DOMAIN workspace.versions
  BY DEF Sound, Recorded
<1>4. \A r \in DOMAIN runs : RunIsRecorded(runs[r]) /\ runs[r].version \in DOMAIN versions
  BY <1>2, <1>3 DEF AllRuns, RunStands, RecordsGoOn
<1>5. \A v \in DOMAIN versions : VersionIsRecorded(versions[v]) /\ ContentIsRecorded(content[v])
  BY <1>2 DEF AllVersions, RecordsGoOn
<1>6. Recorded(w)
  BY <1>1, <1>2, <1>3, <1>4, <1>5 DEF Recorded
<1>7. EndTogether(w) /\ MemberStays(w)
  BY <1>1, <1>2 DEF Sound, EndTogether, MemberStays, RecordsGoOn, AllVersions
<1>8. Onward(workspace, w)
  <2>1. workspace.clock <= w.clock
    BY <1>1, <1>3
  <2>2. \A r \in DOMAIN workspace.runs : RunStands(workspace.runs[r], w.runs[r])
    BY <1>1 DEF AllRuns, RecordsGoOn
  <2>3. \A v \in DOMAIN workspace.versions : ContentStands(workspace.content[v], w.content[v], v \in w.restored)
    BY <1>1 DEF AllVersions, RecordsGoOn
  <2> QED BY <1>1, <1>2, <2>1, <2>2, <2>3 DEF Onward, RecordsGoOn
<1> QED BY <1>6, <1>7, <1>8 DEF Sound, w

\* Of the workspace as it is.
LEMMA WorkspaceParts ==
  ASSUME Sound(workspace)
  PROVE  /\ workspace.versions = [v \in AllVersions |-> workspace.versions[v]]
         /\ workspace.content = [v \in AllVersions |-> workspace.content[v]]
         /\ workspace.runs = [r \in AllRuns |-> workspace.runs[r]]
         /\ \A v \in AllVersions : VersionIsRecorded(workspace.versions[v]) /\ ContentIsRecorded(workspace.content[v])
         /\ \A r \in AllRuns : RunIsRecorded(workspace.runs[r]) /\ workspace.runs[r].version \in AllVersions
         /\ \A r \in AllRuns : RunStands(workspace.runs[r], workspace.runs[r])
         /\ \A v \in AllVersions, back \in BOOLEAN : ContentStands(workspace.content[v], workspace.content[v], back)
         /\ workspace.restored \subseteq workspace.revoked /\ workspace.revoked \subseteq AllVersions
         /\ VersionsEnd(workspace.versions, workspace.revoked \ workspace.restored, workspace.graves)
         /\ RunsEnd(workspace.runs, workspace.revoked \ workspace.restored, workspace.graves)
         /\ Sealed(workspace.versions, workspace.runs)
<1>1. /\ workspace.versions = [v \in AllVersions |-> workspace.versions[v]]
      /\ workspace.content = [v \in AllVersions |-> workspace.content[v]]
      /\ workspace.runs = [r \in AllRuns |-> workspace.runs[r]]
  BY DEF Sound, Recorded, AllVersions, AllRuns
<1>2. /\ \A v \in AllVersions : VersionIsRecorded(workspace.versions[v]) /\ ContentIsRecorded(workspace.content[v])
      /\ \A r \in AllRuns : RunIsRecorded(workspace.runs[r]) /\ workspace.runs[r].version \in AllVersions
  BY DEF Sound, Recorded, AllVersions, AllRuns
<1>3. /\ workspace.restored \subseteq workspace.revoked /\ workspace.revoked \subseteq AllVersions
      /\ VersionsEnd(workspace.versions, workspace.revoked \ workspace.restored, workspace.graves)
      /\ RunsEnd(workspace.runs, workspace.revoked \ workspace.restored, workspace.graves)
      /\ Sealed(workspace.versions, workspace.runs)
  BY DEF Sound, EndTogether, AllVersions
<1> QED BY <1>1, <1>2, <1>3, RunStandsAsIs, ContentStandsAsIs

\* The record of a run whose state alone has changed, and of one that completed,
\* ended or came back.
LEMMA RunChanges ==
  ASSUME NEW run, RunIsRecorded(run), NEW state, NEW after, after = [run EXCEPT !.state = state]
  PROVE  after = [version |-> run.version, started |-> run.started, state |-> state, active |-> run.active,
                  link |-> run.link, package |-> run.package, formula |-> run.formula, completed |-> run.completed,
                  bound |-> run.bound, record |-> run.record, becomes |-> run.becomes]
BY DEF RunIsRecorded

LEMMA RunTurns ==
  ASSUME NEW run, RunIsRecorded(run), NEW active \in BOOLEAN, NEW after, after = [run EXCEPT !.active = active]
  PROVE  RunIsRecorded(after) /\ RunStands(run, after) /\ after.active = active /\ after.state = run.state
<1>1. after = [version |-> run.version, started |-> run.started, state |-> run.state, active |-> active,
               link |-> run.link, package |-> run.package, formula |-> run.formula, completed |-> run.completed,
               bound |-> run.bound, record |-> run.record, becomes |-> run.becomes]
  BY DEF RunIsRecorded
<1>2. RunIsRecorded(after)
  BY <1>1 DEF RunIsRecorded
<1> QED BY <1>1, <1>2 DEF RunStands

LEMMA VersionTurns ==
  ASSUME NEW version, VersionIsRecorded(version), NEW state, NEW after, after = [version EXCEPT !.state = state]
  PROVE  VersionIsRecorded(after) /\ after.state = state /\ after.sealed = version.sealed
<1>1. after = [state |-> state, created |-> version.created, sealed |-> version.sealed]
  BY DEF VersionIsRecorded
<1> QED BY <1>1 DEF VersionIsRecorded

LEMMA FailureGoesOn ==
  ASSUME Sound(workspace), NEW r \in AllRuns, FailRun(r)
  PROVE  Sound(workspace') /\ Onward(workspace, workspace')
<1> DEFINE runs == [workspace.runs EXCEPT ![r].state = "failed"]
           w == workspace'
<1>1. w = Changed(workspace.versions, runs, workspace.revoked, workspace.restored, workspace.pins, workspace.graves, workspace.content)
  BY DEF FailRun, Sound, Recorded, Changed
<1>2. /\ runs = [q \in AllRuns |-> runs[q]]
      /\ \A q \in AllRuns : q # r => runs[q] = workspace.runs[q]
      /\ runs[r] = [workspace.runs[r] EXCEPT !.state = "failed"]
  BY WorkspaceParts
<1> HIDE DEF runs
<1>3. RunIsRecorded(workspace.runs[r]) /\ workspace.runs[r].state = "started"
  BY WorkspaceParts DEF FailRun
<1>4. runs[r] = [version |-> workspace.runs[r].version, started |-> workspace.runs[r].started, state |-> "failed",
                 active |-> workspace.runs[r].active, link |-> workspace.runs[r].link,
                 package |-> workspace.runs[r].package, formula |-> workspace.runs[r].formula,
                 completed |-> workspace.runs[r].completed, bound |-> workspace.runs[r].bound,
                 record |-> workspace.runs[r].record, becomes |-> workspace.runs[r].becomes]
  BY <1>2, <1>3, RunChanges
<1>5. RunIsRecorded(runs[r]) /\ RunStands(workspace.runs[r], runs[r]) /\ runs[r].state = "failed"
      /\ runs[r].active = workspace.runs[r].active
  BY <1>3, <1>4 DEF RunIsRecorded, RunStands
<1>6. \A q \in AllRuns : RunIsRecorded(runs[q]) /\ RunStands(workspace.runs[q], runs[q])
  BY <1>2, <1>5, WorkspaceParts
<1>7. \A q \in AllRuns : runs[q].version = workspace.runs[q].version /\ runs[q].active = workspace.runs[q].active
  BY <1>2, <1>5 DEF RunStands
<1>8. DOMAIN runs = AllRuns /\ DOMAIN workspace.runs = AllRuns
  BY <1>2 DEF AllRuns
<1>9. RunsEnd(runs, workspace.revoked \ workspace.restored, workspace.graves)
  BY <1>7, <1>8, WorkspaceParts DEF RunsEnd
<1>10. \A q \in AllRuns : runs[q].state = "completed" <=> workspace.runs[q].state = "completed"
  BY <1>2, <1>3, <1>5
<1>11. Sealed(workspace.versions, runs)
  BY <1>7, <1>8, <1>10, WorkspaceParts DEF Sealed
<1>12. \A v \in AllVersions : ContentStands(workspace.content[v], workspace.content[v], v \in workspace.restored)
  BY ContentStandsAsIs
<1> HIDE DEF w
<1>13. Sound(w) /\ Onward(workspace, w)
  <2>1. RecordsGoOn(workspace.versions, runs, workspace.revoked, workspace.restored, workspace.graves, workspace.content)
    BY <1>2, <1>6, <1>9, <1>11, <1>12, WorkspaceParts DEF RecordsGoOn
  <2> QED BY <1>1, <2>1, ChangeIsSound
<1> QED BY <1>13 DEF w

LEMMA CompletionGoesOn ==
  ASSUME Sound(workspace), NEW r \in AllRuns, CompleteRun(r)
  PROVE  Sound(workspace') /\ Onward(workspace, workspace')
<1> DEFINE v == workspace.runs[r].version
           becomes == workspace.runs[r].becomes
           runs == [workspace.runs EXCEPT ![r].state = "completed", ![r].completed = workspace.clock,
                      ![r].bound = REQUIRED_ARTIFACT_KINDS, ![r].record = becomes]
           versions == [workspace.versions EXCEPT ![v].sealed = TRUE]
           w == workspace'
<1>1. w = Changed(versions, runs, workspace.revoked, workspace.restored, workspace.pins, workspace.graves, workspace.content)
  BY DEF CompleteRun, Sound, Recorded, VersionOf, Changed
<1>2. /\ runs = [q \in AllRuns |-> runs[q]]
      /\ \A q \in AllRuns : q # r => runs[q] = workspace.runs[q]
      /\ runs[r] = [workspace.runs[r] EXCEPT !.state = "completed", !.completed = workspace.clock,
                      !.bound = REQUIRED_ARTIFACT_KINDS, !.record = becomes]
  BY WorkspaceParts
<1>3. /\ versions = [u \in AllVersions |-> versions[u]]
      /\ \A u \in AllVersions : u # v => versions[u] = workspace.versions[u]
      /\ v \in AllVersions => versions[v] = [workspace.versions[v] EXCEPT !.sealed = TRUE]
  BY WorkspaceParts
<1> HIDE DEF runs, versions
<1>4. /\ RunIsRecorded(workspace.runs[r]) /\ workspace.runs[r].state = "started" /\ v \in AllVersions
      /\ VersionIsRecorded(workspace.versions[v])
  BY WorkspaceParts DEF CompleteRun
<1>5. workspace.clock \in Int
  BY DEF Sound, Recorded
<1>6. runs[r] = [version |-> workspace.runs[r].version, started |-> workspace.runs[r].started, state |-> "completed",
                 active |-> workspace.runs[r].active, link |-> workspace.runs[r].link,
                 package |-> workspace.runs[r].package, formula |-> workspace.runs[r].formula,
                 completed |-> workspace.clock, bound |-> REQUIRED_ARTIFACT_KINDS,
                 record |-> becomes, becomes |-> workspace.runs[r].becomes]
  <2> DEFINE old == workspace.runs[r]
             new == runs[r]
  <2>1. RunIsRecorded(old) /\ new = [old EXCEPT !.state = "completed", !.completed = workspace.clock,
                                       !.bound = REQUIRED_ARTIFACT_KINDS, !.record = becomes]
    BY <1>2, <1>4
  <2>2. new = [version |-> old.version, started |-> old.started, state |-> "completed", active |-> old.active,
               link |-> old.link, package |-> old.package, formula |-> old.formula, completed |-> workspace.clock,
               bound |-> REQUIRED_ARTIFACT_KINDS, record |-> becomes, becomes |-> old.becomes]
    <3> HIDE DEF old, new, becomes
    <3> QED BY <2>1 DEF RunIsRecorded
  <2> QED BY <2>2
<1>7. /\ RunIsRecorded(runs[r]) /\ RunStands(workspace.runs[r], runs[r]) /\ runs[r].state = "completed"
      /\ runs[r].active = workspace.runs[r].active
  BY <1>4, <1>5, <1>6 DEF RunIsRecorded, RunStands
<1>8. /\ versions[v] = [state |-> workspace.versions[v].state, created |-> workspace.versions[v].created, sealed |-> TRUE]
      /\ VersionIsRecorded(versions[v])
  <2>1. versions[v] = [workspace.versions[v] EXCEPT !.sealed = TRUE]
    BY <1>3, <1>4
  <2>2. versions[v] = [state |-> workspace.versions[v].state, created |-> workspace.versions[v].created, sealed |-> TRUE]
    BY <1>4, <2>1 DEF VersionIsRecorded
  <2> QED BY <1>4, <2>2 DEF VersionIsRecorded
<1>9. \A q \in AllRuns : RunIsRecorded(runs[q]) /\ RunStands(workspace.runs[q], runs[q])
  BY <1>2, <1>7, WorkspaceParts
<1>10. \A q \in AllRuns : runs[q].version = workspace.runs[q].version /\ runs[q].active = workspace.runs[q].active
  BY <1>2, <1>7 DEF RunStands
<1>11. DOMAIN runs = AllRuns /\ DOMAIN workspace.runs = AllRuns /\ DOMAIN versions = AllVersions /\ DOMAIN workspace.versions = AllVersions
  BY <1>2, <1>3 DEF AllRuns, AllVersions
<1>12. \A u \in AllVersions : versions[u].state = workspace.versions[u].state
  BY <1>3, <1>8
<1>13. RunsEnd(runs, workspace.revoked \ workspace.restored, workspace.graves)
  BY <1>10, <1>11, WorkspaceParts DEF RunsEnd
<1>14. VersionsEnd(versions, workspace.revoked \ workspace.restored, workspace.graves)
  BY <1>11, <1>12, WorkspaceParts DEF VersionsEnd
<1>15. \A u \in AllVersions :
         versions[u].sealed <=> \E q \in AllRuns : runs[q].version = u /\ runs[q].state = "completed"
  <2> SUFFICES ASSUME NEW u \in AllVersions
               PROVE  versions[u].sealed <=> \E q \in AllRuns : runs[q].version = u /\ runs[q].state = "completed"
    OBVIOUS
  <2>1. CASE u = v
    BY <1>6, <1>7, <1>8, <2>1
  <2>2. CASE u # v
    <3>1. workspace.versions[u].sealed <=>
            \E q \in AllRuns : workspace.runs[q].version = u /\ workspace.runs[q].state = "completed"
      BY <1>11, WorkspaceParts DEF Sealed
    <3>2. versions[u] = workspace.versions[u] /\ runs[r].version # u /\ workspace.runs[r].version # u
      BY <1>3, <1>6, <2>2
    <3> QED BY <1>2, <3>1, <3>2
  <2> QED BY <2>1, <2>2
<1>16. Sealed(versions, runs)
  BY <1>11, <1>15 DEF Sealed
<1>17. \A u \in AllVersions : VersionIsRecorded(versions[u]) /\ ContentIsRecorded(workspace.content[u])
  BY <1>3, <1>8, WorkspaceParts
<1>18. \A u \in AllVersions : ContentStands(workspace.content[u], workspace.content[u], u \in workspace.restored)
  BY ContentStandsAsIs
<1>19. workspace.content = [u \in AllVersions |-> workspace.content[u]] /\ workspace.restored \subseteq workspace.revoked
       /\ workspace.revoked \subseteq AllVersions
  BY WorkspaceParts
<1> HIDE DEF w
<1>20. Sound(w) /\ Onward(workspace, w)
  <2>1. RecordsGoOn(versions, runs, workspace.revoked, workspace.restored, workspace.graves, workspace.content)
    BY <1>2, <1>3, <1>9, <1>13, <1>14, <1>16, <1>17, <1>18, <1>19 DEF RecordsGoOn
  <2> QED BY <1>1, <2>1, ChangeIsSound
<1> QED BY <1>20 DEF w

LEMMA ContentGoesOn ==
  ASSUME Sound(workspace), NEW v \in AllVersions, EndContent(v)
  PROVE  Sound(workspace') /\ Onward(workspace, workspace')
<1> DEFINE content == [workspace.content EXCEPT ![v].requested = TRUE, ![v].since = page.step]
           w == workspace'
<1>1. w = Changed(workspace.versions, workspace.runs, workspace.revoked, workspace.restored, workspace.pins, workspace.graves, content)
  BY DEF EndContent, Sound, Recorded, Changed
<1>2. /\ content = [u \in AllVersions |-> content[u]]
      /\ \A u \in AllVersions : u # v => content[u] = workspace.content[u]
      /\ content[v] = [workspace.content[v] EXCEPT !.requested = TRUE, !.since = page.step]
  BY WorkspaceParts
<1> HIDE DEF content
<1>3. ContentIsRecorded(workspace.content[v])
  BY WorkspaceParts
<1>4. content[v] = [requested |-> TRUE, since |-> page.step, expires |-> workspace.content[v].expires]
  BY <1>2, <1>3 DEF ContentIsRecorded
<1>5. ContentIsRecorded(content[v]) /\ ContentStands(workspace.content[v], content[v], v \in workspace.restored)
  BY <1>3, <1>4 DEF ContentIsRecorded, ContentStands
<1>6. \A u \in AllVersions : ContentIsRecorded(content[u])
  BY <1>2, <1>5, WorkspaceParts
<1>7. \A u \in AllVersions : ContentStands(workspace.content[u], content[u], u \in workspace.restored)
  BY <1>2, <1>5, ContentStandsAsIs
<1> HIDE DEF w
<1>8. Sound(w) /\ Onward(workspace, w)
  <2>1. RecordsGoOn(workspace.versions, workspace.runs, workspace.revoked, workspace.restored, workspace.graves, content)
    BY <1>2, <1>6, <1>7, WorkspaceParts DEF RecordsGoOn
  <2> QED BY <1>1, <2>1, ChangeIsSound
<1> QED BY <1>8 DEF w

LEMMA TombstoneGoesOn ==
  ASSUME Sound(workspace), NEW v \in AllVersions, TombstoneVersion(v)
  PROVE  Sound(workspace') /\ Onward(workspace, workspace')
<1> DEFINE turned == {r \in RunsOf(v) : workspace.runs[r].active}
           runs == [r \in AllRuns |-> IF r \in turned THEN [workspace.runs[r] EXCEPT !.active = FALSE] ELSE workspace.runs[r]]
           versions == [workspace.versions EXCEPT ![v].state = "tombstoned"]
           revoked == workspace.revoked \cup {v}
           graves == workspace.graves \cup {v} \cup turned
           pins == workspace.pins \ ({v} \cup RunsOf(v))
           w == workspace'
<1>1. w = Changed(versions, runs, revoked, workspace.restored, pins, graves, workspace.content)
  BY DEF TombstoneVersion, Sound, Recorded, Changed
<1>2. /\ runs = [r \in AllRuns |-> runs[r]]
      /\ \A r \in AllRuns : r \notin turned => runs[r] = workspace.runs[r]
      /\ \A r \in AllRuns : r \in turned => runs[r] = [workspace.runs[r] EXCEPT !.active = FALSE]
  OBVIOUS
<1>3. /\ versions = [u \in AllVersions |-> versions[u]]
      /\ \A u \in AllVersions : u # v => versions[u] = workspace.versions[u]
      /\ versions[v] = [workspace.versions[v] EXCEPT !.state = "tombstoned"]
  BY WorkspaceParts
<1> HIDE DEF runs, versions
<1>4. /\ v \notin workspace.revoked /\ v \notin workspace.restored /\ workspace.restored \subseteq workspace.revoked
      /\ turned = {r \in AllRuns : workspace.runs[r].version = v /\ workspace.runs[r].active}
  BY WorkspaceParts DEF TombstoneVersion, Kept, RunsOf, VersionOf
<1>5. /\ DOMAIN runs = AllRuns /\ DOMAIN workspace.runs = AllRuns
      /\ DOMAIN versions = AllVersions /\ DOMAIN workspace.versions = AllVersions
  BY <1>2, <1>3 DEF AllRuns, AllVersions
<1> HIDE DEF turned
<1>6. \A r \in AllRuns : r \in turned =>
        RunIsRecorded(runs[r]) /\ RunStands(workspace.runs[r], runs[r]) /\ runs[r].active = FALSE /\ runs[r].state = workspace.runs[r].state
  BY <1>2, RunTurns, WorkspaceParts
<1>7. \A r \in AllRuns : RunIsRecorded(runs[r]) /\ RunStands(workspace.runs[r], runs[r])
  BY <1>2, <1>6, WorkspaceParts
<1>8. \A r \in AllRuns : runs[r].version = workspace.runs[r].version /\ runs[r].state = workspace.runs[r].state
                         /\ (r \notin turned => runs[r].active = workspace.runs[r].active)
  BY <1>2, <1>6, <1>7 DEF RunStands
<1>9. VersionIsRecorded(versions[v]) /\ versions[v].state = "tombstoned" /\ versions[v].sealed = workspace.versions[v].sealed
  <2>1. VersionIsRecorded(workspace.versions[v])
    BY WorkspaceParts
  <2>2. versions[v] = [workspace.versions[v] EXCEPT !.state = "tombstoned"]
    BY <1>3
  <2> QED BY <2>1, <2>2, VersionTurns
<1>10. \A u \in AllVersions : VersionIsRecorded(versions[u]) /\ ContentIsRecorded(workspace.content[u])
  BY <1>3, <1>9, WorkspaceParts
<1>11. \A u \in AllVersions : versions[u].sealed = workspace.versions[u].sealed
  BY <1>3, <1>9
<1> DEFINE ended == workspace.revoked \ workspace.restored
<1>12. revoked \ workspace.restored = ended \cup {v} /\ v \notin ended
  BY <1>4
<1>13. VersionsEnd(workspace.versions, ended, workspace.graves) /\ RunsEnd(workspace.runs, ended, workspace.graves)
  BY WorkspaceParts
<1>14. AllVersions \cap AllRuns = {}
  BY DEF Sound, Recorded, AllVersions, AllRuns
<1>15. v \notin turned /\ AllVersions \cap turned = {}
  BY <1>4, <1>14
<1> HIDE DEF ended
<1>16. \A u \in AllVersions :
         versions[u].state = (IF u \in ended \cup {v} THEN "tombstoned" ELSE "active") /\ (u \in graves <=> u \in ended \cup {v})
  <2> TAKE u \in AllVersions
  <2>1. CASE u = v
    BY <1>9, <2>1
  <2>2. CASE u # v
    BY <1>3, <1>5, <1>13, <1>15, <2>2 DEF VersionsEnd
  <2> QED BY <2>1, <2>2
<1>17. VersionsEnd(versions, ended \cup {v}, graves)
  BY <1>5, <1>16 DEF VersionsEnd
<1>18. \A r \in AllRuns :
         (runs[r].active <=> runs[r].version \notin ended \cup {v}) /\ (r \in graves <=> runs[r].version \in ended \cup {v})
  <2> TAKE r \in AllRuns
  <2>1. (workspace.runs[r].active <=> workspace.runs[r].version \notin ended)
        /\ (r \in workspace.graves <=> workspace.runs[r].version \in ended) /\ r # v
    BY <1>5, <1>13, <1>14 DEF RunsEnd
  <2>2. CASE workspace.runs[r].version = v
    <3>1. r \in turned
      BY <1>4, <1>12, <2>1, <2>2
    <3> QED BY <1>6, <1>8, <2>1, <2>2, <3>1
  <2>3. CASE workspace.runs[r].version # v
    <3>1. r \notin turned
      BY <1>4, <2>3
    <3> QED BY <1>8, <2>1, <2>3, <3>1
  <2> QED BY <2>2, <2>3
<1>19. RunsEnd(runs, ended \cup {v}, graves)
  BY <1>5, <1>18 DEF RunsEnd
<1>20. Sealed(workspace.versions, workspace.runs)
  BY WorkspaceParts
<1>21. Sealed(versions, runs)
  BY <1>5, <1>8, <1>11, <1>20 DEF Sealed
<1>22. \A u \in AllVersions : ContentStands(workspace.content[u], workspace.content[u], u \in workspace.restored)
  BY ContentStandsAsIs
<1>23. workspace.content = [u \in AllVersions |-> workspace.content[u]]
  BY WorkspaceParts
<1>24. workspace.restored \subseteq revoked /\ workspace.revoked \subseteq revoked /\ revoked \subseteq AllVersions
  BY <1>4, WorkspaceParts
<1> HIDE DEF w, graves, revoked, pins
<1>25. Sound(w) /\ Onward(workspace, w)
  <2>1. RecordsGoOn(versions, runs, revoked, workspace.restored, graves, workspace.content)
    BY <1>2, <1>3, <1>7, <1>10, <1>12, <1>17, <1>19, <1>21, <1>22, <1>23, <1>24 DEF RecordsGoOn
  <2> QED BY <1>1, <2>1, ChangeIsSound
<1> QED BY <1>25 DEF w

LEMMA RestorationGoesOn ==
  ASSUME Sound(workspace), NEW v \in AllVersions, Restore(v)
  PROVE  Sound(workspace') /\ Onward(workspace, workspace')
<1> DEFINE turned == RunsOf(v)
           runs == [r \in AllRuns |-> IF r \in turned THEN [workspace.runs[r] EXCEPT !.active = TRUE] ELSE workspace.runs[r]]
           versions == [workspace.versions EXCEPT ![v].state = "active"]
           content == [workspace.content EXCEPT ![v].requested = FALSE]
           restored == workspace.restored \cup {v}
           graves == workspace.graves \ ({v} \cup turned)
           w == workspace'
<1>1. w = Changed(versions, runs, workspace.revoked, restored, workspace.pins, graves, content)
  BY DEF Restore, Sound, Recorded, Changed
<1>2. /\ runs = [r \in AllRuns |-> runs[r]]
      /\ \A r \in AllRuns : r \notin turned => runs[r] = workspace.runs[r]
      /\ \A r \in AllRuns : r \in turned => runs[r] = [workspace.runs[r] EXCEPT !.active = TRUE]
  OBVIOUS
<1>3. /\ versions = [u \in AllVersions |-> versions[u]]
      /\ \A u \in AllVersions : u # v => versions[u] = workspace.versions[u]
      /\ versions[v] = [workspace.versions[v] EXCEPT !.state = "active"]
  BY WorkspaceParts
<1>4. /\ content = [u \in AllVersions |-> content[u]]
      /\ \A u \in AllVersions : u # v => content[u] = workspace.content[u]
      /\ content[v] = [workspace.content[v] EXCEPT !.requested = FALSE]
  BY WorkspaceParts
<1> HIDE DEF runs, versions, content
<1> DEFINE ended == workspace.revoked \ workspace.restored
<1>5. VersionsEnd(workspace.versions, ended, workspace.graves) /\ RunsEnd(workspace.runs, ended, workspace.graves)
  BY WorkspaceParts
<1>6. v \in ended /\ workspace.restored \subseteq workspace.revoked
  BY <1>5, WorkspaceParts DEF Restore, VersionsEnd, AllVersions
<1>7. turned = {r \in AllRuns : workspace.runs[r].version = v}
  BY DEF RunsOf, VersionOf
<1>8. /\ DOMAIN runs = AllRuns /\ DOMAIN workspace.runs = AllRuns
      /\ DOMAIN versions = AllVersions /\ DOMAIN workspace.versions = AllVersions
  BY <1>2, <1>3 DEF AllRuns, AllVersions
<1> HIDE DEF turned
<1>9. \A r \in AllRuns : r \in turned =>
        RunIsRecorded(runs[r]) /\ RunStands(workspace.runs[r], runs[r]) /\ runs[r].active = TRUE /\ runs[r].state = workspace.runs[r].state
  BY <1>2, RunTurns, WorkspaceParts
<1>10. \A r \in AllRuns : RunIsRecorded(runs[r]) /\ RunStands(workspace.runs[r], runs[r])
  BY <1>2, <1>9, WorkspaceParts
<1>11. \A r \in AllRuns : runs[r].version = workspace.runs[r].version /\ runs[r].state = workspace.runs[r].state
                          /\ (r \notin turned => runs[r].active = workspace.runs[r].active)
  BY <1>2, <1>9, <1>10 DEF RunStands
<1>12. VersionIsRecorded(versions[v]) /\ versions[v].state = "active" /\ versions[v].sealed = workspace.versions[v].sealed
  <2>1. VersionIsRecorded(workspace.versions[v])
    BY WorkspaceParts
  <2>2. versions[v] = [workspace.versions[v] EXCEPT !.state = "active"]
    BY <1>3
  <2> QED BY <2>1, <2>2, VersionTurns
<1>13. ContentIsRecorded(content[v]) /\ ContentStands(workspace.content[v], content[v], v \in restored)
  <2>1. ContentIsRecorded(workspace.content[v])
    BY WorkspaceParts
  <2>2. content[v] = [requested |-> FALSE, since |-> workspace.content[v].since, expires |-> workspace.content[v].expires]
    BY <1>4, <2>1 DEF ContentIsRecorded
  <2> QED BY <2>1, <2>2 DEF ContentIsRecorded, ContentStands
<1>14. \A u \in AllVersions : VersionIsRecorded(versions[u]) /\ ContentIsRecorded(content[u])
  BY <1>3, <1>4, <1>12, <1>13, WorkspaceParts
<1>15. \A u \in AllVersions : versions[u].sealed = workspace.versions[u].sealed
  BY <1>3, <1>12
<1>16. workspace.revoked \ restored = ended \ {v}
  OBVIOUS
<1>17. AllVersions \cap AllRuns = {}
  BY DEF Sound, Recorded, AllVersions, AllRuns
<1>18. v \notin turned /\ AllVersions \cap turned = {}
  BY <1>7, <1>17
<1> HIDE DEF ended
<1>19. \A u \in AllVersions :
         versions[u].state = (IF u \in ended \ {v} THEN "tombstoned" ELSE "active") /\ (u \in graves <=> u \in ended \ {v})
  <2> TAKE u \in AllVersions
  <2>1. CASE u = v
    BY <1>12, <2>1
  <2>2. CASE u # v
    BY <1>3, <1>5, <1>8, <1>18, <2>2 DEF VersionsEnd
  <2> QED BY <2>1, <2>2
<1>20. VersionsEnd(versions, ended \ {v}, graves)
  BY <1>8, <1>19 DEF VersionsEnd
<1>21. \A r \in AllRuns :
         (runs[r].active <=> runs[r].version \notin ended \ {v}) /\ (r \in graves <=> runs[r].version \in ended \ {v})
  <2> TAKE r \in AllRuns
  <2>1. (workspace.runs[r].active <=> workspace.runs[r].version \notin ended)
        /\ (r \in workspace.graves <=> workspace.runs[r].version \in ended) /\ r # v
    BY <1>5, <1>8, <1>17 DEF RunsEnd
  <2>2. CASE workspace.runs[r].version = v
    <3>1. r \in turned
      BY <1>7, <2>2
    <3> QED BY <1>9, <1>11, <2>1, <2>2, <3>1
  <2>3. CASE workspace.runs[r].version # v
    <3>1. r \notin turned
      BY <1>7, <2>3
    <3> QED BY <1>11, <2>1, <2>3, <3>1
  <2> QED BY <2>2, <2>3
<1>22. RunsEnd(runs, ended \ {v}, graves)
  BY <1>8, <1>21 DEF RunsEnd
<1>23. Sealed(workspace.versions, workspace.runs)
  BY WorkspaceParts
<1>24. Sealed(versions, runs)
  BY <1>8, <1>11, <1>15, <1>23 DEF Sealed
<1>25. \A u \in AllVersions : ContentStands(workspace.content[u], content[u], u \in restored)
  BY <1>4, <1>13, ContentStandsAsIs
<1>26. restored \subseteq workspace.revoked /\ workspace.restored \subseteq restored /\ workspace.revoked \subseteq AllVersions
  BY <1>6, WorkspaceParts DEF ended
<1> HIDE DEF w, graves, restored
<1>27. Sound(w) /\ Onward(workspace, w)
  <2>1. RecordsGoOn(versions, runs, workspace.revoked, restored, graves, content)
    BY <1>2, <1>3, <1>4, <1>10, <1>14, <1>16, <1>20, <1>22, <1>24, <1>25, <1>26 DEF RecordsGoOn
  <2> QED BY <1>1, <2>1, ChangeIsSound
<1> QED BY <1>27 DEF w

LEMMA MeanwhileGoesOn ==
  ASSUME Sound(workspace), Meanwhile
  PROVE  Sound(workspace') /\ Onward(workspace, workspace') /\ UNCHANGED <<asked, page, shown>> /\ Serving
<1>1. Sound(workspace') /\ Onward(workspace, workspace')
  BY TimeGoesOn, MembershipGoesOn, FailureGoesOn, CompletionGoesOn, ContentGoesOn, TombstoneGoesOn, RestorationGoesOn DEF Meanwhile
<1>2. UNCHANGED <<asked, page, shown>> /\ Serving
  BY DEF Meanwhile, TimePasses, MembershipEnds, CompleteRun, FailRun, EndContent, TombstoneVersion, Restore, Elsewhere
<1> QED BY <1>1, <1>2

----------------------------------------------------------------------------
(* What a page knows while it is put together.                             *)

READING == {"records", "links", "jobs"}
HISTORY_READ == READING \cup {"pins", "resume", "check", "render"}
OF_ONE == HISTORY_READ \cup {"scope", "history"}
STEPS == OF_ONE \cup {"asked", "organizations", "nowhere"}

LiveIn(w, v) == ~w.content[v].requested /\ w.clock < w.content[v].expires
Completed(h) == {r \in DOMAIN h.runs : h.runs[r].state = "completed"}

\* The history is of one moment of w or of its past, and after what is gone.
HistoryStands(h, w, gone) ==
  /\ DOMAIN h.runs \subseteq DOMAIN w.runs /\ DOMAIN h.versions \subseteq DOMAIN w.versions
  /\ DOMAIN h.versions \cap gone = {}
  /\ \A r \in DOMAIN h.runs :
       /\ RunStands(h.runs[r], w.runs[r])
       /\ h.runs[r].state \in {"started", "completed", "failed"}
       /\ BoundIn(h, r) = h.runs[r].bound /\ h.runs[r].bound \subseteq REQUIRED_ARTIFACT_KINDS
       /\ h.runs[r].version \in DOMAIN h.versions /\ h.runs[r].version \notin h.graves /\ r \notin h.graves
       /\ h.runs[r].state = "completed" => h.versions[h.runs[r].version].sealed
  /\ \A r \in DOMAIN w.runs :
       /\ r \in h.graves => w.runs[r].version \in h.graves
       /\ r \in DOMAIN h.runs \/ r \in h.graves \/ w.runs[r].version \in w.restored
  /\ \A v \in DOMAIN h.versions :
       h.versions[v].sealed => \E r \in DOMAIN w.runs : w.runs[r].version = v /\ w.runs[r].state = "completed"

\* What was found of a completed run is so, up to what ended or came back since.
ProvenanceHolds(p, run, w, dry) ==
  /\ p = Missing <=> run.record = Missing \/ run.link = "foreign"
  /\ p # Missing =>
       /\ p.families = run.record.families
       /\ p.reachable => run.link = "own" /\ (run.version \in dry => run.version \in w.restored)
       /\ ~p.reachable => run.link # "own" \/ ~LiveIn(w, run.version) \/ run.version \in w.restored
FoundHolds(found, h, w, dry) ==
  \A r \in DOMAIN found :
    r \in DOMAIN h.runs /\ (h.runs[r].state = "completed" => ProvenanceHolds(found[r], w.runs[r], w, dry))

\* Whose records are awaited.
Awaiting(h, of, found) ==
  /\ of \subseteq DOMAIN h.runs /\ asked.surface \in {"analyses", "analysis", "artifact"}
  /\ asked.surface = "analyses" => of = Completed(h)
  /\ asked.surface = "analysis" =>
       /\ asked.run \in DOMAIN h.runs
       /\ \/ of = {asked.run}
          \/ Earlier(h) # Missing /\ of = {Earlier(h)} /\ asked.run \in DOMAIN found
  /\ asked.surface = "artifact" => of = {asked.run} /\ asked.run \in Completed(h)
                                   /\ REQUIRED_ARTIFACT_KINDS \subseteq h.runs[asked.run].bound
RecordsHold(h, of, records, w) == \A r \in of : h.runs[r].state = "completed" => records[r] = w.runs[r].record
LinksHold(of, links, w) == \A r \in of : links[r] = w.runs[r].link

\* What is rendered has been read.
Renderable(h, found) ==
  /\ asked.surface \in {"overview", "data", "analyses", "analysis"}
  /\ asked.surface = "analyses" => Completed(h) \subseteq DOMAIN found
  /\ asked.surface = "analysis" => /\ asked.run \in DOMAIN h.runs /\ asked.run \in DOMAIN found
                                   /\ Earlier(h) # Missing => Earlier(h) \in DOMAIN found

\* What is handed over was reachable, and is as it was resumed.
Deliverable(h, found) ==
  /\ asked.surface = "artifact" /\ asked.run \in Completed(h) /\ asked.run \in DOMAIN found
  /\ REQUIRED_ARTIFACT_KINDS \subseteq h.runs[asked.run].bound /\ Resumable(found[asked.run])
ResumedHolds(resumed, w) ==
  LET v == w.runs[asked.run].version IN
  /\ resumed.expires = w.content[v].expires
  /\ ~resumed.requested /\ w.content[v].requested => w.content[v].since = "check" \/ v \in w.restored
  /\ w.left \in {Missing, "check"}

\* Where the request stands.
RequestStands(step, w) ==
  /\ step \in STEPS
  /\ step # "asked" => asked.signed
  /\ step = "nowhere" => w.active \notin w.memberships
  /\ step \in OF_ONE => asked.organization = w.active
  /\ step \in OF_ONE \ {"scope"} => w.left \notin {"asked", "organizations", "scope"}
  /\ step = "scope" => asked.surface \in HISTORY \cup {"journey"}
  /\ step = "history" => asked.surface \in HISTORY
EndsHold(gone, dry, w) ==
  /\ gone \subseteq w.revoked /\ dry \subseteq DOMAIN w.versions
  /\ \A v \in dry : LiveIn(w, v) => v \in w.restored
\* What the page has read.
ReadingsHold(step, h, of, records, links, found, resumed, gone, dry, w) ==
  step \in HISTORY_READ =>
    /\ HistoryStands(h, w, gone) /\ FoundHolds(found, h, w, dry)
    /\ step \in READING => Awaiting(h, of, found)
    /\ step \in {"links", "jobs"} => RecordsHold(h, of, records, w)
    /\ step = "jobs" => LinksHold(of, links, w)
    /\ step = "pins" => asked.surface = "overview"
    /\ step = "render" => Renderable(h, found)
    /\ step \in {"resume", "check"} => Deliverable(h, found)
    /\ step = "check" => ResumedHolds(resumed, w)
PageStands(p, w) ==
  /\ p = [step |-> p.step, history |-> p.history, of |-> p.of, records |-> p.records, links |-> p.links, found |-> p.found,
          resumed |-> p.resumed, pins |-> p.pins, gone |-> p.gone, dry |-> p.dry]
  /\ p.of \subseteq DOMAIN w.runs /\ (p.step \notin HISTORY_READ => p.found = <<>>)
  /\ RequestStands(p.step, w) /\ EndsHold(p.gone, p.dry, w)
  /\ ReadingsHold(p.step, p.history, p.of, p.records, p.links, p.found, p.resumed, p.gone, p.dry, w)

----------------------------------------------------------------------------
(* The page stands while others go on.                                     *)

LEMMA RunStandsOn ==
  ASSUME NEW a, NEW b, NEW c, RunStands(a, b), RunStands(b, c)
  PROVE  RunStands(a, c)
BY DEF RunStands

LEMMA HistoryStandsOn ==
  ASSUME NEW h, NEW w, NEW after, NEW gone, HistoryStands(h, w, gone), Onward(w, after)
  PROVE  HistoryStands(h, after, gone)
<1>1. DOMAIN after.runs = DOMAIN w.runs /\ DOMAIN after.versions = DOMAIN w.versions /\ w.restored \subseteq after.restored
      /\ \A r \in DOMAIN w.runs : RunStands(w.runs[r], after.runs[r])
  BY DEF Onward
<1>2. \A r \in DOMAIN w.runs : after.runs[r].version = w.runs[r].version
                               /\ (w.runs[r].state = "completed" => after.runs[r].state = "completed")
  BY <1>1 DEF RunStands
<1>3. \A r \in DOMAIN h.runs : r \in DOMAIN w.runs /\ RunStands(h.runs[r], w.runs[r])
  BY DEF HistoryStands
<1>4. \A r \in DOMAIN h.runs : RunStands(h.runs[r], after.runs[r])
  BY <1>1, <1>3, RunStandsOn
<1>5. \A r \in DOMAIN after.runs :
        /\ r \in h.graves => after.runs[r].version \in h.graves
        /\ r \in DOMAIN h.runs \/ r \in h.graves \/ after.runs[r].version \in after.restored
  BY <1>1, <1>2 DEF HistoryStands
<1>6. \A v \in DOMAIN h.versions :
        h.versions[v].sealed => \E r \in DOMAIN after.runs : after.runs[r].version = v /\ after.runs[r].state = "completed"
  BY <1>1, <1>2 DEF HistoryStands
<1> QED BY <1>1, <1>4, <1>5, <1>6 DEF HistoryStands

LEMMA EndsHoldOn ==
  ASSUME NEW gone, NEW dry, Sound(workspace), Sound(workspace'), EndsHold(gone, dry, workspace), Onward(workspace, workspace')
  PROVE  EndsHold(gone, dry, workspace')
<1> DEFINE w == workspace
           after == workspace'
<1>1. /\ w.clock \in Int /\ after.clock \in Int /\ w.clock <= after.clock
      /\ \A v \in DOMAIN w.versions : w.content[v].expires \in Int
  BY DEF Onward, Sound, Recorded, ContentIsRecorded
<1>2. /\ w.revoked \subseteq after.revoked /\ w.restored \subseteq after.restored /\ DOMAIN after.versions = DOMAIN w.versions
      /\ \A v \in DOMAIN w.versions : ContentStands(w.content[v], after.content[v], v \in after.restored)
  BY DEF Onward
<1>3. gone \subseteq w.revoked /\ dry \subseteq DOMAIN w.versions /\ \A v \in dry : LiveIn(w, v) => v \in w.restored
  BY DEF EndsHold
<1> HIDE DEF w, after
<1>4. ASSUME NEW v \in dry, LiveIn(after, v) PROVE v \in after.restored
  <2>1. v \in DOMAIN w.versions /\ ContentStands(w.content[v], after.content[v], v \in after.restored)
    BY <1>2, <1>3
  <2>2. after.content[v].expires = w.content[v].expires /\ w.clock < w.content[v].expires
    BY <1>1, <1>4, <2>1 DEF LiveIn, ContentStands
  <2>3. CASE w.content[v].requested
    BY <1>4, <2>1, <2>3 DEF LiveIn, ContentStands
  <2>4. CASE ~w.content[v].requested
    BY <1>2, <1>3, <2>2, <2>4 DEF LiveIn
  <2> QED BY <2>3, <2>4
<1>5. EndsHold(gone, dry, after)
  BY <1>2, <1>3, <1>4 DEF EndsHold
<1> QED BY <1>5 DEF after

\* What was not live is not live again but for a backup.
LEMMA DryStays ==
  ASSUME Sound(workspace), Sound(workspace'), Onward(workspace, workspace'), NEW v \in AllVersions, LiveIn(workspace', v)
  PROVE  LiveIn(workspace, v) \/ v \in workspace'.restored
<1> DEFINE w == workspace
           after == workspace'
<1>1. /\ w.clock \in Int /\ after.clock \in Int /\ w.clock <= after.clock /\ w.content[v].expires \in Int
      /\ ContentStands(w.content[v], after.content[v], v \in after.restored)
  BY DEF Onward, Sound, Recorded, ContentIsRecorded, AllVersions
<1> HIDE DEF w, after
<1>2. LiveIn(after, v) => LiveIn(w, v) \/ v \in after.restored
  <2>1. CASE w.content[v].requested
    BY <1>1, <2>1 DEF LiveIn, ContentStands
  <2>2. CASE ~w.content[v].requested
    BY <1>1, <2>2 DEF LiveIn, ContentStands
  <2> QED BY <2>1, <2>2
<1> QED BY <1>2 DEF w, after

LEMMA FoundHoldsOn ==
  ASSUME NEW found, NEW h, NEW gone, NEW dry, Sound(workspace), Sound(workspace'), Onward(workspace, workspace'),
         HistoryStands(h, workspace, gone), FoundHolds(found, h, workspace, dry)
  PROVE  FoundHolds(found, h, workspace', dry)
<1> SUFFICES ASSUME NEW r \in DOMAIN found
             PROVE  r \in DOMAIN h.runs
                    /\ (h.runs[r].state = "completed" => ProvenanceHolds(found[r], workspace'.runs[r], workspace', dry))
  BY DEF FoundHolds
<1>1. r \in DOMAIN h.runs /\ (h.runs[r].state = "completed" => ProvenanceHolds(found[r], workspace.runs[r], workspace, dry))
  BY DEF FoundHolds
<1>2. r \in AllRuns /\ RunStands(h.runs[r], workspace.runs[r])
  BY <1>1 DEF HistoryStands, AllRuns
<1>3. RunStands(workspace.runs[r], workspace'.runs[r]) /\ workspace.restored \subseteq workspace'.restored
  BY <1>2 DEF Onward, AllRuns
<1> SUFFICES ASSUME h.runs[r].state = "completed"
             PROVE  ProvenanceHolds(found[r], workspace'.runs[r], workspace', dry)
  BY <1>1
<1> DEFINE run == workspace.runs[r]
           after == workspace'.runs[r]
<1>4. after.record = run.record /\ after.link = run.link /\ after.version = run.version
  BY <1>2, <1>3 DEF RunStands
<1>5. ProvenanceHolds(found[r], run, workspace, dry) /\ run.version \in AllVersions
  BY <1>1, <1>2, WorkspaceParts
<1>6. LiveIn(workspace', run.version) => LiveIn(workspace, run.version) \/ run.version \in workspace'.restored
  BY <1>5, DryStays
<1> HIDE DEF run, after
<1>7. ProvenanceHolds(found[r], after, workspace', dry)
  BY <1>3, <1>4, <1>5, <1>6 DEF ProvenanceHolds
<1> QED BY <1>7 DEF after

LEMMA RequestStandsOn ==
  ASSUME RequestStands(page.step, workspace), Onward(workspace, workspace'), UNCHANGED <<asked, page>>
  PROVE  RequestStands(page.step, workspace)'
<1>1. /\ workspace'.active = workspace.active
      /\ \/ workspace'.left = workspace.left /\ workspace'.memberships = workspace.memberships
         \/ workspace'.left = page.step /\ workspace'.active \notin workspace'.memberships
  BY DEF Onward
<1>2. asked' = asked /\ page' = page
  OBVIOUS
<1> QED BY <1>1, <1>2 DEF RequestStands, OF_ONE, HISTORY_READ, READING, STEPS

LEMMA ResumedHoldsOn ==
  ASSUME Sound(workspace), Onward(workspace, workspace'), UNCHANGED <<asked, page>>, page.step = "check",
         asked.run \in AllRuns, ResumedHolds(page.resumed, workspace)
  PROVE  ResumedHolds(page.resumed, workspace)'
<1> DEFINE v == workspace.runs[asked.run].version
<1>1. v \in AllVersions
  BY WorkspaceParts
<1>2. workspace'.runs[asked.run].version = v
  BY DEF Onward, RunStands, AllRuns
<1>3. /\ workspace'.content[v].expires = workspace.content[v].expires
      /\ workspace'.content[v].requested =>
           (workspace.content[v].requested /\ workspace'.content[v].since = workspace.content[v].since) \/ workspace'.content[v].since = "check"
  BY <1>1 DEF Onward, ContentStands, AllVersions
<1>4. workspace.restored \subseteq workspace'.restored /\ (workspace'.left = workspace.left \/ workspace'.left = "check")
  BY DEF Onward
<1>5. /\ page.resumed.expires = workspace.content[v].expires
      /\ ~page.resumed.requested /\ workspace.content[v].requested => workspace.content[v].since = "check" \/ v \in workspace.restored
      /\ workspace.left \in {Missing, "check"}
  BY DEF ResumedHolds
<1>6. asked'.run = asked.run /\ page'.resumed = page.resumed
  OBVIOUS
<1> HIDE DEF v
<1> QED BY <1>2, <1>3, <1>4, <1>5, <1>6 DEF ResumedHolds

LEMMA ReadingsHoldOn ==
  ASSUME Sound(workspace), Sound(workspace'), Onward(workspace, workspace'), UNCHANGED <<asked, page>>, PageStands(page, workspace)
  PROVE  ReadingsHold(page.step, page.history, page.of, page.records, page.links, page.found, page.resumed, page.gone, page.dry, workspace)'
<1> DEFINE h == page.history
<1>1. asked' = asked /\ page' = page
  OBVIOUS
<1> SUFFICES ASSUME page.step \in HISTORY_READ
             PROVE  ReadingsHold(page.step, page.history, page.of, page.records, page.links, page.found, page.resumed, page.gone, page.dry, workspace)'
  BY <1>1 DEF ReadingsHold
<1>2. HistoryStands(h, workspace, page.gone) /\ FoundHolds(page.found, h, workspace, page.dry)
  BY DEF PageStands, ReadingsHold
<1>3. HistoryStands(h, workspace', page.gone) /\ FoundHolds(page.found, h, workspace', page.dry)
  BY <1>2, HistoryStandsOn, FoundHoldsOn
<1>4. \A r \in DOMAIN h.runs : /\ r \in AllRuns
                               /\ workspace'.runs[r].link = workspace.runs[r].link
                               /\ h.runs[r].state = "completed" => workspace'.runs[r].record = workspace.runs[r].record
  <2> TAKE r \in DOMAIN h.runs
  <2>1. r \in AllRuns /\ RunStands(h.runs[r], workspace.runs[r])
    BY <1>2 DEF HistoryStands, AllRuns
  <2>2. RunStands(workspace.runs[r], workspace'.runs[r])
    BY <2>1 DEF Onward, AllRuns
  <2> QED BY <2>1, <2>2 DEF RunStands
<1>5. page.step \in READING => Awaiting(h, page.of, page.found) /\ page.of \subseteq DOMAIN h.runs
  BY DEF PageStands, ReadingsHold, Awaiting
<1>6. page.step \in {"links", "jobs"} => RecordsHold(h, page.of, page.records, workspace')
  <2>1. page.step \in {"links", "jobs"} => RecordsHold(h, page.of, page.records, workspace)
    BY DEF PageStands, ReadingsHold
  <2> QED BY <1>4, <1>5, <2>1 DEF RecordsHold, READING
<1>7. page.step = "jobs" => LinksHold(page.of, page.links, workspace')
  <2>1. page.step = "jobs" => LinksHold(page.of, page.links, workspace)
    BY DEF PageStands, ReadingsHold
  <2> QED BY <1>4, <1>5, <2>1 DEF LinksHold, READING
<1>8. /\ page.step = "pins" => asked.surface = "overview"
      /\ page.step = "render" => Renderable(h, page.found)
      /\ page.step \in {"resume", "check"} => Deliverable(h, page.found)
      /\ page.step = "check" => ResumedHolds(page.resumed, workspace)
  BY DEF PageStands, ReadingsHold
<1>9. page.step = "check" => ResumedHolds(page.resumed, workspace)'
  <2>1. page.step = "check" => asked.run \in AllRuns
    BY <1>4, <1>8 DEF Deliverable, Completed
  <2> QED BY <1>8, <2>1, ResumedHoldsOn
<1>10. (Awaiting(h, page.of, page.found) => Awaiting(h, page.of, page.found)')
       /\ (Renderable(h, page.found) => Renderable(h, page.found)')
       /\ (Deliverable(h, page.found) => Deliverable(h, page.found)')
  BY <1>1 DEF Awaiting, Renderable, Deliverable, Earlier
<1>11. /\ HistoryStands(h, workspace, page.gone)' /\ FoundHolds(page.found, h, workspace, page.dry)'
       /\ page.step \in {"links", "jobs"} => RecordsHold(h, page.of, page.records, workspace)'
       /\ page.step = "jobs" => LinksHold(page.of, page.links, workspace)'
  BY <1>1, <1>3, <1>6, <1>7
<1> QED BY <1>1, <1>5, <1>8, <1>9, <1>10, <1>11 DEF ReadingsHold

LEMMA PageStandsOn ==
  ASSUME Sound(workspace), Sound(workspace'), Onward(workspace, workspace'), UNCHANGED <<asked, page>>, PageStands(page, workspace)
  PROVE  PageStands(page, workspace)'
<1>1. page' = page /\ DOMAIN workspace'.runs = DOMAIN workspace.runs
  BY DEF Onward
<1>2. RequestStands(page.step, workspace)'
  BY RequestStandsOn DEF PageStands
<1>3. EndsHold(page.gone, page.dry, workspace')
  BY EndsHoldOn DEF PageStands
<1>4. EndsHold(page.gone, page.dry, workspace)'
  BY <1>1, <1>3
<1>5. ReadingsHold(page.step, page.history, page.of, page.records, page.links, page.found, page.resumed, page.gone, page.dry, workspace)'
  BY ReadingsHoldOn
<1>6. /\ page = [step |-> page.step, history |-> page.history, of |-> page.of, records |-> page.records, links |-> page.links,
                 found |-> page.found, resumed |-> page.resumed, pins |-> page.pins, gone |-> page.gone, dry |-> page.dry]
      /\ page.of \subseteq DOMAIN workspace.runs /\ (page.step \notin HISTORY_READ => page.found = <<>>)
  BY DEF PageStands
<1> QED BY <1>1, <1>2, <1>4, <1>5, <1>6 DEF PageStands

----------------------------------------------------------------------------
(* The request goes its steps.                                             *)

KINDS == {"unavailable", "no_membership", "switcher", "team", "overview", "data", "analyses", "analysis", "handed"}
\* The absent value is no word and no record.
MissingIsNoWord == Missing \notin KINDS \cup HISTORY \cup STEPS \cup {Unrenderable} /\ DOMAIN Missing = {}

AnswerHolds ==
  /\ page.step = "done" /\ page.of \subseteq AllRuns /\ shown.kind \in KINDS
  /\ EndedStaysEnded /\ HistoryIsOfOneMoment /\ OneRecordHidesNoOther /\ ReportWordIsTrue
  /\ HandoffIsCurrent /\ LeaversSeeNothing /\ NoticeIsFair
PageGoes == PageStands(page, workspace) /\ shown = NoAnswer

LEMMA Turned ==
  ASSUME NEW p, NEW step, NEW after, after = [p EXCEPT !.step = step],
         p = [step |-> p.step, history |-> p.history, of |-> p.of, records |-> p.records, links |-> p.links, found |-> p.found,
              resumed |-> p.resumed, pins |-> p.pins, gone |-> p.gone, dry |-> p.dry]
  PROVE  after = [step |-> step, history |-> p.history, of |-> p.of, records |-> p.records, links |-> p.links, found |-> p.found,
                  resumed |-> p.resumed, pins |-> p.pins, gone |-> p.gone, dry |-> p.dry]
OBVIOUS

\* A step that reads no history.
LEMMA StepGoes ==
  ASSUME PageGoes, NEW step, Goes(step), Looks, page.step \notin HISTORY_READ, step \notin HISTORY_READ,
         RequestStands(step, workspace)
  PROVE  PageGoes'
<1>1. page' = [step |-> step, history |-> page.history, of |-> page.of, records |-> page.records, links |-> page.links,
               found |-> page.found, resumed |-> page.resumed, pins |-> page.pins, gone |-> page.gone, dry |-> page.dry]
  BY Turned DEF PageGoes, PageStands, Goes
<1>2. asked' = asked /\ workspace' = workspace /\ shown' = shown
  BY DEF Looks, Goes
<1>3. RequestStands(page.step, workspace)'
  BY <1>1, <1>2 DEF RequestStands
<1>4. EndsHold(page.gone, page.dry, workspace)'
  BY <1>1, <1>2 DEF PageGoes, PageStands, EndsHold
<1>5. ReadingsHold(page.step, page.history, page.of, page.records, page.links, page.found, page.resumed, page.gone, page.dry, workspace)'
  BY <1>1 DEF ReadingsHold
<1>6. page.of \subseteq DOMAIN workspace.runs /\ page.found = <<>>
  BY DEF PageGoes, PageStands
<1> QED BY <1>1, <1>2, <1>3, <1>4, <1>5, <1>6 DEF PageGoes, PageStands, NoAnswer

\* An answer keeps what is of the request.
LEMMA AnswerKeeps ==
  ASSUME PageGoes, NEW answer, Answered(answer), Looks
  PROVE  /\ page' = [step |-> "done", history |-> page.history, of |-> page.of, records |-> page.records, links |-> page.links,
                     found |-> page.found, resumed |-> page.resumed, pins |-> page.pins, gone |-> page.gone, dry |-> page.dry]
         /\ asked' = asked /\ workspace' = workspace /\ shown' = answer /\ page'.of \subseteq AllRuns'
<1>1. page' = [step |-> "done", history |-> page.history, of |-> page.of, records |-> page.records, links |-> page.links,
               found |-> page.found, resumed |-> page.resumed, pins |-> page.pins, gone |-> page.gone, dry |-> page.dry]
  BY Turned DEF PageGoes, PageStands, Answered
<1>2. asked' = asked /\ workspace' = workspace /\ shown' = answer
  BY DEF Looks, Answered
<1>3. page.of \subseteq DOMAIN workspace.runs
  BY DEF PageGoes, PageStands
<1> QED BY <1>1, <1>2, <1>3 DEF AllRuns

\* An answer that shows nothing of the records.
LEMMA Silent ==
  ASSUME PageGoes, NEW answer, Answered(answer), Looks, answer.kind \in {"unavailable", "no_membership", "switcher", "team"},
         OneRecordHidesNoOther'
  PROVE  AnswerHolds'
<1>1. page'.step = "done" /\ shown' = answer /\ page'.of \subseteq AllRuns'
  BY AnswerKeeps
<1>2. \A kind \in {"overview", "data", "analyses", "analysis", "handed"} : ~(shown'.kind = kind)
  BY <1>1
<1>3. EndedStaysEnded' /\ ReportWordIsTrue'
  BY <1>2 DEF EndedStaysEnded, ShownAsKept, ReportWordIsTrue, Words, Shows
<1>4. HistoryIsOfOneMoment' /\ HandoffIsCurrent' /\ LeaversSeeNothing' /\ NoticeIsFair'
  BY <1>1, <1>2 DEF HistoryIsOfOneMoment, HandoffIsCurrent, LeaversSeeNothing, NoticeIsFair, Shows, HISTORY
<1> QED BY <1>1, <1>3, <1>4 DEF AnswerHolds, KINDS

LEMMA Quiet ==
  ASSUME PageGoes, NEW answer, Answered(answer), Looks, answer.kind \in {"no_membership", "switcher", "team"}
  PROVE  AnswerHolds'
<1>1. OneRecordHidesNoOther'
  BY AnswerKeeps DEF OneRecordHidesNoOther, Shows
<1> QED BY <1>1, Silent

\* What is not there is not there for one of the reasons that OneRecordHidesNoOther names.
LEMMA Refused ==
  ASSUME PageGoes, Answered(NotThere), Looks,
         asked.signed /\ workspace.active \in workspace.memberships /\ asked.organization = workspace.active =>
           LET foreign == {r \in AllRuns : workspace.runs[r].link = "foreign"
                           \/ (workspace.runs[r].state = "completed" /\ workspace.runs[r].bound # REQUIRED_ARTIFACT_KINDS)} IN
           /\ asked.surface = "analyses" => foreign # {}
           /\ asked.surface = "analysis" /\ asked.run \in AllRuns => VersionOf(asked.run) \in workspace.revoked \/ asked.run \in foreign
           /\ asked.surface \notin {"overview", "data"}
  PROVE  AnswerHolds'
<1>1. asked' = asked /\ workspace' = workspace
  BY DEF Looks
<1>2. OneRecordHidesNoOther'
  BY <1>1 DEF OneRecordHidesNoOther, Shows, Member, AllRuns, VersionOf
<1> QED BY <1>2, Silent DEF NotThere

LEMMA CallerGoes ==
  ASSUME PageGoes, ResolveCaller
  PROVE  PageGoes' \/ AnswerHolds'
<1>1. page.step = "asked" /\ Looks /\ page.step \notin HISTORY_READ
  BY DEF ResolveCaller, HISTORY_READ, READING
<1> DEFINE good == /\ asked.signed
                   /\ asked.surface = "artifact" => asked.kind \in ARTIFACT_TARGETS
                   /\ asked.surface \in POSTS => Member /\ asked.organization = workspace.active
           step == IF asked.surface \in POSTS THEN "scope" ELSE IF Member THEN "organizations" ELSE "nowhere"
<1>2. CASE good
  <2>1. asked.signed /\ (asked.surface \in POSTS => Member /\ asked.organization = workspace.active)
    BY <1>2
  <2>4. Goes(step)
    BY <1>2 DEF ResolveCaller
  <2>2. step \notin HISTORY_READ
    BY DEF HISTORY_READ, READING
  <2>3. RequestStands(step, workspace)
    BY <2>1 DEF RequestStands, OF_ONE, STEPS, HISTORY_READ, READING, POSTS, HISTORY, Member
  <2> HIDE DEF step
  <2> QED BY <1>1, <2>2, <2>3, <2>4, StepGoes
<1>3. CASE ~good
  <2>1. Answered(NotThere)
    <3> HIDE DEF step
    <3> QED BY <1>3 DEF ResolveCaller
  <2>2. asked.signed => asked.surface \in POSTS
    BY <1>3 DEF POSTS
  <2> QED BY <1>1, <2>1, <2>2, Refused DEF POSTS
<1> QED BY <1>2, <1>3

LEMMA OrganizationsGo ==
  ASSUME MissingIsNoWord, Sound(workspace), PageGoes, ListOrganizations
  PROVE  PageGoes' \/ AnswerHolds'
<1>1. page.step \in {"organizations", "nowhere"} /\ Looks /\ page.step \notin HISTORY_READ
  BY DEF ListOrganizations, HISTORY_READ, READING
<1>2. RequestStands(page.step, workspace)
  BY DEF PageGoes, PageStands
<1> DEFINE active == IF page.step = "organizations" THEN workspace.active ELSE Missing
<1>3. Missing \notin workspace.memberships
  BY DEF Sound, Recorded
<1>4. CASE workspace.memberships = {}
  <2>1. Answered([kind |-> "no_membership"])
    BY <1>4 DEF ListOrganizations, Answered, HISTORY
  <2> QED BY <1>1, <2>1, Quiet
<1>5. CASE workspace.memberships # {} /\ asked.surface = "switcher"
  <2>1. Answered([kind |-> "switcher", organizations |-> workspace.memberships, active |-> active])
    BY <1>5 DEF ListOrganizations, Answered, HISTORY
  <2> HIDE DEF active
  <2> QED BY <1>1, <2>1, Quiet
<1>6. CASE workspace.memberships # {} /\ asked.surface = "team" /\ active # Missing /\ asked.organization = active
  <2>1. Answered([kind |-> "team", organization |-> active])
    BY <1>6 DEF ListOrganizations, Answered, HISTORY
  <2> HIDE DEF active
  <2> QED BY <1>1, <2>1, Quiet
<1>7. CASE workspace.memberships # {} /\ asked.surface \in HISTORY /\ active # Missing /\ asked.organization = active
  <2>1. Goes("scope") /\ page.step = "organizations" /\ asked.organization = workspace.active
    BY <1>1, <1>7 DEF ListOrganizations, HISTORY, Goes
  <2>2. RequestStands("scope", workspace)
    BY <1>2, <1>7, <2>1 DEF RequestStands, OF_ONE, STEPS, HISTORY_READ, READING, HISTORY
  <2>3. "scope" \notin HISTORY_READ
    BY DEF HISTORY_READ, READING
  <2> QED BY <1>1, <2>1, <2>2, <2>3, StepGoes
<1>8. CASE /\ workspace.memberships # {} /\ asked.surface # "switcher"
           /\ ~(asked.surface = "team" /\ active # Missing /\ asked.organization = active)
           /\ ~(asked.surface \in HISTORY /\ active # Missing /\ asked.organization = active)
  <2>1. Answered(NotThere)
    BY <1>8 DEF ListOrganizations, Answered
  <2>2. workspace.active \in workspace.memberships /\ asked.organization = workspace.active => asked.surface \notin HISTORY
    BY <1>1, <1>2, <1>3, <1>8 DEF RequestStands
  <2> QED BY <1>1, <2>1, <2>2, Refused DEF HISTORY
<1> QED BY <1>4, <1>5, <1>6, <1>7, <1>8

LEMMA ScopeGoes ==
  ASSUME MissingIsNoWord, Sound(workspace), PageGoes, ResolveScope
  PROVE  PageGoes' \/ AnswerHolds'
<1>1. page.step = "scope" /\ Looks /\ page.step \notin HISTORY_READ
  BY DEF ResolveScope, HISTORY_READ, READING
<1>2. RequestStands("scope", workspace)
  BY <1>1 DEF PageGoes, PageStands
<1>3. CASE ~Member
  <2>1. Answered(NotThere)
    BY <1>3 DEF ResolveScope
  <2> QED BY <1>1, <1>3, <2>1, Refused DEF Member
<1>4. CASE Member /\ asked.surface = "journey"
  <2> DEFINE answer == [kind |-> "handed", session |-> Missing, scope |-> workspace.active]
  <2>1. Answered(answer)
    BY <1>4 DEF ResolveScope
  <2>2. workspace.left = Missing /\ asked.signed /\ asked.organization = workspace.active
    BY <1>2, <1>4 DEF Sound, MemberStays, Member, RequestStands, OF_ONE
  <2>3. page'.step = "done" /\ asked' = asked /\ workspace' = workspace /\ shown' = answer /\ page'.of \subseteq AllRuns'
    <3> HIDE DEF answer
    <3> QED BY <1>1, <2>1, AnswerKeeps
  <2>4. shown'.kind = "handed" /\ shown'.session = Missing /\ shown'.scope = workspace.active
    BY <2>3
  <2> HIDE DEF answer
  <2>5. EndedStaysEnded' /\ ReportWordIsTrue'
    BY <2>4 DEF EndedStaysEnded, ShownAsKept, ReportWordIsTrue, Words, Shows
  <2>6. HistoryIsOfOneMoment' /\ LeaversSeeNothing' /\ NoticeIsFair' /\ OneRecordHidesNoOther'
    BY <2>4 DEF HistoryIsOfOneMoment, LeaversSeeNothing, NoticeIsFair, Shows, HISTORY, OneRecordHidesNoOther
  <2>7. HandoffIsCurrent'
    BY <2>2, <2>3, <2>4 DEF HandoffIsCurrent
  <2> QED BY <2>3, <2>4, <2>5, <2>6, <2>7 DEF AnswerHolds, KINDS
<1>5. CASE Member /\ asked.surface # "journey"
  <2>1. Goes("history")
    BY <1>5 DEF ResolveScope
  <2>2. workspace.left = Missing
    BY <1>5 DEF Sound, MemberStays, Member
  <2>3. workspace.left \notin {"asked", "organizations", "scope"}
    BY <2>2 DEF MissingIsNoWord, STEPS, OF_ONE
  <2>4. asked.signed /\ asked.organization = workspace.active /\ asked.surface \in HISTORY
    BY <1>2, <1>5 DEF RequestStands, OF_ONE
  <2>5. RequestStands("history", workspace)
    BY <2>3, <2>4 DEF RequestStands, OF_ONE, STEPS, HISTORY_READ, READING
  <2>6. "history" \notin HISTORY_READ
    BY DEF HISTORY_READ, READING
  <2> QED BY <1>1, <2>1, <2>5, <2>6, StepGoes
<1> QED BY <1>3, <1>4, <1>5

\* What is bound to a run in the history is what was bound to it.
LEMMA BindingsAreOfTheRun ==
  ASSUME NEW r \in AllRuns, KeptRun(r)
  PROVE  BoundIn(HistoryForScope, r) = workspace.runs[r].bound
<1> DEFINE kept == {q \in AllRuns : KeptRun(q)}
           bindings == UNION {{<<q, k>> : k \in workspace.runs[q].bound} : q \in kept}
<1>1. HistoryForScope.bindings = bindings
  BY DEF HistoryForScope
<1>2. \A b : b \in bindings <=> \E q \in kept : \E k \in workspace.runs[q].bound : b = <<q, k>>
  OBVIOUS
<1>3. r \in kept
  OBVIOUS
<1> HIDE DEF kept, bindings
<1>4. \A k : (\E b \in bindings : b[1] = r /\ b[2] = k) <=> k \in workspace.runs[r].bound
  <2> TAKE k
  <2>1. ASSUME NEW b \in bindings, b[1] = r, b[2] = k PROVE k \in workspace.runs[r].bound
    <3>1. PICK q \in kept : \E j \in workspace.runs[q].bound : b = <<q, j>>
      BY <1>2
    <3>2. PICK j \in workspace.runs[q].bound : b = <<q, j>>
      BY <3>1
    <3>3. q = r /\ j = k
      BY <2>1, <3>2
    <3> QED BY <3>2, <3>3
  <2>2. ASSUME k \in workspace.runs[r].bound PROVE \E b \in bindings : b[1] = r /\ b[2] = k
    <3>1. <<r, k>> \in bindings
      BY <1>2, <1>3, <2>2
    <3> QED BY <3>1
  <2> QED BY <2>1, <2>2
<1> QED BY <1>1, <1>4 DEF BoundIn

LEMMA SnapshotStands ==
  ASSUME Sound(workspace), NEW gone, gone \subseteq workspace.revoked
  PROVE  HistoryStands(HistoryForScope, workspace, gone)
<1> DEFINE h == HistoryForScope
           runs == {r \in AllRuns : KeptRun(r)}
           versions == {v \in AllVersions : Kept(v)}
           ended == workspace.revoked \ workspace.restored
<1>1. /\ h.graves = workspace.graves
      /\ DOMAIN h.runs = runs /\ \A r \in runs : h.runs[r] = workspace.runs[r]
      /\ DOMAIN h.versions = versions /\ \A v \in versions : h.versions[v] = workspace.versions[v]
  BY DEF HistoryForScope
<1>2. \A r \in runs : BoundIn(h, r) = workspace.runs[r].bound
  BY BindingsAreOfTheRun
<1>3. VersionsEnd(workspace.versions, ended, workspace.graves) /\ RunsEnd(workspace.runs, ended, workspace.graves)
      /\ Sealed(workspace.versions, workspace.runs)
  BY WorkspaceParts
<1>4. DOMAIN workspace.runs = AllRuns /\ DOMAIN workspace.versions = AllVersions
  BY DEF AllRuns, AllVersions
<1>5. \A r \in AllRuns : RunIsRecorded(workspace.runs[r]) /\ workspace.runs[r].version \in AllVersions
  BY WorkspaceParts
<1>6. \A r \in AllRuns : r \in runs <=> workspace.runs[r].active /\ workspace.runs[r].version \notin workspace.revoked
  BY DEF KeptRun, VersionOf
<1>7. \A v \in AllVersions : v \in versions <=> workspace.versions[v].state = "active" /\ v \notin workspace.revoked
  BY DEF Kept
<1>8. runs \subseteq AllRuns /\ versions \subseteq AllVersions
  OBVIOUS
<1> HIDE DEF h, runs, versions
<1>9. ASSUME NEW r \in AllRuns
      PROVE  /\ r \in workspace.graves <=> workspace.runs[r].version \in ended
             /\ r \in workspace.graves => workspace.runs[r].version \in workspace.graves
             /\ r \in runs \/ r \in workspace.graves \/ workspace.runs[r].version \in workspace.restored
  <2>1. /\ workspace.runs[r].active <=> workspace.runs[r].version \notin ended
        /\ r \in workspace.graves <=> workspace.runs[r].version \in ended
    BY <1>3, <1>4 DEF RunsEnd
  <2>2. workspace.runs[r].version \in workspace.graves <=> workspace.runs[r].version \in ended
    BY <1>3, <1>4, <1>5 DEF VersionsEnd
  <2> QED BY <1>6, <2>1, <2>2
<1>10. ASSUME NEW r \in runs
       PROVE  /\ RunStands(h.runs[r], workspace.runs[r])
              /\ h.runs[r].state \in {"started", "completed", "failed"}
              /\ BoundIn(h, r) = h.runs[r].bound /\ h.runs[r].bound \subseteq REQUIRED_ARTIFACT_KINDS
              /\ h.runs[r].version \in versions /\ h.runs[r].version \notin workspace.graves /\ r \notin workspace.graves
              /\ h.runs[r].state = "completed" => h.versions[h.runs[r].version].sealed
  <2> DEFINE v == workspace.runs[r].version
  <2>1. r \in AllRuns /\ h.runs[r] = workspace.runs[r] /\ v \in AllVersions /\ RunIsRecorded(workspace.runs[r])
    BY <1>1, <1>5, <1>8
  <2>2. v \notin workspace.revoked /\ v \notin ended
    BY <1>6, <2>1
  <2>3. workspace.versions[v].state = "active" /\ v \notin workspace.graves
    BY <1>3, <1>4, <2>1, <2>2 DEF VersionsEnd
  <2>4. v \in versions /\ r \notin workspace.graves
    BY <1>7, <1>9, <2>1, <2>2, <2>3
  <2>5. workspace.runs[r].state = "completed" => workspace.versions[v].sealed
    BY <1>3, <1>4, <2>1 DEF Sealed
  <2>6. h.versions[v] = workspace.versions[v]
    BY <1>1, <2>4
  <2>7. RunStands(h.runs[r], workspace.runs[r])
    BY <2>1, RunStandsAsIs
  <2> QED BY <1>2, <2>1, <2>3, <2>4, <2>5, <2>6, <2>7 DEF RunIsRecorded
<1>11. \A v \in versions :
         h.versions[v].sealed => \E r \in AllRuns : workspace.runs[r].version = v /\ workspace.runs[r].state = "completed"
  BY <1>1, <1>3, <1>4, <1>8 DEF Sealed
<1>12. versions \cap gone = {}
  BY <1>7, <1>8
<1>13. HistoryStands(h, workspace, gone)
  BY <1>1, <1>4, <1>8, <1>9, <1>10, <1>11, <1>12 DEF HistoryStands
<1> QED BY <1>13 DEF h

\* Which run is the predecessor: the latest of those before.
BeforeIt(runs, r) == {p \in DOMAIN runs : runs[p].version = runs[r].version /\ runs[p].state = "completed" /\ Before(p, r, runs)}

LEMMA PredecessorIsLast ==
  ASSUME NEW runs, DOMAIN runs \subseteq Int, IsFiniteSet(DOMAIN runs), \A r \in DOMAIN runs : runs[r].started \in Int,
         Missing \notin DOMAIN runs, NEW r \in DOMAIN runs
  PROVE  LET p == PreviousCompleted(r, runs) IN
         /\ p = Missing <=> BeforeIt(runs, r) = {}
         /\ p # Missing => p \in BeforeIt(runs, r) /\ p # r /\ \A q \in BeforeIt(runs, r) : q = p \/ Before(q, p, runs)
         /\ \A o \in BeforeIt(runs, r) : (\A q \in BeforeIt(runs, r) : q = o \/ Before(q, o, runs)) => p = o
<1> DEFINE earlier == BeforeIt(runs, r)
           p == PreviousCompleted(r, runs)
           at == [q \in earlier |-> runs[q].started]
           Latest(o) == \A q \in earlier : q = o \/ Before(q, o, runs)
<1>1. p = IF earlier = {} THEN Missing ELSE CHOOSE o \in earlier : Latest(o)
  BY DEF PreviousCompleted, BeforeIt
<1>2. earlier \subseteq DOMAIN runs /\ r \notin earlier
  BY DEF BeforeIt, Before
<1>3. earlier \in SUBSET Int /\ IsFiniteSet(earlier) /\ Missing \notin earlier
  BY <1>2, FS_Subset
<1>4. at \in [earlier -> Int]
  BY <1>2
<1>5. earlier # {} => \E o \in earlier : Latest(o)
  <2> SUFFICES ASSUME earlier # {} PROVE \E o \in earlier : Latest(o)
    OBVIOUS
  <2> DEFINE first == LatestFirst(earlier, at)[1]
  <2>1. first \in earlier /\ \A o \in earlier : o = first \/ Later(at, first, o)
    <3> HIDE DEF earlier, at
    <3> QED BY <1>3, <1>4, FirstIsLatest
  <2> HIDE DEF first
  <2>2. \A o \in earlier : o \in Int /\ runs[o].started \in Int /\ at[o] = runs[o].started
    BY <1>2, <1>3
  <2> HIDE DEF earlier, at
  <2>3. \A o \in earlier : o = first \/ Before(o, first, runs)
    BY <2>1, <2>2 DEF Later, Before
  <2> QED BY <2>1, <2>3
<1>6. \A a, b \in earlier : Latest(a) /\ Latest(b) => a = b
  <2>1. \A a, b \in earlier : ~(Before(a, b, runs) /\ Before(b, a, runs))
    <3>1. \A a \in earlier : a \in Int /\ runs[a].started \in Int
      BY <1>2, <1>3
    <3> HIDE DEF earlier
    <3> QED BY <3>1 DEF Before
  <2> HIDE DEF earlier
  <2> QED BY <2>1
<1> HIDE DEF earlier, p, at, Latest
<1>7. earlier # {} => p \in earlier /\ Latest(p)
  BY <1>1, <1>5
<1>8. p = Missing <=> earlier = {}
  BY <1>1, <1>3, <1>7
<1> QED BY <1>2, <1>6, <1>7, <1>8 DEF earlier, p, Latest

\* Of a history: its runs are numbered and dated, and finitely many.
LEMMA HistoryIsNumbered ==
  ASSUME Sound(workspace), NEW h, NEW gone, HistoryStands(h, workspace, gone)
  PROVE  /\ DOMAIN h.runs \subseteq Int /\ IsFiniteSet(DOMAIN h.runs) /\ Missing \notin DOMAIN h.runs
         /\ \A r \in DOMAIN h.runs : h.runs[r].started \in Int /\ r \in AllRuns /\ RunStands(h.runs[r], workspace.runs[r])
<1>1. DOMAIN h.runs \subseteq DOMAIN workspace.runs /\ \A r \in DOMAIN h.runs : RunStands(h.runs[r], workspace.runs[r])
  BY DEF HistoryStands
<1>2. IsFiniteSet(DOMAIN workspace.runs) /\ DOMAIN workspace.runs \subseteq Int /\ Missing \notin DOMAIN workspace.runs
      /\ \A r \in DOMAIN workspace.runs : workspace.runs[r].started \in Int
  BY DEF Sound, Recorded, RunIsRecorded
<1>3. IsFiniteSet(DOMAIN h.runs)
  BY <1>1, <1>2, FS_Subset
<1> QED BY <1>1, <1>2, <1>3 DEF AllRuns, RunStands

LEMMA HistoryGoes ==
  ASSUME MissingIsNoWord, Sound(workspace), PageGoes, ReadHistory
  PROVE  PageGoes' \/ AnswerHolds'
<1> DEFINE h == HistoryForScope
           known == asked.run \in DOMAIN h.runs
           of == Awaited(h)
           step == IF of # {} THEN "records" ELSE IF asked.surface = "overview" THEN "pins" ELSE "render"
<1>1. page.step = "history" /\ Looks /\ page.step \notin HISTORY_READ
  BY DEF ReadHistory, HISTORY_READ, READING
<1>2. RequestStands("history", workspace) /\ EndsHold(page.gone, page.dry, workspace)
  BY <1>1 DEF PageGoes, PageStands
<1>3. HistoryStands(h, workspace, page.gone)
  BY <1>2, SnapshotStands DEF EndsHold
<1>4. \A r \in AllRuns : r \in DOMAIN h.runs <=> workspace.runs[r].active /\ workspace.runs[r].version \notin workspace.revoked
  BY DEF HistoryForScope, KeptRun, VersionOf
<1>5. \A r \in AllRuns : r \notin DOMAIN h.runs => workspace.runs[r].version \in workspace.revoked
  <2>1. RunsEnd(workspace.runs, workspace.revoked \ workspace.restored, workspace.graves)
    BY WorkspaceParts
  <2> HIDE DEF h
  <2> QED BY <1>4, <2>1 DEF RunsEnd, AllRuns
<1>6. CASE asked.surface \in {"analysis", "artifact"} /\ (~known \/ of = {})
  <2>1. Answered(NotThere)
    BY <1>6 DEF ReadHistory
  <2>2. asked.surface = "analysis" /\ asked.run \in AllRuns => VersionOf(asked.run) \in workspace.revoked
    <3>1. asked.surface = "analysis" => of = {asked.run}
      BY DEF Awaited
    <3> HIDE DEF h, of
    <3> QED BY <1>5, <1>6, <3>1 DEF VersionOf
  <2> QED BY <1>1, <1>6, <2>1, <2>2, Refused
<1>7. CASE ~(asked.surface \in {"analysis", "artifact"} /\ (~known \/ of = {}))
  <2>1. page' = [page EXCEPT !.history = h, !.of = of, !.step = step] /\ shown' = shown
    BY <1>7 DEF ReadHistory
  <2>2. asked' = asked /\ workspace' = workspace
    BY <1>1 DEF Looks
  <2> HIDE DEF h, of
  <2>3. page' = [step |-> step, history |-> h, of |-> of, records |-> page.records, links |-> page.links,
                 found |-> page.found, resumed |-> page.resumed, pins |-> page.pins, gone |-> page.gone, dry |-> page.dry]
    BY <2>1 DEF PageGoes, PageStands
  <2>4. page.found = <<>> /\ DOMAIN page.found = {}
    <3>1. page.found = <<>>
      BY <1>1 DEF PageGoes, PageStands
    <3> QED BY <3>1
  <2>5. asked.surface \in HISTORY
    BY <1>2 DEF RequestStands
  <2>6. /\ asked.surface = "analyses" => of = Completed(h)
        /\ asked.surface = "analysis" => of = {asked.run} /\ known
        /\ asked.surface = "artifact" => /\ of = {asked.run} /\ known
                                         /\ ReportKey(h.runs[asked.run], BoundIn(h, asked.run)) = "available"
        /\ asked.surface \in {"overview", "data"} => of = {}
    BY <1>7, <2>5 DEF of, Awaited, Completed, HISTORY
  <2>7. asked.surface = "artifact" => asked.run \in Completed(h) /\ REQUIRED_ARTIFACT_KINDS \subseteq h.runs[asked.run].bound
    <3> SUFFICES ASSUME asked.surface = "artifact"
                 PROVE  asked.run \in Completed(h) /\ REQUIRED_ARTIFACT_KINDS \subseteq h.runs[asked.run].bound
      OBVIOUS
    <3>1. h.runs[asked.run].state = "completed" /\ REQUIRED_ARTIFACT_KINDS \subseteq BoundIn(h, asked.run)
      BY <2>6 DEF ReportKey, Unrenderable
    <3> QED BY <1>3, <2>6, <3>1 DEF Completed, HistoryStands
  <2>8. of \subseteq DOMAIN h.runs /\ DOMAIN h.runs \subseteq DOMAIN workspace.runs
    BY <1>3, <2>5, <2>6 DEF HistoryStands, Completed, HISTORY
  <2>9. step = "records" => Awaiting(h, of, page.found)
    BY <2>5, <2>6, <2>7, <2>8 DEF Awaiting, HISTORY
  <2>10. step = "render" => Renderable(h, page.found)
    BY <2>5, <2>6 DEF Renderable, HISTORY
  <2>11. step = "pins" => asked.surface = "overview"
    OBVIOUS
  <2>12. FoundHolds(page.found, h, workspace, page.dry)
    BY <2>4 DEF FoundHolds
  <2>13. step \in {"records", "pins", "render"}
    OBVIOUS
  <2> HIDE DEF step
  <2>14. ReadingsHold(page.step, page.history, page.of, page.records, page.links, page.found, page.resumed, page.gone, page.dry, workspace)'
    <3>1. ReadingsHold(step, h, of, page.records, page.links, page.found, page.resumed, page.gone, page.dry, workspace)
      BY <1>3, <2>9, <2>10, <2>11, <2>12, <2>13 DEF ReadingsHold, READING
    <3> QED BY <2>2, <2>3, <3>1 DEF ReadingsHold, Awaiting, Renderable, Deliverable, ResumedHolds, Earlier
  <2>15. RequestStands(page.step, workspace)'
    BY <1>2, <2>2, <2>3, <2>13 DEF RequestStands, OF_ONE, STEPS, HISTORY_READ, READING
  <2>16. EndsHold(page.gone, page.dry, workspace)'
    BY <1>2, <2>2, <2>3
  <2> QED BY <2>1, <2>2, <2>3, <2>4, <2>8, <2>14, <2>15, <2>16 DEF PageGoes, PageStands, NoAnswer
<1> QED BY <1>6, <1>7

\* A step from one reading to the next.
LEMMA ReadingGoes ==
  ASSUME PageGoes, Looks, UNCHANGED shown, page.step \in HISTORY_READ,
         NEW step \in HISTORY_READ, NEW of, NEW records, NEW links, NEW found, NEW resumed, NEW pins,
         page' = [step |-> step, history |-> page.history, of |-> of, records |-> records, links |-> links, found |-> found,
                  resumed |-> resumed, pins |-> pins, gone |-> page.gone, dry |-> page.dry],
         of \subseteq AllRuns,
         ReadingsHold(step, page.history, of, records, links, found, resumed, page.gone, page.dry, workspace)
  PROVE  PageGoes'
<1>1. asked' = asked /\ workspace' = workspace /\ shown' = shown
  BY DEF Looks
<1>2. ReadingsHold(page.step, page.history, page.of, page.records, page.links, page.found, page.resumed, page.gone, page.dry, workspace)'
  BY <1>1 DEF ReadingsHold, Awaiting, Renderable, Deliverable, ResumedHolds, Earlier
<1>3. RequestStands(page.step, workspace)'
  <2>1. RequestStands(page.step, workspace)
    BY DEF PageGoes, PageStands
  <2> QED BY <1>1, <2>1 DEF RequestStands, OF_ONE, STEPS, HISTORY_READ, READING
<1>4. EndsHold(page.gone, page.dry, workspace)'
  BY <1>1 DEF PageGoes, PageStands
<1> QED BY <1>1, <1>2, <1>3, <1>4 DEF PageGoes, PageStands, AllRuns, NoAnswer

\* What the page is when it reads on.
LEMMA Reading ==
  ASSUME PageGoes, page.step \in HISTORY_READ
  PROVE  /\ page = [step |-> page.step, history |-> page.history, of |-> page.of, records |-> page.records, links |-> page.links,
                    found |-> page.found, resumed |-> page.resumed, pins |-> page.pins, gone |-> page.gone, dry |-> page.dry]
         /\ page.of \subseteq AllRuns
         /\ HistoryStands(page.history, workspace, page.gone) /\ FoundHolds(page.found, page.history, workspace, page.dry)
         /\ page.step \in READING => Awaiting(page.history, page.of, page.found)
         /\ page.step \in {"links", "jobs"} => RecordsHold(page.history, page.of, page.records, workspace)
         /\ page.step = "jobs" => LinksHold(page.of, page.links, workspace)
         /\ page.step = "pins" => asked.surface = "overview"
         /\ page.step = "render" => Renderable(page.history, page.found)
         /\ page.step \in {"resume", "check"} => Deliverable(page.history, page.found)
         /\ page.step = "check" => ResumedHolds(page.resumed, workspace)
         /\ asked.signed /\ asked.organization = workspace.active /\ workspace.left \notin {"asked", "organizations", "scope"}
<1>1. RequestStands(page.step, workspace)
  BY DEF PageGoes, PageStands
<1>2. asked.signed /\ asked.organization = workspace.active /\ workspace.left \notin {"asked", "organizations", "scope"}
  BY <1>1 DEF RequestStands, OF_ONE, HISTORY_READ, READING
<1> QED BY <1>2 DEF PageGoes, PageStands, ReadingsHold, AllRuns

LEMMA RecordsGo ==
  ASSUME PageGoes, ReadRecords
  PROVE  PageGoes'
<1> DEFINE records == [r \in page.of |-> workspace.runs[r].record]
<1>1. page.step = "records" /\ page.step \in HISTORY_READ /\ page.step \in READING /\ Looks /\ UNCHANGED shown
      /\ page' = [page EXCEPT !.records = records, !.step = "links"]
  BY DEF ReadRecords, HISTORY_READ, READING
<1>2. RecordsHold(page.history, page.of, records, workspace)
  BY DEF RecordsHold
<1> HIDE DEF records
<1>3. page' = [step |-> "links", history |-> page.history, of |-> page.of, records |-> records, links |-> page.links,
               found |-> page.found, resumed |-> page.resumed, pins |-> page.pins, gone |-> page.gone, dry |-> page.dry]
  BY <1>1, Reading
<1>4. ReadingsHold("links", page.history, page.of, records, page.links, page.found, page.resumed, page.gone, page.dry, workspace)
  BY <1>1, <1>2, Reading DEF ReadingsHold
<1>5. "links" \in HISTORY_READ
  BY DEF HISTORY_READ, READING
<1> QED BY <1>1, <1>3, <1>4, <1>5, Reading, ReadingGoes

LEMMA LinksGo ==
  ASSUME PageGoes, ReadLinks
  PROVE  PageGoes'
<1> DEFINE links == [r \in page.of |-> workspace.runs[r].link]
<1>1. page.step = "links" /\ page.step \in HISTORY_READ /\ page.step \in READING /\ Looks /\ UNCHANGED shown
      /\ page' = [page EXCEPT !.links = links, !.step = "jobs"]
  BY DEF ReadLinks, HISTORY_READ, READING
<1>2. LinksHold(page.of, links, workspace)
  BY DEF LinksHold
<1> HIDE DEF links
<1>3. page' = [step |-> "jobs", history |-> page.history, of |-> page.of, records |-> page.records, links |-> links,
               found |-> page.found, resumed |-> page.resumed, pins |-> page.pins, gone |-> page.gone, dry |-> page.dry]
  BY <1>1, Reading
<1>4. ReadingsHold("jobs", page.history, page.of, page.records, links, page.found, page.resumed, page.gone, page.dry, workspace)
  BY <1>1, <1>2, Reading DEF ReadingsHold
<1>5. "jobs" \in HISTORY_READ
  BY DEF HISTORY_READ, READING
<1> QED BY <1>1, <1>3, <1>4, <1>5, Reading, ReadingGoes

LEMMA PinsGo ==
  ASSUME PageGoes, ReadPins
  PROVE  PageGoes'
<1>1. page.step = "pins" /\ page.step \in HISTORY_READ /\ Looks /\ UNCHANGED shown
      /\ page' = [page EXCEPT !.pins = workspace.pins, !.step = "render"]
  BY DEF ReadPins, HISTORY_READ, READING
<1>2. page' = [step |-> "render", history |-> page.history, of |-> page.of, records |-> page.records, links |-> page.links,
               found |-> page.found, resumed |-> page.resumed, pins |-> workspace.pins, gone |-> page.gone, dry |-> page.dry]
  BY <1>1, Reading
<1>3. Renderable(page.history, page.found)
  BY <1>1, Reading DEF Renderable
<1>4. ReadingsHold("render", page.history, page.of, page.records, page.links, page.found, page.resumed, page.gone, page.dry, workspace)
  BY <1>1, <1>3, Reading DEF ReadingsHold, READING
<1>5. "render" \in HISTORY_READ
  BY DEF HISTORY_READ, READING
<1> QED BY <1>1, <1>2, <1>4, <1>5, Reading, ReadingGoes

LEMMA ResumptionGoes ==
  ASSUME MissingIsNoWord, Sound(workspace), PageGoes, ResumeSession
  PROVE  PageGoes' \/ AnswerHolds'
<1> DEFINE v == VersionOf(asked.run)
           resumed == workspace.content[v]
<1>1. page.step = "resume" /\ page.step \in HISTORY_READ /\ Looks
  BY DEF ResumeSession, HISTORY_READ, READING
<1>2. Deliverable(page.history, page.found)
  BY <1>1, Reading
<1>3. CASE ~Member
  <2>1. Answered(NotThere)
    BY <1>3 DEF ResumeSession
  <2> QED BY <1>1, <1>3, <2>1, Refused DEF Member
<1>4. CASE Member
  <2>1. page' = [page EXCEPT !.resumed = resumed, !.step = "check"] /\ UNCHANGED shown
    BY <1>4 DEF ResumeSession
  <2>2. workspace.left = Missing
    BY <1>4 DEF Sound, MemberStays, Member
  <2>3. ResumedHolds(resumed, workspace)
    BY <2>2 DEF ResumedHolds, VersionOf
  <2> HIDE DEF resumed
  <2>4. page' = [step |-> "check", history |-> page.history, of |-> page.of, records |-> page.records, links |-> page.links,
                 found |-> page.found, resumed |-> resumed, pins |-> page.pins, gone |-> page.gone, dry |-> page.dry]
    BY <1>1, <2>1, Reading
  <2>5. ReadingsHold("check", page.history, page.of, page.records, page.links, page.found, resumed, page.gone, page.dry, workspace)
    BY <1>1, <1>2, <2>3, Reading DEF ReadingsHold, READING
  <2>6. "check" \in HISTORY_READ
    BY DEF HISTORY_READ, READING
  <2> QED BY <1>1, <2>1, <2>4, <2>5, <2>6, Reading, ReadingGoes
<1> QED BY <1>3, <1>4

\* What is found of a run is so when it is found.
LEMMA ProvenanceIsFound ==
  ASSUME MissingIsNoWord, PageGoes, page.step = "jobs", NEW r \in page.of, page.history.runs[r].state = "completed"
  PROVE  ProvenanceHolds(ProvenanceOf(r), workspace.runs[r], workspace, page.dry)
<1> DEFINE run == workspace.runs[r]
           p == ProvenanceOf(r)
<1>1. page.step \in HISTORY_READ /\ page.step \in READING
  BY DEF HISTORY_READ, READING
<1>2. page.records[r] = run.record /\ page.links[r] = run.link
  BY <1>1, Reading DEF RecordsHold, LinksHold
<1>3. r \in Foreign <=> run.record # Missing /\ run.link = "foreign"
  BY <1>2 DEF Foreign
<1>4. LiveIn(workspace, run.version) /\ run.version \in page.dry => run.version \in workspace.restored
  BY DEF PageGoes, PageStands, EndsHold
<1>5. CASE run.record = Missing \/ run.link = "foreign"
  <2>1. p = Missing
    BY <1>2, <1>3, <1>5 DEF ProvenanceOf
  <2> QED BY <1>5, <2>1 DEF ProvenanceHolds
<1>6. CASE run.record # Missing /\ run.link # "foreign"
  <2> DEFINE reachable == page.links[r] = "own" /\ ContentIsLive(VersionOf(r))
             sections == page.records[r].sections
             families == page.records[r].families
  <2>1. p = [sections |-> sections, families |-> families, reachable |-> reachable]
    BY <1>2, <1>3, <1>6 DEF ProvenanceOf
  <2>2. families = run.record.families /\ (reachable <=> run.link = "own" /\ LiveIn(workspace, run.version))
    BY <1>2 DEF ContentIsLive, LiveIn, VersionOf
  <2> HIDE DEF reachable, sections, families
  <2>3. p # Missing
    <3>1. DOMAIN p = {"sections", "families", "reachable"}
      BY <2>1
    <3> QED BY <3>1 DEF MissingIsNoWord
  <2>4. p.families = families /\ p.reachable = reachable
    BY <2>1
  <2> HIDE DEF p, run
  <2>5. ProvenanceHolds(p, run, workspace, page.dry)
    BY <1>4, <1>6, <2>2, <2>3, <2>4 DEF ProvenanceHolds
  <2> QED BY <2>5 DEF p, run
<1> QED BY <1>5, <1>6

LEMMA JobsGo ==
  ASSUME MissingIsNoWord, Sound(workspace), PageGoes, ReadJobs
  PROVE  PageGoes' \/ AnswerHolds'
<1> DEFINE h == page.history
           predecessor == asked.surface = "analysis" /\ page.of # {asked.run}
           next == IF asked.surface = "analysis" /\ ~predecessor THEN Earlier(h) ELSE Missing
           of == IF next = Missing THEN {} ELSE {next}
           step == IF next # Missing THEN "records" ELSE IF asked.surface = "artifact" THEN "resume" ELSE "render"
           found == [r \in page.of \cup DOMAIN page.found |-> IF r \in page.of THEN ProvenanceOf(r) ELSE page.found[r]]
           refused == \/ ~predecessor /\ Foreign # {}
                      \/ asked.surface = "artifact" /\ ~Resumable(found[asked.run])
<1>1. page.step = "jobs" /\ page.step \in HISTORY_READ /\ page.step \in READING /\ Looks
  BY DEF ReadJobs, HISTORY_READ, READING
<1>2. HistoryStands(h, workspace, page.gone) /\ FoundHolds(page.found, h, workspace, page.dry)
      /\ Awaiting(h, page.of, page.found) /\ LinksHold(page.of, page.links, workspace)
  BY <1>1, Reading
<1>3. DOMAIN h.runs \subseteq AllRuns
  BY <1>2 DEF HistoryStands, AllRuns
<1>4. CASE refused
  <2>1. Answered(NotThere)
    BY <1>4 DEF ReadJobs
  <2>2. \A r \in Foreign : r \in page.of /\ r \in AllRuns /\ workspace.runs[r].link = "foreign"
    BY <1>2, <1>3 DEF Foreign, Awaiting, LinksHold
  <2>3. asked.surface = "analyses" => \E r \in AllRuns : workspace.runs[r].link = "foreign"
    BY <1>4, <2>2
  <2>4. asked.surface = "analysis" => workspace.runs[asked.run].link = "foreign"
    BY <1>4, <2>2
  <2>5. asked.surface \notin {"overview", "data"}
    BY <1>2 DEF Awaiting
  <2> QED BY <1>1, <2>1, <2>3, <2>4, <2>5, Refused
<1>5. CASE ~refused
  <2>1. page' = [page EXCEPT !.found = found, !.of = of, !.step = step] /\ UNCHANGED shown
    BY <1>5 DEF ReadJobs
  <2>2. DOMAIN found = page.of \cup DOMAIN page.found
        /\ \A r \in DOMAIN found : found[r] = IF r \in page.of THEN ProvenanceOf(r) ELSE page.found[r]
    OBVIOUS
  <2>3. page.of \subseteq DOMAIN h.runs
    BY <1>2 DEF Awaiting
  <2>4. FoundHolds(found, h, workspace, page.dry)
    <3> HIDE DEF found, h
    <3> SUFFICES ASSUME NEW r \in DOMAIN found
                 PROVE  r \in DOMAIN h.runs
                        /\ (h.runs[r].state = "completed" => ProvenanceHolds(found[r], workspace.runs[r], workspace, page.dry))
      BY DEF FoundHolds
    <3>1. CASE r \in page.of
      BY <1>1, <2>2, <2>3, <3>1, ProvenanceIsFound DEF h
    <3>2. CASE r \notin page.of
      BY <1>2, <2>2, <3>2 DEF FoundHolds
    <3> QED BY <3>1, <3>2
  <2> HIDE DEF found
  <2>5. asked.surface = "analysis" => asked.run \in DOMAIN h.runs /\ asked.run \in DOMAIN found
    BY <1>2, <2>2 DEF Awaiting
  <2>6. next # Missing => next \in DOMAIN h.runs /\ asked.surface = "analysis" /\ next = Earlier(h)
    <3> SUFFICES ASSUME next # Missing PROVE next \in DOMAIN h.runs /\ asked.surface = "analysis" /\ next = Earlier(h)
      OBVIOUS
    <3>1. asked.surface = "analysis" /\ next = Earlier(h) /\ asked.run \in DOMAIN h.runs
      BY <2>5
    <3>2. DOMAIN h.runs \subseteq Int /\ IsFiniteSet(DOMAIN h.runs) /\ Missing \notin DOMAIN h.runs
          /\ \A r \in DOMAIN h.runs : h.runs[r].started \in Int
      BY <1>2, HistoryIsNumbered
    <3>3. Earlier(h) \in BeforeIt(h.runs, asked.run)
      BY <3>1, <3>2, PredecessorIsLast DEF Earlier
    <3> QED BY <3>1, <3>3 DEF BeforeIt
  <2>7. asked.surface = "analysis" /\ next = Missing /\ Earlier(h) # Missing => Earlier(h) \in DOMAIN found
    BY <1>2, <2>2 DEF Awaiting
  <2>8. step = "records" => Awaiting(h, of, found)
    BY <2>5, <2>6 DEF Awaiting
  <2>9. step = "render" => Renderable(h, found)
    <3> SUFFICES ASSUME step = "render" PROVE Renderable(h, found)
      OBVIOUS
    <3>1. next = Missing /\ asked.surface \in {"analyses", "analysis"}
      BY <1>2 DEF Awaiting
    <3>2. asked.surface = "analyses" => Completed(h) \subseteq DOMAIN found
      BY <1>2, <2>2 DEF Awaiting
    <3> HIDE DEF next
    <3> QED BY <2>5, <2>7, <3>1, <3>2 DEF Renderable
  <2>10. step = "resume" => Deliverable(h, found)
    <3> SUFFICES ASSUME step = "resume" PROVE Deliverable(h, found)
      OBVIOUS
    <3>1. asked.surface = "artifact" /\ page.of = {asked.run} /\ asked.run \in Completed(h)
          /\ REQUIRED_ARTIFACT_KINDS \subseteq h.runs[asked.run].bound
      BY <1>2 DEF Awaiting
    <3>2. asked.run \in DOMAIN found /\ Resumable(found[asked.run])
      BY <1>5, <2>2, <3>1
    <3> HIDE DEF next
    <3> QED BY <3>1, <3>2 DEF Deliverable
  <2>11. step \in {"records", "resume", "render"} /\ of \subseteq AllRuns
    BY <1>3, <2>6
  <2> HIDE DEF step, of, next
  <2>12. page' = [step |-> step, history |-> page.history, of |-> of, records |-> page.records, links |-> page.links,
                  found |-> found, resumed |-> page.resumed, pins |-> page.pins, gone |-> page.gone, dry |-> page.dry]
    BY <1>1, <2>1, Reading
  <2>13. ReadingsHold(step, page.history, of, page.records, page.links, found, page.resumed, page.gone, page.dry, workspace)
    BY <1>2, <2>4, <2>8, <2>9, <2>10, <2>11 DEF ReadingsHold, READING
  <2>14. step \in HISTORY_READ
    BY <2>11 DEF HISTORY_READ, READING
  <2> QED BY <1>1, <2>1, <2>11, <2>12, <2>13, <2>14, ReadingGoes
<1> HIDE DEF refused
<1> QED BY <1>4, <1>5

----------------------------------------------------------------------------
(* What is answered.                                                       *)

\* Nothing of a history is of what had ended before the request.
LEMMA KeptIsNotGone ==
  ASSUME Sound(workspace), NEW h, NEW gone, gone \subseteq workspace.revoked, HistoryStands(h, workspace, gone),
         NEW o, o \in DOMAIN h.runs \/ o \in DOMAIN h.versions
  PROVE  o \notin UNION {{v} \cup RunsOf(v) : v \in gone}
<1>1. gone \subseteq AllVersions /\ AllVersions \cap AllRuns = {}
  BY WorkspaceParts DEF Sound, Recorded, AllVersions, AllRuns
<1> SUFFICES ASSUME NEW v \in gone, o = v \/ o \in RunsOf(v) PROVE FALSE
  OBVIOUS
<1>2. v \notin DOMAIN h.versions
  BY DEF HistoryStands
<1>3. DOMAIN h.runs \subseteq AllRuns /\ DOMAIN h.versions \subseteq AllVersions
  BY DEF HistoryStands, AllRuns, AllVersions
<1>4. CASE o = v
  BY <1>1, <1>2, <1>3, <1>4
<1>5. CASE o \in RunsOf(v)
  <2>1. o \in AllRuns /\ workspace.runs[o].version = v
    BY <1>5 DEF RunsOf, VersionOf
  <2>2. o \in DOMAIN h.runs
    BY <1>1, <1>3, <2>1
  <2>3. h.runs[o].version = v /\ h.runs[o].version \in DOMAIN h.versions
    BY <2>1, <2>2 DEF HistoryStands, RunStands
  <2> QED BY <1>2, <2>3
<1> QED BY <1>4, <1>5

LEMMA ShownIsNotGone ==
  ASSUME Sound(workspace), PageGoes, page.step \in HISTORY_READ, NEW answer, Answered(answer), Looks,
         \A o \in ShownAsKept' : \/ o \in DOMAIN page.history.runs \/ o \in DOMAIN page.history.versions
                                 \/ o \in DOMAIN HistoryForScope.runs \/ o \in DOMAIN HistoryForScope.versions
  PROVE  EndedStaysEnded'
<1>1. page.gone \subseteq workspace.revoked
  BY DEF PageGoes, PageStands, EndsHold
<1>2. HistoryStands(page.history, workspace, page.gone) /\ HistoryStands(HistoryForScope, workspace, page.gone)
  BY <1>1, Reading, SnapshotStands
<1>3. \A o \in ShownAsKept' : o \notin UNION {{v} \cup RunsOf(v) : v \in page.gone}
  BY <1>1, <1>2, KeptIsNotGone
<1>4. page'.gone = page.gone /\ workspace' = workspace
  BY AnswerKeeps
<1>5. (UNION {{v} \cup RunsOf(v) : v \in page.gone})' = UNION {{v} \cup RunsOf(v) : v \in page.gone}
  BY <1>4 DEF RunsOf, VersionOf, AllRuns
<1> QED BY <1>3, <1>5 DEF EndedStaysEnded

\* The word for a run of a history, with what was found of it.
WordOf(h, r, found) ==
  IF r \in DOMAIN found THEN AvailabilityKey(ReportKey(h.runs[r], BoundIn(h, r)), found[r])
  ELSE ReportKey(h.runs[r], BoundIn(h, r))

LEMMA WordIsTrue ==
  ASSUME Sound(workspace), NEW h, NEW found, NEW gone, NEW dry, HistoryStands(h, workspace, gone), FoundHolds(found, h, workspace, dry),
         NEW r \in DOMAIN h.runs, h.runs[r].state = "completed" => r \in DOMAIN found
  PROVE  LET word == WordOf(h, r, found)
             run == workspace.runs[r]
         IN /\ word = "available" => /\ run.state = "completed" /\ run.bound = REQUIRED_ARTIFACT_KINDS
                                     /\ run.record # Missing /\ run.link = "own"
                                     /\ run.version \in dry => run.version \in workspace.restored
            /\ word = "unreachable" => \/ run.record = Missing \/ run.link # "own"
                                       \/ ~LiveIn(workspace, run.version) \/ run.version \in workspace.restored
            /\ word = "unavailable" => run.state = "failed"
            /\ word = "not_yet" => h.runs[r].state = "started"
            /\ word = Unrenderable => run.state = "completed" /\ run.bound # REQUIRED_ARTIFACT_KINDS
            /\ h.runs[r].state = "completed" /\ word # Unrenderable => word \in {"available", "unreachable"}
<1> DEFINE own == h.runs[r]
           run == workspace.runs[r]
           base == ReportKey(own, BoundIn(h, r))
           word == WordOf(h, r, found)
<1>1. /\ own.state \in {"started", "completed", "failed"} /\ BoundIn(h, r) = own.bound /\ own.bound \subseteq REQUIRED_ARTIFACT_KINDS
      /\ RunStands(own, run)
  BY DEF HistoryStands
<1>2. own.state # "started" => run.state = own.state /\ run.bound = own.bound
  BY <1>1 DEF RunStands
<1>3. base = CASE own.state = "started" -> "not_yet"
               [] own.state = "completed" /\ REQUIRED_ARTIFACT_KINDS \subseteq own.bound -> "available"
               [] own.state = "completed" /\ ~(REQUIRED_ARTIFACT_KINDS \subseteq own.bound) -> Unrenderable
               [] OTHER -> "unavailable"
  BY <1>1 DEF ReportKey
<1>4. CASE own.state = "started"
  <2>1. base = "not_yet"
    BY <1>3, <1>4
  <2>2. word = "not_yet"
    BY <2>1 DEF WordOf, AvailabilityKey
  <2> QED BY <1>4, <2>2 DEF Unrenderable
<1>5. CASE own.state = "failed"
  <2>1. base = "unavailable"
    BY <1>3, <1>5
  <2>2. word = "unavailable"
    BY <2>1 DEF WordOf, AvailabilityKey
  <2> QED BY <1>2, <1>5, <2>2 DEF Unrenderable
<1>6. CASE own.state = "completed" /\ ~(REQUIRED_ARTIFACT_KINDS \subseteq own.bound)
  <2>1. base = Unrenderable
    BY <1>3, <1>6
  <2>2. word = Unrenderable
    BY <2>1 DEF WordOf, AvailabilityKey, Unrenderable
  <2> QED BY <1>2, <1>6, <2>2 DEF Unrenderable
<1>7. CASE own.state = "completed" /\ REQUIRED_ARTIFACT_KINDS \subseteq own.bound
  <2>1. base = "available" /\ r \in DOMAIN found
    <3>1. r \in DOMAIN found
      BY <1>7
    <3>2. base = "available"
      <4> HIDE DEF base
      <4> QED BY <1>3, <1>7
    <3> QED BY <3>1, <3>2
  <2>2. ProvenanceHolds(found[r], run, workspace, dry)
    BY <1>7, <2>1 DEF FoundHolds
  <2>3. word = IF ~Resumable(found[r]) THEN "unreachable" ELSE "available"
    BY <2>1 DEF WordOf, AvailabilityKey
  <2>4. run.state = "completed" /\ run.bound = REQUIRED_ARTIFACT_KINDS
    BY <1>1, <1>2, <1>7
  <2> HIDE DEF word, run, own, base
  <2>5. CASE Resumable(found[r])
    <3>1. /\ run.record # Missing /\ run.link = "own"
          /\ run.version \in dry => run.version \in workspace.restored
      BY <2>2, <2>5 DEF Resumable, ProvenanceHolds
    <3>2. word = "available"
      BY <2>3, <2>5
    <3> QED BY <2>4, <3>1, <3>2 DEF Unrenderable, word, run, own
  <2>6. CASE ~Resumable(found[r])
    <3>1. \/ run.record = Missing \/ run.link # "own"
          \/ ~LiveIn(workspace, run.version) \/ run.version \in workspace.restored
      BY <2>2, <2>6 DEF Resumable, ProvenanceHolds
    <3>2. word = "unreachable"
      BY <2>3, <2>6
    <3> QED BY <2>4, <3>1, <3>2 DEF Unrenderable, word, run, own
  <2> QED BY <2>5, <2>6
<1> QED BY <1>1, <1>4, <1>5, <1>6, <1>7

LEMMA HandOffGoes ==
  ASSUME MissingIsNoWord, Sound(workspace), PageGoes, HandOff
  PROVE  AnswerHolds'
<1> DEFINE v == VersionOf(asked.run)
           h == page.history
           run == workspace.runs[asked.run]
           answer == [kind |-> "handed", session |-> v, scope |-> workspace.active, job |-> asked.run]
<1>1. page.step = "check" /\ page.step \in HISTORY_READ /\ Looks
  BY DEF HandOff, HISTORY_READ, READING
<1>2. HistoryStands(h, workspace, page.gone) /\ Deliverable(h, page.found) /\ ResumedHolds(page.resumed, workspace)
      /\ FoundHolds(page.found, h, workspace, page.dry) /\ asked.signed /\ asked.organization = workspace.active
  BY <1>1, Reading
<1>3. CASE ~StillLive
  <2>1. Answered(NotThere)
    BY <1>3 DEF HandOff
  <2>2. asked.surface = "artifact"
    BY <1>2 DEF Deliverable
  <2> QED BY <1>1, <2>1, <2>2, Refused
<1>4. CASE StillLive
  <2>1. Answered(answer)
    BY <1>4 DEF HandOff
  <2>2. page'.step = "done" /\ asked' = asked /\ workspace' = workspace /\ shown' = answer /\ page'.of \subseteq AllRuns'
        /\ page'.dry = page.dry /\ page'.gone = page.gone
    <3> HIDE DEF answer
    <3> QED BY <1>1, <2>1, AnswerKeeps
  <2>3. shown'.kind = "handed" /\ shown'.session = v /\ shown'.scope = workspace.active /\ shown'.job = asked.run
    BY <2>2
  <2>4. /\ asked.run \in DOMAIN h.runs /\ h.runs[asked.run].state = "completed" /\ asked.run \in DOMAIN page.found
        /\ REQUIRED_ARTIFACT_KINDS \subseteq h.runs[asked.run].bound /\ Resumable(page.found[asked.run])
    BY <1>2 DEF Deliverable, Completed
  <2>5. /\ asked.run \in AllRuns /\ run.bound = h.runs[asked.run].bound /\ run.bound = REQUIRED_ARTIFACT_KINDS
        /\ v = h.runs[asked.run].version /\ v \in DOMAIN h.versions
    <3> DEFINE own == h.runs[asked.run]
    <3>1. asked.run \in AllRuns /\ RunStands(own, run) /\ own.version \in DOMAIN h.versions
          /\ own.bound \subseteq REQUIRED_ARTIFACT_KINDS
      BY <1>2, <2>4 DEF HistoryStands, AllRuns
    <3>2. run.bound = own.bound /\ run.version = own.version
      BY <2>4, <3>1 DEF RunStands
    <3> QED BY <2>4, <3>1, <3>2 DEF VersionOf
  <2>6. run.link = "own" /\ (v \in page.dry => v \in workspace.restored)
    BY <1>2, <2>4 DEF FoundHolds, ProvenanceHolds, Resumable, VersionOf
  <2>7. /\ workspace.clock < workspace.content[v].expires
        /\ workspace.content[v].requested => workspace.content[v].since = "check" \/ v \in workspace.restored
        /\ workspace.left \in {Missing, "check"}
    BY <1>2, <1>4 DEF ResumedHolds, StillLive, VersionOf
  <2>8. asked.run \in RunsOf(v)
    BY <2>5 DEF RunsOf
  <2>9. HandoffIsCurrent'
    <3>1. RunsOf(v)' = RunsOf(v)
      BY <2>2 DEF RunsOf, VersionOf, AllRuns
    <3>2. shown'.job \in RunsOf(shown.session)'
      BY <2>2, <2>3, <2>8 DEF RunsOf, VersionOf, AllRuns
    <3> HIDE DEF v, answer
    <3>3. /\ asked'.signed /\ shown'.scope = asked'.organization /\ workspace'.left \in {Missing, "check"}
          /\ workspace'.runs[shown'.job].link = "own" /\ workspace'.runs[shown'.job].bound = REQUIRED_ARTIFACT_KINDS
          /\ workspace'.clock < workspace'.content[shown'.session].expires
          /\ workspace'.content[shown'.session].requested =>
               workspace'.content[shown'.session].since = "check" \/ shown'.session \in workspace'.restored
          /\ shown'.session \notin page'.dry \ workspace'.restored
      BY <1>2, <2>2, <2>3, <2>5, <2>6, <2>7
    <3> QED BY <3>2, <3>3 DEF HandoffIsCurrent
  <2>10. EndedStaysEnded'
    <3>1. ShownAsKept' \subseteq {v}
      BY <2>3 DEF ShownAsKept, Shows
    <3> HIDE DEF answer, v
    <3> QED BY <1>1, <2>1, <2>5, <3>1, ShownIsNotGone
  <2> HIDE DEF answer, v
  <2>11. ReportWordIsTrue'
    BY <2>3 DEF ReportWordIsTrue, Words, Shows
  <2>12. HistoryIsOfOneMoment' /\ LeaversSeeNothing' /\ NoticeIsFair' /\ OneRecordHidesNoOther'
    BY <2>3 DEF HistoryIsOfOneMoment, LeaversSeeNothing, NoticeIsFair, Shows, HISTORY, OneRecordHidesNoOther
  <2> QED BY <2>2, <2>3, <2>9, <2>10, <2>11, <2>12 DEF AnswerHolds, KINDS
<1> QED BY <1>3, <1>4

\* A list is what stands at each of its places.
LEMMA ListIsIndexed ==
  ASSUME NEW objects, NEW at
  PROVE  LatestFirst(objects, at) = [n \in 1..Cardinality(objects) |-> LatestFirst(objects, at)[n]]
BY DEF LatestFirst

\* The recent objects are ones that are kept when the page is rendered.
LEMMA RecentIsKept ==
  ASSUME Sound(workspace)
  PROVE  Range(RecentActivity) \subseteq DOMAIN HistoryForScope.versions \cup DOMAIN HistoryForScope.runs
<1> DEFINE kept == {v \in AllVersions : Kept(v)} \cup {r \in AllRuns : KeptRun(r)}
           at == [o \in kept |-> OccurredAt(o)]
           listed == LatestFirst(kept, at)
           size == Cardinality(kept)
           last == IF Len(listed) < RECENT THEN Len(listed) ELSE RECENT
<1>1. /\ AllVersions \subseteq Int /\ AllRuns \subseteq Int /\ IsFiniteSet(AllVersions) /\ IsFiniteSet(AllRuns)
      /\ AllVersions \cap AllRuns = {}
  BY DEF Sound, Recorded, AllVersions, AllRuns
<1>2. kept \in SUBSET Int /\ IsFiniteSet(kept)
  <2>1. IsFiniteSet(AllVersions \cup AllRuns)
    BY <1>1, FS_Union
  <2>2. kept \subseteq AllVersions \cup AllRuns
    OBVIOUS
  <2> HIDE DEF kept
  <2> QED BY <1>1, <2>1, <2>2, FS_Subset
<1>3. \A o \in kept : OccurredAt(o) \in Int
  <2> SUFFICES ASSUME NEW o \in AllVersions \cup AllRuns PROVE OccurredAt(o) \in Int
    OBVIOUS
  <2>1. CASE o \in AllVersions
    <3>1. OccurredAt(o) = workspace.versions[o].created
      BY <1>1, <2>1 DEF OccurredAt
    <3> QED BY <2>1, <3>1, WorkspaceParts DEF VersionIsRecorded
  <2>2. CASE o \in AllRuns
    <3>1. o \notin AllVersions /\ RunIsRecorded(workspace.runs[o])
      BY <1>1, <2>2, WorkspaceParts
    <3> QED BY <2>2, <3>1 DEF OccurredAt, RunIsRecorded
  <2> QED BY <2>1, <2>2
<1>4. at \in [kept -> Int]
  <2> HIDE DEF kept
  <2> QED BY <1>3
<1>5. size \in Nat /\ DOMAIN listed = 1..size /\ \A n \in 1..size : listed[n] \in kept
  <2> HIDE DEF kept, at
  <2> QED BY <1>2, <1>4, Ranked
<1>6. listed \in Seq(kept) /\ Len(listed) = size
  <2>1. listed = [n \in 1..size |-> listed[n]]
    BY ListIsIndexed
  <2> HIDE DEF kept, at, listed, size
  <2> QED BY <1>5, <2>1
<1>7. last \in Int /\ last <= size /\ RecentActivity = SubSeq(listed, 1, last)
  <2>1. RecentActivity = SubSeq(listed, 1, last)
    BY DEF RecentActivity
  <2> HIDE DEF listed, kept, size
  <2> QED BY <1>5, <1>6, <2>1 DEF RECENT
<1> HIDE DEF listed, kept, last, at, size
<1>8. \A i \in 1..last : listed[i] \in kept
  BY <1>5, <1>7
<1>9. SubSeq(listed, 1, last) \in Seq(kept)
  BY <1>7, <1>8, SubSeqProperties
<1>10. Range(RecentActivity) \subseteq kept
  BY <1>7, <1>9 DEF Range
<1> QED BY <1>10 DEF kept, HistoryForScope

\* The latest work of a history is started no earlier than any other.
LEMMA WorkIsLatest ==
  ASSUME Sound(workspace), NEW h, NEW gone, HistoryStands(h, workspace, gone), DOMAIN h.runs # {}
  PROVE  LatestWork(h) \in DOMAIN h.runs /\ \A r \in DOMAIN h.runs : h.runs[r].started <= h.runs[LatestWork(h)].started
<1> DEFINE runs == DOMAIN h.runs
           at == [r \in runs |-> workspace.runs[r].started]
           latest == LatestWork(h)
<1>1. runs \in SUBSET Int /\ IsFiniteSet(runs)
      /\ \A r \in runs : h.runs[r].started \in Int /\ workspace.runs[r].started = h.runs[r].started
  BY HistoryIsNumbered DEF RunStands
<1>2. latest = LatestFirst(runs, at)[1]
  BY DEF LatestWork, NewestFirst
<1> HIDE DEF runs
<1>3. at \in [runs -> Int]
  BY <1>1
<1>4. latest \in runs /\ \A r \in runs : r = latest \/ Later(at, latest, r)
  <2> HIDE DEF latest, at
  <2> QED BY <1>1, <1>2, <1>3, FirstIsLatest DEF runs
<1> HIDE DEF latest
<1>5. \A r \in runs : h.runs[r].started <= h.runs[latest].started
  <2> SUFFICES ASSUME NEW r \in runs PROVE h.runs[r].started <= h.runs[latest].started
    OBVIOUS
  <2>1. at[r] = h.runs[r].started /\ at[latest] = h.runs[latest].started
    BY <1>1, <1>4
  <2> HIDE DEF at
  <2> QED BY <1>1, <1>4, <2>1 DEF Later
<1> QED BY <1>4, <1>5 DEF latest, runs

\* What every page of an organization has in common: whose it is.
LEMMA PageIsOfAMember ==
  ASSUME PageGoes, page.step \in HISTORY_READ, NEW answer, Answered(answer), Looks,
         answer.kind \in {"overview", "data", "analyses", "analysis"},
         EndedStaysEnded', HistoryIsOfOneMoment', ReportWordIsTrue', NoticeIsFair'
  PROVE  AnswerHolds'
<1>1. page'.step = "done" /\ page'.of \subseteq AllRuns' /\ shown' = answer /\ asked' = asked /\ workspace' = workspace
  BY AnswerKeeps
<1>2. LeaversSeeNothing'
  BY <1>1, Reading DEF LeaversSeeNothing
<1>3. HandoffIsCurrent' /\ OneRecordHidesNoOther'
  BY <1>1 DEF HandoffIsCurrent, OneRecordHidesNoOther, Shows
<1> QED BY <1>1, <1>2, <1>3 DEF AnswerHolds, KINDS

LEMMA OverviewGoes ==
  ASSUME Sound(workspace), PageGoes, page.step = "render", asked.surface = "overview", Answered(OverviewView(page.history)), Looks
  PROVE  AnswerHolds'
<1> DEFINE h == page.history
           answer == OverviewView(h)
<1>1. page.step \in HISTORY_READ
  BY DEF HISTORY_READ
<1>2. HistoryStands(h, workspace, page.gone)
  BY <1>1, Reading
<1>3. /\ answer.kind = "overview" /\ answer.latest = LatestWork(h) /\ answer.recent = RecentActivity
      /\ answer.processing \subseteq DOMAIN h.runs /\ answer.attention \subseteq DOMAIN h.runs
  BY DEF OverviewView
<1> HIDE DEF answer
<1>4. shown' = answer /\ page'.history = h
  BY AnswerKeeps DEF answer
<1>5. LatestWork(h) = Missing \/ LatestWork(h) \in DOMAIN h.runs
  BY <1>2, WorkIsLatest DEF LatestWork
<1>6. EndedStaysEnded'
  <2>1. ShownAsKept' = ({answer.latest} \ {Missing}) \cup answer.processing \cup answer.attention \cup Range(answer.recent)
    BY <1>3, <1>4 DEF ShownAsKept, Shows
  <2>2. \A o \in ShownAsKept' : \/ o \in DOMAIN page.history.runs \/ o \in DOMAIN page.history.versions
                                \/ o \in DOMAIN HistoryForScope.runs \/ o \in DOMAIN HistoryForScope.versions
    BY <1>3, <1>5, <2>1, RecentIsKept
  <2> QED BY <1>1, <2>2, ShownIsNotGone
<1>7. HistoryIsOfOneMoment'
  <2>1. \A r \in DOMAIN h.runs : h.runs[r].started <= h.runs[LatestWork(h)].started
    BY <1>2, WorkIsLatest
  <2> QED BY <1>3, <1>4, <2>1 DEF HistoryIsOfOneMoment, Shows
<1>8. ReportWordIsTrue' /\ NoticeIsFair'
  BY <1>3, <1>4 DEF ReportWordIsTrue, Words, NoticeIsFair, Shows
<1> QED BY <1>1, <1>3, <1>6, <1>7, <1>8, PageIsOfAMember DEF answer

LEMMA DataGoes ==
  ASSUME Sound(workspace), PageGoes, page.step = "render", asked.surface = "data", Answered(DataView(page.history)), Looks
  PROVE  AnswerHolds'
<1> DEFINE h == page.history
           answer == DataView(h)
<1>1. page.step \in HISTORY_READ
  BY DEF HISTORY_READ
<1>2. HistoryStands(h, workspace, page.gone)
  BY <1>1, Reading
<1>3. answer.kind = "data" /\ answer.rows = {DataRow(h, v) : v \in DOMAIN h.versions}
  BY DEF DataView
<1> HIDE DEF answer
<1>4. shown' = answer /\ page'.history = h /\ workspace' = workspace
  BY AnswerKeeps DEF answer
<1>5. ASSUME NEW v \in DOMAIN h.versions
      PROVE  LET row == DataRow(h, v) IN
             /\ row.version = v /\ row.uses = {r \in DOMAIN h.runs : h.runs[r].version = v}
             /\ row.readiness = "in_use" <=> h.versions[v].sealed
  <2> DEFINE uses == {r \in DOMAIN h.runs : h.runs[r].version = v}
  <2>1. DataRow(h, v) = [version |-> v, uses |-> uses, readiness |-> Readiness(h.versions[v], uses)]
    BY DEF DataRow
  <2> HIDE DEF uses
  <2>2. Readiness(h.versions[v], uses) = "in_use" <=> h.versions[v].sealed
    BY DEF Readiness
  <2> QED BY <2>1, <2>2 DEF uses
<1>6. EndedStaysEnded'
  <2>1. ShownAsKept' = UNION {{row.version} \cup row.uses : row \in answer.rows}
    BY <1>3, <1>4 DEF ShownAsKept, Shows
  <2>2. \A o \in ShownAsKept' : o \in DOMAIN h.runs \/ o \in DOMAIN h.versions
    BY <1>3, <1>5, <2>1
  <2> QED BY <1>1, <2>2, ShownIsNotGone DEF answer
<1>7. HistoryIsOfOneMoment'
  <2>1. ASSUME NEW row \in answer.rows
        PROVE  /\ row.readiness = "in_use" => \E r \in AllRuns : workspace.runs[r].version = row.version /\ workspace.runs[r].state = "completed"
               /\ (\E r \in row.uses : h.runs[r].state = "completed") => row.readiness = "in_use"
    <3>1. PICK v \in DOMAIN h.versions : row = DataRow(h, v)
      BY <1>3
    <3>2. h.versions[v].sealed => \E r \in AllRuns : workspace.runs[r].version = v /\ workspace.runs[r].state = "completed"
      BY <1>2 DEF HistoryStands, AllRuns
    <3>3. \A r \in DOMAIN h.runs : h.runs[r].version = v /\ h.runs[r].state = "completed" => h.versions[v].sealed
      BY <1>2 DEF HistoryStands
    <3> QED BY <1>5, <3>1, <3>2, <3>3
  <2>2. ASSUME NEW row \in answer.rows, row.readiness = "in_use"
        PROVE  \E r \in RunsOf(row.version)' : workspace'.runs[r].state = "completed"
    <3>1. PICK r \in AllRuns : workspace.runs[r].version = row.version /\ workspace.runs[r].state = "completed"
      BY <2>1, <2>2
    <3>2. r \in {q \in AllRuns' : workspace'.runs[q].version = row.version}
      BY <1>4, <3>1 DEF AllRuns
    <3> QED BY <1>4, <3>1, <3>2 DEF RunsOf, VersionOf
  <2>3. \A row \in shown'.rows :
          /\ row.readiness = "in_use" => \E r \in RunsOf(row.version)' : workspace'.runs[r].state = "completed"
          /\ (\E r \in row.uses : page'.history.runs[r].state = "completed") => row.readiness = "in_use"
    BY <1>4, <2>1, <2>2
  <2> QED BY <1>3, <1>4, <2>3 DEF HistoryIsOfOneMoment, Shows
<1>8. ReportWordIsTrue' /\ NoticeIsFair'
  BY <1>3, <1>4 DEF ReportWordIsTrue, Words, NoticeIsFair, Shows
<1> QED BY <1>1, <1>3, <1>6, <1>7, <1>8, PageIsOfAMember DEF answer

----------------------------------------------------------------------------
(* The list of analyses.                                                   *)

RowOf(h, r, found) == RowAvailability(SpineRow(h, r), found)
RowsOf(h, found) == LET spine == SpineRows(h) IN [n \in DOMAIN spine |-> RowAvailability(spine[n], found)]
Listed(h) == DOMAIN h.runs \cup (h.graves \cap AllRuns)

\* What a row says of its run.
RowSays(row, r, h, found) ==
  /\ row.run = r /\ (row.deleted <=> r \in h.graves)
  /\ row.data = IF row.deleted THEN "deleted" ELSE "kept"
  /\ row.deleted => row.report = Missing
  /\ ~row.deleted => r \in DOMAIN h.runs /\ row.state = h.runs[r].state /\ row.report = WordOf(h, r, found)

LEMMA RowOfRun ==
  ASSUME NEW h, NEW found, NEW gone, HistoryStands(h, workspace, gone), NEW r \in Listed(h)
  PROVE  RowSays(RowOf(h, r, found), r, h, found)
<1> DEFINE row == SpineRow(h, r)
           shut == RowOf(h, r, found)
<1>1. CASE r \in h.graves
  <2> DEFINE data == DataReference(h, VersionOf(r))
  <2>1. row = [run |-> r, deleted |-> TRUE, state |-> Missing, report |-> Missing, data |-> data]
    BY <1>1 DEF SpineRow
  <2>2. VersionOf(r) \in h.graves
    BY <1>1 DEF HistoryStands, Listed, AllRuns, VersionOf
  <2>3. data = "deleted"
    BY <2>2 DEF DataReference
  <2> HIDE DEF data, row
  <2>4. row.deleted = TRUE
    BY <2>1
  <2>5. shut = row
    BY <2>4 DEF RowOf, RowAvailability, row
  <2>6. row.run = r /\ row.data = data /\ row.report = Missing
    BY <2>1
  <2> QED BY <1>1, <2>3, <2>4, <2>5, <2>6 DEF RowSays
<1>2. CASE r \notin h.graves
  <2> DEFINE data == DataReference(h, h.runs[r].version)
             state == h.runs[r].state
             base == ReportKey(h.runs[r], BoundIn(h, r))
  <2>1. row = [run |-> r, deleted |-> FALSE, state |-> state, report |-> base, data |-> data]
    BY <1>2 DEF SpineRow
  <2>2. r \in DOMAIN h.runs
    BY <1>2 DEF Listed
  <2>3. h.runs[r].version \in DOMAIN h.versions /\ h.runs[r].version \notin h.graves
    BY <2>2 DEF HistoryStands
  <2>4. data = "kept"
    BY <2>3 DEF DataReference
  <2> HIDE DEF data, row, state, base
  <2>5. row.deleted = FALSE /\ row.run = r
    BY <2>1
  <2>6. shut = IF r \in DOMAIN found THEN [row EXCEPT !.report = AvailabilityKey(row.report, found[r])] ELSE row
    BY <2>5 DEF RowOf, RowAvailability, row
  <2>7. shut = [run |-> r, deleted |-> FALSE, state |-> state, report |-> WordOf(h, r, found), data |-> data]
    <3>1. CASE r \in DOMAIN found
      <4>1. WordOf(h, r, found) = AvailabilityKey(base, found[r])
        BY <3>1 DEF WordOf, base
      <4>2. row.report = base
        BY <2>1
      <4> QED BY <2>1, <2>6, <3>1, <4>1, <4>2
    <3>2. CASE r \notin DOMAIN found
      <4>1. WordOf(h, r, found) = base
        BY <3>2 DEF WordOf, base
      <4> QED BY <2>1, <2>6, <3>2, <4>1
    <3> QED BY <3>1, <3>2
  <2> HIDE DEF shut
  <2>8. /\ shut.run = r /\ shut.deleted = FALSE /\ shut.state = state /\ shut.report = WordOf(h, r, found)
        /\ shut.data = data
    BY <2>7
  <2> QED BY <1>2, <2>2, <2>4, <2>8 DEF RowSays, shut, state
<1> QED BY <1>1, <1>2

\* Each run is one row, and each row says so of its run.
LEMMA RowsSay ==
  ASSUME Sound(workspace), NEW h, NEW found, NEW gone, HistoryStands(h, workspace, gone)
  PROVE  /\ \A n \in DOMAIN RowsOf(h, found) :
              \E r \in Listed(h) : RowSays(RowsOf(h, found)[n], r, h, found)
         /\ \A r \in Listed(h) : Cardinality({n \in DOMAIN RowsOf(h, found) : RowsOf(h, found)[n].run = r}) = 1
<1> DEFINE S == Listed(h)
           at == [r \in S |-> workspace.runs[r].started]
           list == LatestFirst(S, at)
           rows == RowsOf(h, found)
<1>1. S \in SUBSET Int /\ IsFiniteSet(S) /\ \A r \in S : workspace.runs[r].started \in Int
  <2>1. S \subseteq AllRuns
    BY DEF HistoryStands, Listed, AllRuns
  <2>2. AllRuns \subseteq Int /\ IsFiniteSet(AllRuns) /\ \A r \in AllRuns : workspace.runs[r].started \in Int
    BY DEF Sound, Recorded, AllRuns, RunIsRecorded
  <2> HIDE DEF S
  <2> QED BY <2>1, <2>2, FS_Subset
<1>2. at \in [S -> Int]
  BY <1>1
<1>3. \A n \in DOMAIN list : list[n] \in S
  <2> HIDE DEF S, at
  <2> QED BY <1>1, <1>2, Ranked
<1>4. \A o \in S : Cardinality({n \in DOMAIN list : list[n] = o}) = 1
  <2> HIDE DEF S, at
  <2> QED BY <1>1, <1>2, ListedOnce
<1>5. SpineRows(h) = [n \in DOMAIN list |-> SpineRow(h, list[n])]
  BY DEF SpineRows, NewestFirst, Listed
<1> HIDE DEF list
<1>6. DOMAIN rows = DOMAIN list /\ \A n \in DOMAIN list : rows[n] = RowOf(h, list[n], found)
  BY <1>5 DEF RowsOf, RowOf
<1> HIDE DEF S, rows
<1>7. \A n \in DOMAIN list : RowSays(rows[n], list[n], h, found)
  BY <1>3, <1>6, RowOfRun DEF S
<1>8. \A n \in DOMAIN list : rows[n].run = list[n]
  BY <1>7 DEF RowSays
<1>9. \A r : {n \in DOMAIN rows : rows[n].run = r} = {n \in DOMAIN list : list[n] = r}
  BY <1>6, <1>8
<1>10. \A n \in DOMAIN rows : \E r \in S : RowSays(rows[n], r, h, found)
  BY <1>3, <1>6, <1>7
<1>11. \A r \in S : Cardinality({n \in DOMAIN rows : rows[n].run = r}) = 1
  BY <1>4, <1>9
<1> QED BY <1>10, <1>11 DEF S, rows

LEMMA AnalysesGoes ==
  ASSUME MissingIsNoWord, Sound(workspace), PageGoes, page.step = "render", asked.surface = "analyses",
         Answered(AnalysesView(page.history)), Looks
  PROVE  AnswerHolds'
<1> DEFINE h == page.history
           found == page.found
           rows == RowsOf(h, found)
           candidates == CompareCandidates(rows)
           answer == [kind |-> "analyses", rows |-> rows, candidates |-> candidates]
<1>1. page.step \in HISTORY_READ
  BY DEF HISTORY_READ
<1>2. /\ HistoryStands(h, workspace, page.gone) /\ FoundHolds(found, h, workspace, page.dry) /\ Renderable(h, found)
  BY <1>1, Reading
<1>3. AnalysesView(h) = IF \E n \in DOMAIN rows : rows[n].report = Unrenderable THEN NotThere ELSE answer
  BY DEF AnalysesView, RowsOf
<1>4. /\ \A n \in DOMAIN rows : \E r \in Listed(h) : RowSays(rows[n], r, h, found)
      /\ \A r \in Listed(h) : Cardinality({n \in DOMAIN rows : rows[n].run = r}) = 1
  BY <1>2, RowsSay
<1>5. \A r \in DOMAIN h.runs : h.runs[r].state = "completed" => r \in DOMAIN found
  BY <1>2 DEF Renderable, Completed
<1> HIDE DEF candidates, rows
<1>6. \A n \in DOMAIN rows : rows[n].deleted \/ (rows[n].run \in DOMAIN h.runs /\ rows[n].run \in AllRuns)
  BY <1>2, <1>4 DEF RowSays, HistoryStands, AllRuns
<1>7. ASSUME NEW n \in DOMAIN rows, ~rows[n].deleted
      PROVE  LET r == rows[n].run
                 word == rows[n].report
                 run == workspace.runs[r]
             IN /\ rows[n].state = h.runs[r].state
                /\ word = "available" => /\ run.state = "completed" /\ run.bound = REQUIRED_ARTIFACT_KINDS
                                         /\ run.record # Missing /\ run.link = "own"
                                         /\ run.version \in page.dry => run.version \in workspace.restored
                /\ word = "unreachable" => \/ run.record = Missing \/ run.link # "own"
                                           \/ ~LiveIn(workspace, run.version) \/ run.version \in workspace.restored
                /\ word = "unavailable" => run.state = "failed"
                /\ word = "not_yet" => h.runs[r].state = "started"
                /\ word = Unrenderable => run.state = "completed" /\ run.bound # REQUIRED_ARTIFACT_KINDS
                /\ rows[n].state = "completed" /\ word # Unrenderable => word \in {"available", "unreachable"}
  <2>1. PICK r \in Listed(h) : RowSays(rows[n], r, h, found)
    BY <1>4
  <2>2. rows[n].run = r /\ r \in DOMAIN h.runs /\ rows[n].state = h.runs[r].state /\ rows[n].report = WordOf(h, r, found)
    BY <1>7, <2>1 DEF RowSays
  <2> HIDE DEF h, found
  <2> QED BY <1>2, <1>5, <2>2, WordIsTrue
<1>8. CASE \E n \in DOMAIN rows : rows[n].report = Unrenderable
  <2>1. PICK n \in DOMAIN rows : rows[n].report = Unrenderable
    BY <1>8
  <2>2. ~rows[n].deleted
    BY <1>4, <2>1 DEF RowSays, MissingIsNoWord
  <2>3. rows[n].run \in AllRuns /\ workspace.runs[rows[n].run].state = "completed"
        /\ workspace.runs[rows[n].run].bound # REQUIRED_ARTIFACT_KINDS
    BY <1>6, <1>7, <2>1, <2>2
  <2>4. Answered(NotThere)
    BY <1>3, <1>8
  <2> QED BY <2>3, <2>4, Refused
<1>9. CASE ~(\E n \in DOMAIN rows : rows[n].report = Unrenderable)
  <2>1. Answered(answer)
    BY <1>3, <1>9
  <2>2. answer.kind = "analyses" /\ answer.rows = rows
    OBVIOUS
  <2> HIDE DEF answer
  <2>3. shown' = answer /\ page'.history = h /\ workspace' = workspace /\ page'.dry = page.dry
    BY <2>1, AnswerKeeps
  <2>4. KeptRows' = {n \in DOMAIN rows : ~rows[n].deleted}
    BY <2>2, <2>3 DEF KeptRows
  <2>5. EndedStaysEnded'
    <3>1. ShownAsKept' = {rows[n].run : n \in KeptRows'}
      BY <2>2, <2>3 DEF ShownAsKept, Shows
    <3>2. \A o \in ShownAsKept' : o \in DOMAIN h.runs
      BY <1>6, <2>4, <3>1
    <3> QED BY <1>1, <2>1, <3>2, ShownIsNotGone
  <2>6. HistoryIsOfOneMoment'
    <3>1. \A r \in AllRuns' : VersionOf(r)' \notin workspace'.restored => Cardinality({n \in DOMAIN rows : rows[n].run = r}) = 1
      <4>1. \A r \in AllRuns : workspace.runs[r].version \notin workspace.restored => r \in Listed(h)
        BY <1>2 DEF HistoryStands, AllRuns, Listed
      <4> QED BY <1>4, <2>3, <4>1 DEF AllRuns, VersionOf
    <3>2. \A n \in DOMAIN rows : rows[n].data = IF rows[n].deleted THEN "deleted" ELSE "kept"
      BY <1>4 DEF RowSays
    <3>3. \A n \in KeptRows' : rows[n].state = "completed" => rows[n].report \in {"available", "unreachable"}
      BY <1>7, <1>9, <2>4
    <3> QED BY <2>2, <2>3, <3>1, <3>2, <3>3 DEF HistoryIsOfOneMoment, Shows
  <2>7. ReportWordIsTrue'
    <3>1. Words' = {<<rows[n].run, rows[n].report>> : n \in KeptRows'}
      BY <2>2, <2>3 DEF Words, Shows
    <3> SUFFICES ASSUME NEW word \in Words'
                 PROVE  LET run == workspace.runs[word[1]]
                            v == run.version
                        IN /\ word[2] = "available" => /\ run.state = "completed" /\ run.bound = REQUIRED_ARTIFACT_KINDS
                                                       /\ run.record # Missing /\ run.link = "own"
                                                       /\ v \notin page.dry \ workspace.restored
                           /\ word[2] = "unreachable" => \/ run.record = Missing \/ run.link # "own"
                                                         \/ ~ContentIsLive(v) \/ v \in workspace.restored
                           /\ word[2] = "unavailable" => run.state = "failed"
                           /\ word[2] = "not_yet" => h.runs[word[1]].state = "started"
      BY <2>3 DEF ReportWordIsTrue, ContentIsLive
    <3>2. PICK n \in KeptRows' : word = <<rows[n].run, rows[n].report>>
      BY <3>1
    <3>3. word[1] = rows[n].run /\ word[2] = rows[n].report
      BY <3>2
    <3>4. n \in DOMAIN rows /\ ~rows[n].deleted
      BY <2>4
    <3> QED BY <1>7, <3>3, <3>4 DEF ContentIsLive, LiveIn
  <2>8. NoticeIsFair'
    BY <2>2, <2>3 DEF NoticeIsFair, Shows
  <2> QED BY <1>1, <2>1, <2>2, <2>5, <2>6, <2>7, <2>8, PageIsOfAMember
<1> QED BY <1>8, <1>9

----------------------------------------------------------------------------
(* The page of one analysis.                                               *)

\* What the notice of a run says, of a history and what was found.
NoticeSays(change, h, r, found) ==
  LET before == BeforeIt(h.runs, r)
      Latest(p) == \A q \in before : q = p \/ Before(q, p, h.runs)
      own == h.runs[r]
  IN /\ change # Missing =>
          /\ own.state = "completed" /\ change.previous \in before /\ Latest(change.previous)
          /\ \A c \in change.availability : c[2] # c[3]
          /\ change.versions # {}
     /\ change = Missing /\ own.state = "completed" =>
          \A p \in before : Latest(p) =>
            /\ h.runs[p].package = own.package /\ h.runs[p].formula = own.formula
            /\ Missing \notin {found[p], found[r]} =>
                 \A s \in DOMAIN found[p].families \cap DOMAIN found[r].families :
                   found[p].families[s] = found[r].families[s]

LEMMA AvailabilitiesDiffer ==
  ASSUME NEW a, NEW b, NEW c \in AvailabilityChanges(a, b)
  PROVE  c[2] # c[3]
<1>1. CASE Missing \in {a, b}
  BY <1>1 DEF AvailabilityChanges
<1>2. CASE Missing \notin {a, b}
  <2>1. PICK s \in TOMBSTONE_SECTIONS : Group(a, s) # Group(b, s) /\ c = <<s, Group(a, s), Group(b, s)>>
    BY <1>2 DEF AvailabilityChanges
  <2> QED BY <2>1
<1> QED BY <1>1, <1>2

\* Nothing changed: nothing that both recorded differs.
LEMMA NothingChanged ==
  ASSUME NEW p, NEW r, NEW a, NEW b, VersionChanges(p, r) \cup FamilyChanges(a, b) = {}
  PROVE  /\ p.package = r.package /\ p.formula = r.formula
         /\ Missing \notin {a, b} => \A s \in DOMAIN a.families \cap DOMAIN b.families : a.families[s] = b.families[s]
<1>1. VersionChanges(p, r) = {} /\ FamilyChanges(a, b) = {}
  OBVIOUS
<1>2. {n \in {"package", "formula"} : p[n] # r[n]} = {}
  <2>1. \A n \in {n \in {"package", "formula"} : p[n] # r[n]} : <<n, p[n], r[n]>> \in VersionChanges(p, r)
    BY DEF VersionChanges
  <2> QED BY <1>1, <2>1
<1>3. p["package"] = r["package"] /\ p["formula"] = r["formula"]
  BY <1>2
<1>4. ASSUME Missing \notin {a, b}, NEW s \in DOMAIN a.families \cap DOMAIN b.families
      PROVE  a.families[s] = b.families[s]
  <2>1. a.families[s] # b.families[s] => <<s, a.families[s], b.families[s]>> \in FamilyChanges(a, b)
    BY <1>4 DEF FamilyChanges
  <2> QED BY <1>1, <2>1
<1> QED BY <1>3, <1>4

LEMMA NoticeOfRun ==
  ASSUME MissingIsNoWord, NEW h, DOMAIN h.runs \subseteq Int, IsFiniteSet(DOMAIN h.runs), Missing \notin DOMAIN h.runs,
         \A q \in DOMAIN h.runs : h.runs[q].started \in Int, NEW r \in DOMAIN h.runs, NEW found
  PROVE  NoticeSays(MethodologyChange(h.runs, r, PreviousCompleted(r, h.runs), found), h, r, found)
<1> DEFINE p == PreviousCompleted(r, h.runs)
           before == BeforeIt(h.runs, r)
           Latest(o) == \A q \in before : q = o \/ Before(q, o, h.runs)
           own == h.runs[r]
           changed == IF p = Missing \/ own.state # "completed" THEN {}
                      ELSE VersionChanges(h.runs[p], own) \cup FamilyChanges(found[p], found[r])
           availability == AvailabilityChanges(found[p], found[r])
           change == MethodologyChange(h.runs, r, p, found)
<1>1. /\ p # Missing => p \in before /\ Latest(p)
      /\ \A o \in before : Latest(o) => p = o
      /\ p = Missing <=> before = {}
  BY PredecessorIsLast
<1>2. change = IF changed = {} THEN Missing
               ELSE [previous |-> p, versions |-> changed, availability |-> availability]
  BY DEF MethodologyChange
<1>3. \A c \in availability : c[2] # c[3]
  BY AvailabilitiesDiffer
<1> HIDE DEF p, before, Latest, availability, change
<1>4. CASE changed # {}
  <2>1. p # Missing /\ own.state = "completed"
    BY <1>4
  <2> HIDE DEF changed
  <2>2. change = [previous |-> p, versions |-> changed, availability |-> availability]
    BY <1>2, <1>4
  <2>3. change # Missing
    <3>1. DOMAIN change = {"previous", "versions", "availability"}
      BY <2>2
    <3> QED BY <3>1 DEF MissingIsNoWord
  <2>4. change.previous = p /\ change.versions = changed /\ change.availability = availability
    BY <2>2
  <2> HIDE DEF own
  <2>5. NoticeSays(change, h, r, found)
    BY <1>1, <1>3, <1>4, <2>1, <2>3, <2>4 DEF NoticeSays, before, Latest, own
  <2> QED BY <2>5 DEF change, p
<1>5. CASE changed = {}
  <2>1. change = Missing
    BY <1>2, <1>5
  <2>2. ASSUME own.state = "completed", NEW o \in before, Latest(o)
        PROVE  /\ h.runs[o].package = own.package /\ h.runs[o].formula = own.formula
               /\ Missing \notin {found[o], found[r]} =>
                    \A s \in DOMAIN found[o].families \cap DOMAIN found[r].families :
                      found[o].families[s] = found[r].families[s]
    <3>1. p = o /\ p # Missing
      BY <1>1, <2>2
    <3>2. VersionChanges(h.runs[o], own) \cup FamilyChanges(found[o], found[r]) = {}
      BY <1>5, <2>2, <3>1
    <3> HIDE DEF own
    <3> QED BY <3>2, NothingChanged
  <2> HIDE DEF changed
  <2>3. NoticeSays(change, h, r, found)
    BY <2>1, <2>2 DEF NoticeSays, before, Latest
  <2> QED BY <2>3 DEF change, p
<1> QED BY <1>4, <1>5

LEMMA AnalysisGoes ==
  ASSUME MissingIsNoWord, Sound(workspace), PageGoes, page.step = "render", asked.surface = "analysis",
         Answered(AnalysisView(page.history)), Looks
  PROVE  AnswerHolds'
<1> DEFINE h == page.history
           found == page.found
           r == asked.run
           run == workspace.runs[r]
           word == WordOf(h, r, found)
           state == h.runs[r].state
           artifacts == IF word = "available" THEN REQUIRED_ARTIFACT_KINDS ELSE {}
           trust == [g \in GROUPS |-> IF found[r] = Missing THEN {} ELSE {s \in TOMBSTONE_SECTIONS : Group(found[r], s) = g}]
           change == MethodologyChange(h.runs, r, Earlier(h), found)
           answer == [kind |-> "analysis", run |-> r, state |-> state, report |-> word, artifacts |-> artifacts,
                      trust |-> trust, change |-> change]
<1>1. page.step \in HISTORY_READ
  BY DEF HISTORY_READ
<1>2. HistoryStands(h, workspace, page.gone) /\ FoundHolds(found, h, workspace, page.dry)
  BY <1>1, Reading
<1>3. r \in DOMAIN h.runs /\ r \in DOMAIN found /\ (Earlier(h) # Missing => Earlier(h) \in DOMAIN found)
  BY <1>1, Reading DEF Renderable
<1>4. word = AvailabilityKey(ReportKey(h.runs[r], BoundIn(h, r)), found[r])
  BY <1>3 DEF WordOf
<1>5. AnalysisView(h) = IF word = Unrenderable THEN NotThere ELSE answer
  BY <1>4 DEF AnalysisView
<1>6. /\ r \in AllRuns /\ RunStands(h.runs[r], run)
      /\ DOMAIN h.runs \subseteq Int /\ IsFiniteSet(DOMAIN h.runs) /\ Missing \notin DOMAIN h.runs
      /\ \A q \in DOMAIN h.runs : h.runs[q].started \in Int /\ q \in AllRuns /\ RunStands(h.runs[q], workspace.runs[q])
  BY <1>2, <1>3, HistoryIsNumbered
<1>7. /\ word = "available" => /\ run.state = "completed" /\ run.bound = REQUIRED_ARTIFACT_KINDS
                               /\ run.record # Missing /\ run.link = "own"
                               /\ run.version \in page.dry => run.version \in workspace.restored
      /\ word = "unreachable" => \/ run.record = Missing \/ run.link # "own"
                                 \/ ~LiveIn(workspace, run.version) \/ run.version \in workspace.restored
      /\ word = "unavailable" => run.state = "failed"
      /\ word = "not_yet" => h.runs[r].state = "started"
      /\ word = Unrenderable => run.state = "completed" /\ run.bound # REQUIRED_ARTIFACT_KINDS
  BY <1>2, <1>3, WordIsTrue
<1>8. NoticeSays(change, h, r, found)
  <2>1. Earlier(h) = PreviousCompleted(r, h.runs)
    BY DEF Earlier
  <2> QED BY <1>3, <1>6, <2>1, NoticeOfRun
<1> HIDE DEF word, change
<1>9. CASE word = Unrenderable
  <2>1. Answered(NotThere)
    BY <1>5, <1>9
  <2> QED BY <1>7, <1>9, <2>1, Refused
<1>10. CASE word # Unrenderable
  <2>1. Answered(answer)
    BY <1>5, <1>10
  <2>2. /\ answer.kind = "analysis" /\ answer.run = r /\ answer.state = state /\ answer.report = word
        /\ answer.change = change
    OBVIOUS
  <2> HIDE DEF answer
  <2>3. shown' = answer /\ page'.history = h /\ workspace' = workspace /\ page'.dry = page.dry /\ page'.found = found
    BY <2>1, AnswerKeeps
  <2>4. change # Missing => change.previous \in DOMAIN h.runs
    BY <1>8 DEF NoticeSays, BeforeIt
  <2>5. EndedStaysEnded'
    <3>1. ShownAsKept' = {r} \cup (IF change = Missing THEN {} ELSE {change.previous})
      BY <2>2, <2>3 DEF ShownAsKept, Shows
    <3>2. \A o \in ShownAsKept' : o \in DOMAIN h.runs
      BY <1>3, <2>4, <3>1
    <3> QED BY <1>1, <2>1, <3>2, ShownIsNotGone
  <2>6. HistoryIsOfOneMoment'
    BY <2>2, <2>3 DEF HistoryIsOfOneMoment, Shows
  <2>7. ReportWordIsTrue'
    <3>1. Words' = {<<r, word>>}
      BY <2>2, <2>3 DEF Words, Shows
    <3> SUFFICES ASSUME NEW w \in Words'
                 PROVE  LET own == workspace.runs[w[1]]
                            v == own.version
                        IN /\ w[2] = "available" => /\ own.state = "completed" /\ own.bound = REQUIRED_ARTIFACT_KINDS
                                                    /\ own.record # Missing /\ own.link = "own"
                                                    /\ v \notin page.dry \ workspace.restored
                           /\ w[2] = "unreachable" => \/ own.record = Missing \/ own.link # "own"
                                                      \/ ~ContentIsLive(v) \/ v \in workspace.restored
                           /\ w[2] = "unavailable" => own.state = "failed"
                           /\ w[2] = "not_yet" => h.runs[w[1]].state = "started"
      BY <2>3 DEF ReportWordIsTrue, ContentIsLive
    <3>2. w[1] = r /\ w[2] = word
      BY <3>1
    <3> QED BY <1>7, <3>2 DEF ContentIsLive, LiveIn
  <2>8. NoticeIsFair'
    <3> DEFINE earlier(p, q) == h.runs[p].started < h.runs[q].started \/ (h.runs[p].started = h.runs[q].started /\ p < q)
               before == {p \in DOMAIN h.runs : h.runs[p].version = run.version /\ h.runs[p].state = "completed" /\ earlier(p, r)}
               last(p) == \A q \in before : q = p \/ earlier(q, p)
    <3>1. h.runs[r].version = run.version
      BY <1>6 DEF RunStands
    <3>2. before = BeforeIt(h.runs, r) /\ \A p, q : earlier(p, q) <=> Before(p, q, h.runs)
      BY <3>1 DEF BeforeIt, Before
    <3>3. \A p : last(p) <=> \A q \in BeforeIt(h.runs, r) : q = p \/ Before(q, p, h.runs)
      BY <3>2
    <3>4. \A p \in before : p \in DOMAIN h.runs /\ h.runs[p].state = "completed"
      OBVIOUS
    <3> HIDE DEF earlier, before, last
    <3>5. ASSUME change # Missing
          PROVE  /\ state = "completed" /\ change.previous \in before /\ last(change.previous)
                 /\ \A c \in change.availability : c[2] # c[3]
                 /\ change.versions # {}
      BY <1>8, <3>2, <3>3, <3>5 DEF NoticeSays
    <3>6. ASSUME change = Missing, state = "completed", NEW p \in before, last(p)
          PROVE  /\ h.runs[p].package = run.package /\ h.runs[p].formula = run.formula
                 /\ (Missing \notin {workspace.runs[p].record, found[r]} /\ workspace.runs[p].link # "foreign") =>
                      \A s \in DOMAIN h.runs[p].record.families \cap DOMAIN run.record.families :
                        h.runs[p].record.families[s] = run.record.families[s]
      <4>1. /\ h.runs[p].package = h.runs[r].package /\ h.runs[p].formula = h.runs[r].formula
            /\ Missing \notin {found[p], found[r]} =>
                 \A s \in DOMAIN found[p].families \cap DOMAIN found[r].families :
                   found[p].families[s] = found[r].families[s]
        BY <1>8, <3>2, <3>3, <3>6 DEF NoticeSays
      <4>2. h.runs[r].package = run.package /\ h.runs[r].formula = run.formula
        BY <1>6 DEF RunStands
      <4>3. p = Earlier(h) /\ p \in DOMAIN found
        <5>1. p = Earlier(h)
          BY <1>3, <1>6, <3>2, <3>3, <3>6, PredecessorIsLast DEF Earlier
        <5>2. p # Missing
          BY <1>6, <3>4
        <5> QED BY <1>3, <5>1, <5>2
      <4>4. ProvenanceHolds(found[p], workspace.runs[p], workspace, page.dry) /\ ProvenanceHolds(found[r], run, workspace, page.dry)
        BY <1>2, <1>3, <3>4, <3>6, <4>3 DEF FoundHolds
      <4>5. h.runs[p].record = workspace.runs[p].record
        BY <1>6, <3>4 DEF RunStands
      <4> QED BY <4>1, <4>2, <4>4, <4>5 DEF ProvenanceHolds
    <3> HIDE DEF state, run
    <3>7. shown'.change = change /\ shown'.run = r /\ shown'.state = state /\ page'.history.runs = h.runs
          /\ workspace'.runs[r] = run /\ page'.found = found /\ workspace'.runs = workspace.runs
      BY <2>2, <2>3 DEF run
    <3> QED BY <3>5, <3>6, <3>7 DEF NoticeIsFair, earlier, before, last
  <2> QED BY <1>1, <2>1, <2>2, <2>5, <2>6, <2>7, <2>8, PageIsOfAMember
<1> QED BY <1>9, <1>10

LEMMA RenderGoes ==
  ASSUME MissingIsNoWord, Sound(workspace), PageGoes, Render
  PROVE  AnswerHolds'
<1>1. page.step = "render" /\ page.step \in HISTORY_READ /\ Looks
  BY DEF Render, HISTORY_READ
<1>2. asked.surface \in {"overview", "data", "analyses", "analysis"}
  BY <1>1, Reading DEF Renderable
<1>3. CASE asked.surface = "overview"
  <2>1. Answered(OverviewView(page.history))
    BY <1>3 DEF Render, Answered
  <2> QED BY <1>1, <1>3, <2>1, OverviewGoes
<1>4. CASE asked.surface = "data"
  <2>1. Answered(DataView(page.history))
    BY <1>4 DEF Render, Answered
  <2> QED BY <1>1, <1>4, <2>1, DataGoes
<1>5. CASE asked.surface = "analyses"
  <2>1. Answered(AnalysesView(page.history))
    BY <1>5 DEF Render, Answered
  <2> QED BY <1>1, <1>5, <2>1, AnalysesGoes
<1>6. CASE asked.surface = "analysis"
  <2>1. Answered(AnalysisView(page.history))
    BY <1>6 DEF Render, Answered
  <2> QED BY <1>1, <1>6, <2>1, AnalysisGoes
<1> QED BY <1>2, <1>3, <1>4, <1>5, <1>6

----------------------------------------------------------------------------
(* The shell.                                                              *)

ShellInv == Sound(workspace) /\ (PageGoes \/ AnswerHolds)

LEMMA ShellBegins ==
  ASSUME MissingIsNoWord, WorkspacesAreSound, ShellInit
  PROVE  ShellInv
<1>1. Recorded(workspace) /\ EndTogether(workspace) /\ workspace.left = Missing
  BY DEF ShellInit, WorkspacesAreSound
<1>2. Sound(workspace)
  BY <1>1 DEF Sound, MemberStays
<1> DEFINE dry == {v \in AllVersions : ~ContentIsLive(v)}
<1>3. page = [step |-> "asked", history |-> Missing, of |-> {}, records |-> <<>>, links |-> <<>>, found |-> <<>>,
              resumed |-> Missing, pins |-> {}, gone |-> workspace.revoked, dry |-> dry]
  BY DEF ShellInit
<1>4. dry \subseteq DOMAIN workspace.versions /\ \A v \in dry : ~LiveIn(workspace, v)
  BY DEF AllVersions, ContentIsLive, LiveIn
<1> HIDE DEF dry
<1>5. RequestStands(page.step, workspace)
  BY <1>3 DEF RequestStands, STEPS, OF_ONE, HISTORY_READ, READING
<1>6. EndsHold(page.gone, page.dry, workspace)
  BY <1>3, <1>4 DEF EndsHold
<1>7. page.step \notin HISTORY_READ
  BY <1>3 DEF HISTORY_READ, READING
<1>8. PageStands(page, workspace)
  BY <1>3, <1>5, <1>6, <1>7 DEF PageStands, ReadingsHold
<1> QED BY <1>2, <1>8 DEF ShellInv, PageGoes, ShellInit

LEMMA PageIsGoing ==
  ASSUME PageGoes
  PROVE  page.step \in STEPS /\ page.step # "done" /\ page.of \subseteq AllRuns
<1>1. page.step \in STEPS
  BY DEF PageGoes, PageStands, RequestStands
<1>2. "done" \notin STEPS
  BY DEF STEPS, OF_ONE, HISTORY_READ, READING
<1>3. page.of \subseteq AllRuns
  BY DEF PageGoes, PageStands, AllRuns
<1> QED BY <1>1, <1>2, <1>3

LEMMA ShellGoesOn ==
  ASSUME MissingIsNoWord, ShellInv, [ShellNext]_hvars
  PROVE  ShellInv'
<1>1. CASE Asking
  <2>1. page.step # "done" /\ Looks
    BY <1>1 DEF Asking, ResolveCaller, ListOrganizations, ResolveScope, ReadHistory, ReadRecords, ReadLinks, ReadJobs,
                ReadPins, ResumeSession, HandOff, Render
  <2>2. PageGoes /\ Sound(workspace)
    BY <2>1 DEF ShellInv, AnswerHolds
  <2>3. Sound(workspace')
    BY <2>1, <2>2 DEF Looks
  <2>4. PageGoes' \/ AnswerHolds'
    BY <1>1, <2>2, CallerGoes, OrganizationsGo, ScopeGoes, HistoryGoes, RecordsGo, LinksGo, JobsGo, PinsGo, ResumptionGoes,
       HandOffGoes, RenderGoes DEF Asking
  <2> QED BY <2>3, <2>4 DEF ShellInv
<1>2. CASE Meanwhile
  <2>1. Sound(workspace') /\ Onward(workspace, workspace') /\ UNCHANGED <<asked, page, shown>> /\ page.step # "done"
    BY <1>2, MeanwhileGoesOn DEF ShellInv, Serving
  <2>2. PageGoes
    BY <2>1 DEF ShellInv, AnswerHolds
  <2>3. PageStands(page, workspace)'
    BY <2>1, <2>2, PageStandsOn DEF ShellInv, PageGoes
  <2> QED BY <2>1, <2>2, <2>3 DEF ShellInv, PageGoes, NoAnswer
<1>3. CASE UNCHANGED hvars
  <2>1. asked' = asked /\ workspace' = workspace /\ page' = page /\ shown' = shown
    BY <1>3 DEF hvars
  <2>2. Sound(workspace')
    BY <2>1 DEF ShellInv
  <2>3. CASE PageGoes
    <3>1. Onward(workspace, workspace')
      BY <2>1, RunStandsAsIs, ContentStandsAsIs DEF Onward, ShellInv, Sound, Recorded
    <3>2. PageStands(page, workspace)'
      BY <2>1, <2>2, <2>3, <3>1, PageStandsOn DEF ShellInv, PageGoes
    <3> QED BY <2>1, <2>2, <2>3, <3>2 DEF ShellInv, PageGoes, NoAnswer
  <2>4. CASE AnswerHolds
    <3>1. EndedStaysEnded'
      BY <2>1, <2>4 DEF AnswerHolds, EndedStaysEnded, ShownAsKept, Shows, RunsOf, VersionOf, AllRuns, KeptRows
    <3>2. HistoryIsOfOneMoment'
      BY <2>1, <2>4 DEF AnswerHolds, HistoryIsOfOneMoment, Shows, RunsOf, VersionOf, AllRuns, KeptRows
    <3>3. OneRecordHidesNoOther'
      BY <2>1, <2>4 DEF AnswerHolds, OneRecordHidesNoOther, Shows, Member, VersionOf, AllRuns
    <3>4. Words' = Words /\ \A v : ContentIsLive(v)' <=> ContentIsLive(v)
      BY <2>1 DEF Words, Shows, KeptRows, ContentIsLive
    <3>5. ReportWordIsTrue'
      BY <2>1, <2>4, <3>4 DEF AnswerHolds, ReportWordIsTrue
    <3>6. HandoffIsCurrent'
      BY <2>1, <2>4 DEF AnswerHolds, HandoffIsCurrent, Shows, RunsOf, VersionOf, AllRuns
    <3>7. LeaversSeeNothing'
      BY <2>1, <2>4 DEF AnswerHolds, LeaversSeeNothing
    <3>8. NoticeIsFair'
      BY <2>1, <2>4 DEF AnswerHolds, NoticeIsFair, Shows
    <3>9. page'.step = "done" /\ page'.of \subseteq AllRuns' /\ shown'.kind \in KINDS
      BY <2>1, <2>4 DEF AnswerHolds, AllRuns
    <3> QED BY <2>2, <3>1, <3>2, <3>3, <3>5, <3>6, <3>7, <3>8, <3>9 DEF ShellInv, AnswerHolds
  <2> QED BY <2>3, <2>4 DEF ShellInv
<1> QED BY <1>1, <1>2, <1>3 DEF ShellNext

LEMMA ShellInvHolds ==
  ASSUME MissingIsNoWord, ShellInv
  PROVE  ShellHolds
<1>1. CASE PageGoes
  <2>1. page.step \in STEPS /\ page.step # "done" /\ page.of \subseteq AllRuns
    BY <1>1, PageIsGoing
  <2>2. shown.kind = Missing
    BY <1>1 DEF PageGoes, NoAnswer
  <2>3. \A kind \in KINDS : ~Shows(kind)
    BY <2>2 DEF MissingIsNoWord, Shows
  <2>4. ShellTypeOK
    BY <2>1, <2>2 DEF ShellTypeOK, STEPS, OF_ONE, HISTORY_READ, READING
  <2>5. EndedStaysEnded /\ ReportWordIsTrue
    BY <2>3 DEF EndedStaysEnded, ShownAsKept, ReportWordIsTrue, Words, KINDS
  <2>6. HistoryIsOfOneMoment /\ OneRecordHidesNoOther /\ HandoffIsCurrent /\ NoticeIsFair
    BY <2>3 DEF HistoryIsOfOneMoment, OneRecordHidesNoOther, HandoffIsCurrent, NoticeIsFair, KINDS
  <2>7. LeaversSeeNothing
    <3>1. shown.kind \notin HISTORY
      BY <2>2, <2>3 DEF MissingIsNoWord
    <3> QED BY <3>1 DEF LeaversSeeNothing
  <2> QED BY <2>4, <2>5, <2>6, <2>7 DEF ShellHolds
<1>2. CASE AnswerHolds
  <2>1. ShellTypeOK
    BY <1>2 DEF AnswerHolds, ShellTypeOK, KINDS, MissingIsNoWord
  <2> QED BY <1>2, <2>1 DEF AnswerHolds, ShellHolds
<1> QED BY <1>1, <1>2 DEF ShellInv

\* Whatever ends, is put back, expires or is taken away while a request is
\* answered, its page shows nothing that had ended before it, is of one moment of
\* the history, is refused for no other run's sake, offers a report exactly where
\* there is one, hands a session only to a member and while it is live, and
\* compares a run with the last one before it (the web shell's routes).
THEOREM PagesAreOfWhatWasRead ==
  ASSUME MissingIsNoWord, WorkspacesAreSound
  PROVE  ShellSpec => []ShellHolds
<1>1. ShellInit => ShellInv
  BY ShellBegins
<1>2. ShellInv /\ [ShellNext]_hvars => ShellInv'
  BY ShellGoesOn
<1>3. ShellInv => ShellHolds
  BY ShellInvHolds
<1> QED BY <1>1, <1>2, <1>3, PTL DEF ShellSpec
=============================================================================
