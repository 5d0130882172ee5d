---------------------------- MODULE CoverageEvidence ----------------------------
(***************************************************************************)
(* What an upload's profile attests of its days: callers race to profile   *)
(* one upload, each under a declaration of its own, and the evidence of    *)
(* the fact package is built from whichever record was stored.             *)
(***************************************************************************)
EXTENDS CoverageManifest, SequencesExt

CONSTANTS
  Profilers,   \* the callers that profile the one upload of a session
  Questions,   \* what they may declare: semantics, contract, attestation
  LegacyProfiles,  \* profiles an earlier release may have stored
  Inputs       \* what may be in the file: rows, and how the package reads them

VARIABLES question, record, input, progress
\* progress.step[c]: where caller c is; progress.evidence: of the package.
cvars == <<question, record, input, progress>>

NoEvidence == [signatures |-> {}, bases |-> {}]

\* What a question would have the upload's profile attest.
RequestedManifest(q, contract) ==
  IF q.attestation = Missing THEN Missing ELSE ToManifest(q.attestation, contract)

\* The reading a stored profile records, or none.
RecordedContract(r) == r.contract

ProfileOf(q) ==
  [semantics |-> q.semantics, contract |-> q.contract, manifest |-> RequestedManifest(q, q.contract)]

Bindable(m) == m # Missing => Bound(m)

\* A bug: a profile recorded without a manifest answers any attestation.
AnsweringUnattested(r, q) ==
  LET asked == RequestedManifest(q, IF r.contract = Missing THEN "" ELSE r.contract) IN
  IF r.semantics # q.semantics THEN "conflict"
  ELSE IF ~Bindable(asked) THEN "raised"
  ELSE IF r.manifest \notin {Missing, asked} THEN "conflict"
  ELSE IF RecordedContract(r) # q.contract THEN "conflict"
  ELSE "answered"

\* The manifest a question asks for must be usable under the reading recorded.
Answering(r, q) ==
  LET asked == RequestedManifest(q, IF r.contract = Missing THEN "" ELSE r.contract) IN
  IF r.semantics # q.semantics THEN "conflict"
  ELSE IF ~Bindable(asked) THEN "raised"
  ELSE IF r.manifest # asked THEN "conflict"
  ELSE IF RecordedContract(r) # q.contract THEN "conflict"
  ELSE "answered"

----------------------------------------------------------------------------
(* Profiling.                                                              *)

CoverageInit ==
  /\ question \in [Profilers -> Questions]
  /\ record \in {Missing} \cup LegacyProfiles
  /\ input \in Inputs
  /\ progress = [step |-> [c \in Profilers |-> "asked"], evidence |-> Missing]

Reach(c, step) == progress' = [progress EXCEPT !.step[c] = step]

\* The route refuses a blank attester and an unusable declaration before it
\* looks for a profile; what it is bound to is not known yet.
Declare(c) ==
  LET asked == RequestedManifest(question[c], "")
  IN /\ progress.step[c] = "asked"
     /\ Reach(c, IF asked # Missing /\ (asked.attested_by = "" \/ ~Usable(asked)) THEN "refused" ELSE "declared")
     /\ UNCHANGED <<question, record, input>>

\* A profile the upload already has answers at once, or conflicts.
Look(c) ==
  /\ progress.step[c] = "declared"
  /\ Reach(c, IF record = Missing THEN "reading" ELSE Answering(record, question[c]))
  /\ UNCHANGED <<question, record, input>>

\* Having read the file, the caller binds its manifest and inserts its profile;
\* the loser of a race is answered by the profile that was there first.
Store(c) ==
  LET profile == ProfileOf(question[c]) IN
  /\ progress.step[c] = "reading"
  /\ \/ /\ ~Bindable(profile.manifest)
        /\ Reach(c, "raised")
        /\ UNCHANGED record
     \/ /\ Bindable(profile.manifest)
        /\ record' = IF record = Missing THEN profile ELSE record
        /\ Reach(c, Answering(record', question[c]))
  /\ UNCHANGED <<question, input>>

----------------------------------------------------------------------------
(* The evidence of the package.                                            *)

Kinds == {r.kind : r \in Range(input.rows)}
Dates == {r.day : r \in Range(input.rows)} \ {Missing}

AttestsThePopulation(m) == Kinds \subseteq m.kinds /\ "posted" \in m.statuses

\* One scope that cannot be signed leaves the package none.
SignaturesOf(m) ==
  LET signed == {Signature(m, s, Min(Dates), Max(Dates)) : s \in ScopesOf(m)}
  IN IF m = Missing \/ Dates = {} THEN {}
     ELSE IF ~AttestsThePopulation(m) \/ Missing \in signed THEN {}
     ELSE signed

SumOf(values) == FoldSeq(LAMBDA v, total : total + v, 0, values)
ValuesOn(rows, measure, day) ==
  LET own == SelectSeq(rows, LAMBDA r : r.day = day /\ r[measure] # Missing)
  IN [i \in DOMAIN own |-> own[i][measure]]

\* A day without rows sold nothing, unless the measure has a hole anywhere.
DailyValue(rows, measure, day) ==
  IF \E r \in Range(rows) : r[measure] = Missing THEN Missing ELSE SumOf(ValuesOn(rows, measure, day))

AttestedDays(m, scope) == {d \in {p[2] : p \in m.pairs} : DayProven(m, scope, d)}

\* Rows name no store, so only an aggregate's days can be told apart.
DailyBasesOf(m) ==
  IF m = Missing \/ input.repeated THEN {}
  ELSE IF ~AttestsThePopulation(m) \/ m.aggregate = Missing \/ AttestedDays(m, m.aggregate) = {} THEN {}
  ELSE LET days == AttestedDays(m, m.aggregate)
           monetary == input.currency # Missing /\ ~input.violated
       IN {[scope |-> m.aggregate, start |-> Min(days), end |-> Max(days),
            currency |-> IF monetary THEN input.currency ELSE Missing,
            revenue |-> [d \in days |-> IF monetary THEN DailyValue(input.rows, "revenue", d) ELSE Missing],
            units |-> [d \in days |-> DailyValue(input.rows, "units", d)]]}

RestrictedTo(basis, n) ==
  LET last == basis.start + n - 1
      kept == {d \in DOMAIN basis.units : d <= last}
  IN IF n < 1 \/ n > basis.end - basis.start + 1 THEN Missing
     ELSE [basis EXCEPT !.end = last, !.revenue = [d \in kept |-> @[d]], !.units = [d \in kept |-> @[d]]]

BuildEvidence ==
  /\ record # Missing /\ progress.evidence = Missing
  /\ progress' = [progress EXCEPT !.evidence =
       [signatures |-> SignaturesOf(record.manifest), bases |-> DailyBasesOf(record.manifest)]]
  /\ UNCHANGED <<question, record, input>>

CoverageNext ==
  \/ \E c \in Profilers : Declare(c) \/ Look(c) \/ Store(c)
  \/ BuildEvidence

CoverageSpec == CoverageInit /\ [][CoverageNext]_cvars

\* What a member is told of a window of the profiled input.
Completeness(r, scope, start, end) ==
  IF r.manifest = Missing THEN "coverage_manifest_absent"
  ELSE IF r.contract = Missing \/ r.manifest.contract # r.contract THEN "coverage_manifest_contract_mismatch"
  ELSE IF ~AdmitsCompleteness(r.manifest, Query(r.contract, scope, start, end))
  THEN "coverage_manifest_window_unproven"
  ELSE "complete"

CoverageTypeOK ==
  /\ DOMAIN question = Profilers
  /\ \A c \in Profilers :
       progress.step[c] \in {"asked", "declared", "reading", "refused", "raised", "conflict", "answered"}
  /\ record # Missing => DOMAIN record = {"semantics", "contract", "manifest"}

----------------------------------------------------------------------------
(* What callers declare, and what was stored before.                       *)

\* A manifest names days, and claims and loses them scope by scope.
Dated(m) ==
  /\ {"aggregate", "roster", "start", "end", "pairs", "gaps"} \subseteq DOMAIN m
  /\ m.start \in Int /\ m.end \in Int /\ m.partial \in BOOLEAN
  /\ \A p \in m.pairs \cup m.gaps : p = <<p[1], p[2]>> /\ p[2] \in Int

\* A caller declares a reading, and days where it attests any.
QuestionsAreDeclared ==
  \A q \in Questions :
    /\ q.contract # Missing
    /\ q.attestation # Missing =>
         /\ q.attestation.start \in Int /\ q.attestation.end \in Int /\ q.attestation.partial \in BOOLEAN
         /\ q.attestation.days \subseteq Int /\ q.attestation.gaps \subseteq Int

\* A profile of an earlier release has the parts of one.
LegacyIsRecorded ==
  \A r \in LegacyProfiles :
    /\ r = [semantics |-> r.semantics, contract |-> r.contract, manifest |-> r.manifest]
    /\ r.manifest # Missing => Dated(r.manifest) /\ r.manifest.contract # Missing

----------------------------------------------------------------------------
(* What holds of it.                                                       *)

Span == IF record = Missing \/ record.manifest = Missing THEN {}
        ELSE (record.manifest.start - 1)..(record.manifest.end + 1)
AnyScope == IF Span = {} THEN {} ELSE ScopesOf(record.manifest) \cup {"elsewhere"}
Windows == {w \in Span \X Span : w[1] <= w[2]}
Full(m, s, w) == LET g == Signature(m, s, w[1], w[2]) IN g # Missing /\ g.mode = FULL_CALENDAR
Complete(s, w) == Completeness(record, s, w[1], w[2]) = "complete"

\* Whoever is told its question was answered is served a profile made under the
\* same semantics, contract and manifest as it declared, whichever caller
\* stored it (datasets.py _answering, after a lost insert).
AnsweredAsAsked ==
  \A c \in Profilers : progress.step[c] = "answered" =>
    /\ record = ProfileOf(question[c])
    /\ record.manifest # Missing => Usable(record.manifest) /\ Bound(record.manifest)

\* Callers that ask the same are told the same: a repeated question conflicts
\* only if another was stored first (the retry after a lost answer).
RepetitionNeverConflicts ==
  \A c, d \in Profilers :
    progress.step[c] = "answered" /\ question[c] = question[d] => progress.step[d] # "conflict"

\* A window is called complete exactly when its signature is a full calendar
\* and the partial boundary does not cut it: the two readings of one manifest
\* never tell a different story about a window.  A prefix is a full calendar
\* of the days before the first one missing.
CompletenessMatchesSignature ==
  \A s \in AnyScope, w \in Windows :
    LET m == record.manifest
        signed == Signature(m, s, w[1], w[2])
    IN /\ Complete(s, w) <=>
            /\ Full(m, s, w)
            /\ record.contract = m.contract
            /\ ~(m.partial /\ w[2] >= m.end)
       /\ Complete(s, w) => \A p \in m.gaps : p[1] = s => p[2] \notin w[1]..w[2]
       /\ signed # Missing =>
            Full(m, s, <<w[1], w[1] + Cardinality(signed.ordinals) - 1>>)

\* Adjoining complete windows make a complete window, and a part of one is one.
CompleteWindowsJoin ==
  \A s \in AnyScope, v, w \in Windows :
    /\ Complete(s, v) /\ Complete(s, w) /\ v[2] + 1 = w[1] => Complete(s, <<v[1], w[2]>>)
    /\ Complete(s, w) /\ w[1] <= v[1] /\ v[2] <= w[2] => Complete(s, v)

\* A projection to the first days of a window is the signature those days have
\* themselves, and the same attestation a month later has the same signature.
ProjectionIsItsOwnWindow ==
  \A s \in AnyScope, w \in Windows :
    LET m == record.manifest
        whole == Signature(m, s, w[1], w[2])
        later == [m EXCEPT !.start = @ + 30, !.end = @ + 30,
                           !.pairs = {<<p[1], p[2] + 30>> : p \in @}, !.gaps = {<<p[1], p[2] + 30>> : p \in @}]
    IN /\ Signature(later, s, w[1] + 30, w[2] + 30) = whole
       /\ whole # Missing => \A n \in 0..(whole.days + 1) :
            LET part == ProjectPrefix(whole, n)
            IN IF n \notin 1..whole.days \/ whole.mode = PREFIX THEN part = Missing
               ELSE [part EXCEPT !.mode = FULL_CALENDAR] = Signature(m, s, w[1], w[1] + n - 1)

\* A package offers evidence only of what the profile's manifest attests: of events
\* of its kinds, on its own scopes and all of them, and of no day the extract lost.
EvidenceIsAttested ==
  (progress.evidence # Missing /\ progress.evidence # NoEvidence) =>
    /\ \A r \in Range(input.rows) : r.kind \in record.manifest.kinds
    /\ progress.evidence.signatures # {} =>
         {g.scope : g \in progress.evidence.signatures} = ScopesOf(record.manifest)
    /\ \A b \in progress.evidence.bases :
         /\ b.scope \in ScopesOf(record.manifest)
         /\ \A p \in record.manifest.gaps : p[1] = b.scope => p[2] \notin DOMAIN b.units \cup DOMAIN b.revenue

\* Where its signature proves the whole of its dates, a daily basis loses none of
\* the revenue, and the days of a basis are those of its first and of its last.
EvidenceAddsUp ==
  progress.evidence # Missing =>
    \A b \in progress.evidence.bases, measure \in {"revenue", "units"} :
      LET rows == SelectSeq(input.rows, LAMBDA r : r.day # Missing)
          total == SumOf([i \in DOMAIN rows |-> rows[i][measure]])
          values == b[measure]
      IN (\A d \in DOMAIN values : values[d] # Missing) =>
           /\ (\E g \in progress.evidence.signatures : g.mode = FULL_CALENDAR)
                => MapThenSumSet(LAMBDA d : values[d], DOMAIN values) = total
           /\ \A n \in 1..(b.end - b.start) :
                LET first == RestrictedTo(b, n)
                    rest == {d \in DOMAIN values : d > first.end}
                IN first.end - b.start + 1 = n
                /\ MapThenSumSet(LAMBDA d : first[measure][d], DOMAIN first[measure])
                     + MapThenSumSet(LAMBDA d : values[d], rest)
                   = MapThenSumSet(LAMBDA d : values[d], DOMAIN values)

\* The questions about one manifest are asked once its record is first stored.
CoverageHolds ==
  /\ CoverageTypeOK /\ AnsweredAsAsked /\ RepetitionNeverConflicts
  /\ EvidenceIsAttested
  /\ progress.evidence # Missing /\ (\A c \in Profilers : progress.step[c] # "declared") =>
       CompletenessMatchesSignature /\ CompleteWindowsJoin /\ ProjectionIsItsOwnWindow
=============================================================================
