----------------------------- MODULE ServicesProofs -----------------------------
(***************************************************************************)
(* Proofs about the services side by side: a behaviour of MCServices is    *)
(* one of each part, so that what is proved of a part alone holds of it    *)
(* beside the others.                                                      *)
(***************************************************************************)
EXTENDS MCServices, TenantProofs

-----------------------------------------------------------------------------
(* A behaviour of all is a behaviour of each.                              *)

LEMMA WorkspacePart == Spec => WorkspaceSpec
<1>1. Init => WorkspaceInit
  BY DEF Init
<1>2. [Next]_<<part, wvars, svars, ivars, jvars, evars, figvars>> => [WorkspaceNext]_wvars
  BY DEF Next
<1> QED BY <1>1, <1>2, PTL DEF Spec, WorkspaceSpec

LEMMA SessionPart == Spec => SessionSpec
<1>1. Init => SessionInit
  BY DEF Init
<1>2. [Next]_<<part, wvars, svars, ivars, jvars, evars, figvars>> => [SessionNext]_svars
  BY DEF Next
<1> QED BY <1>1, <1>2, PTL DEF Spec, SessionSpec

LEMMA InvitationPart == Spec => InvitationSpec
<1>1. Init => InvitationInit
  BY DEF Init
<1>2. [Next]_<<part, wvars, svars, ivars, jvars, evars, figvars>> => [InvitationNext]_ivars
  BY DEF Next
<1> QED BY <1>1, <1>2, PTL DEF Spec, InvitationSpec

LEMMA JourneyPart == Spec => JourneySpec
<1>1. Init => JourneyInit
  BY DEF Init
<1>2. [Next]_<<part, wvars, svars, ivars, jvars, evars, figvars>> => [JourneyNext]_jvars
  BY DEF Next
<1> QED BY <1>1, <1>2, PTL DEF Spec, JourneySpec

LEMMA EnvelopePart == Spec => EnvelopeSpec
<1>1. Init => EnvelopeInit
  BY DEF Init
<1>2. [Next]_<<part, wvars, svars, ivars, jvars, evars, figvars>> => [EnvelopeNext]_evars
  BY DEF Next
<1> QED BY <1>1, <1>2, PTL DEF Spec, EnvelopeSpec

\* Whichever part runs, the state of every part keeps its types (the columns of the
\* rows each service writes).
THEOREM ServicesKeepTheirTypes == Spec => []TypeOK
<1>1. WorkspaceTypeOK /\ SessionTypeOK /\ InvitationTypeOK /\ JourneyTypeOK /\ EnvelopeTypeOK => TypeOK
  BY DEF TypeOK
<1> QED
  BY <1>1, WorkspacePart, SessionPart, InvitationPart, JourneyPart, EnvelopePart,
     WorkspaceTypes, SessionTypes, InvitationTypes, JourneyTypes, EnvelopeTypes, PTL

\* Beside the other parts each service keeps what it promises alone: versions end
\* whole and for good and no lock waits in a circle (workspace), ended sessions stay
\* ended and serve members only (session), an invitation is spent once (invitation),
\* a session has one reading and its deletion stands (journey), and a file is sealed
\* as its row says (envelope).
THEOREM ServicesKeepTheirPromises ==
  Spec => /\ [](EndsTogether /\ SealedByCompletion /\ NoLockCycle) /\ RevokedIsFrozen
          /\ [](EndedAsPromised /\ ServedWhileMember) /\ SessionEndIsFinal
          /\ []InvitationSpentOnce
          /\ []OneReading /\ DeletionStands
          /\ []SealedAsRecorded
BY WorkspacePart, SessionPart, InvitationPart, JourneyPart, EnvelopePart,
   VersionsEndWhole, CompletionsSeal, LocksAreOrdered, RevocationHolds, RecoveryEnds, ServedMembers,
   EndIsFinal, SpentOnce, OneReadingHolds, DeletionIsFinal, MigrationSealsAsRecorded, PTL

-----------------------------------------------------------------------------
(* Evidence beside the services.  MCEvidence takes CoverageEvidence and    *)
(* CrossVersion at its samples; Proved is the same two modules there, with *)
(* what EvidenceProofs proves of every sample.  Definition by definition   *)
(* the two agree.                                                          *)

Proved == INSTANCE EvidenceProofs WITH
  question <- given, record <- partial, input <- terms, progress <- answer,
  Profilers <- {1, 2}, Questions <- MCQuestions, LegacyProfiles <- MCLegacy, Inputs <- MCInputs,
  request <- given, world <- terms, loaded <- partial, outcome <- answer,
  Requests <- MCRequests, Worlds <- MCWorlds, GRANULARITY_DAY_SPAN <- 92

(* Coverage.                                                               *)

LEMMA CoverageSamples ==
  Evidence!QuestionsAreDeclared /\ Evidence!LegacyIsRecorded => Proved!QuestionsAreDeclared /\ Proved!LegacyIsRecorded
BY DEF Evidence!QuestionsAreDeclared, Evidence!LegacyIsRecorded, Evidence!Dated,
   Proved!QuestionsAreDeclared, Proved!LegacyIsRecorded, Proved!Dated

LEMMA SameEnds ==
  ASSUME NEW days
  PROVE  Evidence!Min(days) = Proved!Min(days) /\ Evidence!Max(days) = Proved!Max(days)
BY DEF Evidence!Min, Evidence!Max, Proved!Min, Proved!Max

LEMMA SameSums ==
  ASSUME NEW values
  PROVE  Evidence!SumOf(values) = Proved!SumOf(values)
BY DEF Evidence!SumOf, Evidence!FoldSeq, Evidence!FoldFunction, Evidence!MapThenFoldSet,
   Evidence!FoldFunctionOnSet, Proved!SumOf, Proved!FoldSeq, Proved!FoldFunction,
   Proved!MapThenFoldSet, Proved!FoldFunctionOnSet

LEMMA SameSignature ==
  ASSUME NEW m, NEW s, NEW a, NEW b
  PROVE  Evidence!Signature(m, s, a, b) = Proved!Signature(m, s, a, b)
BY DEF Evidence!Signature, Evidence!ModeOf, Evidence!Ordinals, Evidence!DayProven,
   Evidence!ScopesOf, Evidence!FULL_CALENDAR, Evidence!PREFIX, Evidence!Cardinality,
   Proved!Signature, Proved!ModeOf, Proved!Ordinals, Proved!DayProven, Proved!ScopesOf,
   Proved!FULL_CALENDAR, Proved!PREFIX, Proved!Cardinality

LEMMA SameScopes ==
  ASSUME NEW m
  PROVE  Evidence!ScopesOf(m) = Proved!ScopesOf(m)
BY DEF Evidence!ScopesOf, Proved!ScopesOf

LEMMA SameRows ==
  Evidence!Dates = Proved!Dates /\ Evidence!Kinds = Proved!Kinds
BY DEF Evidence!Kinds, Evidence!Dates, Evidence!Range, Proved!Kinds, Proved!Dates, Proved!Range

LEMMA SamePopulation ==
  ASSUME NEW m
  PROVE  Evidence!AttestsThePopulation(m) = Proved!AttestsThePopulation(m)
BY SameRows DEF Evidence!AttestsThePopulation, Proved!AttestsThePopulation

LEMMA SameSignatures ==
  ASSUME NEW m
  PROVE  Evidence!SignaturesOf(m) = Proved!SignaturesOf(m)
<1>1. {Evidence!Signature(m, s, Evidence!Min(Evidence!Dates), Evidence!Max(Evidence!Dates)) :
          s \in Evidence!ScopesOf(m)} =
      {Proved!Signature(m, s, Proved!Min(Proved!Dates), Proved!Max(Proved!Dates)) :
          s \in Proved!ScopesOf(m)}
  BY SameEnds, SameSignature, SameScopes, SameRows
<1> QED BY <1>1, SameRows, SamePopulation DEF Evidence!SignaturesOf, Proved!SignaturesOf

LEMMA SameBases ==
  ASSUME NEW m
  PROVE  Evidence!DailyBasesOf(m) = Proved!DailyBasesOf(m)
BY SameEnds, SameSums DEF Evidence!DailyBasesOf, Evidence!AttestsThePopulation, Evidence!Kinds,
   Evidence!Range, Evidence!AttestedDays, Evidence!DayProven, Evidence!DailyValue,
   Evidence!ValuesOn, Evidence!SelectSeq, Proved!DailyBasesOf, Proved!AttestsThePopulation,
   Proved!Kinds, Proved!Range, Proved!AttestedDays, Proved!DayProven, Proved!DailyValue,
   Proved!ValuesOn, Proved!SelectSeq

LEMMA SameDeclare ==
  ASSUME NEW c
  PROVE  Evidence!Declare(c) = Proved!Declare(c)
BY DEF Evidence!Declare, Evidence!RequestedManifest, Evidence!Reach, Evidence!Usable,
   Evidence!OneScopeMode, Evidence!ToManifest, Evidence!Pairs, Evidence!ScopesOf,
   Proved!Declare, Proved!RequestedManifest, Proved!Reach, Proved!Usable, Proved!OneScopeMode,
   Proved!ToManifest, Proved!Pairs, Proved!ScopesOf

LEMMA SameLook ==
  ASSUME NEW c
  PROVE  Evidence!Look(c) = Proved!Look(c)
BY DEF Evidence!Look, Evidence!Reach, Evidence!Answering, Evidence!RequestedManifest,
   Evidence!RecordedContract, Evidence!Bindable, Evidence!Bound, Evidence!UNRECORDED_ATTESTER,
   Evidence!ToManifest, Evidence!Pairs, Evidence!ScopesOf, Proved!Look, Proved!Reach,
   Proved!Answering, Proved!RequestedManifest, Proved!RecordedContract, Proved!Bindable,
   Proved!Bound, Proved!UNRECORDED_ATTESTER, Proved!ToManifest, Proved!Pairs, Proved!ScopesOf

LEMMA SameStore ==
  ASSUME NEW c
  PROVE  Evidence!Store(c) = Proved!Store(c)
BY DEF Evidence!Store, Evidence!ProfileOf, Evidence!Reach, Evidence!Answering,
   Evidence!RequestedManifest, Evidence!RecordedContract, Evidence!Bindable, Evidence!Bound,
   Evidence!UNRECORDED_ATTESTER, Evidence!ToManifest, Evidence!Pairs, Evidence!ScopesOf,
   Proved!Store, Proved!ProfileOf, Proved!Reach, Proved!Answering, Proved!RequestedManifest,
   Proved!RecordedContract, Proved!Bindable, Proved!Bound, Proved!UNRECORDED_ATTESTER,
   Proved!ToManifest, Proved!Pairs, Proved!ScopesOf

LEMMA SameBuild ==
  Evidence!BuildEvidence = Proved!BuildEvidence
BY SameSignatures, SameBases DEF Evidence!BuildEvidence, Proved!BuildEvidence

LEMMA SameProfiling == Evidence!CoverageSpec => Proved!CoverageSpec
<1>1. Evidence!CoverageInit => Proved!CoverageInit
  BY DEF Evidence!CoverageInit, Proved!CoverageInit
<1>2. Evidence!CoverageNext => Proved!CoverageNext
  BY SameDeclare, SameLook, SameStore, SameBuild DEF Evidence!CoverageNext, Proved!CoverageNext
<1>3. [Evidence!CoverageNext]_<<given, partial, terms, answer>> =>
        [Proved!CoverageNext]_<<given, partial, terms, answer>>
  BY <1>2
<1> QED BY <1>1, <1>3, PTL DEF Evidence!CoverageSpec, Proved!CoverageSpec, Evidence!cvars, Proved!cvars

LEMMA SameComplete ==
  ASSUME NEW s, NEW w
  PROVE  Evidence!Complete(s, w) = Proved!Complete(s, w)
BY DEF Evidence!Complete, Evidence!Completeness, Evidence!AdmitsCompleteness, Evidence!Query,
   Evidence!Cut, Evidence!DayProven, Evidence!ScopesOf, Proved!Complete, Proved!Completeness,
   Proved!AdmitsCompleteness, Proved!Query, Proved!Cut, Proved!DayProven, Proved!ScopesOf

LEMMA SameFull ==
  ASSUME NEW m, NEW s, NEW w
  PROVE  Evidence!Full(m, s, w) = Proved!Full(m, s, w)
BY SameSignature DEF Evidence!Full, Evidence!FULL_CALENDAR, Proved!Full, Proved!FULL_CALENDAR

LEMMA SameWindows ==
  Evidence!AnyScope = Proved!AnyScope /\ Evidence!Windows = Proved!Windows
BY DEF Evidence!AnyScope, Evidence!Windows, Evidence!Span, Evidence!ScopesOf, Proved!AnyScope,
   Proved!Windows, Proved!Span, Proved!ScopesOf

LEMMA SameSize ==
  ASSUME NEW days
  PROVE  Evidence!Cardinality(days) = Proved!Cardinality(days)
BY DEF Evidence!Cardinality, Proved!Cardinality

LEMMA AnswersAgree ==
  Proved!AnsweredAsAsked => Evidence!AnsweredAsAsked
BY DEF Evidence!AnsweredAsAsked, Evidence!ProfileOf, Evidence!RequestedManifest,
   Evidence!Usable, Evidence!Bound, Evidence!OneScopeMode, Evidence!UNRECORDED_ATTESTER,
   Evidence!ToManifest, Evidence!Pairs, Evidence!ScopesOf, Proved!AnsweredAsAsked,
   Proved!ProfileOf, Proved!RequestedManifest, Proved!Usable, Proved!Bound, Proved!OneScopeMode,
   Proved!UNRECORDED_ATTESTER, Proved!ToManifest, Proved!Pairs, Proved!ScopesOf

LEMMA AttestedAgree ==
  Proved!EvidenceIsAttested => Evidence!EvidenceIsAttested
BY DEF Evidence!EvidenceIsAttested, Evidence!NoEvidence, Evidence!Range, Evidence!ScopesOf,
   Proved!EvidenceIsAttested, Proved!NoEvidence, Proved!Range, Proved!ScopesOf

LEMMA CompletenessAgrees ==
  Proved!CompletenessMatchesSignature => Evidence!CompletenessMatchesSignature
BY SameComplete, SameWindows, SameSignature, SameFull, SameSize DEF
   Evidence!CompletenessMatchesSignature, Proved!CompletenessMatchesSignature

LEMMA JoinsAgree ==
  Proved!CompleteWindowsJoin => Evidence!CompleteWindowsJoin
BY SameComplete, SameWindows DEF Evidence!CompleteWindowsJoin, Proved!CompleteWindowsJoin

LEMMA ProjectionsAgree ==
  Proved!ProjectionIsItsOwnWindow => Evidence!ProjectionIsItsOwnWindow
BY DEF Evidence!ProjectionIsItsOwnWindow, Evidence!ProjectPrefix, Evidence!PREFIX,
   Evidence!FULL_CALENDAR, Evidence!Signature, Evidence!ModeOf, Evidence!Ordinals,
   Evidence!DayProven, Evidence!ScopesOf, Evidence!Cardinality, Evidence!AnyScope,
   Evidence!Windows, Evidence!Span, Proved!ProjectionIsItsOwnWindow, Proved!ProjectPrefix,
   Proved!PREFIX, Proved!FULL_CALENDAR, Proved!Signature, Proved!ModeOf, Proved!Ordinals,
   Proved!DayProven, Proved!ScopesOf, Proved!Cardinality, Proved!AnyScope, Proved!Windows,
   Proved!Span

LEMMA CoverageAgrees ==
  Proved!CoverageHolds => Evidence!CoverageHolds
BY AnswersAgree, AttestedAgree, CompletenessAgrees, JoinsAgree, ProjectionsAgree DEF
   Evidence!CoverageHolds, Evidence!CoverageTypeOK, Evidence!RepetitionNeverConflicts,
   Proved!CoverageHolds, Proved!CoverageTypeOK, Proved!RepetitionNeverConflicts

-----------------------------------------------------------------------------
(* Comparisons.                                                            *)

LEMMA ComparisonSamples ==
  Comparison!WorldsAreKept => Proved!WorldsAreKept
BY DEF Comparison!WorldsAreKept, Comparison!WorldIsKept, Comparison!KeptIsRead,
   Comparison!RunsAreOrdered, Comparison!OneScopeMode, Comparison!ScopesOf,
   Comparison!IsFiniteSet, Proved!WorldsAreKept, Proved!WorldIsKept, Proved!KeptIsRead,
   Proved!RunsAreOrdered, Proved!OneScopeMode, Proved!ScopesOf, Proved!IsFiniteSet

LEMMA SameLatest ==
  ASSUME NEW v
  PROVE  Comparison!LatestCompleted(v) = Proved!LatestCompleted(v) /\ Comparison!Completed(v) = Proved!Completed(v)
BY DEF Comparison!LatestCompleted, Comparison!Completed, Comparison!LiveRuns,
   Comparison!LaterRun, Proved!LatestCompleted, Proved!Completed, Proved!LiveRuns,
   Proved!LaterRun

LEMMA SameBounds ==
  ASSUME NEW days
  PROVE  Comparison!Min(days) = Proved!Min(days) /\ Comparison!Max(days) = Proved!Max(days)
BY DEF Comparison!Min, Comparison!Max, Proved!Min, Proved!Max

LEMMA SameGranularity ==
  ASSUME NEW m
  PROVE  Comparison!Granularity(m) = Proved!Granularity(m)
BY SameBounds DEF Comparison!Granularity, Proved!Granularity

LEMMA SamePeriod ==
  ASSUME NEW m, NEW a, NEW b
  PROVE  Comparison!PeriodComplete(m, a, b) = Proved!PeriodComplete(m, a, b)
BY DEF Comparison!PeriodComplete, Comparison!ScopesOf, Comparison!AdmitsCompleteness,
   Comparison!Query, Comparison!Cut, Comparison!DayProven, Proved!PeriodComplete,
   Proved!ScopesOf, Proved!AdmitsCompleteness, Proved!Query, Proved!Cut, Proved!DayProven

LEMMA SameOperand ==
  ASSUME NEW v, NEW r
  PROVE  Comparison!Operand(v, r) = Proved!Operand(v, r)
BY SameGranularity, SamePeriod DEF Comparison!Operand, Comparison!PackageUsable,
   Comparison!Unloaded, Proved!Operand, Proved!PackageUsable, Proved!Unloaded

LEMMA SameLoaded ==
  ASSUME NEW v
  PROVE  Comparison!LoadOperand(v) = Proved!LoadOperand(v)
BY SameLatest, SameOperand DEF Comparison!LoadOperand, Comparison!Unloaded, Proved!LoadOperand,
   Proved!Unloaded

LEMMA SameCauses ==
  ASSUME NEW s, NEW b
  PROVE  Comparison!Causes(s, b) = Proved!Causes(s, b)
BY DEF Comparison!Causes, Comparison!Separations, Comparison!SharedMetrics,
   Comparison!Counterpart, Comparison!CompositeProvenance, Comparison!PopulationScope,
   Comparison!StoreSet, Comparison!PopulationAttested, Comparison!BasisByMetric,
   Comparison!Range, Comparison!SCOPE, Comparison!MAPPING_DRIFT, Comparison!FORMULA_DRIFT,
   Comparison!PACKAGE_DRIFT, Comparison!BASIS, Comparison!STORE_SET, Comparison!GRANULARITY,
   Comparison!RETAIL_DAY, Comparison!INCOMPLETE, Comparison!UNORDERED_PAIR, Proved!Causes,
   Proved!Separations, Proved!SharedMetrics, Proved!Counterpart, Proved!CompositeProvenance,
   Proved!PopulationScope, Proved!StoreSet, Proved!PopulationAttested, Proved!BasisByMetric,
   Proved!Range, Proved!SCOPE, Proved!MAPPING_DRIFT, Proved!FORMULA_DRIFT, Proved!PACKAGE_DRIFT,
   Proved!BASIS, Proved!STORE_SET, Proved!GRANULARITY, Proved!RETAIL_DAY, Proved!INCOMPLETE,
   Proved!UNORDERED_PAIR

LEMMA SameAdmission ==
  ASSUME NEW s, NEW b
  PROVE  Comparison!AdmissionCause(s, b) = Proved!AdmissionCause(s, b)
BY SameBounds, SameCauses DEF Comparison!AdmissionCause, Proved!AdmissionCause

LEMMA SameStates ==
  Comparison!States = Proved!States /\ Comparison!CauseOf = Proved!CauseOf
BY SameAdmission DEF Comparison!States, Comparison!CauseOf, Comparison!INCOMPLETE,
   Proved!States, Proved!CauseOf, Proved!INCOMPLETE

LEMMA SameFigures ==
  ASSUME NEW s, NEW b, NEW f
  PROVE  Comparison!FiguresOf(s, b, f) = Proved!FiguresOf(s, b, f)
BY DEF Comparison!FiguresOf, Comparison!Cell, Comparison!PercentageRatio, Comparison!HalfEven,
   Comparison!Counterpart, Comparison!Range, Proved!FiguresOf, Proved!Cell,
   Proved!PercentageRatio, Proved!HalfEven, Proved!Counterpart, Proved!Range

LEMMA SameProvenance ==
  ASSUME NEW s, NEW b, NEW f
  PROVE  Comparison!PairProvenance(s, b, f) = Proved!PairProvenance(s, b, f)
BY DEF Comparison!PairProvenance, Comparison!BasisByMetric, Proved!PairProvenance,
   Proved!BasisByMetric

LEMMA SameFacts ==
  ASSUME NEW s, NEW b
  PROVE  Comparison!SharedFacts(s, b) = Proved!SharedFacts(s, b)
BY DEF Comparison!SharedFacts, Comparison!SelectSeq, Comparison!Counterpart, Comparison!Range,
   Proved!SharedFacts, Proved!SelectSeq, Proved!Counterpart, Proved!Range

LEMMA SameFlat ==
  ASSUME NEW s
  PROVE  Comparison!FlattenSeq(s) = Proved!FlattenSeq(s)
BY DEF Comparison!FlattenSeq, Proved!FlattenSeq

LEMMA SameBundle ==
  ASSUME NEW s, NEW b
  PROVE  Comparison!CrossVersionBundle(s, b) = Proved!CrossVersionBundle(s, b)
BY SameFacts, SameProvenance, SameFigures, SameFlat DEF Comparison!CrossVersionBundle,
   Proved!CrossVersionBundle

LEMMA SameRules ==
  ASSUME NEW u
  PROVE  Comparison!BundleRules(u) = Proved!BundleRules(u)
BY DEF Comparison!BundleRules, Comparison!IdentityRules, Comparison!OperandsRule,
   Comparison!EvidenceRules, Comparison!Range, Comparison!SelectSeq, Comparison!Cardinality,
   Proved!BundleRules, Proved!IdentityRules, Proved!OperandsRule, Proved!EvidenceRules,
   Proved!Range, Proved!SelectSeq, Proved!Cardinality

LEMMA SameScope ==
  Comparison!ResolveScope = Proved!ResolveScope
BY DEF Comparison!ResolveScope, Comparison!ShapeRefused, Comparison!Decide, Comparison!Settled,
   Comparison!NoOutcome, Comparison!UNORDERED_PAIR, Proved!ResolveScope, Proved!ShapeRefused,
   Proved!Decide, Proved!Settled, Proved!NoOutcome, Proved!UNORDERED_PAIR

LEMMA SameVersions ==
  Comparison!ReadVersions = Proved!ReadVersions
BY DEF Comparison!ReadVersions, Comparison!Decide, Comparison!Settled, Comparison!NoOutcome,
   Proved!ReadVersions, Proved!Decide, Proved!Settled, Proved!NoOutcome

LEMMA SameLoads ==
  Comparison!LoadSubject = Proved!LoadSubject /\ Comparison!LoadBaseline = Proved!LoadBaseline
BY SameLoaded DEF Comparison!LoadSubject, Comparison!LoadBaseline, Proved!LoadSubject,
   Proved!LoadBaseline

LEMMA SameAssembly ==
  Comparison!Assemble = Proved!Assemble
BY SameStates, SameBundle, SameRules DEF Comparison!Assemble, Comparison!Decide,
   Comparison!Settled, Comparison!NoOutcome, Proved!Assemble, Proved!Decide, Proved!Settled,
   Proved!NoOutcome

LEMMA SameEnd ==
  Comparison!Audit = Proved!Audit /\ Comparison!Answer = Proved!Answer /\ \A v : Comparison!Revoke(v) = Proved!Revoke(v)
BY DEF Comparison!Audit, Comparison!Answer, Comparison!Revoke, Proved!Audit, Proved!Answer,
   Proved!Revoke

LEMMA SameComparing == Comparison!CrossVersionSpec => Proved!CrossVersionSpec
<1>1. Comparison!CrossVersionInit => Proved!CrossVersionInit
  BY DEF Comparison!CrossVersionInit, Comparison!NoOutcome, Proved!CrossVersionInit, Proved!NoOutcome
<1>2. Comparison!CrossVersionNext => Proved!CrossVersionNext
  BY SameScope, SameVersions, SameLoads, SameAssembly, SameEnd
  DEF Comparison!CrossVersionNext, Proved!CrossVersionNext
<1>3. [Comparison!CrossVersionNext]_<<given, terms, partial, answer>> =>
        [Proved!CrossVersionNext]_<<given, terms, partial, answer>>
  BY <1>2
<1> QED
  BY <1>1, <1>3, PTL
  DEF Comparison!CrossVersionSpec, Proved!CrossVersionSpec, Comparison!xvars, Proved!xvars

LEMMA OrderAgrees ==
  Proved!OrderNeverDecides => Comparison!OrderNeverDecides
BY SameStates, SameAdmission DEF Comparison!OrderNeverDecides, Proved!OrderNeverDecides

LEMMA LikenessAgrees ==
  Proved!LikeWithLike => Comparison!LikeWithLike
BY DEF Comparison!LikeWithLike, Comparison!Admitted, Comparison!Both, Comparison!Range,
   Comparison!ScopesOf, Comparison!KeptOf, Proved!LikeWithLike, Proved!Admitted, Proved!Both,
   Proved!Range, Proved!ScopesOf, Proved!KeptOf

LEMMA AuditAgrees ==
  Proved!AuditedOnce => Comparison!AuditedOnce
BY DEF Comparison!AuditedOnce, Comparison!Admitted, Proved!AuditedOnce, Proved!Admitted

LEMMA RevokedAgrees ==
  Proved!RevokedIsNotCompared => Comparison!RevokedIsNotCompared
BY DEF Comparison!RevokedIsNotCompared, Comparison!Admitted, Comparison!Both,
   Proved!RevokedIsNotCompared, Proved!Admitted, Proved!Both

LEMMA ComparisonAgrees ==
  Proved!CrossVersionHolds => Comparison!CrossVersionHolds
BY OrderAgrees, LikenessAgrees, AuditAgrees, RevokedAgrees DEF Comparison!CrossVersionHolds,
   Comparison!CrossVersionTypeOK, Proved!CrossVersionHolds, Proved!CrossVersionTypeOK

-----------------------------------------------------------------------------

\* A behaviour of the computations on coverage is one of CoverageEvidence, and one
\* of the comparisons one of CrossVersion; the part never changes.
LEMMA CoveragePart == Spec => []~(part = "coverage") \/ Evidence!CoverageSpec
<1>1. Init => ~(part = "coverage") \/ Evidence!CoverageInit
  BY DEF Init, FiguresInit, FiguresRest, ReportInit, CoverageInit, ComparisonInit, ViewsInit, DecisionInit,
     ShellInit, FactsInit, MappingInit, BundleInit, NarrativeInit, Computations
<1>2. ~(part = "coverage") /\ [Next]_<<part, wvars, svars, ivars, jvars, evars, figvars>> => ~(part = "coverage")'
  BY DEF Next
<1>3. [Next]_<<part, wvars, svars, ivars, jvars, evars, figvars>> =>
        ~(part = "coverage") \/ [Evidence!CoverageNext]_<<given, partial, terms, answer>>
  BY DEF Next, figvars, FiguresNext, ReportNext, CoverageNext, ComparisonNext, ViewsNext, DecisionNext,
     ShellNext, FactsNext, MappingNext, BundleNext, NarrativeNext
<1>4. part = "coverage" /\ [Next]_<<part, wvars, svars, ivars, jvars, evars, figvars>> => (part = "coverage")'
  BY DEF Next
<1> QED BY <1>1, <1>2, <1>3, <1>4, PTL DEF Spec, Evidence!CoverageSpec, Evidence!cvars

LEMMA ComparisonPart == Spec => []~(part = "comparison") \/ Comparison!CrossVersionSpec
<1>1. Init => ~(part = "comparison") \/ Comparison!CrossVersionInit
  BY DEF Init, FiguresInit, FiguresRest, ReportInit, CoverageInit, ComparisonInit, ViewsInit, DecisionInit,
     ShellInit, FactsInit, MappingInit, BundleInit, NarrativeInit, Computations
<1>2. ~(part = "comparison") /\ [Next]_<<part, wvars, svars, ivars, jvars, evars, figvars>> => ~(part = "comparison")'
  BY DEF Next
<1>3. [Next]_<<part, wvars, svars, ivars, jvars, evars, figvars>> =>
        ~(part = "comparison") \/ [Comparison!CrossVersionNext]_<<given, terms, partial, answer>>
  BY DEF Next, figvars, FiguresNext, ReportNext, CoverageNext, ComparisonNext, ViewsNext, DecisionNext,
     ShellNext, FactsNext, MappingNext, BundleNext, NarrativeNext
<1>4. part = "comparison" /\ [Next]_<<part, wvars, svars, ivars, jvars, evars, figvars>> => (part = "comparison")'
  BY DEF Next
<1> QED BY <1>1, <1>2, <1>3, <1>4, PTL DEF Spec, Comparison!CrossVersionSpec, Comparison!xvars

\* Beside the services too, what a profile attests and what is compared are what
\* EvidenceProofs proves of them (datasets.py _answering, cross_version.py admit).
THEOREM EvidenceIsProved ==
  ASSUME Proved!MissingIsApart, Proved!MissingIsNoWord
  PROVE  Spec => []EvidenceHolds
<1>1. Proved!QuestionsAreDeclared /\ Proved!LegacyIsRecorded /\ Proved!WorldsAreKept
  BY EvidenceAssumption, CoverageSamples, ComparisonSamples
<1>2. Proved!CoverageSpec => []Proved!CoverageHolds
  BY <1>1, Proved!AttestationsAgree
<1>3. Proved!CrossVersionSpec => []Proved!CrossVersionHolds
  BY <1>1, Proved!ComparisonsAreOfLikeWithLike
<1>4. Evidence!CoverageSpec => []Evidence!CoverageHolds
  BY <1>2, SameProfiling, CoverageAgrees, PTL
<1>5. Comparison!CrossVersionSpec => []Comparison!CrossVersionHolds
  BY <1>3, SameComparing, ComparisonAgrees, PTL
<1>6. ~(part = "coverage") /\ ~(part = "comparison") => EvidenceHolds
  BY DEF EvidenceHolds
<1>7. ~(part = "coverage") /\ Comparison!CrossVersionHolds => EvidenceHolds
  BY DEF EvidenceHolds
<1>8. Evidence!CoverageHolds /\ ~(part = "comparison") => EvidenceHolds
  BY DEF EvidenceHolds
<1>9. Evidence!CoverageHolds /\ Comparison!CrossVersionHolds => EvidenceHolds
  BY DEF EvidenceHolds
<1> QED BY <1>4, <1>5, <1>6, <1>7, <1>8, <1>9, CoveragePart, ComparisonPart, PTL
=============================================================================
