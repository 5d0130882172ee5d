---------------------------- MODULE SemanticViews ----------------------------
(***************************************************************************)
(* Semantic views: a member asks a published view over completed runs; the *)
(* runs are read in the member's scope, the bundle each run published is   *)
(* rebuilt from its package, or one comparison of two of them is made, and *)
(* the view selects rows of it without calculating anything.               *)
(***************************************************************************)
EXTENDS Integers, Sequences, FiniteSets, FiniteSetsExt, SequencesExt, TLC

CONSTANTS
  Missing,
  GRANULARITY_DAY_SPAN,
  ViewQueries,   \* what may be asked
  Libraries,     \* runs, and what was kept of each
  Bundles        \* the bundle each kept package rebuilds to

VARIABLES query, library, reading, answered
qvars == <<query, library, reading, answered>>

\* Loading and admitting a compared pair is the comparison service's.
Pair == INSTANCE CrossVersion WITH
  request <- query, world <- library, loaded <- reading, outcome <- answered, Requests <- {}, Worlds <- {}

----------------------------------------------------------------------------
(* The catalogue of metrics.                                               *)

SeriesDimension ==
  [revenue_by_period |-> "period", units_by_period |-> "period",
   revenue_by_product |-> "product", units_by_product |-> "product",
   revenue_by_category |-> "category", units_by_category |-> "category",
   revenue_by_store |-> "store", units_by_store |-> "store",
   revenue_by_channel |-> "channel", units_by_channel |-> "channel"]
SERIES_METRICS == DOMAIN SeriesDimension
SERIES_DIMENSIONS == Range(SeriesDimension)
SeriesOver(dimensions) == {m \in SERIES_METRICS : SeriesDimension[m] \in dimensions}

FAMILY_METRICS ==
  [core |-> {"revenue", "units", "transactions", "average_order_value", "average_selling_price", "cost",
             "gross_profit", "gross_margin", "discount", "returns"},
   comparison |-> {"revenue_delta_absolute", "revenue_delta_percent"},
   growth |-> {"growth_revenue_change", "growth_price_effect", "growth_volume_effect"},
   basket |-> {"basket_items_per_transaction", "basket_attach_rate"},
   concentration |-> {"concentration_curve", "concentration_distinct_values", "concentration_ranked_values",
                      "concentration_top_decile_share", "concentration_top_quartile_share"}]
MetricsOf(families) == UNION {FAMILY_METRICS[f] : f \in families}
METRIC_CODES == MetricsOf(DOMAIN FAMILY_METRICS) \cup SERIES_METRICS

----------------------------------------------------------------------------
(* The published views.                                                    *)

SINGLE == "single_population_bundle"
TWO == "two_population_bundle"
EITHER == "either_bundle"

View(version, shape, metrics, dimensions, filters, fields) ==
  [version |-> version, shape |-> shape, metrics |-> metrics, dimensions |-> dimensions,
   filters |-> filters, fields |-> fields, required |-> {}]

Views ==
  [ExecutiveOverviewView |-> View("sv1.executive_overview.v1", SINGLE, MetricsOf({"core"}), {"period"}, {},
     {"metric", "value", "population", "versions"}),
   PeriodComparisonView |-> View("sv1.period_comparison.v1", TWO, MetricsOf({"core", "comparison", "growth"}),
     {"period"}, {}, {"metric", "subject", "baseline", "delta", "versions"}),
   BranchPerformanceView |-> View("sv1.branch_performance.v1", SINGLE, SeriesOver({"store"}), {"store"}, {"store"},
     {"store", "metric", "value", "population"}),
   ProductCategoryView |-> View("sv1.product_category.v1", SINGLE, SeriesOver({"product", "category"}),
     {"product", "category"}, {"product", "category"}, {"dimension", "member", "metric", "value", "population"}),
   BasketView |-> View("sv1.basket.v1", SINGLE, MetricsOf({"basket"}), {"period"}, {},
     {"metric", "value", "population", "versions"}),
   ConcentrationView |-> View("sv1.concentration.v1", SINGLE, MetricsOf({"concentration"}), {"product", "category"},
     {"product", "category"}, {"dimension", "metric", "value", "population"}),
   ReportEvidenceView |-> View("sv1.report_evidence.v1", EITHER, MetricsOf({"core"}), {"period"}, {},
     {"figure", "evidence", "provenance", "absence"}),
   MetricAvailabilityView |-> View("sv1.metric_availability.v1", EITHER, MetricsOf(DOMAIN FAMILY_METRICS),
     SERIES_DIMENSIONS, {}, {"metric", "availability", "reason", "versions"})]

----------------------------------------------------------------------------
(* Compatibility of a request, its view and its sources.                   *)

ShapeOf(bundles) ==
  IF Len(bundles) # 1 THEN "unrecognized_source"
  ELSE IF bundles[1].population = "two" THEN TWO ELSE SINGLE
EvidenceCodes(bundles) == IF Len(bundles) # 1 THEN {} ELSE DOMAIN bundles[1].evidence

Failures(q, v, bundles) == <<
  <<v.version # q.version, "unknown version">>,
  <<~(q.metrics \subseteq v.metrics), "unknown metric">>,
  <<~(q.dimensions \subseteq v.dimensions), "unknown dimension">>,
  <<~({f[1] : f \in q.filters} \subseteq v.filters), "unknown filter">>,
  <<ShapeOf(bundles) \notin {SINGLE, TWO} \/ v.shape \notin {ShapeOf(bundles), EITHER}, "incompatible source shape">>,
  <<~(v.required \subseteq EvidenceCodes(bundles)), "missing required evidence">> >>

\* The first cause that holds, or Missing.
Validate(q, bundles) ==
  IF q.view \notin DOMAIN Views THEN "unknown view"
  ELSE LET held == SelectSeq(Failures(q, Views[q.view], bundles), LAMBDA f : f[1])
       IN IF held = <<>> THEN Missing ELSE Head(held)[2]

----------------------------------------------------------------------------
(* What a bundle said and refused to say.                                  *)

\* A caveat of more than one part names a result and the reason it is refused.
ScopedCaveats(b) == SelectSeq(b.caveats, LAMBDA c : Len(c.code) > 1)
Qualifying(b) == SelectSeq(b.caveats, LAMBDA c : Len(c.code) = 1)
RefusedResults(b) == [n \in DOMAIN ScopedCaveats(b) |-> <<ScopedCaveats(b)[n].code[1], Last(ScopedCaveats(b)[n].code)>>]

SectionRefusals(b) ==
  LET Closed(s) == IF s.reason = Missing \/ s.id \notin DOMAIN FAMILY_METRICS THEN {} ELSE FAMILY_METRICS[s.id]
  IN FoldLeft(LAMBDA done, s : FoldSet(LAMBDA m, listed : Append(listed, <<m, s.reason>>), done, Closed(s)),
              <<>>, b.sections)

Answered(b) == {s.id : s \in {s \in Range(b.sections) : s.reason = Missing}}
Caveated(b) == Answered(b) \cap {c.section : c \in Range(Qualifying(b))}

\* How many sections answered, how many of those carry a caveat, and how many refused.
Summarize(b) ==
  [answered |-> Cardinality(Answered(b)), caveated |-> Cardinality(Caveated(b)),
   refused |-> Cardinality({s \in Range(b.sections) : s.reason # Missing}),
   refused_results |-> RefusedResults(b), caveats |-> {c.code : c \in Range(Qualifying(b))},
   caveat_sections |-> {<<c.code, c.section>> : c \in {c \in Range(Qualifying(b)) : c.section # Missing}}]

----------------------------------------------------------------------------
(* Figures and statements.                                                 *)

SeriesDimensionOf(metric) == IF metric \in SERIES_METRICS THEN SeriesDimension[metric] ELSE Missing
DimensionOf(f) == IF f.dimension # Missing THEN f.dimension ELSE SeriesDimensionOf(f.metric)
RecordOf(b, f) == IF f.cite \in DOMAIN b.evidence THEN b.evidence[f.cite] ELSE Missing
AbsencesOf(e) == {n \in {"precision", "inputs", "provenance"} : e[n] = Missing}

\* Each section's version is that of its first figure with evidence.
FamilyVersions(b, figures) ==
  LET recorded == SelectSeq(figures, LAMBDA f : RecordOf(b, f) # Missing)
      First(section) == SelectSeq(recorded, LAMBDA f : f.section = section)[1]
  IN {<<s, RecordOf(b, First(s)).version>> : s \in {f.section : f \in Range(recorded)}}

VersionsOf(b, v, figures) == b.versions \cup {<<"view", v.version>>} \cup FamilyVersions(b, figures)

\* A bug: a filter asks for the name alone, in whatever dimension.
MatchesName(f, filters) == \A filter \in filters : f.label = filter[2]

Matches(f, filters) == \A filter \in filters : SeriesDimensionOf(f.metric) = filter[1] /\ f.label = filter[2]

\* A figure of no one dimension is shown only where none is left out.
AdmitsDimension(metric, v, q) ==
  LET effective == IF q.dimensions = {} THEN v.dimensions ELSE q.dimensions
  IN IF metric \in SERIES_METRICS THEN SeriesDimension[metric] \in effective ELSE effective = v.dimensions

Allowed(v, q) == IF q.metrics = {} THEN v.metrics ELSE q.metrics
Admits(metric, v, q) == metric \in Allowed(v, q) /\ AdmitsDimension(metric, v, q)

\* A view that publishes a value publishes no count of rows.
Published(b, v, q) ==
  SelectSeq(b.figures, LAMBDA f : /\ Admits(f.metric, v, q) /\ Matches(f, q.filters)
                                  /\ "value" \in v.fields => f.kind = "value")

FigureField(b, v, f, name) ==
  CASE name = "metric" -> f.metric
    [] name = "value" -> f.value
    [] name \in {"member", "store"} -> f.label
    [] name = "dimension" -> DimensionOf(f)
    [] name = "figure" -> f.id
    [] name = "evidence" -> f.cite
    [] name = "versions" -> VersionsOf(b, v, <<f>>)
    [] name = "provenance" /\ RecordOf(b, f) # Missing -> RecordOf(b, f).provenance
    [] name = "absence" /\ RecordOf(b, f) # Missing -> AbsencesOf(RecordOf(b, f))
    [] OTHER -> Missing

Labelled(figures, label) ==
  LET found == SelectSeq(figures, LAMBDA f : f.label = label) IN IF found = <<>> THEN Missing ELSE found[1].value

StatementField(b, v, s, name) ==
  CASE name = "metric" -> s.metric
    [] name = "availability" -> s.availability
    [] name = "reason" -> s.reason
    [] name = "versions" -> VersionsOf(b, v, s.figures)
    [] name = "subject" -> Labelled(s.figures, "subject")
    [] name = "baseline" -> Labelled(s.figures, "baseline")
    [] name = "delta" -> Labelled(s.figures, "difference")
    [] OTHER -> Missing

Statement(metric, figures, availability, reason) ==
  [metric |-> metric, figures |-> figures, availability |-> availability, reason |-> reason]

Refusals(b) == b.refusals \o RefusedResults(b) \o SectionRefusals(b)
ReasonOf(refusals, metric) ==
  LET found == SelectSeq(refusals, LAMBDA r : r[1] = metric) IN IF found = <<>> THEN Missing ELSE found[1][2]

\* One statement for each metric the bundle shows or refuses.
Availability(refusals, v, q, figures) ==
  LET named == {f.metric : f \in Range(figures)} \cup {r[1] : r \in Range(refusals)}
      Own(m) == SelectSeq(figures, LAMBDA f : f.metric = m)
  IN {IF Own(m) # <<>> THEN Statement(m, Own(m), "available", Missing)
      ELSE Statement(m, <<>>, "unavailable", ReasonOf(refusals, m)) : m \in {m \in named : Admits(m, v, q)}}

\* One statement for each citation.
Comparisons(figures) ==
  {LET own == SelectSeq(figures, LAMBDA f : f.cite = cite) IN Statement(own[1].metric, own, Missing, Missing) :
     cite \in {f.cite : f \in Range(figures)}}

RowOf(b, v, s) == [name \in v.fields |-> StatementField(b, v, s, name)]
Rows(b, v, q, figures) ==
  IF "availability" \in v.fields THEN {RowOf(b, v, s) : s \in Availability(Refusals(b), v, q, figures)}
  ELSE IF "subject" \in v.fields THEN {RowOf(b, v, s) : s \in Comparisons(figures)}
  ELSE {[name \in v.fields |-> FigureField(b, v, f, name)] : f \in Range(figures)}

Selected(b, v, q, figures) ==
  [rows |-> Rows(b, v, q, figures), versions |-> VersionsOf(b, v, figures), caveats |-> b.caveats,
   evidence |-> b.evidence, absences |-> [cite \in DOMAIN b.evidence |-> AbsencesOf(b.evidence[cite])]]
Projection(q, b) == Selected(b, Views[q.view], q, Published(b, Views[q.view], q))

----------------------------------------------------------------------------
(* A request.                                                              *)

NoAnswer == [kind |-> Missing, cause |-> Missing, projection |-> Missing]
Settled(kind, cause) == [NoAnswer EXCEPT !.kind = kind, !.cause = cause]

ViewsInit ==
  /\ query \in ViewQueries
  /\ library \in Libraries
  /\ reading = [step |-> "asked", runs |-> <<>>, built |-> <<>>]
  /\ answered = NoAnswer

Settle(answer) ==
  /\ answered' = answer
  /\ reading' = [reading EXCEPT !.step = "done"]

\* Whoever is no member is refused before any run is read.
ResolveScope ==
  /\ reading.step = "asked"
  /\ IF query.member THEN reading' = [reading EXCEPT !.step = "scoped"] /\ UNCHANGED answered
     ELSE Settle(Settled("denied", Missing))
  /\ UNCHANGED <<query, library>>

\* A run of another scope, or of a revoked version, is not there.
ReadSource ==
  /\ reading.step = "scoped" /\ Len(reading.runs) < Len(query.sources)
  /\ LET id == query.sources[Len(reading.runs) + 1]
     IN IF id \in DOMAIN library /\ library[id].mine /\ library[id].live
        THEN reading' = [reading EXCEPT !.runs = Append(@, id)] /\ UNCHANGED answered
        ELSE Settle(Settled("unavailable", Missing))
  /\ UNCHANGED <<query, library>>

Read == reading.step = "scoped" /\ Len(reading.runs) = Len(query.sources)
TwoPopulation == query.view \in DOMAIN Views /\ Views[query.view].shape = TWO
Building == Read /\ Len(reading.built) < Len(reading.runs)

\* What the run was sealed with is owned, agrees with it, and rebuilds.
Vouched(r) == r.kept.sealed = "same" /\ r.kept.package = "readable" /\ r.agrees

BuildBundle ==
  /\ Building /\ ~TwoPopulation
  /\ LET r == library[reading.runs[Len(reading.built) + 1]]
     IN IF Vouched(r) THEN reading' = [reading EXCEPT !.built = Append(@, Bundles[r.bundle])] /\ UNCHANGED answered
        ELSE Settle(Settled("unavailable", Missing))
  /\ UNCHANGED <<query, library>>

DeriveOperand ==
  /\ Building /\ TwoPopulation
  /\ LET r == library[reading.runs[Len(reading.built) + 1]]
         operand == Pair!Operand(r.version, r)
     IN IF Len(reading.runs) = 2 /\ operand.state = "loaded"
        THEN reading' = [reading EXCEPT !.built = Append(@, operand)] /\ UNCHANGED answered
        ELSE Settle(Settled("unavailable", Missing))
  /\ UNCHANGED <<query, library>>

\* A comparison as a bundle a view reads.
AsBundle(u) ==
  [population |-> "two", caveats |-> <<>>, refusals |-> <<>>, sections |-> <<>>,
   versions |-> {<<"bundle", "crossversion">>},
   figures |-> [n \in DOMAIN u.figures |-> LET f == u.figures[n] IN
     [id |-> <<f.citation, f.label>>, cite |-> f.citation, metric |-> f.metric, kind |-> "value",
      section |-> "crossversion", label |-> f.label, dimension |-> Missing, value |-> f.value]],
   evidence |-> [cite \in {e.citation : e \in Range(u.evidence)} |->
     [metric |-> (CHOOSE f \in Range(u.figures) : f.citation = cite).metric, version |-> "crossversion",
      precision |-> Missing, inputs |-> Missing,
      provenance |-> (CHOOSE e \in Range(u.evidence) : e.citation = cite).pair]]]

PairBundle == AsBundle(Pair!CrossVersionBundle(reading.built[1], reading.built[2]))

\* A pair the comparison refuses is as absent as one that is not there.
ComparePair ==
  /\ Read /\ ~Building /\ TwoPopulation
  /\ IF Len(reading.built) = 2 /\ Pair!AdmissionCause(reading.built[1], reading.built[2]) = Missing
     THEN reading' = [reading EXCEPT !.built = <<PairBundle>>, !.step = "compared"] /\ UNCHANGED answered
     ELSE Settle(Settled("unavailable", Missing))
  /\ UNCHANGED <<query, library>>

Project ==
  /\ (Read /\ ~Building /\ ~TwoPopulation) \/ reading.step = "compared"
  /\ LET cause == Validate(query, reading.built)
     IN Settle(IF cause # Missing THEN Settled("refused", cause)
               ELSE [Settled("admitted", Missing) EXCEPT !.projection = Projection(query, reading.built[1])])
  /\ UNCHANGED <<query, library>>

\* Another member revokes the version of a run, or its content is deleted.
RevokeRun(id) ==
  /\ library[id].live
  /\ library' = [r \in DOMAIN library |->
       IF library[r].version = library[id].version
       THEN [library[r] EXCEPT !.live = FALSE, !.unseen = r \notin Range(reading.runs)] ELSE library[r]]
  /\ UNCHANGED <<query, reading, answered>>

DeleteContent(id) ==
  /\ library[id].kept.package # "deleted"
  /\ library' = [library EXCEPT ![id].kept.package = "deleted",
                                ![id].unbuilt = reading.step = "scoped" /\ id \notin {reading.runs[n] : n \in DOMAIN reading.built}]
  /\ UNCHANGED <<query, reading, answered>>

ViewsNext ==
  \/ ResolveScope \/ ReadSource \/ BuildBundle \/ DeriveOperand \/ ComparePair \/ Project
  \/ \E id \in DOMAIN library : RevokeRun(id) \/ DeleteContent(id)

ViewsTypeOK ==
  /\ reading.step \in {"asked", "scoped", "compared", "done"}
  /\ Len(reading.built) <= Len(reading.runs) /\ Len(reading.runs) <= Len(query.sources)
  /\ answered.kind \in {Missing, "denied", "unavailable", "refused", "admitted"}

----------------------------------------------------------------------------
(* What holds of it.                                                       *)

Admitted == answered.kind = "admitted"
Shown == answered.projection.rows
SourceBundle == reading.built[1]
Asking(changed) == Projection(changed, SourceBundle).rows

\* Nothing is answered of a run outside the caller's scope, revoked before it
\* was read, or whose content was gone before its bundle was built, and a pair
\* that may not be compared is told apart from an absent one in nothing.
OnlyWhatIsOwned ==
  /\ answered.kind \in {"admitted", "refused"} =>
       /\ query.member
       /\ \A id \in Range(query.sources) : library[id].mine /\ ~library[id].unseen /\ ~library[id].unbuilt
  /\ answered.kind = "unavailable" => answered = [NoAnswer EXCEPT !.kind = "unavailable"]

\* A filter is never dropped: the rows are those of the unfiltered answer that
\* name the member asked for, and no more.
FiltersBind ==
  Admitted /\ query.filters # {} =>
    LET fields == Views[query.view].fields
        Named(row) ==
          IF "store" \in fields THEN {<<"store", row.store>>}
          ELSE IF "member" \in fields THEN {<<row.dimension, row.member>>} ELSE {}
    IN Shown = {row \in Asking([query EXCEPT !.filters = {}]) : query.filters \subseteq Named(row)}

\* Asking for the metrics one by one gives what asking for all of them gives,
\* and a narrower choice of dimensions only takes rows away.
NarrowingOnlyRemoves ==
  Admitted =>
    /\ Shown = UNION {Asking([query EXCEPT !.metrics = {m}]) : m \in Allowed(Views[query.view], query)}
    /\ Shown \subseteq Asking([query EXCEPT !.dimensions = {}])
    /\ \A d \in query.dimensions : Asking([query EXCEPT !.dimensions = {d}]) \subseteq Shown

\* Every metric the bundle shows or refuses is stated once: available where a
\* figure of it is shown, and otherwise unavailable for a reason the bundle gave.
EveryMetricAccounted ==
  Admitted /\ query.view = "MetricAvailabilityView" /\ query.dimensions = {} =>
    /\ \A r, s \in Shown : r.metric = s.metric => r = s
    /\ \A m \in Allowed(Views[query.view], query) :
         LET shown == \E f \in Range(SourceBundle.figures) : f.metric = m
             reasons ==
               {r[2] : r \in {r \in Range(SourceBundle.refusals) : r[1] = m}}
               \cup {Last(c.code) : c \in {c \in Range(SourceBundle.caveats) : Len(c.code) > 1 /\ c.code[1] = m}}
               \cup ({s.reason : s \in {s \in Range(SourceBundle.sections) : s.id \in DOMAIN FAMILY_METRICS /\ m \in FAMILY_METRICS[s.id]}} \ {Missing})
         IN /\ shown <=> \E r \in Shown : r.metric = m /\ r.availability = "available" /\ r.reason = Missing
            /\ ~shown /\ reasons # {} => \E r \in Shown : r.metric = m /\ r.reason \in reasons

\* Each row of a comparison is one metric, and its difference is that of the two
\* values beside it.
ComparedRowsAddUp ==
  Admitted /\ query.view = "PeriodComparisonView" =>
    /\ \A r, s \in Shown : r.metric = s.metric => r = s
    /\ \A r \in Shown : r.baseline + r.delta = r.subject
    /\ \A f \in Range(SourceBundle.figures) :
         f.metric \in Allowed(Views[query.view], query) => \E r \in Shown : r.metric = f.metric

\* The versions an answer names are those its rows were made under, the view's
\* and the package's among them.
VersionsAreTheRows ==
  Admitted /\ "versions" \in Views[query.view].fields /\ Shown # {} =>
    /\ answered.projection.versions = UNION {row.versions : row \in Shown}
    /\ \A row \in Shown : SourceBundle.versions \cup {<<"view", query.version>>} \subseteq row.versions

\* A view that publishes values publishes each as the value of its metric, never
\* as the count of rows behind one.
ValuesAreValues ==
  Admitted /\ "value" \in Views[query.view].fields =>
    \A row \in Shown : \E f \in Range(SourceBundle.figures) :
      f.kind = "value" /\ f.metric = row.metric /\ f.value = row.value

ViewsHold ==
  /\ ViewsTypeOK /\ OnlyWhatIsOwned /\ FiltersBind /\ NarrowingOnlyRemoves
  /\ EveryMetricAccounted /\ ComparedRowsAddUp /\ VersionsAreTheRows /\ ValuesAreValues

============================================================================
