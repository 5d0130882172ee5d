---------------------------- MODULE ReportBundle ----------------------------
(***************************************************************************)
(* The report bundle: the figures of a fact package and of its analyses,   *)
(* each under one section, with the caveats that qualify them; and the     *)
(* assembler, which delivers the three surfaces of a report only when each *)
(* states the bundle's figures in both languages.                          *)
(***************************************************************************)
EXTENDS RetailAnalyses, TLC

CONSTANTS
  MAX_CURVE_POINTS,  \* points a drawn curve keeps
  Packages,          \* fact packages
  FaultyPackages     \* those whose renderers may go wrong

VARIABLES
  package,    \* the package reported
  asked,      \* whether a narrative is given, or was refused
  bundle,     \* the bundle, once built
  attempt     \* the surfaces produced and the outcome

bvars == <<package, asked, bundle, attempt>>

ORDERED_SECTIONS == <<"overview", "comparison", "concentration", "growth", "basket">>
Families == <<"comparison", "concentration", "growth", "basket">>
FamilyVersion ==
  [comparison |-> "rra008.comparison.v2", concentration |-> "rra008.concentration.v2",
   growth |-> "rra008.growth.v2", basket |-> "rra008.basket.v2"]
ADMITTED_FAMILY_PAIRS ==
  {<<"rra004.formula.v1", v>> : v \in {"rra008.comparison.v1", "rra008.concentration.v1",
                                       "rra008.growth.v1", "rra008.basket.v1"}}
  \cup {<<"rra004.formula.v2", FamilyVersion[f]>> : f \in DOMAIN FamilyVersion}

\* The reasons that may refuse a whole section, for each section.
SECTION_REASONS ==
  LET unadmitted == "family_version_unadmitted" IN
  [overview |-> {},
   comparison |-> {unadmitted, "prior_window_absent", "required_input_unavailable",
                   "coverage_structurally_incompatible"},
   concentration |-> {unadmitted, "distinct_set_uncomputable", "aggregate_unavailable"},
   growth |-> {unadmitted, "units_absent", "decomposition_not_additive", "prior_window_absent",
               "required_input_unavailable", "coverage_structurally_incompatible", "returns_present"},
   basket |-> {unadmitted, "transaction_identifier_absent", "incomplete_transaction_identifiers",
               "repeated_row_signature", "repeated_event_key", "required_input_unavailable"}]

----------------------------------------------------------------------------
(* Figures.                                                                *)

Figure(section, cite, metric, unit, kind, position, label, dimension, value) ==
  [id |-> <<cite, kind, position>>, cite |-> cite, metric |-> metric, unit |-> unit, kind |-> kind,
   section |-> section, label |-> label, dimension |-> dimension, value |-> value]

\* The value of a bucket, if it has one, and the rows behind it.
BucketFigures(section, metric, unit, position, b) ==
  LET Of(kind, value) == Figure(section, <<metric>>, metric, unit, kind, position, b.label, Missing, value)
  IN (IF b.value = Missing THEN <<>> ELSE <<Of("value", b.value)>>) \o <<Of("rows", b.rows)>>

AllBuckets(section, metric, unit, buckets) ==
  FoldLeft(LAMBDA done, n : done \o BucketFigures(section, metric, unit, n, buckets[n]),
           <<>>, [n \in DOMAIN buckets |-> n])

UnitOf == [revenue |-> "monetary", units |-> "count", transactions |-> "count"]
ByPeriod == [revenue |-> "revenue_by_period", units |-> "units_by_period"]
ByDimension == [product |-> [revenue |-> "revenue_by_product", units |-> "units_by_product"],
                category |-> [revenue |-> "revenue_by_category", units |-> "units_by_category"]]

PackageFigures(p) ==
  LET facts == SelectSeq(<<"revenue", "units", "transactions">>, LAMBDA m : p.totals[m] # Missing)
      Series(m, s) == IF s = Missing THEN <<>>
                      ELSE AllBuckets("overview", ByPeriod[m], UnitOf[m], s.buckets)
      Breakdown(c) == AllBuckets("overview", ByDimension[c.dimension][c.measure], UnitOf[c.measure], c.buckets)
  IN [n \in DOMAIN facts |-> Figure("overview", <<facts[n]>>, facts[n], UnitOf[facts[n]], "value",
                                    Missing, Missing, Missing, p.totals[facts[n]])]
     \o Series("revenue", p.revenue) \o Series("units", p.units)
     \o FoldLeft(LAMBDA done, c : done \o Breakdown(c), <<>>, p.comparisons)

\* A comparison is named by its mode, an attach rate by what it attaches.
AnalysisFigure(section, f) ==
  Figure(section, <<f.metric, f.scope>>, f.metric, f.unit, "value", Missing,
         CASE section = "comparison" -> <<"mode", f.scope>>
           [] f.metric = "basket_attach_rate" -> f.scope[2]
           [] OTHER -> Missing,
         IF f.metric = "basket_attach_rate" THEN f.scope[1] ELSE Missing, f.value)

\* At most MAX_CURVE_POINTS of the points, the first and the last among them.
\* The quotient is exact here; the code's is a float.
Sampled(points) ==
  LET n == Len(points)
      kept == {(i * n) \div (MAX_CURVE_POINTS - 1) : i \in 0..(MAX_CURVE_POINTS - 2)} \cup {n - 1}
  IN IF n <= MAX_CURVE_POINTS THEN points
     ELSE [k \in 1..Cardinality(kept) |-> points[1 + CHOOSE i \in kept : Cardinality({j \in kept : j <= i}) = k]]

CurvePoints(p) == [n \in DOMAIN CurveOf(p) |-> [label |-> <<"rank", n>>, value |-> CurveOf(p)[n], rows |-> 1]]

CurveFigures(p) ==
  IF CurveOf(p) = Missing THEN <<>>
  ELSE AllBuckets("concentration", "concentration_curve", "ratio", Sampled(CurvePoints(p)))

----------------------------------------------------------------------------
(* The families' results.                                                  *)

Admits(p, family) == <<p.formula, FamilyVersion[family]>> \in ADMITTED_FAMILY_PAIRS

Result(p, family) ==
  IF ~Admits(p, family) THEN Unstated("family_version_unadmitted", <<>>)
  ELSE CASE family = "comparison" -> Comparison(p)
         [] family = "concentration" -> Concentration(p)
         [] family = "growth" -> Growth(p)
         [] family = "basket" -> Basket(p)

Caveat(code, section, input) == [code |-> code, section |-> section, input |-> input]

\* What qualifies a family's figures, and what it could not state beside them.
Scoped(section, result) ==
  UNION {{Caveat(<<c>>, section, Missing) : c \in f.caveats} : f \in Range(result.facts)}
    \cup {Caveat(Append(r.metric, r.reason), section, r.input) : r \in Range(result.refusals)}

CurveCaveats(p, results) ==
  IF results["concentration"].reason = Missing /\ CurveOf(p) # Missing /\ Len(CurveOf(p)) > MAX_CURVE_POINTS
  THEN {Caveat(<<"curve_points_sampled">>, "concentration", Missing)} ELSE {}

FamilyFigures(p, results, family) ==
  LET facts == results[family].facts
  IN [n \in DOMAIN facts |-> AnalysisFigure(family, facts[n])]
     \o IF family = "concentration" /\ results[family].reason = Missing THEN CurveFigures(p) ELSE <<>>

\* Every figure, in the order of the sections.
Figures(p, results) ==
  FoldLeft(LAMBDA done, f : done \o FamilyFigures(p, results, f), PackageFigures(p), Families)

Plots ==
  [overview |-> {}, comparison |-> {"revenue_delta_absolute"}, concentration |-> {"concentration_curve"},
   growth |-> {"growth_revenue_change", "growth_price_effect", "growth_volume_effect"},
   basket |-> {"basket_attach_rate"}]
SECTION_CHART_KINDS ==
  [overview |-> "bar", comparison |-> "grouped_bar", concentration |-> "line",
   growth |-> "grouped_bar", basket |-> "bar"]

\* Two values of one unit, not all of them nothing.
IsDrawable(figures) ==
  /\ Len(figures) >= 2
  /\ \A n \in DOMAIN figures : figures[n].value # Missing /\ figures[n].unit = figures[1].unit
  /\ \E n \in DOMAIN figures : figures[n].value # 0

Ids(figures) == [n \in DOMAIN figures |-> figures[n].id]

SectionOf(s, figures, reason) ==
  LET placed == SelectSeq(figures, LAMBDA f : f.section = s)
      plotted == SelectSeq(placed, LAMBDA f : f.kind = "value" /\ f.metric \in Plots[s])
  IN IF placed = <<>> THEN [id |-> s, state |-> "refused", reason |-> reason, figures |-> <<>>, chart |-> Missing]
     ELSE [id |-> s, state |-> "present", reason |-> Missing, figures |-> Ids(placed),
           chart |-> IF IsDrawable(plotted)
                     THEN [kind |-> SECTION_CHART_KINDS[s], figures |-> Ids(plotted)] ELSE Missing]

\* A section with figures, or with a reason for having none.
Sections(figures, results) ==
  LET Reason(s) == IF s = "overview" THEN Missing ELSE results[s].reason
      Placed(s) == \E f \in Range(figures) : f.section = s
      claimed == SelectSeq(ORDERED_SECTIONS, LAMBDA s : Placed(s) \/ Reason(s) # Missing)
  IN [n \in DOMAIN claimed |-> SectionOf(claimed[n], figures, Reason(claimed[n]))]

\* What a section, and the bundle over them, refuse to be built from.
SectionSound(s) ==
  /\ IF s.state = "refused" THEN s.reason \in SECTION_REASONS[s.id] /\ s.figures = <<>> /\ s.chart = Missing
     ELSE s.figures # <<>>
  /\ IsInjective(s.figures)
  /\ s.chart # Missing => /\ Range(s.chart.figures) \subseteq Range(s.figures)
                          /\ IsInjective(s.chart.figures)

BundleSound(b) ==
  /\ \A n \in DOMAIN b.sections : SectionSound(b.sections[n])
  /\ LET indexed == {<<i, s.id>> : i \in UNION {Range(s.figures) : s \in Range(b.sections)}, s \in Range(b.sections)}
         placed == {t \in indexed : \E s \in Range(b.sections) : s.id = t[2] /\ t[1] \in Range(s.figures)}
     IN /\ Cardinality({t[1] : t \in placed}) = Cardinality(placed)
        /\ placed = {<<f.id, f.section>> : f \in Range(b.figures)}
  /\ {c.section : c \in b.caveats} \ {Missing} \subseteq {s.id : s \in Range(b.sections)}

\* The evidence behind each cited fact: a record of the package, or the version
\* of the family that derived it.
Evidence(p, figures) ==
  [c \in {f.cite : f \in Range(figures)} |->
     LET f == figures[Min({n \in DOMAIN figures : figures[n].cite = c})]
     IN IF f.section = "overview" THEN p.formula ELSE FamilyVersion[f.section]]

BundleFrom(p, state, results, figures, sections) ==
  [figures |-> figures, sections |-> sections, state |-> state, results |-> results,
   evidence |-> Evidence(p, figures),
   caveats |-> {Caveat(<<c>>, Missing, Missing) : c \in p.caveats}
     \cup UNION {Scoped(f, results[f]) : f \in Range(Families)} \cup CurveCaveats(p, results)
     \cup {Caveat(<<"chart_not_drawn">>, s.id, Missing) :
             s \in {s \in Range(sections) : s.state = "present" /\ s.chart = Missing}}]

Gathered(p, state, results, figures) == BundleFrom(p, state, results, figures, Sections(figures, results))
Analysed(p, state, results) == Gathered(p, state, results, Figures(p, results))
BundleOf(p, state) == Analysed(p, state, [f \in Range(Families) |-> Result(p, f)])

----------------------------------------------------------------------------
(* Surfaces, and their reconciliation with the bundle.                     *)

REQUIRED_SURFACES == <<"web", "pdf", "excel">>
Direction == [ar |-> "rtl", en |-> "ltr"]
Languages == DOMAIN Direction
Disclosure(b, language) == <<language, b.state>>
Text(language, f) == <<language, f.value>>
SectionIds(b) == [n \in DOMAIN b.sections |-> b.sections[n].id]

\* What the renderers state: every figure and caveat, under its section.
Content(b, surface) ==
  [surface |-> surface, of |-> b.state,
   languages |-> [l \in Languages |->
     [language |-> l, direction |-> Direction[l], sections |-> SectionIds(b), caveats |-> b.caveats,
      disclosure |-> Disclosure(b, l),
      stated |-> {[id |-> f.id, text |-> Text(l, f), section |-> f.section] : f \in Range(b.figures)}]]]

\* A renderer that goes wrong in one respect.
Faults ==
  {"raises", "other_bundle", "other_surface", "unknown_surface", "extra_language", "no_arabic",
   "direction", "disclosure", "caveat", "unknown_figure", "drops_in_arabic", "drops_everywhere",
   "drops_charted", "reworded", "misplaced", "reordered", "unsectioned", "unknown_section"}

Faulty(b, surface, fault) ==
  LET c == Content(b, surface)
      arabic == c.languages["ar"]
      charted == UNION {Range(s.chart.figures) : s \in {s \in Range(b.sections) : s.chart # Missing}}
      one == CHOOSE s \in arabic.stated : s.id \notin charted
      Arabic(field, value) == [c EXCEPT !.languages["ar"] = [arabic EXCEPT ![field] = value]]
      Both(field, Value(_)) ==
        [c EXCEPT !.languages = [l \in Languages |-> [@[l] EXCEPT ![field] = Value(@)]]]
  IN CASE fault = "raises" -> Missing
       [] fault = "other_bundle" -> [c EXCEPT !.of = "none"]
       [] fault = "other_surface" -> [c EXCEPT !.surface = "web"]
       [] fault = "unknown_surface" -> [c EXCEPT !.surface = "print"]
       [] fault = "extra_language" -> [c EXCEPT !.languages = @ @@ [fr |-> arabic]]
       [] fault = "no_arabic" -> [c EXCEPT !.languages = [en |-> @.en]]
       [] fault = "direction" -> Arabic("direction", "ltr")
       [] fault = "disclosure" -> Arabic("disclosure", <<"ar", "none">>)
       [] fault = "caveat" -> Arabic("caveats", {})
       [] fault = "unknown_figure" -> Arabic("stated", arabic.stated \cup {[one EXCEPT !.id = <<>>]})
       [] fault = "drops_in_arabic" -> Arabic("stated", {s \in arabic.stated : s.id # one.id})
       [] fault = "drops_everywhere" -> Both("stated", LAMBDA stated : {s \in stated : s.id # one.id})
       [] fault = "drops_charted" -> Both("stated", LAMBDA stated : {s \in stated : s.id \notin charted})
       [] fault = "reworded" -> Arabic("stated", {[s EXCEPT !.text = <<"ar", Missing>>] : s \in arabic.stated})
       [] fault = "misplaced" -> Arabic("stated", {[s EXCEPT !.section = "basket"] : s \in arabic.stated})
       [] fault = "reordered" -> Arabic("sections", Reverse(arabic.sections))
       [] fault = "unsectioned" -> Both("sections", LAMBDA sections : Tail(sections))
       [] fault = "unknown_section" -> Both("sections", LAMBDA sections : Append(sections, "appendix"))

Rendered(b, surface) ==
  {Content(b, surface)} \cup
    (IF package \in FaultyPackages THEN {Faulty(b, surface, f) : f \in Faults} ELSE {})

Shown(entry) == {s.id : s \in entry.stated}
FigureOf(b, i) == LET found == SelectSeq(b.figures, LAMBDA f : f.id = i)
                  IN IF found = <<>> THEN Missing ELSE found[1]
Known(b) == Range(ORDERED_SECTIONS) \cup Range(SectionIds(b))

\* The first thing a language of a surface has that the bundle has not.
LanguageVerdict(b, entry) ==
  LET Of(s) == FigureOf(b, s.id)
      Undrawn(s) == s.chart # Missing /\ ~(Range(s.chart.figures) \subseteq Shown(entry))
  IN IF entry.direction # Direction[entry.language] THEN "wrong_direction"
     ELSE IF entry.disclosure # Disclosure(b, entry.language) THEN "disclosure_altered"
     ELSE IF entry.caveats # b.caveats THEN "caveat_coverage_differs_by_language"
     ELSE IF \E s \in entry.stated : Of(s) = Missing THEN "unknown_figure"
     ELSE IF \E s \in entry.stated : s.section \notin Known(b) THEN "unknown_section"
     ELSE IF \E s \in entry.stated : s.section # Of(s).section THEN "figure_misplaced"
     ELSE IF \E s \in entry.stated : s.text # Text(entry.language, Of(s)) THEN "figure_not_reconciled"
     ELSE IF ~(Range(entry.sections) \subseteq Known(b)) THEN "unknown_section"
     ELSE IF \E n \in DOMAIN b.sections : Undrawn(b.sections[n]) THEN "chart_figure_not_stated"
     ELSE Missing

Reconcile(b, content) ==
  LET entries == content.languages
      verdicts == {LanguageVerdict(b, entries[l]) : l \in DOMAIN entries} \ {Missing}
  IN IF content.surface \notin Range(REQUIRED_SURFACES) THEN "unknown_surface"
     ELSE IF content.of # b.state THEN "bundle_mismatch"
     ELSE IF DOMAIN entries \ Languages # {} THEN "unknown_language"
     ELSE IF DOMAIN entries # Languages THEN "missing_language"
     ELSE IF verdicts # {} THEN CHOOSE v \in verdicts : TRUE
     ELSE IF Shown(entries["ar"]) # Shown(entries["en"]) THEN "figure_coverage_differs_by_language"
     ELSE IF Range(entries["ar"].sections) # Range(entries["en"].sections)
          THEN "section_coverage_differs_by_language"
     ELSE IF entries["ar"].sections # entries["en"].sections THEN "section_order_differs_by_language"
     ELSE IF entries["ar"].sections # SectionIds(b) THEN "section_not_presented"
     ELSE Missing

----------------------------------------------------------------------------
(* Behaviour.                                                              *)

NoBundle == [state |-> "none"]
NoAttempt == [produced |-> <<>>, outcome |-> Missing, reason |-> Missing]

BundleInit ==
  /\ package \in Packages /\ asked \in [given : BOOLEAN, refused : BOOLEAN]
  /\ bundle = NoBundle /\ attempt = NoAttempt

NarrativeState == IF asked.given THEN "included" ELSE IF asked.refused THEN "refused" ELSE "omitted"

Checked(b) == IF BundleSound(b) THEN b ELSE [state |-> "unsound"]

\* A narrative that was refused cannot also be given; a bundle that states what
\* it may not is not built.
BuildBundle ==
  /\ bundle = NoBundle
  /\ bundle' = IF asked.given /\ asked.refused THEN [state |-> "conflict"]
               ELSE Checked(BundleOf(package, NarrativeState))
  /\ UNCHANGED <<package, asked, attempt>>

Incomplete(reason) == attempt' = [attempt EXCEPT !.outcome = "incomplete", !.reason = reason]

Rendering ==
  /\ bundle.state \in {"included", "refused", "omitted"} /\ attempt.outcome = Missing
  /\ Len(attempt.produced) < Len(REQUIRED_SURFACES)
NextSurface == REQUIRED_SURFACES[Len(attempt.produced) + 1]

\* One renderer after another; the first surface that fails, is not reconciled
\* or repeats one ends the attempt, and nothing is delivered.
RenderSurface(content) ==
  /\ IF content = Missing THEN Incomplete("surface_failed")
     ELSE IF Reconcile(bundle, content) # Missing THEN Incomplete(Reconcile(bundle, content))
     ELSE IF \E n \in DOMAIN attempt.produced : attempt.produced[n].surface = content.surface
     THEN Incomplete("duplicate_surface")
     ELSE attempt' = [attempt EXCEPT !.produced = Append(@, content)]
  /\ UNCHANGED <<package, asked, bundle>>

Deliver ==
  /\ attempt.outcome = Missing /\ Len(attempt.produced) = Len(REQUIRED_SURFACES)
  /\ IF {c.surface : c \in Range(attempt.produced)} = Range(REQUIRED_SURFACES)
     THEN attempt' = [attempt EXCEPT !.outcome = "delivered"]
     ELSE Incomplete("missing_surface")
  /\ UNCHANGED <<package, asked, bundle>>

BundleNext ==
  \/ BuildBundle
  \/ Rendering /\ \E content \in Rendered(bundle, NextSurface) : RenderSurface(content)
  \/ Deliver

BundleSpec == BundleInit /\ [][BundleNext]_bvars

----------------------------------------------------------------------------
(* Properties.                                                             *)

Built == bundle.state \in {"included", "refused", "omitted"}
FactOf(family, metric, scope) ==
  LET found == SelectSeq(bundle.results[family].facts, LAMBDA f : f.metric = metric /\ f.scope = scope)
  IN IF found = <<>> THEN Missing ELSE found[1].value

\* bundle.py 308-383, 698-788, 1256-1325: whatever a package holds, its sections
\* can state what their analyses answered: no admitted package fails to report.
EveryPackageReports == bundle.state # "unsound"

\* growth.py 186-239, comparison.py 406-444: the change growth explains is the
\* change the comparison of the same periods states, its two effects add up to
\* it, and money kept in whole units is never found not to decompose.
GrowthExplainsTheChange ==
  LET change == FactOf("growth", "growth_revenue_change", "period_over_period")
      price == FactOf("growth", "growth_price_effect", "period_over_period")
      volume == FactOf("growth", "growth_volume_effect", "period_over_period")
  IN /\ bundle.results["growth"].reason # "decomposition_not_additive"
     /\ change # Missing =>
          /\ change = FactOf("comparison", "revenue_delta_absolute", "period_over_period")
          /\ price + volume = change
          /\ "return" \in package.kinds =>
               /\ package.returning # {} /\ <<"undated">> \notin package.returning
               /\ package.returning \cap Range(AcceptedWindow(package, "period_over_period")) = {}

\* windows.py 40-58, comparison.py 464-554: neither end of the extract, which may
\* be cut short, is ever a compared period.
EndsAreNotCompared ==
  \A m \in Range(Modes) : FactOf("comparison", "revenue_delta_absolute", m) # Missing =>
    LET w == AcceptedWindow(package, m) IN
    \A n \in 1..2 : w[n] \notin {package.revenue.buckets[1].label, Last(package.revenue.buckets).label}

\* basket.py 521-546, concentration.py 298-325: a share is a share: no attach
\* rate above one, no decile that sells more than the quartile it is part of.
SharesAreShares ==
  /\ \A f \in Range(bundle.results["basket"].facts) :
       f.metric = "basket_attach_rate" => f.value \in 0..RATIO_SCALE
  /\ LET decile == SelectSeq(bundle.results["concentration"].facts, LAMBDA f : f.metric = "concentration_top_decile_share")
         quartile == SelectSeq(bundle.results["concentration"].facts, LAMBDA f : f.metric = "concentration_top_quartile_share")
     IN decile # <<>> => decile[1].value <= quartile[1].value /\ quartile[1].value <= RATIO_SCALE

\* bundle.py 1949-1987: a sampled curve says so, keeps as many points as a
\* report may, and ends where the whole curve does.
SampledCurveSaysSo ==
  LET drawn == SelectSeq(bundle.figures, LAMBDA f : f.metric = "concentration_curve" /\ f.kind = "value")
      sampled == Caveat(<<"curve_points_sampled">>, "concentration", Missing) \in bundle.caveats
  IN drawn # <<>> =>
       /\ Len(drawn) = Min({Len(CurveOf(package)), MAX_CURVE_POINTS})
       /\ drawn[1].label = <<"rank", 1>> /\ Last(drawn).label = <<"rank", Len(CurveOf(package))>>
       /\ sampled <=> Len(drawn) # Len(CurveOf(package))

\* bundle.py 1447-1678: what is delivered is the three surfaces, each stating in
\* both languages the same figures of this bundle, as the bundle renders them,
\* every charted figure among them, and disclosing how the narrative came out.
DeliveredIsReconciled ==
  attempt.outcome = "delivered" =>
    /\ {c.surface : c \in Range(attempt.produced)} = {"web", "pdf", "excel"}
    /\ \A c \in Range(attempt.produced) :
         /\ {s.id : s \in c.languages["ar"].stated} = {s.id : s \in c.languages["en"].stated}
         /\ \A l \in {"ar", "en"} :
              /\ \A s \in c.languages[l].stated : \E f \in Range(bundle.figures) :
                   s = [id |-> f.id, text |-> Text(l, f), section |-> f.section]
              /\ c.languages[l].disclosure = <<l, NarrativeState>>
              /\ \A n \in DOMAIN bundle.sections : bundle.sections[n].chart # Missing =>
                   Range(bundle.sections[n].chart.figures) \subseteq {s.id : s \in c.languages[l].stated}

BundleHolds ==
  /\ EveryPackageReports
  /\ Built => /\ GrowthExplainsTheChange /\ EndsAreNotCompared /\ SharesAreShares
              /\ SampledCurveSaysSo /\ DeliveredIsReconciled

=============================================================================
