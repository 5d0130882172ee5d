---------------------------- MODULE ReportSurfaces ----------------------------
(***************************************************************************)
(* What the renderers put on the page and in the workbook for one bundle.  *)
(* The reconciliation of ReportBundle compares what a surface claims to    *)
(* state; this module is what its documents state: the tables a section's  *)
(* figures are laid out in, the sheets, the charts, and the sentences that *)
(* tell a caveat or a refusal.                                             *)
(***************************************************************************)
EXTENDS ReportBundle

(* The tables of a section of the page, in HTML and in print.              *)

\* Every metric has a business name but the curve, whose points are ranks.
BusinessName(metric) == metric # "concentration_curve"

\* The label of a row, with the dimension that tells two equal ones apart.
RowLabel(f) == <<f.label, f.dimension>>
Column(f) == <<f.metric, f.kind>>

\* What a labelled figure is broken down by: the name after "_by_", or else the
\* section's own.
Dimension(f) ==
  CASE f.metric \in Range(ByPeriod) -> "period"
    [] f.metric \in Range(ByDimension.product) -> "product"
    [] f.metric \in Range(ByDimension.category) -> "category"
    [] OTHER -> f.section

\* The columns that share a label with another and whose metric has a name.
SeriesColumns(cells) ==
  LET named == {f.metric : f \in {f \in Range(cells) : f.kind = "value" /\ BusinessName(f.metric)}}
      labelled == {f \in Range(cells) : f.label # Missing /\ f.metric \in named}
  IN {Column(f) : f \in {f \in labelled :
        \E g \in labelled : RowLabel(g) = RowLabel(f) /\ Column(g) # Column(f)}}

InSeries(f, grouped) == f.label # Missing /\ Column(f) \in grouped

ScalarCells(cells) ==
  LET grouped == SeriesColumns(cells) IN SelectSeq(cells, LAMBDA f : ~InSeries(f, grouped))

Row(f) == <<Dimension(f), RowLabel(f)>>

\* The figure left in each place of a table: a later one takes the place.
SeriesIndex(cells) ==
  LET grouped == SeriesColumns(cells)
  IN FoldLeft(LAMBDA index, f : (<<Row(f), Column(f)>> :> f.id) @@ index, <<>>,
              SelectSeq(cells, LAMBDA f : InSeries(f, grouped)))

\* A row joins the tables it shares a column with into one.
Absorb(tables, row, columns) ==
  LET joined == SelectSeq(tables, LAMBDA t : t.columns \cap columns # {})
  IN Append(SelectSeq(tables, LAMBDA t : t.columns \cap columns = {}),
            [columns |-> columns \cup UNION {t.columns : t \in Range(joined)},
             rows |-> {row} \cup UNION {t.rows : t \in Range(joined)}])

SeriesTables(cells) ==
  LET places == DOMAIN SeriesIndex(cells)
      labelled == SelectSeq(cells, LAMBDA f : <<Row(f), Column(f)>> \in places)
      rows == FoldLeft(LAMBDA done, f : IF Row(f) \in Range(done) THEN done ELSE Append(done, Row(f)),
                       <<>>, labelled)
  IN FoldLeft(LAMBDA tables, r : Absorb(tables, r, {q[2] : q \in {q \in places : q[1] = r}}), <<>>, rows)

CellsOf(b, s) == SelectSeq(b.figures, LAMBDA f : f.section = s.id)

----------------------------------------------------------------------------
(* Charts.  Lengths across are in units of 1/(20 n) of the drawing's, for a *)
(* chart of n marks; lengths down in units of 1/span of the plot's.         *)

CHART_WIDTH == 640
PLOT_HEIGHT == 320
POINT_SIZE == 8
FillTenths == [bar |-> 6, grouped_bar |-> 10]

\* The lowest and the highest value, nothing among them.
ValueDomain(values) == [low |-> Min(Range(values) \cup {0}), high |-> Max(Range(values) \cup {0})]
Offset(domain, v) == PLOT_HEIGHT * (domain.high - v)

\* The values a chart is drawn from; none for what it cannot draw.
Resolved(b, s) == [n \in DOMAIN s.chart.figures |-> FigureOf(b, s.chart.figures[n])]
Plotted(b, s) ==
  LET found == Resolved(b, s)
      values == [n \in DOMAIN found |-> found[n].value]
  IN IF s.chart = Missing THEN Missing
     ELSE IF Missing \in Range(found) \/ Len(found) < 2 \/ Missing \in Range(values) THEN Missing
     ELSE IF Cardinality({found[n].unit : n \in DOMAIN found}) # 1 THEN Missing
     ELSE IF ValueDomain(values).low = ValueDomain(values).high THEN Missing
     ELSE values

Mirrored(direction, x, width, whole) == IF direction = "rtl" THEN whole - x - width ELSE x

\* A bar stands on the line of zero, or hangs from it; a point marks its rank.
Marks(kind, values, direction) ==
  LET n == Len(values)
      whole == 20 * n * CHART_WIDTH
      slot == 20 * CHART_WIDTH
      domain == ValueDomain(values)
      Bar(i) == LET width == 2 * CHART_WIDTH * FillTenths[kind]
                IN [x |-> Mirrored(direction, slot * (i - 1) + (slot - width) \div 2, width, whole), width |-> width,
                    top |-> Offset(domain, IF values[i] < 0 THEN 0 ELSE values[i]),
                    height |-> Max({Offset(domain, 0) - Offset(domain, values[i]),
                                    Offset(domain, values[i]) - Offset(domain, 0)})]
      Point(i) == LET width == 20 * n * POINT_SIZE
                  IN [x |-> Mirrored(direction, slot * i - width \div 2, width, whole), width |-> width,
                      top |-> Offset(domain, values[i]), height |-> POINT_SIZE * (domain.high - domain.low)]
  IN [i \in 1..n |-> IF kind = "line" THEN Point(i) ELSE Bar(i)]

----------------------------------------------------------------------------
(* The workbook.                                                           *)

Sheet(section, metrics) == [section |-> section, metrics |-> metrics]
BUSINESS_SHEETS == <<
  Sheet("overview", {"revenue", "transactions", "units", "average_order_value"}),
  Sheet("overview", {"average_selling_price", "revenue_by_period", "units_by_period"}),
  Sheet("comparison", {"revenue_delta_absolute", "revenue_delta_percent"}),
  Sheet("growth", {"growth_revenue_change", "growth_price_effect", "growth_volume_effect"}),
  Sheet("overview", {"cost", "gross_profit", "gross_margin"}),
  Sheet("overview", {"discount", "returns"}),
  Sheet("concentration", {"revenue_by_product", "units_by_product", "concentration_ranked_values",
                          "concentration_distinct_values", "concentration_top_decile_share",
                          "concentration_top_quartile_share", "concentration_curve"}),
  Sheet("basket", {"basket_items_per_transaction", "basket_attach_rate"})>>

SheetRows(b, sheet) == SelectSeq(b.figures, LAMBDA f : f.metric \in sheet.metrics)
WrittenSheets(b) == SelectSeq(BUSINESS_SHEETS, LAMBDA sheet : SheetRows(b, sheet) # <<>>)

\* The charts' numbers, block after block: a name, the numbers, an empty row.
ChartBlocks(b) ==
  LET charted == SelectSeq(b.sections, LAMBDA s : Plotted(b, s) # Missing)
      Next(done) == IF done = <<>> THEN 0 ELSE Last(done).last + 2
      Block(done, s) == [section |-> s.id, kind |-> s.chart.kind, figures |-> s.chart.figures,
                         first |-> Next(done) + 1, last |-> Next(done) + Len(s.chart.figures)]
  IN FoldLeft(LAMBDA done, s : Append(done, Block(done, s)), <<>>, charted)

\* The first sheet of a block's section; a chart with none is not placed.
Target(b, block) ==
  LET sheets == SelectSeq(WrittenSheets(b), LAMBDA sheet : sheet.section = block.section)
  IN IF sheets = <<>> THEN Missing ELSE sheets[1]

----------------------------------------------------------------------------
(* The sentences of caveats and refusals.                                  *)

GOVERNED_SECTION_REASONS == UNION Range(SECTION_REASONS)
RESULT_REASON_CODES ==
  {"required_input_unavailable", "zero_denominator", "negative_base", "reconciliation_failed",
   "incomplete_transaction_identifiers", "ambiguous_mapping", "repeated_row_signature",
   "repeated_event_key", "incomplete_column_coverage", "dimension_absent",
   "dimension_values_incomplete", "coverage_structurally_incompatible", "family_version_unadmitted"}
GOVERNED_CAVEAT_CODES ==
  {"currency_not_declared", "duplicate_rows_present", "negative_revenue_present", "returns_not_netted",
   "null_measure_inputs", "rows_without_time_field_excluded", "comparison_buckets_truncated",
   "personal_values_redacted", "derived_metrics_use_matched_rows", "chart_not_drawn",
   "curve_points_sampled", "comparison_partial_window", "growth_interaction_assigned_to_price",
   "growth_rounding_residual"}

Sentence(tier, reason, basis, metric, column) ==
  [tier |-> tier, reason |-> reason, basis |-> basis, metric |-> metric, column |-> column]

BasisOf(result) == IF Len(result) > 1 /\ result[2] \in Range(Modes) THEN result[2] ELSE Missing

\* A reason only sections are worded for; a sentence that would need a column.
TakesSectionSentence(reason, input) ==
  (reason = "required_input_unavailable" /\ input = Missing) \/ reason \notin RESULT_REASON_CODES

ResultSentence(result, reason, input) ==
  IF TakesSectionSentence(reason, input)
  THEN Sentence("section", reason, BasisOf(result), Missing, Missing)
  ELSE Sentence("result", reason, BasisOf(result), result[1], IF input = Missing THEN result[1] ELSE input)

\* A caveat's code is a result's and its reason, or a reason alone.
Prose(c) ==
  IF Len(c.code) = 1 THEN Sentence("caveat", c.code[1], Missing, Missing, Missing)
  ELSE ResultSentence(Front(c.code), Last(c.code), c.input)

Worded(sentence) ==
  CASE sentence.tier = "caveat" -> sentence.reason \in GOVERNED_CAVEAT_CODES
    [] sentence.tier = "section" -> sentence.reason \in GOVERNED_SECTION_REASONS
    [] OTHER -> sentence.reason \in RESULT_REASON_CODES /\ BusinessName(sentence.metric)

\* The sheet of limitations finds the sentence of each caveat by its code.
Limitations(b) ==
  {CHOOSE p \in {Prose(c) : c \in {c \in b.caveats : c.code = code}} : TRUE : code \in {c.code : c \in b.caveats}}

\* What the package itself could not state, beside the sections.
RefusedResults(p) ==
  IF p.totals.transactions = Missing /\ p.refusal.reason # Missing
  THEN {ResultSentence(<<"transactions">>, p.refusal.reason, p.refusal.input)} ELSE {}

\* The causes a refused section gives: those of its bases, or one for them all.
PerBasis(b, s) ==
  LET told == {c \in b.caveats : c.section = s.id /\ Len(c.code) > 1 /\ BasisOf(Front(c.code)) # Missing}
  IN [m \in {BasisOf(Front(c.code)) : c \in told} |->
        Last((CHOOSE c \in told : BasisOf(Front(c.code)) = m).code)]

Causes(b, s) ==
  LET per == PerBasis(b, s)
      window == s.reason \in {"prior_window_absent", "coverage_structurally_incompatible"}
      shared == DOMAIN per = Range(Modes) /\ Cardinality(Range(per)) = 1
  IN IF s.id = "growth" THEN {<<IF window THEN "period_over_period" ELSE Missing, s.reason>>}
     ELSE IF DOMAIN per = {} \/ shared THEN {<<Missing, s.reason>>}
     ELSE {<<m, per[m]>> : m \in DOMAIN per}

----------------------------------------------------------------------------
(* Properties.                                                             *)

\* html.py 771-1016: every figure a section claims is on its page exactly once,
\* as a row of its own, which reads like no other, or in a table, where no other
\* takes its place; a table has named figures of one breakdown only.
PagesShowEveryFigure ==
  \A n \in DOMAIN bundle.sections :
    LET cells == CellsOf(bundle, bundle.sections[n])
        index == SeriesIndex(cells)
        tables == SeriesTables(cells)
    IN /\ Ids(cells) = bundle.sections[n].figures
       /\ Len(ScalarCells(cells)) + Cardinality(DOMAIN index) = Len(cells)
       /\ {f.id : f \in Range(ScalarCells(cells))} \cup Range(index) = {f.id : f \in Range(cells)}
       /\ \A i, j \in DOMAIN tables : i # j => tables[i].columns \cap tables[j].columns = {}
       /\ \A q \in DOMAIN index : \E t \in Range(tables) : q[1] \in t.rows /\ q[2] \in t.columns
       /\ LET rows == {<<f.metric, f.kind, RowLabel(f)>> : f \in Range(ScalarCells(cells))}
          IN Cardinality(rows) = Len(ScalarCells(cells))
       /\ \A t \in Range(tables) :
            LET metrics == {c[1] : c \in t.columns}
            IN /\ "concentration_curve" \notin metrics
               /\ \A d \in {Range(ByPeriod), Range(ByDimension.product), Range(ByDimension.category)} :
                    metrics \cap d # {} => metrics \subseteq d

\* charts.py 334-357, excel.py 650-789, bundle.py 1195-1230: a chart the bundle
\* announces is drawn on the page and placed in the workbook on a sheet that has
\* the figures it draws; the numbers behind two charts share no row.
AnnouncedChartsAreDrawn ==
  LET blocks == ChartBlocks(bundle)
  IN /\ \A s \in Range(bundle.sections) : s.chart # Missing =>
          \E block \in Range(blocks) :
             /\ block.section = s.id /\ Target(bundle, block) # Missing
             /\ Range(block.figures) \subseteq {f.id : f \in Range(SheetRows(bundle, Target(bundle, block)))}
     /\ \A i, j \in DOMAIN blocks : i < j => blocks[i].last < blocks[j].first - 1

\* charts.py 360-444: bars lie inside the drawing without overlapping, from zero
\* to their value; points end on its far edge; Arabic mirrors the drawing.
MarksStayInThePlot ==
  \A s \in Range(bundle.sections) : Plotted(bundle, s) # Missing =>
    LET values == Plotted(bundle, s)
        domain == ValueDomain(values)
        floor == PLOT_HEIGHT * (domain.high - domain.low)
        whole == 20 * Len(values) * CHART_WIDTH
        ltr == Marks(s.chart.kind, values, "ltr")
        rtl == Marks(s.chart.kind, values, "rtl")
    IN /\ \A i \in DOMAIN values :
            /\ ltr[i].top >= 0 /\ rtl[i].x + rtl[i].width = whole - ltr[i].x
            /\ IF s.chart.kind = "line" THEN ltr[i].top <= floor /\ 2 * ltr[i].x + ltr[i].width <= 2 * whole
               ELSE /\ ltr[i].x >= 0 /\ ltr[i].x + ltr[i].width <= whole /\ ltr[i].top + ltr[i].height <= floor
                    /\ Offset(domain, 0) \in {ltr[i].top, ltr[i].top + ltr[i].height}
                    /\ Offset(domain, values[i]) \in {ltr[i].top, ltr[i].top + ltr[i].height}
                    /\ i < Len(values) => ltr[i].x + ltr[i].width <= ltr[i + 1].x
       /\ s.chart.kind = "line" => Last(ltr).x + Last(ltr).width \div 2 = whole

\* wording.py 1093-1248, excel.py 568-626, refusal_basis.py 39-85: every caveat and
\* refusal has a sentence, so that no page fails for the want of one; the sheet of
\* limitations says every caveat the pages say; a refused comparison gives, for
\* each basis, the cause of that basis.
EveryCaveatIsSaid ==
  /\ \A c \in bundle.caveats :
       /\ Worded(Prose(c))
       /\ Prose(c).tier = "result" /\ Prose(c).reason = "required_input_unavailable" => Prose(c).column = c.input
  /\ \A sentence \in RefusedResults(package) : Worded(sentence)
  /\ Limitations(bundle) = {Prose(c) : c \in bundle.caveats}
  /\ \A s \in Range(bundle.sections) : s.state = "refused" =>
       LET causes == Causes(bundle, s)
       IN /\ \A cause \in causes : cause[2] \in GOVERNED_SECTION_REASONS
          /\ s.id = "comparison" /\ s.reason # "family_version_unadmitted" =>
               \A m \in Range(Modes) :
                 {DeriveMode(package, m).reason} = {c[2] : c \in {c \in causes : c[1] \in {m, Missing}}}

SurfacesHold ==
  Built => /\ PagesShowEveryFigure /\ AnnouncedChartsAreDrawn
           /\ MarksStayInThePlot /\ EveryCaveatIsSaid

=============================================================================
