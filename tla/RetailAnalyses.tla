--------------------------- MODULE RetailAnalyses ---------------------------
(***************************************************************************)
(* The four analyses of a fact package: period comparison, concentration,  *)
(* growth and basket.  Each answers the figures it can derive, or one      *)
(* reason why it derives none; a figure it could not derive beside others  *)
(* is a refusal of its own.                                                *)
(*                                                                         *)
(* Labels are tagged: a month by its number, a day by its year and its     *)
(* number in that year.  Money is counted in its smallest unit, a ratio in *)
(* units of RATIO_SCALE.                                                   *)
(***************************************************************************)
EXTENDS Integers, Sequences, FiniteSets, FiniteSetsExt, SequencesExt

CONSTANTS
  Missing,      \* no value
  RATIO_SCALE   \* units a ratio of one is quantized to

Modes == <<"period_over_period", "year_over_year">>
GOVERNED_DIMENSIONS == <<"product", "category">>

HalfEven[n \in Int, d \in Int] ==
  LET a == IF d < 0 THEN -n ELSE n
      b == IF d < 0 THEN -d ELSE d
      q == a \div b
      r == a % b
  IN IF 2 * r > b \/ (2 * r = b /\ q % 2 = 1) THEN q + 1 ELSE q

Fact(metric, scope, unit, value, caveats) ==
  [metric |-> metric, scope |-> scope, unit |-> unit, value |-> value, caveats |-> caveats]

Refused(metric, reason, input) == [metric |-> metric, reason |-> reason, input |-> input]

Stated(facts, refusals) == [facts |-> facts, reason |-> Missing, refusals |-> refusals]
Unstated(reason, refusals) == [facts |-> <<>>, reason |-> reason, refusals |-> refusals]

----------------------------------------------------------------------------
(* The windows two periods are compared over.                              *)

Leap(y) == y % 4 = 0 /\ (y % 100 # 0 \/ y % 400 = 0)

DayBefore(l) ==
  IF l[3] > 1 THEN <<"day", l[2], l[3] - 1>>
  ELSE <<"day", l[2] - 1, IF Leap(l[2] - 1) THEN 366 ELSE 365>>

\* The 29th of February, the sixtieth day of its year, has no day a year earlier.
DayAYearBefore(l) ==
  IF Leap(l[2]) /\ l[3] = 60 THEN Missing
  ELSE <<"day", l[2] - 1, CASE Leap(l[2]) /\ l[3] > 60 -> l[3] - 1
                            [] Leap(l[2] - 1) /\ l[3] > 59 -> l[3] + 1
                            [] OTHER -> l[3]>>

CounterpartLabel(granularity, l, mode) ==
  CASE granularity = "month" -> <<"month", l[2] - (IF mode = "period_over_period" THEN 1 ELSE 12)>>
    [] granularity # "month" /\ mode = "period_over_period" -> DayBefore(l)
    [] OTHER -> DayAYearBefore(l)

\* The first and the last period may be cut short by the extract.
Settled(series) == SubSeq(series.buckets, 2, Len(series.buckets) - 1)

ComparedLabels(series, mode) ==
  LET kept == Settled(series)
      prior == CounterpartLabel(series.granularity, Last(kept).label, mode)
  IN IF kept = <<>> \/ prior \notin {b.label : b \in Range(kept)} THEN Missing
     ELSE <<Last(kept).label, prior>>

StructurallyCompatible(p) ==
  /\ Cardinality({<<s.event_kinds, s.statuses>> : s \in p.coverage}) = 1
  /\ Cardinality({<<s.mode, s.covered, s.days>> : s \in p.coverage}) = 1

BucketAt(series, label) ==
  LET found == SelectSeq(series.buckets, LAMBDA b : b.label = label)
  IN IF found = <<>> THEN Missing ELSE found[1]

AcceptedWindow(p, mode) ==
  IF p.revenue = Missing \/ ComparedLabels(p.revenue, mode) = Missing \/ ~StructurallyCompatible(p)
  THEN Missing ELSE ComparedLabels(p.revenue, mode)

AbsentReason(p, mode) ==
  CASE p.revenue = Missing -> "required_input_unavailable"
    [] p.revenue # Missing /\ ComparedLabels(p.revenue, mode) # Missing /\ ~StructurallyCompatible(p) ->
         "coverage_structurally_incompatible"
    [] OTHER -> "prior_window_absent"

----------------------------------------------------------------------------
(* Period comparison.                                                      *)

RefusedMode(mode, reason) ==
  Unstated(reason, <<Refused(<<"revenue_delta_absolute", mode>>, reason, Missing),
                     Refused(<<"revenue_delta_percent", mode>>, reason, Missing)>>)

\* A share of nothing, or of a loss, is no percentage.
WithPercentage(p, mode, change, base) ==
  LET absolute == Fact("revenue_delta_absolute", mode, "monetary", change, p.revenue.caveats)
  IN IF base > 0
     THEN Stated(<<absolute, Fact("revenue_delta_percent", mode, "ratio",
                                  HalfEven[change * RATIO_SCALE, base], p.revenue.caveats)>>, <<>>)
     ELSE Stated(<<absolute>>,
            <<Refused(<<"revenue_delta_percent", mode>>,
                      IF base = 0 THEN "zero_denominator" ELSE "negative_base", Missing)>>)

DeriveMode(p, mode) ==
  LET window == AcceptedWindow(p, mode)
      Value(n) == BucketAt(p.revenue, window[n]).value
  IN IF window = Missing THEN RefusedMode(mode, AbsentReason(p, mode))
     ELSE IF Missing \in {Value(1), Value(2)} THEN RefusedMode(mode, "required_input_unavailable")
     ELSE WithPercentage(p, mode, Value(1) - Value(2), Value(2))

ReasonPrecedence ==
  <<"required_input_unavailable", "coverage_structurally_incompatible", "prior_window_absent">>

Comparison(p) ==
  LET facts == FoldLeft(LAMBDA done, mode : done \o DeriveMode(p, mode).facts, <<>>, Modes)
      refusals == FoldLeft(LAMBDA done, mode : done \o DeriveMode(p, mode).refusals, <<>>, Modes)
      Rank(reason) == Min({n \in DOMAIN ReasonPrecedence : ReasonPrecedence[n] = reason} \cup {4})
  IN IF facts # <<>> THEN Stated(facts, refusals)
     ELSE Unstated(ReasonPrecedence[Min({Rank(r.reason) : r \in Range(refusals)})], refusals)

----------------------------------------------------------------------------
(* Growth: the change between two periods as a price and a volume effect.  *)

\* Whether a return falls in a compared period, or may.
ReturnsRefuse(p, window) ==
  \/ "return" \in p.kinds /\ p.returning = {}
  \/ <<"undated">> \in p.returning
  \/ {window[1], window[2]} \cap p.returning # {}

MeasureAt(series, label) ==
  LET found == BucketAt(series, label) IN IF found = Missing THEN Missing ELSE found.value

\* Both periods' revenue and units; none where a divisor is zero or missing.
GrowthPeriods(p, window) ==
  IF p.units = Missing THEN Missing
  ELSE LET Of(n) == [revenue |-> MeasureAt(p.revenue, window[n]), units |-> MeasureAt(p.units, window[n])]
       IN IF \E n \in 1..2 : Of(n).revenue = Missing \/ Of(n).units \in {Missing, 0} THEN Missing
          ELSE [current |-> Of(1), prior |-> Of(2)]

\* The volume effect is rounded and the price effect is what remains of the
\* change; its own derivation may differ from it by one unit and no more.
Split(p, periods) ==
  LET c == periods.current
      q == periods.prior
      volume == HalfEven[q.revenue * (c.units - q.units), q.units]
      change == c.revenue - q.revenue
      independent == HalfEven[c.revenue * q.units - q.revenue * c.units, q.units]
      residual == change - volume - independent
      caveats == p.revenue.caveats
      priced == caveats \cup {"growth_interaction_assigned_to_price"}
  IN IF residual \notin -1..1 THEN Unstated("decomposition_not_additive", <<>>)
     ELSE Stated(<<Fact("growth_revenue_change", "period_over_period", "monetary", change, caveats),
                   Fact("growth_price_effect", "period_over_period", "monetary", change - volume,
                        IF residual = 0 THEN priced ELSE priced \cup {"growth_rounding_residual"}),
                   Fact("growth_volume_effect", "period_over_period", "monetary", volume, caveats)>>, <<>>)

Growth(p) ==
  LET window == AcceptedWindow(p, "period_over_period")
  IN CASE p.revenue = Missing -> Unstated("required_input_unavailable", <<>>)
       [] p.revenue # Missing /\ window = Missing ->
            Unstated(AbsentReason(p, "period_over_period"), <<>>)
       [] window # Missing /\ ReturnsRefuse(p, window) -> Unstated("returns_present", <<>>)
       [] OTHER -> IF GrowthPeriods(p, window) = Missing THEN Unstated("units_absent", <<>>)
                   ELSE Split(p, GrowthPeriods(p, window))

----------------------------------------------------------------------------
(* Concentration: how much of the revenue the largest sellers account for. *)

Breakdowns(p, dimension) == SelectSeq(p.comparisons, LAMBDA c : c.dimension = dimension)

ByRevenue(p, dimension) == SelectSeq(Breakdowns(p, dimension), LAMBDA c : c.measure = "revenue")

\* The first dimension with every sale labelled.
Ranking(p) ==
  LET named == SelectSeq(GOVERNED_DIMENSIONS, LAMBDA d :
                 ByRevenue(p, d) # <<>> /\ ~ByRevenue(p, d)[1].incomplete)
  IN IF named = <<>> THEN Missing ELSE ByRevenue(p, named[1])[1]

Leading(ranked, fraction) == (ranked + fraction - 1) \div fraction

Concentration(p) ==
  LET found == Ranking(p)
      inherited == found.caveats \ {"comparison_buckets_truncated"}
      Of(metric, unit, value) == Fact(metric, found.dimension, unit, value, inherited)
      Share(fraction) == found.curve[Leading(Len(found.curve), fraction)]
  IN IF found = Missing THEN Unstated("aggregate_unavailable", <<>>)
     ELSE IF found.curve = Missing THEN Unstated("distinct_set_uncomputable", <<>>)
     ELSE Stated(<<Of("concentration_distinct_values", "count", found.distinct),
                   Of("concentration_ranked_values", "count", Len(found.curve)),
                   Of("concentration_top_decile_share", "ratio", Share(10)),
                   Of("concentration_top_quartile_share", "ratio", Share(4))>>, <<>>)

CurveOf(p) == IF Ranking(p) = Missing THEN Missing ELSE Ranking(p).curve

----------------------------------------------------------------------------
(* Basket: the units of a transaction, and how often a product is in one.  *)

SaleUnits(p) ==
  CASE p.saleUnits # Missing -> p.saleUnits
    [] p.saleUnits = Missing /\ "return" \in p.kinds -> Missing
    [] OTHER -> p.totals.units

ItemsPerTransaction(p) ==
  IF SaleUnits(p) = Missing \/ p.totals.transactions \in {Missing, 0} THEN <<>>
  ELSE <<Fact("basket_items_per_transaction", Missing, "ratio",
              HalfEven[SaleUnits(p) * RATIO_SCALE, p.totals.transactions], {})>>

\* For each dimension a breakdown that counted its transactions, by revenue if any.
CountedBreakdowns(p) ==
  LET Counted(d) == SelectSeq(Breakdowns(p, d), LAMBDA c : c.transactions \notin {Missing, 0})
      ByMoney(d) == SelectSeq(Counted(d), LAMBDA c : c.measure = "revenue")
      kept == SelectSeq(GOVERNED_DIMENSIONS, LAMBDA d : Counted(d) # <<>>)
  IN [n \in DOMAIN kept |-> Head(ByMoney(kept[n]) \o Counted(kept[n]))]

\* A bucket of what was left over, or with no sale, is not a product.
Attachable(c) ==
  SelectSeq(c.buckets, LAMBDA b : ~b.synthetic /\ b.transactions # Missing /\ b.sold)

AttachRates(p) ==
  LET whole == SelectSeq(CountedBreakdowns(p), LAMBDA c : ~c.incomplete)
      Rates(c) == [n \in DOMAIN Attachable(c) |->
                     Fact("basket_attach_rate", <<c.dimension, Attachable(c)[n].label>>, "ratio",
                          HalfEven[Attachable(c)[n].transactions * RATIO_SCALE, c.transactions],
                          c.caveats)]
  IN FoldLeft(LAMBDA done, c : done \o Rates(c), <<>>, whole)

\* A package that records no cause, or only that the input is unavailable, had
\* no identifier; another cause is reported as the package words it.
IdentifierReason(p) ==
  IF p.refusal.reason \in {Missing, "required_input_unavailable"}
  THEN "transaction_identifier_absent" ELSE p.refusal.reason

RecordedInput(p, reason) == IF p.refusal.reason = reason THEN p.refusal.input ELSE Missing

BasketRefusals(p) ==
  IF p.totals.transactions = Missing
  THEN <<Refused(<<"basket_items_per_transaction">>, IdentifierReason(p), RecordedInput(p, IdentifierReason(p))),
         Refused(<<"basket_attach_rate">>, IdentifierReason(p), RecordedInput(p, IdentifierReason(p)))>>
  ELSE (IF ItemsPerTransaction(p) # <<>> THEN <<>>
        ELSE <<Refused(<<"basket_items_per_transaction">>, "required_input_unavailable", p.unitsInput)>>)
    \o (IF CountedBreakdowns(p) = <<>>
        THEN <<Refused(<<"basket_attach_rate">>, "dimension_absent", Missing)>>
        ELSE IF \E n \in DOMAIN CountedBreakdowns(p) : CountedBreakdowns(p)[n].incomplete
        THEN <<Refused(<<"basket_attach_rate">>, "dimension_values_incomplete", Missing)>> ELSE <<>>)

Basket(p) ==
  LET facts == ItemsPerTransaction(p) \o AttachRates(p)
  IN IF facts # <<>> THEN Stated(facts, BasketRefusals(p))
     ELSE Unstated(IF BasketRefusals(p) = <<>> THEN "required_input_unavailable"
                   ELSE BasketRefusals(p)[1].reason, BasketRefusals(p))

============================================================================
