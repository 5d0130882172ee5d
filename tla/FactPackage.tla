---------------------------- MODULE FactPackage ----------------------------
(***************************************************************************)
(* The governed fact package of one upload (rra/facts.py): an extract is   *)
(* read row by row, its events are admitted (rra/admission.py), and every  *)
(* governed metric, series and breakdown is either published or refused    *)
(* for one stated cause (rra/aggregates.py, rra/bases.py).                 *)
(*                                                                         *)
(* Amounts are small integers in the last monetary digit, so a quantized   *)
(* value is the value; a ratio is its pair of numerator and denominator.   *)
(* `product` stands for the four comparison dimensions, which the code     *)
(* treats alike, and an identity joined from escaped components is a       *)
(* tuple, which is what the escaping makes of it.                          *)
(***************************************************************************)
EXTENDS Integers, Sequences, FiniteSets, FiniteSetsExt, SequencesExt, Functions

CONSTANTS
  SampleRows,    \* the rows an extract is built from
  Contracts,     \* the source contracts an upload may be read under
  Mappings,      \* the states the semantics of a profile may have
  Displays,      \* product -> the label it is displayed under
  PersonalProducts, \* products whose label is a personal value
  Missing,       \* a blank cell, or a figure that is not published
  MaxRows,       \* bound: rows of an extract
  MaxBuckets     \* MAX_COMPARISON_BUCKETS

VARIABLES
  extract,   \* the rows read so far
  contract,  \* the source contract
  mapping,   \* semantic -> mapped, ambiguous or unavailable
  package    \* what the builder answered

fvars == <<extract, contract, mapping, package>>

Measures == {"revenue", "units", "cost", "discount"}
Columns == Measures \cup {"transaction_date", "transaction_id", "product"}
GRANULARITY_DAY_SPAN == 92
SHARE_SCALE == 10000

----------------------------------------------------------------------------
(* Admission: which rows are events, and what they say.                    *)

KindOf(r) == IF contract.saleOnly THEN "sale" ELSE r.kind
StatusOf(r) == IF contract.postedOnly THEN "posted" ELSE r.status

\* A declaration of sales only is contradicted by a return in an event key.
SaleOnlyHolds(t) ==
  contract.saleOnly /\ contract.keyed => \A i \in DOMAIN t : t[i].event # "return"

EventsProven(t) ==
  /\ \A i \in DOMAIN t :
       /\ KindOf(t[i]) \in {"sale", "return"}
       /\ StatusOf(t[i]) \in {"posted", "void"}
  /\ SaleOnlyHolds(t)

\* One currency for the whole extract, the excluded rows included.
Currency(t) ==
  IF contract.currency # Missing THEN contract.currency
  ELSE LET seen == {t[i].currency : i \in DOMAIN t} \ {Missing}
       IN IF Cardinality(seen) = 1 /\ "malformed" \notin seen
          THEN CHOOSE c \in seen : TRUE ELSE Missing

TransactionKey(r) ==
  IF ~contract.composite THEN r.transaction_id
  ELSE IF Missing \in {r.transaction_id, r.product} THEN Missing
       ELSE <<r.transaction_id, r.product>>

Mapped(s) == mapping[s] = "mapped"

AdmittedEvent(r) ==
  [s \in Columns \cup {"kind", "event"} |->
     CASE s = "kind" -> KindOf(r)
       [] s = "event" -> IF contract.keyed THEN r.event ELSE Missing
       [] s = "transaction_id" -> IF Mapped(s) THEN TransactionKey(r) ELSE Missing
       [] OTHER -> IF Mapped(s) THEN r[s] ELSE Missing]

\* Events whose declared key is missing or already taken.
CollisionKinds(e) ==
  {e[i].kind : i \in {i \in DOMAIN e :
     e[i].event = Missing \/ \E j \in DOMAIN e : i # j /\ e[i].event = e[j].event}}

\* Without declared keys, rows of a kind equal in every mapped column.
RepeatedSignatureKinds(e) ==
  {e[i].kind : i \in {i \in DOMAIN e : \E j \in DOMAIN e : i # j /\ e[i] = e[j]}}

RepeatedKinds(e) == IF contract.keyed THEN CollisionKinds(e) ELSE RepeatedSignatureKinds(e)

----------------------------------------------------------------------------
(* Sums over the rows of a population that carry a value.                  *)

With(e, I, s) == {i \in I : e[i][s] # Missing}

SumOver(e, I, s) ==
  LET present == With(e, I, s)
  IN IF present = {} THEN Missing ELSE MapThenSumSet(LAMBDA i : e[i][s], present)

DistinctOver(e, I) ==
  LET present == With(e, I, "transaction_id")
  IN IF present = {} THEN Missing ELSE Cardinality({e[i].transaction_id : i \in present})

Sales(e) == {i \in DOMAIN e : e[i].kind = "sale"}
SellingUnits(e) == {i \in With(e, Sales(e), "units") : e[i].units > 0}

\* A mapped measure with a blank cell; a discount is only owed on sales.
GappedSemantics(e) ==
  {s \in Measures : Mapped(s) /\
     LET owed == IF s = "discount" THEN Sales(e) ELSE DOMAIN e
     IN With(e, owed, s) # owed}

ReturnsViolated(e) ==
  \E i \in DOMAIN e : e[i].kind = "return" /\ (e[i].revenue = Missing \/ e[i].revenue > 0)

IdentifiersComplete(e) ==
  Mapped("transaction_id") => With(e, Sales(e), "transaction_id") = Sales(e)

\* What the builder knows of an extract before it states a figure.
Reading(t) ==
  LET kept == SelectSeq(t, LAMBDA r : StatusOf(r) # "void")
      e == [i \in DOMAIN kept |-> AdmittedEvent(kept[i])]
      population == IF ReturnsViolated(e) THEN {"revenue"} ELSE {}
  IN [e |-> e, all |-> DOMAIN e, sales |-> Sales(e), selling |-> SellingUnits(e),
      money |-> Currency(t) # Missing, violated |-> ReturnsViolated(e),
      population |-> population, gapped |-> GappedSemantics(e) \cup population,
      repeated |-> RepeatedKinds(e), complete |-> IdentifiersComplete(e)]

RepeatedSales(rd) == "sale" \in rd.repeated
MoneyOver(rd, I, s) == IF rd.money THEN SumOver(rd.e, I, s) ELSE Missing
\* The sales both of whose sides are there.
Orders(rd) == With(rd.e, With(rd.e, rd.sales, "revenue"), "transaction_id")
Selling(rd) == With(rd.e, rd.selling, "revenue")
MarginRows(rd) == With(rd.e, With(rd.e, rd.all, "revenue"), "cost")

----------------------------------------------------------------------------
(* Totals and derived figures.                                             *)

\* A headline total: whole, not repeated, and on the basis the contract attests.
WholeTotal(rd, s) ==
  IF \/ s \in rd.gapped \/ rd.repeated # {}
     \/ s = "cost" /\ ~contract.costExtended
     \/ s = "discount" /\ ~contract.discountAdditive
  THEN Missing
  ELSE IF s = "units" THEN SumOver(rd.e, rd.all, s) ELSE MoneyOver(rd, rd.all, s)

TransactionTotal(rd) ==
  IF rd.complete /\ ~RepeatedSales(rd) THEN DistinctOver(rd.e, rd.sales) ELSE Missing

ReturnsMagnitude(rd) ==
  LET returned == {i \in rd.all : rd.e[i].kind = "return"}
  IN IF rd.violated \/ rd.repeated # {} \/ returned = {} \/ ~rd.money THEN Missing
     ELSE -SumOver(rd.e, returned, "revenue")

CompleteSelling(rd) ==
  With(rd.e, rd.sales, "revenue") # {} => With(rd.e, rd.sales, "revenue") = rd.selling

\* A bug: the gap guard dropped, the profit is that of the matched rows.
ProfitOfMatchedRows(rd) ==
  LET revenue == MoneyOver(rd, MarginRows(rd), "revenue")
      cost == IF contract.costExtended THEN MoneyOver(rd, MarginRows(rd), "cost") ELSE Missing
  IN IF rd.repeated # {} \/ Missing \in {revenue, cost} THEN Missing ELSE revenue - cost

GrossProfit(rd) ==
  LET revenue == MoneyOver(rd, MarginRows(rd), "revenue")
      cost == IF contract.costExtended THEN MoneyOver(rd, MarginRows(rd), "cost") ELSE Missing
  IN IF rd.repeated # {} \/ {"revenue", "cost"} \cap rd.gapped # {} \/ Missing \in {revenue, cost}
     THEN Missing ELSE revenue - cost

Numerator(rd, metric) ==
  CASE metric = "average_order_value" ->
         IF rd.complete /\ ~RepeatedSales(rd) THEN MoneyOver(rd, Orders(rd), "revenue") ELSE Missing
    [] metric = "average_selling_price" ->
         IF CompleteSelling(rd) /\ ~RepeatedSales(rd)
         THEN MoneyOver(rd, Selling(rd), "revenue") ELSE Missing
    [] metric = "gross_margin" -> GrossProfit(rd)

Denominator(rd, metric) ==
  CASE metric = "average_order_value" ->
         IF rd.complete /\ ~RepeatedSales(rd) THEN DistinctOver(rd.e, Orders(rd)) ELSE Missing
    [] metric = "average_selling_price" ->
         IF RepeatedSales(rd) THEN Missing ELSE SumOver(rd.e, Selling(rd), "units")
    [] metric = "gross_margin" ->
         IF GrossProfit(rd) = Missing THEN Missing ELSE MoneyOver(rd, MarginRows(rd), "revenue")

Ratios == {"average_order_value", "average_selling_price", "gross_margin"}
Metrics == Measures \cup Ratios \cup {"transactions", "returns", "gross_profit"}

Figure(rd, metric) ==
  CASE metric \in Measures -> WholeTotal(rd, metric)
    [] metric = "transactions" -> TransactionTotal(rd)
    [] metric = "returns" -> ReturnsMagnitude(rd)
    [] metric = "gross_profit" -> GrossProfit(rd)
    [] OTHER ->
         LET n == Numerator(rd, metric)
             d == Denominator(rd, metric)
         IN IF Missing \in {n, d} \/ d <= 0 THEN Missing ELSE <<n, d>>

----------------------------------------------------------------------------
(* The one cause a refused figure states, in the governed order.           *)

InputsOf(metric) ==
  CASE metric = "transactions" -> <<"transaction_id">>
    [] metric = "average_order_value" -> <<"revenue", "transaction_id">>
    [] metric = "average_selling_price" -> <<"revenue", "units">>
    [] metric \in {"gross_profit", "gross_margin"} -> <<"revenue", "cost">>
    [] metric = "returns" -> <<"returns">>
    [] OTHER -> <<metric>>

\* No column is mapped to returns here: the code reads none for the metric.
StateOf(s) == IF s = "returns" THEN "unavailable" ELSE mapping[s]

Cause(reason, input) == [reason |-> reason, input |-> input]

MappingReason(inputs) ==
  LET unmapped == SelectSeq(inputs, LAMBDA s : StateOf(s) # "mapped")
  IN CASE unmapped = <<>> -> Cause("required_input_unavailable", Missing)
       [] unmapped # <<>> /\ StateOf(unmapped[1]) = "ambiguous" -> Cause("ambiguous_mapping", unmapped[1])
       [] OTHER -> Cause("required_input_unavailable", unmapped[1])

ReasonFor(rd, inputs, gaps, repeated) ==
  LET own == SelectSeq(inputs, LAMBDA s : s \in gaps)
  IN CASE gaps # {} ->
            Cause("incomplete_column_coverage",
                  IF own # <<>> THEN own[1] ELSE CHOOSE s \in gaps : TRUE)
       [] gaps = {} /\ repeated ->
            Cause(IF contract.keyed THEN "repeated_event_key" ELSE "repeated_row_signature", Missing)
       [] gaps = {} /\ ~repeated /\ "transaction_id" \in Range(inputs) /\ ~rd.complete ->
            Cause("incomplete_transaction_identifiers", Missing)
       [] OTHER -> MappingReason(inputs)

\* Each metric's own gaps, and whether only repeated sales concern it.
GapsOf(rd, metric) ==
  CASE metric = "average_order_value" -> {}
    [] metric = "average_selling_price" ->
         IF CompleteSelling(rd) THEN {} ELSE rd.gapped \cap {"revenue", "units"}
    [] metric = "returns" -> rd.population
    [] OTHER -> rd.gapped \cap Range(InputsOf(metric))

SalesMetrics == {"transactions", "average_order_value", "average_selling_price"}

UnavailableCause(rd, metric) ==
  ReasonFor(rd, InputsOf(metric), GapsOf(rd, metric),
            IF metric \in SalesMetrics THEN RepeatedSales(rd) ELSE rd.repeated # {})

RefusalCause(rd, metric) ==
  IF metric \in Ratios /\ Missing \notin {Numerator(rd, metric), Denominator(rd, metric)}
  THEN Cause(IF Denominator(rd, metric) = 0 THEN "zero_denominator" ELSE "negative_base", Missing)
  ELSE UnavailableCause(rd, metric)

----------------------------------------------------------------------------
(* Series and breakdowns.                                                  *)

SeriesTotal(rd, s) ==
  IF rd.repeated # {} \/ (s = "revenue" /\ rd.violated) THEN Missing
  ELSE IF s = "revenue" THEN MoneyOver(rd, rd.all, s) ELSE SumOver(rd.e, rd.all, s)

Dated(rd) == With(rd.e, rd.all, "transaction_date")

\* Days while the extract spans at most 92 of them, else months of 31.
Granularity(rd) ==
  LET days == {rd.e[i].transaction_date : i \in Dated(rd)}
  IN IF days # {} /\ Max(days) - Min(days) > GRANULARITY_DAY_SPAN THEN 31 ELSE 1

Period(rd, i) == rd.e[i].transaction_date \div Granularity(rd)

\* A bucket states a value only when every row of it has one.
Bucket(rd, I, s) ==
  [value |-> IF With(rd.e, I, s) = I THEN SumOver(rd.e, I, s) ELSE Missing,
   rows |-> Cardinality(I),
   transactions |-> IF rd.complete /\ DistinctOver(rd.e, rd.all) # Missing
                    THEN Cardinality({rd.e[i].transaction_id :
                                        i \in With(rd.e, I \cap rd.sales, "transaction_id")})
                    ELSE Missing,
   sold |-> I \cap rd.sales # {}]

Stated(B, s) == {b \in B : s[b].value # Missing}

Reconciles(buckets, rd, I, s) ==
  /\ MapThenSumSet(LAMBDA b : buckets[b].rows, DOMAIN buckets) = Cardinality(I)
  /\ With(rd.e, I, s) = I =>
       MapThenSumSet(LAMBDA b : buckets[b].value, Stated(DOMAIN buckets, buckets))
         = MapThenSumSet(LAMBDA i : rd.e[i][s], I)

DerivedCause(rd, surface, s) ==
  ReasonFor(rd, <<surface, s>>, IF s = "revenue" THEN rd.population ELSE {}, rd.repeated # {})

Refusal(cause) == [cause |-> cause, buckets |-> <<>>]

\* One bucket for each period a dated row falls in.
BuildSeries(rd, s) ==
  [p \in {Period(rd, i) : i \in Dated(rd)} |-> Bucket(rd, {i \in Dated(rd) : Period(rd, i) = p}, s)]

SeriesOf(rd, s) ==
  IF Dated(rd) = {} \/ SeriesTotal(rd, s) = Missing
  THEN Refusal(DerivedCause(rd, "transaction_date", s))
  ELSE IF Reconciles(BuildSeries(rd, s), rd, Dated(rd), s)
       THEN [cause |-> Missing, buckets |-> BuildSeries(rd, s)]
       ELSE Refusal(Cause("reconciliation_failed", Missing))

\* The value a key is ordered by: what its rows carry, nothing counting as zero.
Weight(rd, I, s) == LET sum == SumOver(rd.e, I, s) IN IF sum = Missing THEN 0 ELSE sum

Products(rd) == {rd.e[i].product : i \in rd.all}
RowsOf(rd, k) == {i \in rd.all : rd.e[i].product = k}
SalesOf(rd, k) == RowsOf(rd, k) \cap rd.sales

\* Largest first; equal weights in the order of their labels, which is that of
\* the products.
Ranked(weight) ==
  SetToSortSeq(DOMAIN weight, LAMBDA a, b :
    \/ weight[a] > weight[b]
    \/ weight[a] = weight[b] /\ b # Missing /\ (a = Missing \/ a < b))

\* Half to even, as Decimal.quantize rounds.
Share(part, whole) ==
  LET q == (part * SHARE_SCALE) \div whole
      r == (part * SHARE_SCALE) % whole
  IN IF 2 * r > whole \/ (2 * r = whole /\ q % 2 = 1) THEN q + 1 ELSE q

\* The running share of the ranked keys' sales; none where a sale has no value,
\* or a key's sales are negative in sum.
Curve(rd, s) ==
  LET sold == {k \in Products(rd) : SalesOf(rd, k) # {}}
      ranked == Ranked([k \in sold |-> Weight(rd, SalesOf(rd, k), s)])
      Running(n) == SumOver(rd.e, UNION {SalesOf(rd, ranked[m]) : m \in 1..n}, s)
  IN IF \/ sold = {} \/ With(rd.e, rd.sales, s) # rd.sales
        \/ Running(Len(ranked)) <= 0
        \/ \E k \in sold : Weight(rd, SalesOf(rd, k), s) < 0
     THEN Missing
     ELSE [n \in DOMAIN ranked |-> Share(Running(n), Running(Len(ranked)))]

\* The largest keys in buckets of their own and what remains in one.
BuildComparison(rd, s) ==
  LET ordered == Ranked([k \in Products(rd) |-> Weight(rd, RowsOf(rd, k), s)])
      kept == SubSeq(ordered, 1, Min({Len(ordered), MaxBuckets}))
      dropped == Products(rd) \ Range(kept)
      named == [n \in DOMAIN kept |-> Bucket(rd, RowsOf(rd, kept[n]), s)]
  IN [cause |-> Missing, truncated |-> Cardinality(dropped), curve |-> Curve(rd, s),
      incomplete |-> SalesOf(rd, Missing) # {},
      buckets |-> IF dropped = {} THEN named
                  ELSE Append(named, Bucket(rd, UNION {RowsOf(rd, k) : k \in dropped}, s))]

ComparisonOf(rd, s) ==
  IF ~Mapped("product") \/ SeriesTotal(rd, s) = Missing
  THEN Refusal(DerivedCause(rd, "product", s))
  ELSE LET built == BuildComparison(rd, s)
       IN IF Reconciles(built.buckets, rd, rd.all, s) THEN built
          ELSE Refusal(Cause("reconciliation_failed", Missing))

\* The labels of a breakdown: a personal value by its place, a reserved word or a
\* shared display told apart by its key, and what still collides by a number.
Reserved == {"other", "unlabelled", "redacted"}

Rendered(K, k) ==
  CASE k = Missing -> <<"unlabelled">>
    [] k \in PersonalProducts -> <<"redacted", Cardinality({p \in K \cap PersonalProducts : p <= k})>>
    [] OTHER -> IF Displays[k] \in Reserved THEN <<Displays[k], "of", k>> ELSE <<Displays[k]>>

Suffixed(K, k) ==
  IF k \in PersonalProducts \/ \A j \in K \ {k} : Rendered(K, j) # Rendered(K, k)
  THEN Rendered(K, k) ELSE Rendered(K, k) \o <<"of", k>>

\* Redacted labels first: nothing else takes the place of one.
Labels(K) ==
  LET Numbered(label, taken) ==
        LET n == CHOOSE n \in 1..(Cardinality(taken) + 1) :
                   /\ (IF n = 1 THEN label ELSE label \o <<"#", n>>) \notin taken
                   /\ \A m \in 1..(n - 1) :
                        (IF m = 1 THEN label ELSE label \o <<"#", m>>) \in taken
        IN IF n = 1 THEN label ELSE label \o <<"#", n>>
      order == SetToSeq(K \cap PersonalProducts) \o SetToSeq(K \ PersonalProducts)
  IN FoldLeft(LAMBDA done, k : done @@ (k :> Numbered(Suffixed(K, k), Range(done))),
              <<>>, order)

----------------------------------------------------------------------------
(* The retained bases: which events each population of the package counted. *)

Populations(rd) ==
  [financial_posted |-> rd.all,
   sales_posted |-> rd.sales,
   sales_complete_transactions |-> With(rd.e, rd.sales, "transaction_id"),
   sales_complete_revenue_units |-> Selling(rd),
   sales_complete_revenue_transactions |-> Orders(rd),
   sales_complete_units_transactions |-> With(rd.e, rd.selling, "transaction_id"),
   financial_complete_revenue_cost |-> MarginRows(rd)]

\* The bases of a financial population, and of those the one without revenue.
Bases ==
  [financial_revenue |-> "financial_posted", financial_units |-> "financial_posted",
   sales_revenue |-> "sales_posted", sales_units |-> "sales_posted",
   sales_transaction |-> "sales_complete_transactions",
   sales_revenue_units |-> "sales_complete_revenue_units",
   sales_revenue_transaction |-> "sales_complete_revenue_transactions",
   sales_units_transaction |-> "sales_complete_units_transactions",
   financial_revenue_cost |-> "financial_complete_revenue_cost"]

FinancialPopulations == {"financial_posted", "financial_complete_revenue_cost"}

Withheld(rd, name) ==
  IF Bases[name] \notin FinancialPopulations THEN RepeatedSales(rd)
  ELSE rd.repeated # {} \/ (rd.violated /\ name # "financial_units")

\* With identified sales, a population none of them falls in counts no
\* transactions, which is not the same as not counting them.
TransactionsIn(rd, population) ==
  IF DistinctOver(rd.e, rd.sales) = Missing THEN Missing
  ELSE Cardinality({rd.e[i].transaction_id :
                      i \in With(rd.e, Populations(rd)[population], "transaction_id")})

RetainedBases(rd) ==
  [name \in {n \in DOMAIN Bases : ~Withheld(rd, n)} |->
     [events |-> Cardinality(Populations(rd)[Bases[name]]),
      transactions |->
        IF name \in {"sales_transaction", "sales_revenue_transaction", "sales_units_transaction"}
        THEN TransactionsIn(rd, Bases[name]) ELSE Missing]]

\* A derived figure whose sides are not there for the same rows.
Partial(I, J) == I \cap J # I \cup J /\ I # {} /\ J # {}

CaveatsOf(rd, t) ==
  LET revenues == With(rd.e, rd.sales, "revenue")
      identified == With(rd.e, rd.sales, "transaction_id")
      margins == {"revenue", "cost"} \cap rd.gapped = {} \/ rd.repeated # {}
  IN {c \in {"derived_metrics_use_matched_rows", "currency_not_declared", "null_measure_inputs",
             "negative_revenue_present", "returns_not_netted", "duplicate_rows_present",
             "rows_without_time_field_excluded"} :
       CASE c = "derived_metrics_use_matched_rows" ->
              \/ Partial(revenues, identified) \/ Partial(revenues, rd.selling)
              \/ margins /\ Partial(With(rd.e, rd.all, "revenue"), With(rd.e, rd.all, "cost"))
         [] c = "currency_not_declared" ->
              ~rd.money /\ \E m \in {"revenue", "cost", "discount", "returns", "gross_profit",
                                     "average_order_value", "average_selling_price"} :
                             Figure(rd, m) # Missing
         [] c = "null_measure_inputs" -> GappedSemantics(rd.e) # {}
         [] c = "negative_revenue_present" ->
              /\ WholeTotal(rd, "revenue") # Missing
              /\ \E i \in With(rd.e, rd.all, "revenue") : rd.e[i].revenue < 0
         [] c = "returns_not_netted" -> ReturnsMagnitude(rd) # Missing
         [] c = "duplicate_rows_present" ->
              LET kept == SelectSeq(t, LAMBDA r : StatusOf(r) # "void")
              IN \E i, j \in DOMAIN kept : i # j /\ kept[i] = kept[j]
         [] OTHER -> Dated(rd) \notin {{}, rd.all}}

\* The periods whose rows hold returns, the undated returns apart.
ReturningPeriods(rd) ==
  IF SeriesOf(rd, "revenue").cause # Missing THEN {}
  ELSE {IF i \in Dated(rd) THEN Period(rd, i) ELSE Missing : i \in rd.all \ rd.sales}

PackageOf(t) ==
  LET rd == Reading(t)
  IN [state |-> "built", rows |-> Cardinality(rd.all),
      value |-> [m \in Metrics |-> Figure(rd, m)],
      cause |-> [m \in {m \in Metrics : Figure(rd, m) = Missing} |-> RefusalCause(rd, m)],
      series |-> [s \in {"revenue", "units"} |-> SeriesOf(rd, s)],
      comparison |-> [s \in {"revenue", "units"} |-> ComparisonOf(rd, s)],
      saleUnits |-> IF RepeatedSales(rd) THEN Missing ELSE SumOver(rd.e, rd.selling, "units"),
      returning |-> ReturningPeriods(rd), bases |-> RetainedBases(rd),
      caveats |-> CaveatsOf(rd, t), kinds |-> {rd.e[i].kind : i \in rd.all}]

----------------------------------------------------------------------------
(* Behaviour.                                                              *)

\* assess_admissibility under the default request.
Admissible(t) ==
  t # <<>> /\ Mapped("transaction_date") /\ (Mapped("revenue") \/ Mapped("units"))

NoPackage == [state |-> "none"]

FactsInit ==
  /\ extract = <<>> /\ package = NoPackage
  /\ contract \in Contracts /\ mapping \in Mappings

ReadRow(r) ==
  /\ package = NoPackage /\ Len(extract) < MaxRows
  /\ extract' = Append(extract, r)
  /\ UNCHANGED <<contract, mapping, package>>

BuildFactPackage ==
  /\ package = NoPackage
  /\ package' = IF Admissible(extract) /\ EventsProven(extract) THEN PackageOf(extract)
                ELSE [state |-> "refused"]
  /\ UNCHANGED <<extract, contract, mapping>>

FactsNext == (\E r \in SampleRows : ReadRow(r)) \/ BuildFactPackage

FactsSpec == FactsInit /\ [][FactsNext]_fvars

----------------------------------------------------------------------------
(* Properties of a built package, over the rows of the extract themselves. *)

Built == package.state = "built"
Published(m) == package.value[m] # Missing
Admitted == {i \in DOMAIN extract : StatusOf(extract[i]) # "void"}
SaleRows == {i \in Admitted : KindOf(extract[i]) = "sale"}

\* facts.py 881-961: a profit is the difference of the very totals the package
\* publishes, never one over the rows that happen to carry both sides.
ProfitIsOfTheTotals ==
  Published("gross_profit") =>
    /\ Published("revenue") /\ Published("cost")
    /\ package.value["gross_profit"] = package.value["revenue"] - package.value["cost"]
    /\ package.bases["financial_revenue_cost"].events = package.rows

\* facts.py 1001-1039, admission.py 474-535: no published sum counts two rows
\* that claim to be the same event.
NothingCountedTwice ==
  \A i, j \in Admitted :
    /\ i # j
    /\ IF contract.keyed THEN extract[i].event = extract[j].event ELSE extract[i] = extract[j]
    => /\ \A m \in Measures \cup {"returns", "gross_profit"} : ~Published(m)
       /\ "sale" = KindOf(extract[i]) => \A m \in Ratios \cup {"transactions"} : ~Published(m)

\* facts.py 2074-2138: the cause a refusal states is true of the extract and of
\* the column it names.
RefusalsAreTrue ==
  \A m \in DOMAIN package.cause :
    LET c == package.cause[m]
    IN CASE c.reason = "incomplete_column_coverage" ->
              \E i \in Admitted : \/ ~Mapped(c.input) \/ extract[i][c.input] = Missing
                                  \/ KindOf(extract[i]) = "return" /\ extract[i].revenue > 0
         [] c.reason = "incomplete_transaction_identifiers" ->
              \E i \in SaleRows : TransactionKey(extract[i]) = Missing
         [] c.reason = "ambiguous_mapping" -> mapping[c.input] = "ambiguous"
         [] c.reason = "required_input_unavailable" /\ c.input # Missing ->
              StateOf(c.input) = "unavailable"
         [] OTHER -> TRUE

\* aggregates.py 438-474: what the buckets of a breakdown state adds up to the
\* published total, and no row is in two of them or in none.
BucketsAddUp ==
  \A s \in {"revenue", "units"} : LET c == package.comparison[s] IN
    c.cause = Missing =>
      /\ MapThenSumSet(LAMBDA n : c.buckets[n].rows, DOMAIN c.buckets) = package.rows
      /\ Published(s) => package.value[s] =
           MapThenSumSet(LAMBDA n : c.buckets[n].value, DOMAIN c.buckets)
      /\ c.curve # Missing => /\ c.curve[Len(c.curve)] = SHARE_SCALE
                              /\ \A n \in 2..Len(c.curve) : c.curve[n - 1] <= c.curve[n]

\* facts.py 1299-1339, 1623-1659: the average order value divides by the orders
\* its retained basis counted, and the averages take nothing from a return.
AveragesHaveTheirBasis ==
  /\ Published("average_order_value") =>
       package.value["average_order_value"][2] =
         package.bases["sales_revenue_transaction"].transactions
  /\ Published("average_selling_price") =>
       package.value["average_selling_price"] =
         <<MapThenSumSet(LAMBDA i : extract[i].revenue, SaleRows), package.saleUnits>>

\* aggregates.py 477-553: two products never share a label, and a redacted
\* product's place is its own.
LabelsTellApart ==
  LET K == {extract[i].product : i \in Admitted}
      labels == Labels(K)
  IN /\ \A j, k \in K : j # k => labels[j] # labels[k]
     /\ \A k \in K \cap PersonalProducts : Len(labels[k]) = 2

\* The figures of a package agree with each other and with its extract.
FiguresHold ==
  Built => /\ ProfitIsOfTheTotals /\ NothingCountedTwice /\ RefusalsAreTrue
           /\ BucketsAddUp /\ AveragesHaveTheirBasis /\ LabelsTellApart

============================================================================
