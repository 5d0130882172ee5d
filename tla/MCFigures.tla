----------------------------- MODULE MCFigures -----------------------------
(***************************************************************************)
(* Small inputs for the computations that MCServices checks.  Each is a    *)
(* module of its own, instantiated over the same four variables, since one *)
(* of them runs at a time.                                                 *)
(***************************************************************************)
EXTENDS Integers, Sequences, FiniteSets, FiniteSetsExt, SequencesExt, TLC

CONSTANT Missing

VARIABLES
  part,     \* which part of the system this behaviour is of
  given,    \* what the computation reads
  terms,    \* under what declarations
  partial,  \* what it has settled so far
  answer    \* what it answered

figvars == <<given, terms, partial, answer>>

----------------------------------------------------------------------------
(* Fact packages: rows that differ from a plain sale in one respect each.  *)

Plain == [kind |-> "sale", status |-> "posted", currency |-> "EGP", transaction_id |-> 1, event |-> "k1",
          revenue |-> 10, units |-> 2, cost |-> 4, discount |-> 1, transaction_date |-> 1, product |-> 1]
Returned == [Plain EXCEPT !.kind = "return", !.revenue = -5, !.units = -1, !.transaction_id = 2, !.event = "k2"]
MCRows == {Plain, Returned,
  [Plain EXCEPT !.event = "k3"], [Plain EXCEPT !.status = "void", !.currency = "USD"],
  [Plain EXCEPT !.status = "draft"],
  [Plain EXCEPT !.revenue = Missing, !.event = "k4"], [Plain EXCEPT !.cost = Missing, !.event = "k5", !.product = 2],
  [Plain EXCEPT !.cost = Missing, !.revenue = Missing, !.event = "k5", !.product = 2],
  [Plain EXCEPT !.units = Missing, !.event = "k6"], [Plain EXCEPT !.units = 0, !.event = Missing],
  [Plain EXCEPT !.discount = Missing, !.transaction_id = Missing, !.event = "k7"],
  [Plain EXCEPT !.transaction_date = 200, !.event = "k8", !.product = 3, !.revenue = -3],
  [Plain EXCEPT !.transaction_date = Missing, !.event = "k9", !.product = 4, !.revenue = 7],
  [Returned EXCEPT !.revenue = 5, !.product = Missing], [Returned EXCEPT !.event = "return"]}
Firm == [saleOnly |-> FALSE, postedOnly |-> FALSE, keyed |-> FALSE, composite |-> FALSE, currency |-> "EGP",
         costExtended |-> TRUE, discountAdditive |-> TRUE]
MCContracts == {Firm, [Firm EXCEPT !.keyed = TRUE], [Firm EXCEPT !.saleOnly = TRUE, !.keyed = TRUE],
   [Firm EXCEPT !.postedOnly = TRUE, !.composite = TRUE], [Firm EXCEPT !.currency = Missing],
   [Firm EXCEPT !.costExtended = FALSE, !.discountAdditive = FALSE]}
AllMapped == [s \in {"revenue", "units", "cost", "discount", "transaction_date", "transaction_id",
                      "product", "returns"} |-> "mapped"]
MCMappings == {AllMapped} \cup {[AllMapped EXCEPT ![s] = "unavailable"] : s \in {"product", "cost", "transaction_id", "units"}}
   \cup {[AllMapped EXCEPT !["discount"] = "ambiguous", !["revenue"] = "unavailable"]}
MCDisplays == <<"tea", "tea", "other", "x">>
Personal == {4}

Facts == INSTANCE FactPackage WITH
  extract <- given, contract <- terms, mapping <- partial, package <- answer,
  SampleRows <- MCRows, Contracts <- MCContracts, Mappings <- MCMappings,
  Displays <- MCDisplays, PersonalProducts <- Personal, MaxRows <- 3, MaxBuckets <- 2

\* One thing out of the ordinary at a time: a contract or a mapping.
FactsInit == part = "facts" /\ Facts!FactsInit /\ (terms = Firm \/ partial = AllMapped)
FactsNext == part = "facts" /\ Facts!FactsNext

----------------------------------------------------------------------------
(* Column mappings: labels that overlap, values of more than one reading.  *)

Value == [blank |-> FALSE, integer |-> FALSE, decimal |-> FALSE, reads |-> <<>>, shapes |-> {}]
Whole == [Value EXCEPT !.integer = TRUE, !.decimal = TRUE]
Amounts == <<Whole, [Value EXCEPT !.decimal = TRUE]>>
Wholes == <<Whole, Missing>>
Words == <<Value, Whole>>
Mails == <<[Value EXCEPT !.shapes = {"value_email"}], Value>>
\* The third of April or the fourth of March; the thirteenth of a month.
Either == [Value EXCEPT !.reads = ("d/m/Y" :> 93) @@ ("m/d/Y" :> 63)]
Thirteenth == [Value EXCEPT !.reads = "d/m/Y" :> 103]
Iso == [Value EXCEPT !.reads = "Y-m-d" :> 93]
Labelled(l, cells) == [label |-> l, cells |-> cells]
ColumnOrder == <<
  Labelled(<< <<"order">>, <<"id">> >>, Wholes),
  Labelled(<< <<"order">>, <<"date">> >>, <<Either, Thirteenth>>),
  Labelled(<< <<"day">> >>, <<Either, Either>>),
  Labelled(<< <<"amount">>, <<"date">> >>, Amounts),
  Labelled(<< <<"sales">>, <<"amount">> >>, Amounts),
  Labelled(<< <<"total">> >>, Amounts),
  Labelled(<< <<"total">>, <<"cost">> >>, Amounts),
  Labelled(<< <<"unit">>, <<"cost">> >>, Amounts),
  Labelled(<< <<"cost">> >>, <<Missing, [Value EXCEPT !.blank = TRUE]>>),
  Labelled(<< <<"discount">>, <<"total">> >>, Amounts),
  Labelled(<< <<"return", "amount">> >>, Wholes),
  Labelled(<< <<"promo">> >>, Amounts),
  Labelled(<< <<"unit", "s", "sales">> >>, Wholes),
  Labelled(<< <<"unit", "s">> >>, Wholes),
  Labelled(<< <<"sales">>, <<"channel">> >>, Words),
  Labelled(<< <<"sales">>, <<"item">> >>, Wholes),
  Labelled(<< <<"customer", "id">> >>, Wholes),
  Labelled(<< <<"store">> >>, Mails),
  Labelled(<< <<"invoice">> >>, Words),
  Labelled(<<>>, <<Iso, Missing>>) >>

Declared == [kindColumn |-> TRUE, saleOnly |-> FALSE, statusColumn |-> FALSE, postedOnly |-> TRUE,
             currencyColumn |-> FALSE, currency |-> "ISO", eventKeys |-> FALSE, lineGrain |-> TRUE,
             column |-> << <<"order">>, <<"id">> >>, components |-> {}, unique |-> TRUE]
Invoice == << <<"invoice">> >>
MCDeclared == {Declared, [Declared EXCEPT !.column = Invoice, !.components = {Invoice}, !.unique = FALSE],
  [Declared EXCEPT !.saleOnly = TRUE], [Declared EXCEPT !.currency = Missing],
  [Declared EXCEPT !.eventKeys = TRUE], [Declared EXCEPT !.column = Missing],
  [Declared EXCEPT !.unique = FALSE, !.components = {Invoice}]}

Mapping == INSTANCE ColumnMapping WITH
  profile <- given, declared <- terms, surrendered <- partial, outcome <- answer,
  SampleColumns <- Range(ColumnOrder), Contracts <- MCDeclared, Requests <- {{}, {"channel"}},
  MAX_PROFILED_COLUMNS <- 3

\* Columns in one order, and a fourth, one too many, of one kind only.
Rank(label) == Min({i \in DOMAIN ColumnOrder : ColumnOrder[i].label = label} \cup {Len(ColumnOrder)})
InOrder(columns) ==
  /\ \A i \in 2..Len(columns) : Rank(columns[i - 1].label) <= Rank(columns[i].label)
  /\ Len(columns) > 3 => columns[4].label[1] = <<"column">>

MappingInit == part = "mapping" /\ Mapping!MappingInit
MappingNext == part = "mapping" /\ Mapping!MappingNext /\ InOrder(given')

----------------------------------------------------------------------------
(* Report bundles: packages that differ in what was sold when, or in how    *)
(* the sales break down.                                                    *)

Months(s) == [granularity |-> "month", caveats |-> {},
  buckets |-> [n \in DOMAIN s |-> [label |-> <<"month", s[n][1]>>, value |-> s[n][2], rows |-> n]]]
Days(s) == [Months(s) EXCEPT !.granularity = "day",
  !.buckets = [n \in DOMAIN s |-> [@[n] EXCEPT !.label = <<"day", s[n][1][1], s[n][1][2]>>]]]
Even == <<<<1, 9>>, <<4, 7>>, <<5, 8>>, <<6, 3>>>>
MCTrends == {Missing, Months(Even)}
  \cup {Months([Even EXCEPT ![2] = <<4, a>>, ![3] = <<5, b>>]) :
          a \in {-3, 0, 3, Missing}, b \in {-1, 5, Missing}}
  \cup {Months(<<<<1, 9>>, <<2, 7>>>>), Months(<<<<1, 9>>, <<3, 7>>, <<5, 8>>, <<6, 3>>>>),
        Months(<<<<1, 9>>, <<2, 4>>, <<13, 2>>, <<14, 8>>, <<15, 3>>>>),
        Days(<<<<<<2023, 1>>, 1>>, <<<<2023, 60>>, 6>>, <<<<2024, 60>>, 5>>, <<<<2024, 61>>, 7>>, <<<<2024, 62>>, 2>>>>),
        Days(<<<<<<2023, 58>>, 1>>, <<<<2023, 365>>, 6>>, <<<<2024, 1>>, 5>>, <<<<2024, 2>>, 7>>>>),
        Days(<<<<<<2023, 58>>, 1>>, <<<<2023, 59>>, 6>>, <<<<2024, 60>>, 5>>, <<<<2024, 61>>, 7>>>>)}
MCUnits == {Missing, Months(<<<<1, 4>>, <<4, 2>>, <<5, 3>>, <<6, 1>>>>),
  Months(<<<<1, 4>>, <<4, 4>>, <<5, 6>>>>), Months(<<<<4, 0>>, <<5, 3>>>>), Months(<<<<4, -2>>, <<5, Missing>>>>)}
Covered == [event_kinds |-> {"sale"}, statuses |-> {"posted"}, mode |-> "full", covered |-> 4, days |-> 90]

Sold(name, value, transactions) ==
  [label |-> <<"name", name>>, value |-> value, rows |-> 2, transactions |-> transactions,
   sold |-> TRUE, synthetic |-> FALSE]
Products == [dimension |-> "product", measure |-> "revenue", incomplete |-> FALSE, caveats |-> {},
  curve |-> <<40, 70, 90, 97, 100>>, distinct |-> 6, transactions |-> 3,
  buckets |-> <<Sold("tea", 40, 3), Sold("mint", 30, 1), [Sold("other", 30, 2) EXCEPT !.synthetic = TRUE]>>]
MCBreakdowns == {<<>>, <<Products>>, <<Products, [Products EXCEPT !.dimension = "category"]>>, <<[Products EXCEPT !.curve = Missing]>>,
  <<[Products EXCEPT !.incomplete = TRUE, !.transactions = 0],
    [Products EXCEPT !.dimension = "category", !.curve = <<100>>, !.distinct = 1,
                     !.caveats = {"comparison_buckets_truncated", "null_measure_inputs"}]>>,
  <<[Products EXCEPT !.measure = "units", !.transactions = Missing],
    [Products EXCEPT !.buckets = <<[@[1] EXCEPT !.sold = FALSE], [@[2] EXCEPT !.transactions = Missing]>>]>>,
  <<[Products EXCEPT !.incomplete = TRUE]>>,
  <<[Products EXCEPT !.buckets = <<[@[1] EXCEPT !.value = Missing, !.transactions = 0], @[2]>>, !.curve = <<0, 0, 0, 100>>]>>}
Counts == [revenue |-> 27, units |-> 10, transactions |-> 3]
MCTotals == {Counts, [Counts EXCEPT !.revenue = Missing, !.units = Missing], [Counts EXCEPT !.transactions = Missing],
             [Counts EXCEPT !.transactions = 0], [Counts EXCEPT !.units = Missing, !.transactions = Missing]}
Causes == {[reason |-> Missing, input |-> Missing], [reason |-> "required_input_unavailable", input |-> "transaction_id"],
           [reason |-> "incomplete_transaction_identifiers", input |-> Missing],
           [reason |-> "repeated_row_signature", input |-> Missing],
           [reason |-> "repeated_event_key", input |-> Missing]}

Package == [formula |-> "rra004.formula.v2", caveats |-> {"null_measure_inputs"}, revenue |-> Months(Even),
  units |-> Missing, kinds |-> {"sale"}, returning |-> {}, coverage |-> {Covered},
  comparisons |-> <<Products>>, totals |-> Counts, refusal |-> [reason |-> Missing, input |-> Missing],
  unitsInput |-> Missing, saleUnits |-> 10]
Charted == [Package EXCEPT !.units = Months(<<<<4, 2>>, <<5, 3>>>>)]
MCPackages ==
  {[Package EXCEPT !.revenue = r, !.units = u, !.returning = w[1], !.kinds = w[2], !.coverage = c] :
     r \in MCTrends, u \in MCUnits,
     w \in {<<{}, {"sale"}>>, <<{<<"month", 4>>}, {"sale", "return"}>>},
     c \in {{Covered}, {}, {Covered, [Covered EXCEPT !.days = 30]}}}
  \cup {[Charted EXCEPT !.returning = w[1], !.kinds = w[2]] :
          w \in {<<{}, {"sale", "return"}>>, <<{<<"undated">>}, {"sale", "return"}>>, <<{<<"month", 6>>}, {"return", "sale"}>>}}
  \cup {[Package EXCEPT !.comparisons = b, !.totals = t, !.saleUnits = n, !.kinds = k,
                        !.refusal = IF t.transactions = Missing THEN c ELSE @] :
          b \in MCBreakdowns, t \in MCTotals, n \in {Missing, 7}, k \in {{"sale"}, {"sale", "return"}}, c \in Causes}
  \cup {Charted, [Charted EXCEPT !.formula = "rra004.formula.v1"]}

Bundle == INSTANCE ReportSurfaces WITH
  package <- given, asked <- terms, bundle <- partial, attempt <- answer,
  RATIO_SCALE <- 1000, MAX_CURVE_POINTS <- 4, Packages <- MCPackages, FaultyPackages <- {Charted}

BundleInit == part = "bundle" /\ Bundle!BundleInit
  /\ (given # Charted => terms = [given |-> FALSE, refused |-> FALSE])
BundleNext == part = "bundle" /\ Bundle!BundleNext
  /\ (given \notin {Charted, Package} => answer' = Bundle!NoAttempt)

----------------------------------------------------------------------------
(* Narratives: a sound draft of a package of every kind of fact, and what   *)
(* one change makes of it, to one language or to both.                      *)

Entry(id, kind, metric, value) ==
  [fact_id |-> id, citation_id |-> "cite " \o id, kind |-> kind, metric |-> metric, value |-> value,
   ratio |-> FALSE, extent |-> {}, buckets |-> <<>>, caveats |-> {}]
Point(text, within, value, rows) == [label |-> [text |-> text, within |-> within], value |-> value, rows |-> rows]
Takings == [Entry("revenue", "facts", "revenue", 50000) EXCEPT !.caveats = {"null_measure_inputs"}]
Margin == [Entry("margin", "facts", "gross_margin", 60) EXCEPT !.ratio = TRUE]
Daily == [Entry("daily", "series", "revenue", Missing) EXCEPT
  !.buckets = <<Point("day 5", {202600, 500}, 9000, 2), Point("day 6", {202600, 600}, Missing, 1),
                Point("day 7", {202600, 700}, 12000, 3)>>]
Shares == [Entry("shares", "comparisons", "concentration_curve", Missing) EXCEPT
  !.ratio = TRUE, !.extent = {400, 0}, !.buckets = <<Point("seven", {700}, 30, 4), Point("mint", {}, 70, 1)>>]
PerBasket == [Entry("basket", "facts", "basket_items_per_transaction", 250) EXCEPT !.ratio = TRUE]
Nameless == [Entry("nameless", "facts", "unheard_of", 100) EXCEPT !.caveats = {"unmapped"}]
Loss == [Entry("profit", "facts", "gross_profit", -700) EXCEPT !.caveats = {"derived_over_matched_rows"}]
Telling == [entries |-> <<Takings, Nameless, Margin, Daily, Shares, PerBasket>>, caveats |-> {"currency_unattested"}]
MCTellings == {Telling, [Telling EXCEPT !.entries = <<Nameless, Daily>>], [Telling EXCEPT !.entries = <<>>],
  [Telling EXCEPT !.entries = <<Loss, [Margin EXCEPT !.value = -5], [Takings EXCEPT !.value = Missing]>>],
  [Telling EXCEPT !.entries = <<Loss, PerBasket, Margin, Takings>>]}

Befores == {"", "(", "currency", "operator", "scale word", "currency word", "currency code",
            "currency word, punctuation"}
Afters == {"", ")", "%", "percent", "currency", "operator", "scale word", "currency word", "currency code"}
MCTokens == LET f == [kind |-> "number", value |-> 50000, sign |-> "", before |-> "", after |-> "", stop |-> FALSE,
                      glued |-> FALSE, complete |-> TRUE, label |-> Missing] IN
  {[f EXCEPT !.before = b, !.after = a, !.stop = s] : b \in Befores, a \in Afters, s \in BOOLEAN}
  \cup {[f EXCEPT !.sign = g, !.before = b, !.after = a, !.value = n] :
          g \in {"", "-", "+", "- ", "+ ", "dash"}, b \in {"", "("}, a \in {"", ")", "%"}, n \in {50000, 700}}
  \cup {[f EXCEPT !.value = n, !.after = a] :
          n \in {60, 6000, 9000, 30, 3000, 400, 700, 100, 202600, 250, 25000, 2, 12000}, a \in {"", "%", "percent"}}
  \cup {[f EXCEPT !.value = 700, !.label = "seven", !.sign = g, !.after = a, !.complete = c] :
          g \in {"", "-", "- "}, a \in {"", "currency"}, c \in BOOLEAN}
  \cup {[f EXCEPT !.glued = TRUE], [f EXCEPT !.complete = FALSE]}
  \cup {[f EXCEPT !.kind = k] : k \in {"words", "worded", "numeral", "unsafe"}}

Sound == [id |-> "facts", text |-> <<[kind |-> "words"]>>, cited |-> <<"revenue", "cite daily", "shares", "margin">>,
          caveats |-> {"currency_unattested"}, labels |-> {"mint"}, direction |-> "rose"]
Sections == {[Sound EXCEPT !.text = <<t>>] : t \in MCTokens} \cup
  {[Sound EXCEPT !.text = <<>>], [Sound EXCEPT !.cited = <<>>], [Sound EXCEPT !.cited = <<"revenue", "else">>],
   [Sound EXCEPT !.cited = <<"revenue", "daily", "shares">>], [Sound EXCEPT !.caveats = {"else"}], [Sound EXCEPT !.caveats = {}],
   [Sound EXCEPT !.cited = <<"cite revenue", "daily", "shares", "margin">>],
   [Sound EXCEPT !.labels = {"else"}], [Sound EXCEPT !.labels = {"seven"}], [Sound EXCEPT !.direction = "fell"],
   [Sound EXCEPT !.direction = "soared"], [Sound EXCEPT !.direction = Missing], [Sound EXCEPT !.id = "lead"],
   [Sound EXCEPT !.cited = <<"revenue">>, !.labels = {}]}
Told(ar, en) == [digest |-> "echoed", version |-> "", languages |->
  <<[language |-> "ar", sections |-> ar], [language |-> "en", sections |-> en]>>]
Whichever == Told(<<Sound>>, <<Sound>>)
MCDrafts == UNION {{Told(<<s>>, <<Sound>>), Told(<<s>>, <<s>>), Told(<<Sound, s>>, <<Sound>>)} : s \in Sections}
  \cup {[Whichever EXCEPT !.digest = "else"], [Whichever EXCEPT !.languages[1].language = "fr"],
        [Whichever EXCEPT !.languages[1].language = "en"], [Whichever EXCEPT !.languages = <<@[1]>>],
        [Whichever EXCEPT !.languages = @ \o <<@[1]>>], [Whichever EXCEPT !.languages[2].sections = <<>>]}

Narrative == INSTANCE NarrativeDraft WITH
  package <- given, adapter <- terms, draft <- partial, result <- answer,
  Packages <- MCTellings, Drafts <- MCDrafts, Versions <- {"model.v1", "malformed", "raises"}, MAX_SECTIONS <- 2,
  Named <- {"revenue", "gross_margin", "gross_profit", "basket_items_per_transaction"},
  Percentages <- {"gross_margin", "concentration_curve"}

\* A provider is asked about the package of every kind of fact only.
NarrativeInit == part = "narrative" /\ Narrative!NarrativeInit
  /\ (terms.deterministic \/ given = Telling)
NarrativeNext == part = "narrative" /\ Narrative!NarrativeNext

----------------------------------------------------------------------------

FigureParts == {"facts", "mapping", "bundle", "narrative"}
ReportInit == FactsInit \/ MappingInit \/ BundleInit \/ NarrativeInit
ReportNext == FactsNext \/ MappingNext \/ BundleNext \/ NarrativeNext
=============================================================================
