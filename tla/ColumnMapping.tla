---------------------------- MODULE ColumnMapping ----------------------------
(***************************************************************************)
(* What the columns of an upload are taken to mean: each column is         *)
(* profiled (rra/profiling.py), semantics claim columns by label and type  *)
(* and surrender shared ones to stronger claims until none is left to      *)
(* award, and the source contract's declaration is applied last            *)
(* (rra/mapping.py); the decision follows (rra/admissibility.py).          *)
(*                                                                         *)
(* A text is a sequence of morphemes, a label a sequence of such texts     *)
(* (its tokens), so that "Unit Price", "unitprice" and "unit prices" stay  *)
(* apart as they do in the code.  The vocabularies are samples of the      *)
(* source's.  A value is what it parses as: the decimal or date readings   *)
(* it has and the shapes of personal data it shows.                        *)
(***************************************************************************)
EXTENDS Integers, Sequences, FiniteSets, FiniteSetsExt, SequencesExt

CONSTANTS
  SampleColumns,         \* the columns an upload is built from
  Contracts,             \* the declarations an operator may submit
  Requests,              \* the sets of semantics a report may ask for
  MAX_PROFILED_COLUMNS,
  Missing                \* a null cell, no format, no declaration

VARIABLES
  profile,      \* the upload's columns, as profiled so far
  declared,     \* the submitted source contract and the request
  surrendered,  \* semantic -> the positions it lost in the award so far
  outcome       \* the mapping and the decision, once there

mvars == <<profile, declared, surrendered, outcome>>

----------------------------------------------------------------------------
(* The source contract (rra/source_contract.py).                           *)

\* By column or by constant, never both and never neither.
ExactlyOne(byColumn, byConstant) == byColumn # byConstant

EventsDeclared(c) ==
  /\ ExactlyOne(c.kindColumn, c.saleOnly)
  /\ ExactlyOne(c.statusColumn, c.postedOnly)
  /\ ExactlyOne(c.currencyColumn, c.currency # Missing)
  /\ c.currency \in {Missing, "ISO"}

\* An identifier proven unique, or a composite key it is a part of.
TransactionKeyDeclared(c) ==
  /\ c.column # Missing
  /\ c.unique \/ c.column \in c.components

ContractAccepted(c) ==
  EventsDeclared(c) /\ ExactlyOne(c.eventKeys, c.lineGrain) /\ TransactionKeyDeclared(c)

----------------------------------------------------------------------------
(* Profiling.                                                              *)

DATE_FORMATS ==
  << [name |-> "iso_date", patterns |-> <<"Y-m-d", "Y/m/d">>],
     [name |-> "iso_month", patterns |-> <<"Y-m">>],
     [name |-> "iso_datetime", patterns |-> <<"Y-m-dTH:M:S", "Y-m-d H:M:S">>],
     [name |-> "day_first", patterns |-> <<"d/m/Y", "d-m-Y">>],
     [name |-> "month_first", patterns |-> <<"m/d/Y", "m-d-Y">>] >>

\* The distinct values of a column that are neither null nor blank.
Present(c) == {c.cells[i] : i \in {i \in DOMAIN c.cells : c.cells[i] # Missing /\ ~c.cells[i].blank}}

ReadsAll(values, pattern) == \A v \in values : pattern \in DOMAIN v.reads

\* The first pattern of a format that reads every value, if there is one.
PatternFor(values, format) ==
  LET fit == SelectSeq(format.patterns, LAMBDA p : ReadsAll(values, p))
  IN IF fit = <<>> THEN Missing ELSE fit[1]

\* One date order, or none: formats that read the values must read them alike.
ResolveDateFormat(values) ==
  LET parsed == SelectSeq(DATE_FORMATS, LAMBDA f : PatternFor(values, f) # Missing)
      Alike(f, g) == \A v \in values : v.reads[PatternFor(values, f)] = v.reads[PatternFor(values, g)]
  IN CASE parsed = <<>> -> [format |-> Missing, ambiguous |-> FALSE]
       [] parsed # <<>> /\ \A i \in DOMAIN parsed : Alike(parsed[1], parsed[i]) ->
            [format |-> parsed[1].name, ambiguous |-> FALSE]
       [] OTHER -> [format |-> Missing, ambiguous |-> TRUE]

\* A single value, read by the first pattern of the format that can.
ParseDate(v, name) ==
  LET format == DATE_FORMATS[CHOOSE i \in DOMAIN DATE_FORMATS : DATE_FORMATS[i].name = name]
      fit == PatternFor({v}, format)
  IN IF fit = Missing THEN Missing ELSE v.reads[fit]

InferType(values) ==
  LET dates == ResolveDateFormat(values)
  IN CASE values = {} -> [type |-> "empty", format |-> Missing]
       [] values # {} /\ \A v \in values : v.integer -> [type |-> "integer", format |-> Missing]
       [] values # {} /\ (\A v \in values : v.decimal) /\ (\E v \in values : ~v.integer) ->
            [type |-> "decimal", format |-> Missing]
       [] (\E v \in values : ~v.decimal) /\ dates.format # Missing ->
            [type |-> "date", format |-> dates.format]
       [] OTHER -> [type |-> "text", format |-> Missing]

PersonalLabels ==
  {<<"email">>, <<"mail">>, <<"phone">>, <<"customer", "name">>, <<"full", "name">>, <<"address">>,
   <<"iban">>}
CustomerTokens == {<<"customer">>, <<"client">>, <<"account">>}
IdentifierTokens == {<<"id">>, <<"no">>, <<"number">>, <<"code">>}

Texts(label) == Range(label)
Collapsed(label) == FlattenSeq(label)

EndsIn(text, tail) ==
  Len(text) > Len(tail) /\ SubSeq(text, Len(text) - Len(tail) + 1, Len(text)) = tail
Stem(text, tail) == SubSeq(text, 1, Len(text) - Len(tail))

\* A customer and an identifier, apart or in one compact token.
NamesACustomerIdentifier(label) ==
  \/ CustomerTokens \cap Texts(label) # {} /\ IdentifierTokens \cap Texts(label) # {}
  \/ \E token \in Texts(label), suffix \in IdentifierTokens :
       /\ EndsIn(token, suffix)
       /\ \E party \in CustomerTokens :
            Stem(token, suffix) = party \/ EndsIn(Stem(token, suffix), party)

Shapes == {"value_email", "value_phone", "value_iban", "value_payment_card"}

\* Half of the distinct values in one shape are enough.
PersonalDataRisk(label, values) ==
  \/ PersonalLabels \cap (Texts(label) \cup {Collapsed(label)}) # {}
  \/ NamesACustomerIdentifier(label)
  \/ values # {} /\ \E shape \in Shapes :
       2 * Cardinality({v \in values : shape \in v.shapes}) >= Cardinality(values)

\* A header with nothing safe in it is named for its position.
SafeLabel(source, position) ==
  IF source = <<>> THEN << <<"column">>, << <<"1", "2", "3", "4">>[position] >> >> ELSE source

ProfileColumn(c, position) ==
  LET values == Present(c)
      label == SafeLabel(c.label, position)
      inferred == InferType(values)
      risk == PersonalDataRisk(label, values)
  IN [position |-> position, text |-> Collapsed(label), rows |-> Len(c.cells), label |-> label, type |-> inferred.type, format |-> inferred.format,
      risk |-> risk, values |-> values,
      ranged |-> ~risk /\ inferred.type \in {"integer", "decimal", "date"}]

----------------------------------------------------------------------------
(* The rules and the words they match.                                     *)

Semantics == <<"transaction_date", "revenue", "units", "transaction_id", "product", "category",
               "store", "channel", "cost", "discount", "returns">>
CORE_MEASURES == {"revenue", "units"}

Accepted(s) ==
  CASE s = "transaction_date" -> {"date"}
    [] s = "units" -> {"integer"}
    [] s \in {"revenue", "cost", "discount", "returns"} -> {"integer", "decimal"}
    [] s \in {"category", "channel"} -> {"text"}
    [] s \in {"transaction_id", "product", "store"} -> {"text", "integer"}

Vocabulary ==
  [transaction_date |-> {<<"date">>, <<"day">>, <<"month">>, <<"order", "date">>},
   revenue |-> {<<"sales">>, <<"amount">>, <<"total">>, <<"sales", "amount">>, <<"revenue">>},
   units |-> {<<"unit">>, <<"unit", "s">>, <<"qty">>, <<"quantity">>, <<"unit", "s", "sold">>},
   transaction_id |-> {<<"order", "id">>, <<"transaction", "id">>, <<"invoice">>},
   product |-> {<<"product">>, <<"sku">>, <<"item">>, <<"item", "name">>},
   category |-> {<<"category">>, <<"group">>},
   store |-> {<<"store">>, <<"branch">>, <<"site">>},
   channel |-> {<<"channel">>, <<"sales", "channel">>},
   cost |-> {<<"cost">>, <<"cost", "s">>, <<"total", "cost">>},
   discount |-> {<<"discount">>, <<"promo">>},
   returns |-> {<<"return">>, <<"return", "s">>, <<"refund">>}]

\* Terms of at most three letters are never looked for inside a text.
ShortTerms == {<<"day">>, <<"qty">>, <<"sku">>}

NonRevenueComponents == {<<"tax">>, <<"fee">>, <<"shipping">>}
Disqualifiers(s) ==
  CASE s = "revenue" -> NonRevenueComponents
    [] s = "units" -> {<<"price">>, <<"cost">>, <<"value">>, <<"amount">>}
    [] OTHER -> {}

RejectsPerUnit == {"revenue", "units", "cost", "discount", "returns"}
RequiresAmountEvidence == {"discount", "returns"}

PerUnitTokens == {<<"unit">>, <<"per">>, <<"avg">>, <<"rate">>, <<"percent">>, <<"ytd">>, <<"target">>}
PerUnitPrefixes == {<<"unit">>, <<"per">>, <<"avg">>, <<"target">>}
PerUnitCompounds == {<<"per", "unit">>, <<"unit", "price">>, <<"unit", "cost">>}
QualifierSuffixes == {<<"s">>, <<"es">>, <<"age">>, <<"ages">>}
PluralRemainders == {<<>>, <<"s">>, <<"es">>}
AffixOnlyQualifiers == {<<"running">>}
AmountTokens == {<<"amount">>, <<"value">>, <<"total">>}

Within(term, text) ==
  \E i \in 1..(Len(text) - Len(term) + 1) : SubSeq(text, i, i + Len(term) - 1) = term

IsQualifier(token) ==
  token \in PerUnitTokens \/ \E suffix \in QualifierSuffixes :
                               EndsIn(token, suffix) /\ Stem(token, suffix) \in PerUnitTokens

HasPerInfix(text) == \E i \in 2..(Len(text) - 1) : text[i] = "per"

\* The text falls into the semantic's own terms and qualifiers, one at least.
QualifiedByAffix(s, text) ==
  \E cuts \in SUBSET (1..(Len(text) - 1)) :
    LET ends == cuts \cup {Len(text)}
        pieces == {SubSeq(text, n + 1, Min({m \in ends : m > n})) : n \in cuts \cup {0}}
        others == pieces \ Vocabulary[s]
    IN others # {} /\ \A p \in others : IsQualifier(p) \/ p \in AffixOnlyQualifiers

Disqualified(s, label, text) ==
  LET unclaimed == Texts(label) \ Vocabulary[s]
  IN \/ Disqualifiers(s) \cap unclaimed # {}
     \/ /\ s \in RejectsPerUnit /\ text \notin Vocabulary[s]
        /\ \/ \E token \in unclaimed : IsQualifier(token)
           \/ \E compound \in PerUnitCompounds : Within(compound, text)
           \/ Len(label) = 1 /\ HasPerInfix(text)
           \/ QualifiedByAffix(s, text)
           \/ \E prefix \in PerUnitPrefixes :
                IsPrefix(prefix, text) /\
                  SubSeq(text, Len(prefix) + 1, Len(text)) \notin PluralRemainders

DeclaresAmount(c) ==
  AmountTokens \cap Texts(c.label) # {} \/ \E term \in AmountTokens : Within(term, c.text)

----------------------------------------------------------------------------
(* Claims.                                                                 *)

\* In hundredths, before the bonus for the type.
LabelConfidence(s, label, text) ==
  CASE text \in Vocabulary[s] -> 95
    [] text \notin Vocabulary[s] /\ Vocabulary[s] \cap Texts(label) # {} -> 80
    [] Vocabulary[s] \cap (Texts(label) \cup {text}) = {} /\
         \E term \in Vocabulary[s] \ ShortTerms : Within(term, text) -> 60
    [] OTHER -> 0

Candidate(s, c) ==
  LET compatible == c.type \in Accepted(s)
  IN [position |-> c.position, compatible |-> compatible,
      confidence |-> LabelConfidence(s, c.label, c.text) + IF compatible THEN 5 ELSE 0]

IsCandidate(s, c) ==
  c.label # <<>> /\ ~Disqualified(s, c.label, c.text) /\ LabelConfidence(s, c.label, c.text) # 0

\* Personal columns and empty ones are no one's to claim.
Admissible == {i \in DOMAIN profile : ~profile[i].risk /\ profile[i].type # "empty"}

Candidates(s, lost) ==
  LET open == Admissible \ lost
      named == {Candidate(s, profile[i]) : i \in {i \in open : IsCandidate(s, profile[i])}}
  IN IF named # {} \/ s # "transaction_date" THEN named
     ELSE {[position |-> i, compatible |-> TRUE, confidence |-> 55] :
             i \in {i \in open : profile[i].type \in Accepted(s)}}

Mapping(state, C) == [state |-> state, candidates |-> C]
First(C) == CHOOSE c \in C : \A d \in C : c.position <= d.position
Column(m, s) == First(m[s].candidates).position
Claim(m, s) == First(m[s].candidates).confidence

Resolve(s, lost) ==
  LET C == Candidates(s, lost)
      compatible == {c \in C : c.compatible}
      best == {c \in compatible : \A d \in compatible : d.confidence <= c.confidence}
      unevidenced == s \in RequiresAmountEvidence /\ \E c \in C : ~DeclaresAmount(profile[c.position])
  IN CASE C = {} -> Mapping("unavailable", C)
       [] unevidenced -> Mapping("ambiguous", C)
       [] ~unevidenced /\ C # {} /\ compatible = {} -> Mapping("conflicting", C)
       [] ~unevidenced /\ Cardinality(best) > 1 -> Mapping("ambiguous", best)
       [] OTHER -> Mapping("mapped", best)

Resolved(lost) == [s \in Range(Semantics) |-> Resolve(s, lost[s])]

Holders(m, p) == {s \in DOMAIN m : m[s].state = "mapped" /\ Column(m, s) = p}

\* What the claims of one round surrender: a column with one strongest claim
\* goes to it, a column with several is left to be refused.
Losers(m, p) ==
  LET claims == Holders(m, p)
      winners == {s \in claims : \A t \in claims : Claim(m, t) <= Claim(m, s)}
  IN IF Cardinality(winners) = 1 THEN claims \ winners ELSE {}

Refused(m) ==
  [s \in DOMAIN m |->
     IF m[s].state = "mapped" /\ Cardinality(Holders(m, Column(m, s))) > 1
     THEN [m[s] EXCEPT !.state = "conflicting"] ELSE m[s]]

\* The declared column if it is among the candidates, the first of its label.
PointedAt(entry, label) ==
  LET named == {c \in entry.candidates : profile[c.position].label = label}
  IN IF named = {} THEN Mapping("unavailable", {}) ELSE Mapping("mapped", {First(named)})

DeclaredOverInferred(m) ==
  [m EXCEPT !["transaction_id"] = PointedAt(@, declared.contract.column)]

----------------------------------------------------------------------------
(* The decision.                                                           *)

Reasons(m) ==
  LET core == {m[s].state : s \in CORE_MEASURES}
      needed == {m[s].state : s \in {"transaction_date"} \cup declared.requested}
      asked == {m[s].state : s \in declared.requested \ {"transaction_date"}}
      unanswered == IF "mapped" \in core THEN {} ELSE core
  IN {r \in {"no_data_rows", "no_admissible_time_field", "no_answerable_core_measure",
             "unresolved_ambiguous_mapping", "irreconcilable_types", "missing_requested_semantic"} :
        CASE r = "no_data_rows" -> \A i \in DOMAIN profile : profile[i].rows = 0
          [] r = "no_admissible_time_field" -> m["transaction_date"].state # "mapped"
          [] r = "no_answerable_core_measure" -> "mapped" \notin core
          [] r = "unresolved_ambiguous_mapping" -> "ambiguous" \in needed \cup unanswered
          [] r = "irreconcilable_types" -> "conflicting" \in needed \cup unanswered
          [] OTHER -> "unavailable" \in asked}

\* The builder's last look: no column answers two semantics.
NoColumnReused(m) ==
  \A s, t \in DOMAIN m :
    s # t /\ m[s].state = "mapped" /\ m[t].state = "mapped" =>
      Column(m, s) # Column(m, t)

----------------------------------------------------------------------------
(* Behaviour.                                                              *)

Unmapped == [state |-> "declaring"]

MappingInit ==
  /\ profile = <<>> /\ outcome = Unmapped
  /\ declared \in [contract : Contracts, requested : Requests]
  /\ surrendered = [s \in Range(Semantics) |-> {}]

SubmitContract ==
  /\ outcome.state = "declaring"
  /\ outcome' = [state |-> IF ContractAccepted(declared.contract) THEN "reading" ELSE "rejected"]
  /\ UNCHANGED <<profile, declared, surrendered>>

ReadColumn(c) ==
  /\ outcome.state = "reading" /\ Len(profile) <= MAX_PROFILED_COLUMNS
  /\ profile' = Append(profile, ProfileColumn(c, Len(profile) + 1))
  /\ UNCHANGED <<declared, surrendered, outcome>>

BeginMapping ==
  /\ outcome.state = "reading"
  /\ outcome' = IF Len(profile) \in 1..MAX_PROFILED_COLUMNS
                THEN [state |-> "award", mapping |-> Resolved(surrendered)]
                ELSE [state |-> "rejected"]
  /\ UNCHANGED <<profile, declared, surrendered>>

AwardRound ==
  /\ outcome.state = "award"
  /\ \E p \in DOMAIN profile : Losers(outcome.mapping, p) # {}
  /\ surrendered' = [s \in DOMAIN surrendered |->
       surrendered[s] \cup {p \in DOMAIN profile : s \in Losers(outcome.mapping, p)}]
  /\ outcome' = [outcome EXCEPT !.mapping = Resolved(surrendered')]
  /\ UNCHANGED <<profile, declared>>

FinishMapping ==
  /\ outcome.state = "award"
  /\ \A p \in DOMAIN profile : Losers(outcome.mapping, p) = {}
  /\ LET final == DeclaredOverInferred(Refused(outcome.mapping))
     IN outcome' = [state |-> "mapped", mapping |-> final, reasons |-> Reasons(final),
                    built |-> Reasons(final) = {} /\ NoColumnReused(final)]
  /\ UNCHANGED <<profile, declared, surrendered>>

MappingNext ==
  SubmitContract \/ (\E c \in SampleColumns : ReadColumn(c)) \/ BeginMapping \/ AwardRound \/ FinishMapping

MappingSpec == MappingInit /\ [][MappingNext]_mvars

----------------------------------------------------------------------------
(* Properties of a finished mapping.                                       *)

Final == outcome.mapping
MappedTo(s) == Column(Final, s)
IsMapped(s) == Final[s].state = "mapped"

\* mapping.py 716-738, facts.py 2164-2168: an admissible upload is refused a
\* package for a column read twice only where a declaration made it so.
NoColumnServesTwo ==
  outcome.reasons = {} /\ ~outcome.built =>
    /\ IsMapped("transaction_id")
    /\ \E s \in DOMAIN Final \ {"transaction_id"} :
         IsMapped(s) /\ MappedTo(s) = MappedTo("transaction_id")

\* mapping.py 671-703: the award is stable.  No semantic that holds a column
\* has a better claim to another than the semantic which holds that one.
AwardIsStable ==
  \A s \in {s \in DOMAIN Final \ {"transaction_id"} : IsMapped(s)} :
    \A c \in Candidates(s, {}) :
      c.compatible /\ c.confidence > Claim(Final, s) =>
        \A t \in Holders(Final, c.position) \ {"transaction_id"} : Claim(Final, t) >= c.confidence

\* mapping.py 687-701: what a semantic surrendered stays held by another whose
\* claim is as strong, round after round.
SurrenderedIsHeld ==
  \A s \in DOMAIN surrendered : \A p \in surrendered[s] :
    \E t \in Holders(outcome.mapping, p) : \A c \in Candidates(s, {}) :
      c.position = p => Claim(outcome.mapping, t) >= c.confidence

\* profiling.py 341-346, mapping.py 588-595: no semantic reads a personal
\* column, whichever way it was claimed, and no extreme of one is kept.
PersonalStaysOut ==
  \A s \in DOMAIN Final : \A c \in Final[s].candidates :
    ~profile[c.position].risk /\ profile[c.position].values # {}

\* profiling.py 399-436: the dates of a mapped column have one reading, which
\* is the one each row is parsed by later.
DatesReadOneWay ==
  \A s \in DOMAIN Final : IsMapped(s) =>
    LET c == profile[MappedTo(s)] IN
    c.type = "date" => \A v \in c.values : \A i \in DOMAIN DATE_FORMATS :
      \A n \in DOMAIN DATE_FORMATS[i].patterns :
        LET p == DATE_FORMATS[i].patterns[n] IN
        ReadsAll(c.values, p) => ParseDate(v, c.format) = v.reads[p]

\* mapping.py 604-668: under a declaration no other column identifies
\* transactions, however sure the inference was.
DeclarationStands ==
  IsMapped("transaction_id") =>
    profile[MappedTo("transaction_id")].label = declared.contract.column

\* The columns of an upload have one meaning each.
MappingHolds ==
  /\ outcome.state = "award" => SurrenderedIsHeld
  /\ outcome.state = "mapped" =>
       /\ NoColumnServesTwo /\ AwardIsStable /\ PersonalStaysOut
       /\ DatesReadOneWay /\ DeclarationStands
=============================================================================
