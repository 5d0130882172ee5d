---------------------------- MODULE NarrativeDraft ----------------------------
(***************************************************************************)
(* The narrative beside a report: a provider is shown the facts of the     *)
(* package and drafts sections of prose in two languages, and the draft is *)
(* accepted only when every figure in its text is one a cited fact states. *)
(* Text is abstracted to its tokens; a number token carries what the       *)
(* checks look at around its digits.  Amounts are in hundredths.           *)
(***************************************************************************)
EXTENDS Integers, Sequences, FiniteSets, FiniteSetsExt, SequencesExt

CONSTANTS
  Packages,      \* the packages narrated
  Drafts,        \* the drafts a provider may answer with
  Versions,      \* the adapter versions a provider may report
  Named,         \* the metrics with a business name in both languages
  Percentages,   \* the ratios presented as percentages
  MAX_SECTIONS,
  Missing

VARIABLES package, adapter, draft, result
nvars == <<package, adapter, draft, result>>

Languages == {"ar", "en"}
UnknownVersion == "unknown"
GOVERNED_DIRECTIONS == {"rose", "fell", "unchanged"}

\* A version that is no governed identifier is not repeated in a record.
GovernedVersion(v) == IF v = "malformed" THEN UnknownVersion ELSE v

----------------------------------------------------------------------------
(* The request, and what each identifier in it may be cited for.           *)

\* A ratio is supplied as a percentage too; a bucket only where it is shown as one.
PercentsOf(e) ==
  (IF e.ratio /\ e.value # Missing THEN {100 * e.value} ELSE {}) \cup
  (IF e.ratio /\ e.metric \in Percentages
     THEN {100 * b.value : b \in {b \in Range(e.buckets) : b.value # Missing}} ELSE {})

NumbersOf(e) ==
  ({e.value} \cup e.extent \cup {b.value : b \in Range(e.buckets)}
     \cup {100 * b.rows : b \in Range(e.buckets)}
     \cup UNION {b.label.within : b \in Range(e.buckets)}) \ {Missing}

LabelsOf(e) == {b.label.text : b \in Range(e.buckets)}

\* Which way a series went, by its first and last readable points.
MovementsOf(e) ==
  LET points == SelectSeq(e.buckets, LAMBDA b : b.value # Missing)
  IN IF e.kind # "series" \/ Len(points) < 2 THEN {}
     ELSE IF Last(points).value > Head(points).value THEN {"rose"}
     ELSE IF Last(points).value < Head(points).value THEN {"fell"}
     ELSE {"unchanged"}

\* An entry may be cited by its fact or by its citation.
Entries(p) == Range(p.entries)
CitedBy(p, cited) == {e \in Entries(p) : {e.fact_id, e.citation_id} \cap cited # {}}
Identifiers(p) == UNION {{e.fact_id, e.citation_id} : e \in Entries(p)}
Identity(p, cited) == {e.fact_id : e \in CitedBy(p, cited)}
Caveats(p) == p.caveats \cup UNION {e.caveats : e \in Entries(p)}

Stateable(p, cited) ==
  LET es == CitedBy(p, cited)
  IN [numbers |-> UNION {NumbersOf(e) : e \in es}, percents |-> UNION {PercentsOf(e) : e \in es},
      labels |-> UNION {LabelsOf(e) : e \in es}, movements |-> UNION {MovementsOf(e) : e \in es}]

\* What identifies a request: every field but the wording of its figures.
Digest(p, version) == <<p, version>>

----------------------------------------------------------------------------
(* The checks on a number: what stands around its digits.                  *)

Figure(n) == [kind |-> "number", value |-> n, sign |-> "", before |-> "", after |-> "", stop |-> FALSE,
              glued |-> FALSE, complete |-> TRUE, label |-> Missing]
Token(kind) == [Figure(0) EXCEPT !.kind = kind]

\* A full stop closes the sentence, so what follows it qualifies nothing.
Suffix(t) == IF t.stop THEN "" ELSE t.after
StatesPercent(t) == Suffix(t) \in {"%", "percent"}

CurrencyCodes == {"currency code"}
CurrencyWords == {"currency word"}
BehindPunctuation == {"currency word, punctuation"}
ScaleWords == {"scale word"}

\* Parentheses, currencies, operators and words of magnitude change what digits say.
Modified(t) ==
  \/ t.before = "(" /\ Suffix(t) = ")"
  \/ t.before \in {"currency", "operator"} \cup ScaleWords \cup CurrencyCodes \cup CurrencyWords \cup BehindPunctuation
  \/ Suffix(t) \in {"currency", "operator"} \cup ScaleWords \cup CurrencyCodes \cup CurrencyWords

\* A sign spaced away from the digits counts; a dash that is no minus does not.
SignOf(t) == IF t.sign \in {"-", "- "} THEN -1 ELSE 1
\* An attached sign is part of the text a label is compared with.
QuotesLabel(t, allowed) == t.sign \notin {"-", "+"} /\ t.label \in allowed.labels

NumberRefused(t, allowed) ==
  \/ t.glued
  \/ Modified(t)
  \/ /\ ~QuotesLabel(t, allowed)
     /\ \/ ~t.complete
        \/ SignOf(t) * t.value \notin (IF StatesPercent(t) THEN allowed.percents ELSE allowed.numbers)

Numbers(text) == {t \in Range(text) : t.kind = "number"}
Kinds(text) == {t.kind : t \in Range(text)}

Stated(text, allowed) ==
  {SignOf(t) * t.value : t \in {t \in Numbers(text) : ~QuotesLabel(t, allowed)}}

----------------------------------------------------------------------------
(* The checks on a draft, in their order.                                  *)

\* The first of a sequence of checks to refuse, by its reason.
FirstReason(reasons) ==
  LET refused == SelectSeq(reasons, LAMBDA r : r # Missing)
  IN IF refused = <<>> THEN Missing ELSE Head(refused)
Check(refuses, reason) == IF refuses THEN reason ELSE Missing

SectionReason(p, s) ==
  LET allowed == Stateable(p, Range(s.cited))
  IN FirstReason(<<
    Check(s.text = <<>>, "empty_narrative"),
    Check(s.cited = <<>>, "uncited_section"),
    Check(~(s.caveats \subseteq Caveats(p)), "unknown_caveat"),
    Check(~(Range(s.cited) \subseteq Identifiers(p)), "unknown_citation"),
    Check(~(s.labels \subseteq allowed.labels), "unknown_label"),
    Check(s.direction \notin GOVERNED_DIRECTIONS \cup {Missing}, "unknown_direction"),
    Check(s.direction # Missing /\ allowed.movements # {s.direction}, "ungrounded_direction"),
    Check("unsafe" \in Kinds(s.text), "unsafe_text"),
    Check("worded" \in Kinds(s.text), "worded_quantity"),
    Check("numeral" \in Kinds(s.text), "ungrounded_number"),
    Check(\E t \in Numbers(s.text) : NumberRefused(t, allowed), "ungrounded_number") >>)

LanguageReason(p, l) ==
  IF l.sections = <<>> THEN "empty_narrative"
  ELSE FirstReason([n \in DOMAIN l.sections |-> SectionReason(p, l.sections[n])])

FiguresOf(p, l) == UNION {Stated(s.text, Stateable(p, Range(s.cited))) : s \in Range(l.sections)}
FactsOf(p, l) == UNION {Identity(p, Range(s.cited)) : s \in Range(l.sections)}
CaveatsOf(l) == UNION {s.caveats : s \in Range(l.sections)}
DeclaredLabels(l) == UNION {s.labels : s \in Range(l.sections)}
DeclaredDirections(l) ==
  {<<s.id, s.direction>> : s \in {s \in Range(l.sections) : s.direction # Missing}}

Of(d, language) == SelectSeq(d.languages, LAMBDA l : l.language = language)[1]

Differs(p, d) ==
  LET ar == Of(d, "ar")  en == Of(d, "en")
  IN FirstReason(<<
    Check(FiguresOf(p, ar) # FiguresOf(p, en), "figures_differ_by_language"),
    Check(FactsOf(p, ar) # FactsOf(p, en), "fact_coverage_differs_by_language"),
    Check(CaveatsOf(ar) # CaveatsOf(en), "caveat_coverage_differs_by_language"),
    Check(DeclaredLabels(ar) # DeclaredLabels(en), "label_coverage_differs_by_language"),
    Check(DeclaredDirections(ar) # DeclaredDirections(en), "direction_differs_by_language") >>)

Validate(p, version, d) ==
  LET offered == [n \in DOMAIN d.languages |-> d.languages[n].language]
  IN IF d.digest # Digest(p, version) \/ d.version # version \/ ~IsInjective(offered)
       THEN "adapter_response_mismatch"
     ELSE IF Range(offered) \ Languages # {} THEN "unknown_language"
     ELSE IF Range(offered) # Languages THEN "missing_language"
     ELSE FirstReason([n \in DOMAIN d.languages |-> LanguageReason(p, d.languages[n])] \o
                      <<Differs(p, d)>>)

GOVERNED_REASONS == {"provider_timeout", "provider_failed", "provider_refused", "empty_narrative",
  "missing_language", "unknown_language", "ungrounded_number", "unknown_citation", "uncited_section",
  "unknown_caveat", "unknown_label", "label_coverage_differs_by_language", "unsafe_text",
  "fact_coverage_differs_by_language", "caveat_coverage_differs_by_language", "adapter_response_mismatch",
  "unknown_direction", "ungrounded_direction", "direction_differs_by_language",
  "figures_differ_by_language", "worded_quantity"}

----------------------------------------------------------------------------
(* The narrator that needs no provider: one section for each named fact.   *)

\* A figure as it is presented: a proportion as a percentage, any other as it is.
Presented(e) ==
  IF e.ratio /\ e.metric \in Percentages THEN [Figure(100 * e.value) EXCEPT !.after = "%"]
  ELSE Figure(e.value)
Signed(t) == IF t.value < 0 THEN [t EXCEPT !.value = -@, !.sign = "-"] ELSE t

Plan(p) ==
  LET named == SelectSeq(p.entries, LAMBDA e : e.kind = "facts" /\ e.metric \in Named)
  IN SubSeq(named, 1, Min({Len(named), MAX_SECTIONS}))

SectionFor(e) ==
  [id |-> e.citation_id, cited |-> <<e.citation_id>>, caveats |-> e.caveats, labels |-> {}, direction |-> Missing,
   text |-> <<Token("words")>> \o (IF e.value = Missing THEN <<>> ELSE <<Signed(Presented(e))>>)]

DeterministicDraft(p, version) ==
  LET sections == [n \in DOMAIN Plan(p) |-> SectionFor(Plan(p)[n])]
  IN [digest |-> Digest(p, version), version |-> version,
      languages |-> <<[language |-> "ar", sections |-> sections], [language |-> "en", sections |-> sections]>>]

----------------------------------------------------------------------------
(* Composing.  A provider that fails, or drafts what a check refuses,      *)
(* leaves the report without a narrative.                                  *)

NoDraft == Missing
NoResult == Missing

NarrativeInit ==
  /\ package \in Packages
  /\ adapter \in [deterministic : {TRUE}, version : {"deterministic.v4"}]
                 \cup [deterministic : {FALSE}, version : Versions]
  /\ draft = NoDraft /\ result = NoResult

Refused(reason) ==
  [narrative |-> Missing, version |-> GovernedVersion(adapter.version), outcome |-> "refused",
   reason |-> IF reason \in GOVERNED_REASONS THEN reason ELSE "provider_failed"]
Settle(reason) == result = NoResult /\ draft = NoDraft /\ result' = Refused(reason) /\ UNCHANGED <<package, adapter, draft>>

\* The adapter cannot even say which version it is.
AdapterUnusable ==
  /\ adapter.version = "raises"
  /\ result = NoResult
  /\ result' = [Refused("provider_failed") EXCEPT !.version = UnknownVersion]
  /\ UNCHANGED <<package, adapter, draft>>

Available == adapter.version # "raises"

ProviderRaises ==
  /\ Available /\ ~adapter.deterministic
  /\ \E reason \in {"provider_timeout", "provider_refused", "provider_failed", "of its own"} : Settle(reason)

NothingToSay == adapter.deterministic /\ Plan(package) = <<>> /\ Settle("empty_narrative")

DraftArrives ==
  /\ Available /\ draft = NoDraft /\ result = NoResult
  /\ \/ /\ adapter.deterministic /\ Plan(package) # <<>>
        /\ draft' = DeterministicDraft(package, adapter.version)
     \/ /\ ~adapter.deterministic
        /\ \E d \in Drafts : draft' = [d EXCEPT !.version = adapter.version,
             !.digest = IF @ = "echoed" THEN Digest(package, GovernedVersion(adapter.version)) ELSE <<Missing, @>>]
  /\ UNCHANGED <<package, adapter, result>>

DraftJudged ==
  /\ draft # NoDraft /\ result = NoResult
  /\ LET reason == Validate(package, GovernedVersion(adapter.version), draft)
     IN result' = IF reason # Missing THEN Refused(reason)
                  ELSE [narrative |-> draft, version |-> adapter.version, outcome |-> "narrated", reason |-> Missing]
  /\ UNCHANGED <<package, adapter, draft>>

NarrativeNext == AdapterUnusable \/ ProviderRaises \/ NothingToSay \/ DraftArrives \/ DraftJudged

----------------------------------------------------------------------------
(* What an accepted narrative promises its reader.                         *)

\* What a reader takes a number to say: brackets and every minus make it less
\* than nothing; a currency, an operator or a magnitude make it something else.
Meaning(t) ==
  LET negative == t.sign \in {"-", "- "} \/ (t.before = "(" /\ t.after = ")" /\ ~t.stop)
      follows == IF t.stop THEN "" ELSE t.after
      around == {t.before, follows} \ {"", "(", ")"}
      unit == IF t.glued \/ ~t.complete THEN "something else"
              ELSE IF around = {} THEN "number"
              ELSE IF around \subseteq {"%", "percent"} THEN "percent" ELSE "something else"
  IN <<unit, IF negative THEN -t.value ELSE t.value>>

\* What an entry of the package says.
Says(e) ==
  {<<"number", n>> : n \in ({e.value} \cup e.extent
      \cup UNION {{b.value, 100 * b.rows} \cup b.label.within : b \in Range(e.buckets)}) \ {Missing}}
  \cup {<<"percent", 100 * n>> : n \in (IF e.ratio THEN {e.value} \cup {b.value : b \in Range(e.buckets)} ELSE {}) \ {Missing}}

Narrated == result # NoResult /\ result.outcome = "narrated"

\* Every number of an accepted text says what one of the facts its section
\* cites says, unless it is a label of theirs quoted as it is written.
EveryNumberIsAFact ==
  Narrated => \A l \in Range(draft.languages) : \A s \in Range(l.sections) : \A t \in Numbers(s.text) :
    \E e \in Entries(package) :
      /\ {e.fact_id, e.citation_id} \cap Range(s.cited) # {}
      /\ \/ Meaning(t) \in Says(e)
         \/ t.sign \notin {"-", "+"} /\ \E b \in Range(e.buckets) : b.label.text = t.label

\* Two readers of an accepted narrative are told the same: figures, facts,
\* warnings, names and directions; and a direction is the one the series took.
BothReadersAreToldTheSame ==
  Narrated =>
    LET ar == Of(draft, "ar")  en == Of(draft, "en")
        told(l) == {<<s.id, s.direction>> : s \in {s \in Range(l.sections) : s.direction # Missing}}
    IN /\ FiguresOf(package, ar) = FiguresOf(package, en)
       /\ FactsOf(package, ar) = FactsOf(package, en)
       /\ CaveatsOf(ar) = CaveatsOf(en) /\ DeclaredLabels(ar) = DeclaredLabels(en)
       /\ told(ar) = told(en)
       /\ \A l \in {ar, en} : \A s \in Range(l.sections) : s.direction # Missing =>
            \E e \in Entries(package) : e.kind = "series" /\ MovementsOf(e) = {s.direction}

\* What the deterministic narrator drafts is never refused, and it drafts
\* something whenever a fact has a name.
DeterministicIsAccepted ==
  result # NoResult /\ adapter.deterministic =>
    (Narrated <=> \E e \in Entries(package) : e.kind = "facts" /\ e.metric \in Named)

\* A refusal leaves nothing of the draft behind, is recorded under a governed
\* reason and version, and only the request's own draft is ever accepted.
NothingUngovernedIsKept ==
  result # NoResult =>
    /\ result.version \in {UnknownVersion, adapter.version} \ {"malformed", "raises"}
    /\ Narrated => draft.digest = Digest(package, adapter.version) /\ Len(draft.languages) = 2
    /\ ~Narrated => result.narrative = Missing /\ result.reason \in GOVERNED_REASONS

NarrativeHolds ==
  EveryNumberIsAFact /\ BothReadersAreToldTheSame /\ DeterministicIsAccepted /\ NothingUngovernedIsKept
=============================================================================
