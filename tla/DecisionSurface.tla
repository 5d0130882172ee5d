--------------------------- MODULE DecisionSurface ---------------------------
(***************************************************************************)
(* The decision page: one member looks at one completed run.  The page is  *)
(* put together from separate reads of the published views, each of which  *)
(* resolves the caller and the run anew, so either may be gone in between. *)
(***************************************************************************)
EXTENDS Integers, Sequences, FiniteSets, SequencesExt, TLC

CONSTANTS
  Missing,
  PageRequests,   \* what may be asked
  Workspaces,     \* the caller's membership, and the runs
  Bundles         \* the bundle each kept package rebuilds to

VARIABLES asked, workspace, page, shown
dvars == <<asked, workspace, page, shown>>

\* Each read is a request of one view.
Views == INSTANCE SemanticViews WITH
  query <- asked, library <- workspace, reading <- page, answered <- shown,
  ViewQueries <- {}, Libraries <- {}, Bundles <- {}, GRANULARITY_DAY_SPAN <- 1

----------------------------------------------------------------------------
(* The views the page reads, under the identities it pins.                 *)

EMPTY_STATED_ABSENCE == "stated_absence"
EMPTY_STATED_NO_ROWS == "stated_no_rows"
ViewIdentity(view, version, empty) == [view |-> view, version |-> version, empty |-> empty]

\* In the order the page reads them.
PANELS == <<"overview", "qualifiers", "evidence", "branches", "products", "basket", "concentration", "unsupported">>
IdentityOf ==
  [overview |-> ViewIdentity("ExecutiveOverviewView", "sv1.executive_overview.v1", EMPTY_STATED_ABSENCE),
   qualifiers |-> ViewIdentity("MetricAvailabilityView", "sv1.metric_availability.v1", EMPTY_STATED_ABSENCE),
   evidence |-> ViewIdentity("ReportEvidenceView", "sv1.report_evidence.v1", EMPTY_STATED_ABSENCE),
   branches |-> ViewIdentity("BranchPerformanceView", "sv1.branch_performance.v1", EMPTY_STATED_NO_ROWS),
   products |-> ViewIdentity("ProductCategoryView", "sv1.product_category.v1", EMPTY_STATED_NO_ROWS),
   basket |-> ViewIdentity("BasketView", "sv1.basket.v1", EMPTY_STATED_ABSENCE),
   concentration |-> ViewIdentity("ConcentrationView", "sv1.concentration.v1", EMPTY_STATED_ABSENCE),
   unsupported |-> ViewIdentity("BranchPerformanceView", "sv1.branch_performance.v1", EMPTY_STATED_NO_ROWS)]

FILTER_DIMENSIONS == {"store", "product", "category"}
VIEW_FILTERS ==
  [p \in Range(PANELS) |->
     CASE p = "branches" -> {"store"}
       [] p \in {"products", "concentration"} -> {"product", "category"}
       [] OTHER -> {}]
OfferedFilters == FILTER_DIMENSIONS \cap UNION Range(VIEW_FILTERS)

----------------------------------------------------------------------------
(* What the address selects.                                               *)

PRINT_PARAMETER == "print"
Blank == <<>>
Printable(parameters) == \E p \in Range(parameters) : p[1] = PRINT_PARAMETER /\ p[2] # Blank
WithoutPrint(parameters) == SelectSeq(parameters, LAMBDA p : p[1] # PRINT_PARAMETER)
SelectionFrom(parameters) == SelectSeq(WithoutPrint(parameters), LAMBDA p : p[2] # Blank)

RoutedTo(panel, selection) == SelectSeq(selection, LAMBDA p : p[1] \in VIEW_FILTERS[panel])
Unroutable(selection) == SelectSeq(selection, LAMBDA p : p[1] \notin UNION Range(VIEW_FILTERS))
FiltersOf(panel) ==
  IF panel = "unsupported" THEN Unroutable(SelectionFrom(asked.parameters))
  ELSE RoutedTo(panel, SelectionFrom(asked.parameters))

\* The control of a dimension shows the first member asked for.
ValueFor(selection, dimension) ==
  LET named == SelectSeq(selection, LAMBDA p : p[1] = dimension) IN IF named = <<>> THEN Missing ELSE named[1][2]

----------------------------------------------------------------------------
(* One read.                                                               *)

Unanswered == [status |-> "unavailable", cause |-> Missing, rows |-> {}, caveats |-> {}, evidence |-> <<>>, absences |-> <<>>,
               empty |-> Missing, filters |-> <<>>]

Query(panel, filters) ==
  [view |-> IdentityOf[panel].view, version |-> IdentityOf[panel].version, metrics |-> {}, dimensions |-> {},
   filters |-> Range(filters)]

\* The run is found in the caller's scope, and its bundle can be rebuilt.
Found == /\ asked.source \in DOMAIN workspace.runs
         /\ LET run == workspace.runs[asked.source] IN run.mine /\ run.live /\ Views!Vouched(run)
SourceBundle == Bundles[workspace.runs[asked.source].bundle]

Admit(panel, filters, projection) ==
  [status |-> "admitted", cause |-> Missing, rows |-> projection.rows, caveats |-> Range(projection.caveats),
   evidence |-> projection.evidence, absences |-> projection.absences,
   empty |-> IF projection.rows = {} THEN IdentityOf[panel].empty ELSE Missing, filters |-> filters]

Answer(panel, filters) ==
  IF ~Found THEN Unanswered
  ELSE LET cause == Views!Validate(Query(panel, filters), <<SourceBundle>>)
       IN IF cause # Missing THEN [Unanswered EXCEPT !.status = "refused", !.cause = cause]
          ELSE Admit(panel, filters, Views!Projection(Query(panel, filters), SourceBundle))

----------------------------------------------------------------------------
(* Cards: the overview's figures, each with what qualifies it.             *)

DISPLAY_ONLY_CAVEATS == {<<"chart_not_drawn">>, <<"curve_points_sampled">>}
FigureCaveats(caveats) == {c \in caveats : c.code \notin DISPLAY_ONLY_CAVEATS}

CardStatus(kind, availability, caveats) ==
  CASE kind = "refused" -> "refused"
    [] kind # "refused" /\ (kind # "admitted" \/ availability = "unavailable") -> "unavailable"
    [] kind = "admitted" /\ availability = "available" /\ caveats = {} -> "verified"
    [] OTHER -> "caveated"

NotChecked == [unavailable |-> TRUE, entries |-> {}]
\* A citation's record, the figures that cite it and what it does not state.
Entry(reading, cite) ==
  [cite |-> cite, record |-> reading.evidence[cite], figures |-> {r.figure : r \in {r \in reading.rows : r.evidence = cite}},
   absences |-> reading.absences[cite]]
ForMetric(reading, metric) ==
  IF reading.status # "admitted" THEN NotChecked
  ELSE [unavailable |-> FALSE,
        entries |-> {Entry(reading, c) : c \in {c \in DOMAIN reading.evidence : reading.evidence[c].metric = metric}}]

Qualifier(reading, metric) ==
  LET stated == {r \in reading.rows : r.metric = metric}
  IN IF reading.status = "admitted" /\ stated # {} THEN CHOOSE r \in stated : TRUE
     ELSE [availability |-> Missing, reason |-> Missing]

Card(row, caveats, qualifiers, evidence) ==
  LET qualifier == Qualifier(qualifiers, row.metric)
  IN [metric |-> row.metric, value |-> row.value, population |-> row.population, versions |-> row.versions,
      status |-> CardStatus("admitted", qualifier.availability, FigureCaveats(caveats)),
      availability |-> qualifier.availability, reason |-> qualifier.reason,
      caveats |-> Cardinality(FigureCaveats(caveats)), drawer |-> ForMetric(evidence, row.metric)]

\* Only a caveat of one part has customer wording of its own.
GovernedCaveats(caveats) == {c.code : c \in {c \in caveats : Len(c.code) = 1}}

NAMED_DIMENSIONS == {"store", "product", "category"}
Presentable(name, value) ==
  \/ name \in {"store", "member", "value", "metric", "versions"}
  \/ name = "dimension" /\ value \in NAMED_DIMENSIONS
  \/ name = "population" /\ value = Missing

NoView == [unavailable |-> TRUE, rows |-> {}, caveats |-> {}, refusal |-> Missing, empty |-> Missing, filters |-> <<>>]
Presented(reading, rows) ==
  [unavailable |-> reading.status = "unavailable", rows |-> rows, caveats |-> GovernedCaveats(reading.caveats),
   refusal |-> reading.cause, empty |-> reading.empty, filters |-> reading.filters]

\* The cards carry the caveats, and so a page without cards shows none.
DecisionView(readings) ==
  LET overview == readings.overview
      cards == IF overview.status # "admitted" THEN {}
               ELSE {Card(row, overview.caveats, readings.qualifiers, readings.evidence) : row \in overview.rows}
  IN IF \E c \in cards : ~Presentable("population", c.population) THEN NoView
     ELSE Presented([overview EXCEPT !.caveats = IF cards = {} THEN {} ELSE @], cards)

----------------------------------------------------------------------------
(* Sections: the breakdowns, each with its own status.                     *)

SECTIONS == {"branches", "products", "basket", "concentration"}

EvidenceRead(readings) == IF "evidence" \in DOMAIN readings THEN readings.evidence ELSE Unanswered
SectionRow(row, evidence) == [cells |-> row, drawer |-> ForMetric(evidence, row.metric)]
\* A section one of whose cells has no governed wording is unavailable as a whole.
Section(panel, readings) ==
  LET reading == readings[panel]
  IN IF \E row \in reading.rows : \E name \in DOMAIN row : ~Presentable(name, row[name])
     THEN [NoView EXCEPT !.filters = reading.filters]
     ELSE Presented(reading, {SectionRow(row, EvidenceRead(readings)) : row \in reading.rows})

----------------------------------------------------------------------------
(* The request.                                                            *)

NoPage == [kind |-> Missing]
NotThere == [kind |-> "unavailable"]

SurfaceInit ==
  /\ asked \in PageRequests
  /\ workspace \in Workspaces
  /\ page = [step |-> "asked", sources |-> {}, readings |-> <<>>, left |-> Missing]
  /\ shown = NoPage

Answered(answer) ==
  /\ shown' = answer
  /\ page' = [page EXCEPT !.step = "done"]

\* The session, and not the address, says which organization is looked at.
ResolveMember ==
  /\ page.step = "asked"
  /\ IF asked.signed /\ workspace.member /\ workspace.active = asked.organization
     THEN page' = [page EXCEPT !.step = "sources"] /\ UNCHANGED shown
     ELSE Answered(NotThere)
  /\ UNCHANGED <<asked, workspace>>

\* The runs to choose from; a caller who is no member any more is offered none.
ListSources ==
  /\ page.step = "sources"
  /\ page' = [page EXCEPT !.step = "overview", !.sources =
       {r \in DOMAIN workspace.runs : workspace.member /\ workspace.runs[r].mine /\ workspace.runs[r].live}]
  /\ UNCHANGED <<asked, workspace, shown>>

\* Whoever is no member at one of the reads sees none of the others either.
Reading(panel, next, otherwise) ==
  /\ page.step = panel
  /\ IF ~workspace.member THEN Answered(NotThere)
     ELSE LET answer == Answer(panel, FiltersOf(panel))
          IN /\ page' = [page EXCEPT !.readings = (panel :> answer) @@ @,
                                     !.step = IF answer.status = "admitted" THEN next ELSE otherwise]
             /\ UNCHANGED shown
  /\ UNCHANGED <<asked, workspace>>

ReadOverview == Reading("overview", "qualifiers", "branches")
ReadQualifiers == Reading("qualifiers", "evidence", "evidence")
ReadEvidence == Reading("evidence", "branches", "branches")
ReadBranches == Reading("branches", "products", "products")
ReadProducts == Reading("products", "basket", "basket")
ReadBasket == Reading("basket", "concentration", "concentration")
AfterBreakdowns == IF FiltersOf("unsupported") = <<>> THEN "page" ELSE "unsupported"
ReadConcentration == Reading("concentration", AfterBreakdowns, AfterBreakdowns)
\* Filters no view supports are sent to one that will refuse them.
ReadUnsupported == Reading("unsupported", "page", "page")

SourceOptions == {[source |-> s, selected |-> s = asked.source] : s \in page.sources}
Controls(selection) == [d \in OfferedFilters |-> ValueFor(selection, d)]
DecisionContext(selection) ==
  [kind |-> "page", cards |-> DecisionView(page.readings),
   sections |-> [p \in SECTIONS |-> Section(p, page.readings)],
   unsupported |-> IF "unsupported" \in DOMAIN page.readings THEN page.readings.unsupported.cause ELSE Missing,
   sources |-> SourceOptions, controls |-> Controls(selection)]
\* The page's own address, in the other language and without printing.
Address(selection) == selection

RenderPage ==
  /\ page.step = "page"
  /\ LET selection == SelectionFrom(asked.parameters)
     IN Answered([address |-> Address(selection), printable |-> Printable(asked.parameters),
                  named |-> workspace.member] @@ DecisionContext(selection))
  /\ UNCHANGED <<asked, workspace>>

Running == page.step # "done"
\* Meanwhile the caller's membership ends, the run's version is revoked, or its
\* content is deleted.
MembershipEnds ==
  /\ Running /\ workspace.member
  /\ workspace' = [workspace EXCEPT !.member = FALSE]
  /\ page' = [page EXCEPT !.left = page.step]   \* kept only to state LaterReadsKnowNoMore
  /\ UNCHANGED <<asked, shown>>
RevokeRun(id) ==
  /\ Running /\ workspace.runs[id].live
  /\ workspace' = [workspace EXCEPT !.runs = [r \in DOMAIN @ |->
       IF @[r].version = @[id].version THEN [@[r] EXCEPT !.live = FALSE] ELSE @[r]]]
  /\ UNCHANGED <<asked, page, shown>>
DeleteContent(id) ==
  /\ Running /\ workspace.runs[id].kept.package # "deleted"
  /\ workspace' = [workspace EXCEPT !.runs[id].kept.package = "deleted"]
  /\ UNCHANGED <<asked, page, shown>>

SurfaceNext ==
  \/ ResolveMember \/ ListSources \/ ReadOverview \/ ReadQualifiers \/ ReadEvidence
  \/ ReadBranches \/ ReadProducts \/ ReadBasket \/ ReadConcentration \/ ReadUnsupported \/ RenderPage
  \/ MembershipEnds \/ \E id \in DOMAIN workspace.runs : RevokeRun(id) \/ DeleteContent(id)

SurfaceTypeOK ==
  /\ page.step \in Range(PANELS) \cup {"asked", "sources", "page", "done"}
  /\ DOMAIN page.readings \subseteq Range(PANELS)
  /\ shown.kind \in {Missing, "unavailable", "page"}
  /\ shown.kind # Missing <=> page.step = "done"

----------------------------------------------------------------------------
(* What holds of it.                                                       *)

IsPage == shown.kind = "page"
Cards == shown.cards.rows
ReadFirst(panel) == panel \in DOMAIN page.readings /\ page.readings[panel].status = "admitted"
\* What the page would say of a card, had every read answered.
Settled(metric) ==
  LET stated == {r \in Views!Projection(Query("qualifiers", <<>>), SourceBundle).rows : r.metric = metric}
  IN IF stated = {} THEN "caveated"
     ELSE CardStatus("admitted", (CHOOSE r \in stated : TRUE).availability, FigureCaveats(Range(SourceBundle.caveats)))

\* Losing a read between two others never makes a claim stronger: a card is
\* verified only when the bundle says its metric is available and attaches no
\* caveat to any figure, and a card whose qualifiers or evidence were lost says
\* so, rather than that there is none.
NoReadStrengthensAClaim ==
  IsPage => \A c \in Cards :
    /\ c.status = "verified" => Settled(c.metric) = "verified" /\ ReadFirst("qualifiers") /\ c.caveats = 0
    /\ c.status = Settled(c.metric) \/ (c.status = "caveated" /\ ~ReadFirst("qualifiers"))
    /\ c.drawer.unavailable <=> ~ReadFirst("evidence")

\* A drawer is empty only where the bundle holds no record of the metric shown
\* beside it; an entry's figures are those that cite its record, and what the
\* record does not state is named.
RowsOf(panel) == shown.sections[panel].rows
DrawersAreComplete ==
  IsPage =>
    LET drawers == {<<c.metric, c.drawer>> : c \in Cards}
          \cup UNION {{<<r.cells.metric, r.drawer>> : r \in RowsOf(p)} : p \in SECTIONS}
    IN \A d \in {d \in drawers : ~d[2].unavailable} :
         LET cited == {f.cite : f \in {f \in Range(SourceBundle.figures) : f.metric = d[1]}} \cap DOMAIN SourceBundle.evidence
         IN /\ {e.cite : e \in d[2].entries} = cited
            /\ \A e \in d[2].entries : \A n \in {"precision", "inputs", "provenance"} :
                 n \in e.absences <=> e.record[n] = Missing

\* Every member the address asks for is applied, and named as applied, wherever
\* it can be, and is answered by a refusal where no view can: none is dropped.
NoFilterIsDropped ==
  IsPage =>
    LET Admits(s, name) == name \in Views!Views[IdentityOf[s].view].filters
        asks == {p \in Range(asked.parameters) : p[1] # PRINT_PARAMETER /\ p[2] # Blank}
    IN /\ "unsupported" \in DOMAIN page.readings <=> \E p \in asks : \A s \in SECTIONS : ~Admits(s, p[1])
       /\ \A p \in asks : \A s \in SECTIONS : ReadFirst(s) /\ Admits(s, p[1]) =>
            /\ p \in Range(shown.sections[s].filters)
            /\ \A r \in RowsOf(s) : r.cells[IF s = "branches" THEN "store" ELSE "member"] = p[2]

\* No read is refused for what the page itself asked: the views, versions and
\* filters it pins are those published.
OnlyTheUnsupportedIsRefused ==
  /\ \A p \in DOMAIN page.readings : page.readings[p].status = "refused" => p = "unsupported"
  /\ "unsupported" \in DOMAIN page.readings => page.readings.unsupported.status # "admitted"

\* Whoever stopped being a member before the last read sees no part of the page,
\* and a run gone at one read is gone at every later one, whose parts then say
\* nothing of it.
LaterReadsKnowNoMore ==
  /\ IsPage => asked.signed /\ workspace.active = asked.organization /\ page.left \in {Missing, "page"}
  /\ \A i, j \in DOMAIN PANELS :
       i < j /\ {PANELS[i], PANELS[j]} \subseteq DOMAIN page.readings
         /\ page.readings[PANELS[i]].status = "unavailable" => page.readings[PANELS[j]].status = "unavailable"
  /\ IsPage => \A part \in {shown.cards} \cup Range(shown.sections) :
       part.unavailable => part = [NoView EXCEPT !.filters = part.filters]

\* The page's address leads back to the same page.
AddressKeepsSelection ==
  IsPage => /\ SelectionFrom(shown.address) = shown.address
            /\ \A p \in {"branches", "products", "concentration"} : RoutedTo(p, shown.address) = FiltersOf(p)
            /\ \A d \in OfferedFilters : shown.controls[d] # Missing => <<d, shown.controls[d]>> \in Range(shown.address)

SurfaceHolds ==
  /\ SurfaceTypeOK /\ NoReadStrengthensAClaim /\ DrawersAreComplete /\ NoFilterIsDropped
  /\ OnlyTheUnsupportedIsRefused /\ LaterReadsKnowNoMore /\ AddressKeepsSelection

\* What the code says of its breakdowns: a part of the page whose figures were
\* admitted shows them.
AdmittedIsShown ==
  IsPage => \A s \in SECTIONS : ReadFirst(s) => ~shown.sections[s].unavailable

============================================================================
