----------------------------- MODULE MCEvidence -----------------------------
(***************************************************************************)
(* Small inputs for the computations about what an upload attests, beside  *)
(* those of MCFigures about what a report says.                            *)
(***************************************************************************)
EXTENDS MCFigures

(* Coverage: one attestation, and what differs from it in one respect.     *)

Whole3 == [timezone |-> "Africa/Cairo", attested_by |-> "operator", start |-> 2, end |-> 4, aggregate |-> "all",
           roster |-> {}, days |-> 2..4, kinds |-> {"sale", "return"}, statuses |-> {"posted"},
           closed |-> {}, gaps |-> {}, partial |-> FALSE]
Roster3 == [Whole3 EXCEPT !.aggregate = Missing, !.roster = {"s1", "s2"}]
Attestations == {Missing, Whole3, Roster3}
  \cup {[Whole3 EXCEPT !.gaps = g, !.partial = p] : g \in SUBSET (2..4), p \in BOOLEAN}
  \cup {[Roster3 EXCEPT !.gaps = {4}], [Roster3 EXCEPT !.aggregate = "all"], [Roster3 EXCEPT !.roster = {}],
        [Roster3 EXCEPT !.roster = {"", "s1"}]}
  \cup {[Whole3 EXCEPT !.timezone = "unrecognised"], [Whole3 EXCEPT !.attested_by = ""],
        [Whole3 EXCEPT !.attested_by = "attribution not recorded"], [Whole3 EXCEPT !.end = 1],
        [Whole3 EXCEPT !.days = {2, 4}], [Whole3 EXCEPT !.days = 2..5], [Whole3 EXCEPT !.kinds = {}],
        [Whole3 EXCEPT !.kinds = {"sale"}], [Whole3 EXCEPT !.statuses = {"draft"}],
        [Whole3 EXCEPT !.closed = {3}, !.gaps = {3}], [Whole3 EXCEPT !.closed = {3}], [Whole3 EXCEPT !.attested_by = "other"]}
Asked(a) == [semantics |-> {}, contract |-> "c1", attestation |-> a]
MCQuestions == {Asked(a) : a \in Attestations}
  \cup {[Asked(Whole3) EXCEPT !.semantics = {"revenue"}], [Asked(Whole3) EXCEPT !.contract = "c2"],
        [Asked(Missing) EXCEPT !.contract = "c2"]}
Manifests == INSTANCE CoverageManifest
MCLegacy ==
  LET recorded == [[Whole3 EXCEPT !.attested_by = "attribution not recorded"] EXCEPT !.gaps = {4}]
      manifest == Manifests!ToManifest(recorded, "c1")
      profile == [semantics |-> {}, contract |-> "c1", manifest |-> manifest]
  IN {profile, [profile EXCEPT !.contract = Missing, !.manifest = Missing], [profile EXCEPT !.contract = "c2"],
      [profile EXCEPT !.contract = Missing]}
Row(day, kind, revenue, units) == [day |-> day, kind |-> kind, revenue |-> revenue, units |-> units]
Sale(day) == Row(day, "sale", 10 * day, day)
Input(rows) == [rows |-> rows, currency |-> "EGP", violated |-> FALSE, repeated |-> FALSE]
MCInputs ==
  {Input(rows) : rows \in {<<Sale(2), Sale(4), Row(4, "return", -5, -1)>>, <<Sale(3), Sale(3), Sale(2)>>,
     <<Sale(2), Sale(5)>>, <<Sale(3), Row(3, "sale", Missing, 2)>>, <<Row(Missing, "sale", 4, 1), Sale(3)>>,
     <<Row(Missing, "sale", 4, 1)>>}}
  \cup {[Input(<<Sale(2), Sale(3)>>) EXCEPT !.currency = Missing], [Input(<<Sale(2), Sale(3)>>) EXCEPT !.violated = TRUE],
        [Input(<<Sale(2), Sale(3)>>) EXCEPT !.repeated = TRUE]}

Evidence == INSTANCE CoverageEvidence WITH
  question <- given, record <- partial, input <- terms, progress <- answer,
  Profilers <- {1, 2}, Questions <- MCQuestions, LegacyProfiles <- MCLegacy, Inputs <- MCInputs

\* One question of two callers on any file, or two on one file.
Firsts == {Asked(Whole3), Asked(Missing)}
CoverageInit == part = "coverage" /\ Evidence!CoverageInit
  /\ \/ given[1] = given[2] /\ (partial = Missing \/ given[1] \in Firsts)
     \/ given[1] \in Firsts /\ terms = Input(<<Sale(3), Sale(3), Sale(2)>>)
CoverageNext == part = "coverage" /\ Evidence!CoverageNext

----------------------------------------------------------------------------
(* Comparisons: two versions alike but for one respect of one, of the      *)
(* other, or of both.                                                      *)

Fact(metric, unit, value) == [metric |-> metric, unit |-> unit, value |-> value]
Kept(identity, value) ==
  [sealed |-> "same", session |-> TRUE, package |-> "readable", provenance |-> <<2, 4>>, profile |-> TRUE,
   manifest |-> Manifests!ToManifest(Whole3, "c1"),
   declared |-> [mapping |-> 1, formula |-> 1, version |-> 1, currency |-> "EGP",
                 kinds |-> <<"sale", "return">>, statuses |-> <<"posted">>],
   bases |-> {"financial_revenue", "financial_units", "financial_revenue_cost"}, signatures |-> {"all"},
   identity |-> identity,
   facts |-> <<Fact("revenue", "money", value), Fact("units", "count", 7), Fact("gross_margin", "ratio", value - 20)>>]
Stores(m) == Manifests!ToManifest([Roster3 EXCEPT !.gaps = m], "c1")
Long == [Whole3 EXCEPT !.end = 200, !.days = 2..200]
Differently(k) ==
  {k} \cup {[k EXCEPT !.sealed = x] : x \in {"absent", "differs"}} \cup {[k EXCEPT !.session = FALSE]}
  \cup {[k EXCEPT !.package = "faulted"], [k EXCEPT !.profile = FALSE], [k EXCEPT !.provenance = Missing],
        [k EXCEPT !.manifest = Missing], [k EXCEPT !.declared.mapping = 2], [k EXCEPT !.declared.formula = 2],
        [k EXCEPT !.declared.version = 2], [k EXCEPT !.declared.currency = "USD"],
        [k EXCEPT !.declared.currency = Missing], [k EXCEPT !.declared.kinds = <<"return", "sale">>],
        [k EXCEPT !.declared.kinds = <<"sale">>], [k EXCEPT !.declared.statuses = <<>>],
        [k EXCEPT !.bases = {"financial_revenue"}], [k EXCEPT !.identity = Missing],
        [k EXCEPT !.facts = <<>>], [k EXCEPT !.facts = <<Fact("revenue", "count", 5), Fact("units", "count", 0)>>],
        [k EXCEPT !.facts = <<Fact("cost", "money", 32)>>], [k EXCEPT !.facts = <<Fact("units", "count", -3), Fact("revenue", "money", 6)>>],
        [k EXCEPT !.manifest.gaps = {<<"all", 3>>}], [k EXCEPT !.manifest.partial = TRUE],
        [k EXCEPT !.manifest.partial = TRUE, !.provenance = <<2, 3>>], [k EXCEPT !.provenance = <<1, 3>>],
        [k EXCEPT !.manifest.timezone = "UTC"], [k EXCEPT !.manifest = Manifests!ToManifest(Long, "c1")],
        [k EXCEPT !.manifest = Stores({}), !.signatures = {"s1", "s2"}], [k EXCEPT !.manifest = Stores({}), !.signatures = {}],
        [k EXCEPT !.manifest = Stores({4}), !.signatures = {"s1", "s2"}], [k EXCEPT !.manifest = [Stores({}) EXCEPT !.gaps = {<<"s2", 3>>}], !.signatures = {"s1", "s2"}],
        [k EXCEPT !.manifest = Manifests!ToManifest([Roster3 EXCEPT !.roster = {"s1"}], "c1"), !.signatures = {"s1"}],
        [k EXCEPT !.facts = <<Fact("units", "count", 32), Fact("cost", "money", 33)>>, !.bases = @ \cup {"sales_revenue"}]}
Run(id, at, kept) == [run_id |-> id, completed_at |-> at, kept |-> kept]
Keeping(runs) == [live |-> TRUE, revoked |-> Missing, runs |-> runs]
First == Kept("m1", 60)
Second == Kept("m2", 45)
Earlier == [First EXCEPT !.facts = <<Fact("revenue", "money", 1)>>]
MCWorlds ==
  {("v1" :> Keeping({Run(1, 5, f), Run(2, Missing, Earlier)})) @@ ("v2" :> Keeping({Run(3, 5, g)})) :
     f \in Differently(First), g \in Differently(Second)}
  \cup {("v1" :> Keeping(runs)) @@ ("v2" :> Keeping({Run(4, 6, Second)})) :
          runs \in {{}, {Run(1, Missing, First)}, {Run(1, 5, Earlier), Run(2, 5, First)}, {Run(1, 6, First), Run(2, 5, Earlier)}}}
Compare == [subject |-> "v1", baseline |-> "v2", extra |-> FALSE, member |-> TRUE]
MCRequests == {Compare, [Compare EXCEPT !.subject = "v2", !.baseline = "v1"], [Compare EXCEPT !.baseline = "v1"],
               [Compare EXCEPT !.extra = TRUE], [Compare EXCEPT !.member = FALSE],
               [Compare EXCEPT !.extra = TRUE, !.member = FALSE]}

Comparison == INSTANCE CrossVersion WITH
  request <- given, world <- terms, loaded <- partial, outcome <- answer,
  Requests <- MCRequests, Worlds <- MCWorlds, GRANULARITY_DAY_SPAN <- 92

\* The samples have the shapes that declarations, stored profiles and kept runs have.
ASSUME EvidenceAssumption ==
  Evidence!QuestionsAreDeclared /\ Evidence!LegacyIsRecorded /\ Comparison!WorldsAreKept

\* Requests other than the plain one are made, and versions revoked, where
\* nothing else is out of the ordinary.
Plainly(world) == \A v \in {"v1", "v2"} : \E r \in world[v].runs : r.kept \in {First, Second}
ComparisonInit == part = "comparison" /\ Comparison!CrossVersionInit
  /\ (given = Compare \/ Plainly(terms))
ComparisonNext == part = "comparison" /\ Comparison!CrossVersionNext
  /\ (terms' # terms => Plainly(terms))

----------------------------------------------------------------------------
(* Semantic views: bundles of two runs, one of them with a section closed.  *)

Listed(set) == FoldSet(LAMBDA x, listed : Append(listed, x), <<>>, set)
Only(set) == CHOOSE x \in set : TRUE
AsRead(bundle, refusals) == Only({
  [population |-> "single", figures |-> b.figures, caveats |-> Listed(b.caveats), refusals |-> refusals,
   sections |-> [n \in DOMAIN b.sections |-> [id |-> b.sections[n].id, reason |-> b.sections[n].reason]],
   versions |-> {<<"package", "rra004.package.v9">>, <<"formula", "rra004.formula.v2">>},
   evidence |-> [c \in DOMAIN b.evidence |->
     [metric |-> (SelectSeq(b.figures, LAMBDA f : f.cite = c)[1]).metric, version |-> b.evidence[c], precision |-> 2,
      inputs |-> IF c = <<"revenue">> THEN Missing ELSE c, provenance |-> Missing]]] : b \in {bundle}})
Tea == <<"name", "tea">>
InStore(n, store, kind) ==
  [id |-> <<<<"revenue_by_store">>, kind, n>>, cite |-> <<"revenue_by_store">>, metric |-> "revenue_by_store",
   unit |-> "monetary", kind |-> kind, section |-> "overview", label |-> <<"name", store>>, dimension |-> Missing, value |-> n]
\* A bundle of a package, read with the refusals its profile stored.
BundleRead(package, refusals) == Only({AsRead(Bundle!BundleOf(p, "omitted"), refusals) : p \in {package}})
Opened ==
  Only({[read EXCEPT !.figures = <<InStore(1, "north", "value"), InStore(2, "tea", "value"), InStore(3, "tea", "rows")>> \o @] :
    read \in {BundleRead([Charted EXCEPT !.revenue = Months([Even EXCEPT ![2] = <<4, 0>>]), !.comparisons = @ \o <<[Products EXCEPT !.dimension = "category"]>>],
                         <<<<"cost", "required_input_unavailable">>>>)}})
Closed == BundleRead([Package EXCEPT !.comparisons = <<[Products EXCEPT !.curve = Missing]>>, !.revenue = Missing,
                        !.totals = [Counts EXCEPT !.transactions = Missing]],
  <<<<"cost", "required_input_unavailable">>, <<"gross_margin", "zero_denominator">>>>)
Shelved(version, id, kept, bundle) ==
  [mine |-> TRUE, live |-> TRUE, unseen |-> FALSE, unbuilt |-> FALSE, agrees |-> TRUE, version |-> version,
   run_id |-> id, kept |-> kept, bundle |-> bundle]
MCBundles == [opened |-> Opened, closed |-> Closed]
Library == <<Shelved("v1", 1, First, "opened"), Shelved("v2", 2, Second, "closed"), [Shelved("v1", 3, First, "opened") EXCEPT !.mine = FALSE]>>
MCLibraries == {Library}
  \cup {[Library EXCEPT ![1].kept = k] :
          k \in {[First EXCEPT !.sealed = "absent"], [First EXCEPT !.package = "faulted"], [First EXCEPT !.session = FALSE],
                 [First EXCEPT !.profile = FALSE], [First EXCEPT !.declared.currency = "USD"], [First EXCEPT !.facts = <<>>],
                 [First EXCEPT !.manifest.timezone = "UTC"]}}
  \cup {[Library EXCEPT ![1].live = FALSE, ![1].unseen = TRUE], [Library EXCEPT ![1].agrees = FALSE],
        [Library EXCEPT ![2].version = "v1"], [Library EXCEPT ![1].kept.facts = @ \o <<Fact("cost", "money", 5)>>]}
Published == INSTANCE SemanticViews WITH
  query <- given, library <- terms, reading <- partial, answered <- answer,
  ViewQueries <- {}, Libraries <- {}, Bundles <- {}, GRANULARITY_DAY_SPAN <- 92
PlainQuery(view, sources) ==
  [member |-> TRUE, view |-> view, version |-> Published!Views[view].version, metrics |-> {}, dimensions |-> {},
   filters |-> {}, sources |-> sources]
Sourced == {PlainQuery(v, s) : v \in DOMAIN Published!Views, s \in {<<>>, <<1>>, <<2>>, <<3>>, <<4>>, <<1, 2>>, <<2, 1>>, <<1, 1>>}}
Narrowed(q, v) ==
  LET metrics == {{}, {"revenue", "units"}, {"basket_attach_rate"}, {"growth_volume_effect", "cost"}, {"revenue_by_product"}}
      dimensions == {{}, {"period"}, {"product"}, {"store"}, v.dimensions, {"product", "store"}}
      filters == {{}, {<<"product", Tea>>}, {<<"store", Tea>>}, {<<"product", Tea>>, <<"category", Tea>>}, {<<"category", <<"name", "mint">>>>}}
  IN {[q EXCEPT !.metrics = m, !.dimensions = d, !.filters = f] : m \in metrics, d \in dimensions, f \in filters}
ReadBy(v) == IF v = "PeriodComparisonView" THEN {<<1, 2>>} ELSE {<<1>>, <<2>>}
MCViewQueries == Sourced
  \cup UNION {UNION {Narrowed(PlainQuery(v, s), Published!Views[v]) : s \in ReadBy(v)} : v \in DOMAIN Published!Views}
  \cup {[PlainQuery("BasketView", <<1>>) EXCEPT !.view = "NoSuchView"], [PlainQuery("BasketView", <<1>>) EXCEPT !.version = "sv1.basket.v0"],
        [PlainQuery("BasketView", <<1>>) EXCEPT !.member = FALSE]}
Viewing == INSTANCE SemanticViews WITH
  query <- given, library <- terms, reading <- partial, answered <- answer,
  ViewQueries <- MCViewQueries, Libraries <- MCLibraries, Bundles <- MCBundles, GRANULARITY_DAY_SPAN <- 92

WholeView(q) == q.metrics = {} /\ q.dimensions = {} /\ q.filters = {}
\* Narrowed questions are asked, and runs revoked or emptied, where nothing else
\* is out of the ordinary.
ViewsInit == part = "views" /\ Viewing!ViewsInit /\ (WholeView(given) \/ terms = Library)
ViewsNext == part = "views" /\ Viewing!ViewsNext
  /\ (terms' # terms => WholeView(given) /\ partial.step # "done" /\ \A id \in 1..3 : terms[id].kept \in {First, Second} /\ terms[id].live)

----------------------------------------------------------------------------
(* The decision page: addresses, and what a member's workspace holds.      *)

Filtering(parameters) ==
  [signed |-> TRUE, organization |-> "o1", source |-> 1, parameters |-> parameters]
By(name, value) == <<name, <<"name", value>>>>
Empty(name) == <<name, <<>>>>
MCPages ==
  {Filtering(p) : p \in {<<>>, <<By("store", "north")>>, <<By("product", "tea"), By("category", "mint")>>,
     <<By("product", "tea"), By("product", "mint"), Empty("store")>>, <<By("channel", "web"), By("store", "tea")>>,
     <<Empty("print"), By("category", "tea"), Empty("channel")>>, <<By("print", "yes"), By("product", "tea")>>}}
  \cup {[Filtering(<<>>) EXCEPT !.source = s] : s \in {2, 3, 4}}
  \cup {[Filtering(<<>>) EXCEPT !.signed = FALSE], [Filtering(<<>>) EXCEPT !.organization = "o2"],
        [Filtering(<<By("channel", "web")>>) EXCEPT !.source = 4]}
Workspace(runs) == [member |-> TRUE, active |-> "o1", runs |-> runs]
MCPageBundles == [opened |-> Opened, closed |-> Closed, plain |-> [Opened EXCEPT !.caveats = SelectSeq(@, LAMBDA c : c.code \in {<<"chart_not_drawn">>, <<"curve_points_sampled">>})]]
MCWorkspaces == {Workspace(Library), Workspace([Library EXCEPT ![1].bundle = "plain"]), Workspace([Library EXCEPT ![1].bundle = "closed"]),
  Workspace([Library EXCEPT ![1].kept.sealed = "absent"]), [Workspace(Library) EXCEPT !.active = Missing]}
Deciding == INSTANCE DecisionSurface WITH
  asked <- given, workspace <- terms, page <- partial, shown <- answer,
  PageRequests <- MCPages, Workspaces <- MCWorkspaces, Bundles <- MCPageBundles

DecisionInit == part = "decision" /\ Deciding!SurfaceInit
  /\ (given = Filtering(<<>>) \/ terms = Workspace(Library))
\* Only the run looked at loses its content.
DecisionNext == part = "decision" /\ Deciding!SurfaceNext
  /\ (terms' # terms => \A r \in 1..3 : terms'.runs[r].kept # terms.runs[r].kept => r = given.source)

----------------------------------------------------------------------------

(* The shell: addresses, and two versions with three runs.                 *)

Stating(code, families) == [sections |-> [s \in {"overview", "comparison", "concentration", "growth", "basket"} |-> IF s = "basket" THEN code ELSE "answered"], families |-> families]
Ran(v, at, state, link, package, record) ==
  [version |-> v, started |-> at, state |-> state, active |-> TRUE, link |-> link, package |-> package, formula |-> 1,
   completed |-> IF state = "completed" THEN at ELSE Missing,
   bound |-> IF state = "completed" THEN {"web", "evidence", "pdf", "excel"} ELSE {},
   record |-> IF state = "completed" THEN record ELSE Missing, becomes |-> record]
Old == Stating("refused", [basket |-> 1, growth |-> 1])
New == Stating("answered", [basket |-> 2, growth |-> 1])
Fielded(runs, ended, restored) ==
  [memberships |-> {"o1", "o2"}, active |-> "o1", left |-> Missing, clock |-> 5,
   versions |-> [v \in {1, 2} |-> [state |-> IF v \in ended \ restored THEN "tombstoned" ELSE "active", created |-> v,
                                  sealed |-> \E r \in DOMAIN runs : runs[r].version = v /\ runs[r].state = "completed"]],
   runs |-> [r \in DOMAIN runs |-> [runs[r] EXCEPT !.active = runs[r].version \notin ended \ restored]],
   revoked |-> ended, restored |-> restored, pins |-> {1, 11},
   graves |-> (ended \ restored) \cup {r \in DOMAIN runs : runs[r].version \in ended \ restored},
   content |-> [v \in {1, 2} |-> [requested |-> v \in ended \ restored, since |-> Missing, expires |-> 5 + v]]]
Three(a, b, c) == (11 :> a) @@ (12 :> b) @@ (13 :> c)
Fields(s, link, p, r, t) == Three(Ran(1, 1, "completed", "own", 1, Old), Ran(1, 3, s, link, p, r), Ran(2, 4, t, "own", 2, New))
MCFields ==
  {Fielded(Fields(s, "own", 2, Old, t), {}, {}) : s \in {"started", "completed"}, t \in {"started", "completed"}}
  \cup {Fielded(Fields("completed", link, p, r, "completed"), {}, {}) : link \in {"own", "foreign", "none"}, p \in {1, 2}, r \in {Old, New, Missing}}
  \cup {Fielded(Fields("completed", "own", 2, New, "completed"), ended, restored) : ended \in {{1}, {1, 2}}, restored \in {{}, {1}}}
  \cup {[Fielded(Fields("completed", "own", 2, New, "completed"), {}, {}) EXCEPT !.memberships = {"o2"}],
         [Fielded(Fields("completed", "own", 2, New, "completed"), {}, {}) EXCEPT !.clock = 6],
         [Fielded(Fields("completed", "own", 2, New, "completed"), {}, {}) EXCEPT !.runs[11].link = "foreign"],
         [Fielded(Fields("completed", "own", 2, New, "completed"), {}, {}) EXCEPT !.runs[13].bound = {"web"}],
         Fielded(Three(Ran(1, 1, "completed", "own", 1, Old), Ran(1, 3, "failed", "own", 1, Old), Ran(1, 4, "completed", "own", 1, New)), {}, {}),
         Fielded(Three(Ran(1, 3, "completed", "own", 1, Old), Ran(1, 3, "completed", "own", 2, New), Ran(2, 3, "completed", "own", 2, New)), {}, {})}
MCAddresses == {[signed |-> TRUE, organization |-> "o1", surface |-> s, run |-> 12, kind |-> "web"] :
     s \in {"switcher", "overview", "data", "analyses", "analysis", "artifact", "journey", "team", "nowhere"}}
  \cup {[signed |-> s = "overview", organization |-> "o2", surface |-> s, run |-> 12, kind |-> "web"] : s \in {"overview", "analyses", "artifact", "team"}}
  \cup {[signed |-> TRUE, organization |-> "o1", surface |-> "artifact", run |-> r, kind |-> k] : r \in {11, 14}, k \in {"web", "csv"}}
  \cup {[signed |-> TRUE, organization |-> "o1", surface |-> "analysis", run |-> r, kind |-> "web"] : r \in {13, 14}}
Shell == INSTANCE WorkspaceShell WITH
  asked <- given, workspace <- terms, page <- partial, shown <- answer,
  Addresses <- MCAddresses, Workspaces <- MCFields

\* The sample workspaces are kept as the history keeps them.
ASSUME ShellAssumption == Shell!WorkspacesAreSound

\* Up to two things happen meanwhile. What ends before the history is read had
\* ended in another of the workspaces, but for a membership.
Happened(w) ==
  (w.clock - 5) + (IF w.left = Missing THEN 0 ELSE 1) + Cardinality(w.restored) + Cardinality({v \in {1, 2} : w.content[v].since # Missing})
  + Cardinality({v \in w.graves : v <= 2}) + Cardinality({r \in DOMAIN w.runs : w.runs[r].completed \in 5..9 \/ w.runs[r].state = "failed"})
Early == partial.step \in {"asked", "organizations", "nowhere", "scope", "history"}
ShellInit == part = "shell" /\ Shell!ShellInit
ShellNext == part = "shell" /\ Shell!ShellNext
  /\ (terms' # terms => Happened(terms') <= 2 /\ (Early => terms'.left # terms.left))

----------------------------------------------------------------------------

Computations == FigureParts \cup {"coverage", "comparison", "views", "decision", "shell"}
FiguresInit == ReportInit \/ CoverageInit \/ ComparisonInit \/ ViewsInit \/ DecisionInit \/ ShellInit
FiguresNext == ReportNext \/ CoverageNext \/ ComparisonNext \/ ViewsNext \/ DecisionNext \/ ShellNext
FiguresRest == part \notin Computations /\ given = Missing /\ terms = Missing /\ partial = Missing /\ answer = Missing

\* No figure reaches a client that the rows do not bear out: the facts are the
\* reference figures of the rows or refused for the reason that applies, a column
\* answers one semantic, a bundle and its surfaces say what the package says and
\* a narrative asserts no number its citations do not carry; the sums of a profile
\* are those of its rows, and the figures of a comparison follow from the two
\* packages, whichever is named first.
FiguresHold ==
  /\ part = "facts" => Facts!FiguresHold
  /\ part = "mapping" => Mapping!MappingHolds
  /\ part = "bundle" => Bundle!BundleHolds /\ Bundle!SurfacesHold
  /\ part = "narrative" => Narrative!NarrativeHolds
  /\ part = "coverage" => Evidence!EvidenceAddsUp
  /\ part = "comparison" => Comparison!FiguresFollow /\ Comparison!DifferencesNegate

\* No attestation is read as more than it is: profiles answer the question they
\* were asked, completeness and coverage signatures follow the attested days, and
\* two versions are compared only where their windows, meanings and populations
\* agree.
EvidenceHolds ==
  /\ part = "coverage" => Evidence!CoverageHolds
  /\ part = "comparison" => Comparison!CrossVersionHolds

\* No page shows more than its reads found: a view states what its bundle holds
\* and nothing of data that has ended, and a page put together from several reads
\* claims nothing that all of them do not bear out.
PagesHold ==
  /\ part = "views" => Viewing!ViewsHold
  /\ part = "decision" => Deciding!SurfaceHolds
  /\ part = "shell" => Shell!ShellHolds /\ Shell!CandidatesCompare
=============================================================================
