------------------------------ MODULE CrossVersion ------------------------------
(***************************************************************************)
(* A comparison of two dataset versions: a member names a subject and a    *)
(* baseline, the latest completed run of each is loaded, and the pair is   *)
(* admitted only where both were measured alike over complete periods.     *)
(* Versions may be revoked while the request is under way.                 *)
(***************************************************************************)
EXTENDS CoverageManifest, SequencesExt

CONSTANTS
  Requests,              \* what a caller may ask to compare
  Worlds,                \* the versions, their runs and what was kept of each run
  GRANULARITY_DAY_SPAN

VARIABLES request, world, loaded, outcome
xvars == <<request, world, loaded, outcome>>

----------------------------------------------------------------------------
(* Loading an operand: the latest completed run, and what its package and   *)
(* profile record of it.                                                    *)

\* Neither a revoked version nor a run of one is listed.
LiveRuns(v) == IF world[v].live THEN world[v].runs ELSE {}
Completed(v) == {r \in LiveRuns(v) : r.completed_at # Missing}
LaterRun(r, s) == r.completed_at > s.completed_at \/ (r.completed_at = s.completed_at /\ r.run_id > s.run_id)
LatestCompleted(v) == CHOOSE r \in Completed(v) : \A s \in Completed(v) \ {r} : LaterRun(r, s)

\* The package is served, rebuilds, verifies, and is the one the run was sealed with.
PackageUsable(o) == o.sealed = "same" /\ o.session /\ o.package = "readable"

Granularity(m) ==
  LET days == {p[2] : p \in m.pairs}
  IN IF days # {} /\ Max(days) - Min(days) > GRANULARITY_DAY_SPAN THEN "month" ELSE "day"

\* A retained period is checked against the manifest's own binding.
PeriodComplete(m, start, end) ==
  ScopesOf(m) # {} /\ \A s \in ScopesOf(m) : AdmitsCompleteness(m, Query(m.contract, s, start, end))

Unloaded == [state |-> "missing"]
Operand(v, r) ==
  LET o == r.kept IN
  IF ~PackageUsable(o) THEN Unloaded
  ELSE IF o.provenance = Missing \/ ~o.profile \/ o.manifest = Missing THEN [state |-> "incomplete"]
  ELSE [state |-> "loaded", version |-> v, run_id |-> r.run_id, facts |-> o.facts,
        package |-> o.declared, bases |-> o.bases, signatures |-> o.signatures, identity |-> o.identity,
        aggregate |-> o.manifest.aggregate, timezone |-> o.manifest.timezone,
        granularity |-> Granularity(o.manifest),
        complete |-> PeriodComplete(o.manifest, o.provenance[1], o.provenance[2])]

LoadOperand(v) == IF Completed(v) = {} THEN Unloaded ELSE Operand(v, LatestCompleted(v))

----------------------------------------------------------------------------
(* Admission of a pair.                                                    *)

SCOPE == "cross-organization or scope mismatch"
MAPPING_DRIFT == "mapping drift"
FORMULA_DRIFT == "formula drift"
PACKAGE_DRIFT == "package drift"
BASIS == "incomparable basis"
STORE_SET == "store mismatch"
GRANULARITY == "granularity mismatch"
RETAIL_DAY == "retail day boundary mismatch"
INCOMPLETE == "incomplete coverage"
UNORDERED_PAIR == "unordered pair"

BasisByMetric ==
  [revenue |-> "financial_revenue", units |-> "financial_units", transactions |-> "sales_transaction",
   average_order_value |-> "sales_revenue_transaction", average_selling_price |-> "sales_revenue_units",
   cost |-> "financial_revenue_cost", gross_profit |-> "financial_revenue_cost",
   gross_margin |-> "financial_revenue_cost", discount |-> "sales_revenue", returns |-> "financial_revenue"]

PopulationScope(o) == IF o.aggregate # Missing THEN o.aggregate ELSE ""
StoreSet(o) == IF o.aggregate # Missing THEN {} ELSE o.signatures
PopulationAttested(o) == o.aggregate # Missing \/ o.signatures # {}

\* The first predicate that separates the two decides; lists compare as sets.
Separations(s, b) == <<
  <<s.package.mapping # b.package.mapping, MAPPING_DRIFT>>,
  <<s.package.formula # b.package.formula, FORMULA_DRIFT>>,
  <<s.package.version # b.package.version, PACKAGE_DRIFT>>,
  <<s.package.currency # b.package.currency, BASIS>>,
  <<PopulationScope(s) # PopulationScope(b), SCOPE>>,
  <<StoreSet(s) # StoreSet(b), STORE_SET>>,
  <<Range(s.package.kinds) # Range(b.package.kinds), BASIS>>,
  <<Range(s.package.statuses) # Range(b.package.statuses), BASIS>> >>

Counterpart(o, fact) == {f \in Range(o.facts) : f.metric = fact.metric /\ f.unit = fact.unit}
SharedMetrics(s, b) == {f.metric : f \in {f \in Range(s.facts) : Counterpart(b, f) # {}}}

CompositeProvenance(s, b) ==
  /\ s.identity # Missing /\ b.identity # Missing
  /\ PopulationAttested(s) /\ PopulationAttested(b)
  /\ \A metric \in SharedMetrics(s, b) : BasisByMetric[metric] \in s.bases \cap b.bases

\* Every day is a calendar day of both, so the hour it starts never differs.
Causes(s, b) == Separations(s, b) \o <<
  <<~CompositeProvenance(s, b), INCOMPLETE>>,
  <<s.version = b.version, UNORDERED_PAIR>>,
  <<s.granularity # b.granularity, GRANULARITY>>,
  <<~s.complete \/ ~b.complete, INCOMPLETE>>,
  <<SharedMetrics(s, b) = {}, INCOMPLETE>>,
  <<s.timezone # b.timezone, RETAIL_DAY>> >>

\* The cause a pair is refused for, or Missing.
AdmissionCause(s, b) ==
  LET held == {n \in DOMAIN Causes(s, b) : Causes(s, b)[n][1]}
  IN IF held = {} THEN Missing ELSE Causes(s, b)[Min(held)][2]

----------------------------------------------------------------------------
(* The bundle of an admitted pair.                                         *)

HalfEven(n, d) ==
  LET q == n \div d
      r == n % d
  IN IF 2 * r < d THEN q ELSE IF 2 * r > d THEN q + 1 ELSE q + (q % 2)

\* In ten-thousandths.
PercentageRatio(delta, baseline) == HalfEven(10000 * delta, baseline)

PairProvenance(s, b, metric) ==
  <<s.version, <<BasisByMetric[metric], s.version>>, s.identity,
    b.version, <<BasisByMetric[metric], b.version>>, b.identity>>

Cell(s, b, fact, label, unit, value) ==
  [citation |-> <<fact.metric, s.version, b.version>>, metric |-> fact.metric, label |-> label, unit |-> unit, value |-> value]

FiguresOf(s, b, fact) ==
  LET counterpart == CHOOSE f \in Counterpart(b, fact) : TRUE
      delta == fact.value - counterpart.value
  IN <<Cell(s, b, fact, "subject", fact.unit, fact.value),
       Cell(s, b, fact, "baseline", fact.unit, counterpart.value),
       Cell(s, b, fact, "difference", fact.unit, delta)>>
     \o (IF counterpart.value <= 0 THEN <<>>
         ELSE <<Cell(s, b, fact, "percentage_difference", "ratio", PercentageRatio(delta, counterpart.value))>>)

SharedFacts(s, b) == SelectSeq(s.facts, LAMBDA f : Counterpart(b, f) # {})

CrossVersionBundle(s, b) ==
  LET facts == SharedFacts(s, b)
      cited == [i \in DOMAIN facts |->
                 [citation |-> <<facts[i].metric, s.version, b.version>>, metric |-> facts[i].metric,
                  unit |-> facts[i].unit, pair |-> PairProvenance(s, b, facts[i].metric)]]
  IN [operands |-> <<s.version, s.identity, b.version, b.identity>>,
      figures |-> FlattenSeq([i \in DOMAIN facts |-> FiguresOf(s, b, facts[i])]),
      citations |-> cited, evidence |-> cited]

\* What the bundle demands of itself when it is made.
IdentityRules(u) ==
  /\ <<u.operands[1], u.operands[2]>> # <<u.operands[3], u.operands[4]>>
  /\ \A i \in 1..4 : u.operands[i] \notin {"", Missing}
  /\ u.citations # <<>>
  /\ \A i, j \in DOMAIN u.citations : u.citations[i].citation = u.citations[j].citation => i = j
  /\ \A c \in Range(u.citations) : <<c.pair[1], c.pair[3], c.pair[4], c.pair[6]>> = u.operands

OperandsRule(u) ==
  \A c \in Range(u.citations) :
    LET labels == SelectSeq(u.figures, LAMBDA f : f.citation = c.citation)
        Stated(label) == Cardinality({i \in DOMAIN labels : labels[i].label = label})
    IN /\ \A l \in {"subject", "baseline", "difference"} : Stated(l) = 1
       /\ Stated("percentage_difference") <= 1

EvidenceRules(u) ==
  /\ {f.citation : f \in Range(u.figures)} = {e.citation : e \in Range(u.evidence)}
  /\ \A e \in Range(u.evidence), f \in Range(u.figures) : e.citation = f.citation =>
       e.metric = f.metric /\ (f.label = "percentage_difference" \/ e.unit = f.unit)
  /\ Range(u.evidence) = Range(u.citations)

BundleRules(u) == u.figures # <<>> /\ IdentityRules(u) /\ OperandsRule(u) /\ EvidenceRules(u)

----------------------------------------------------------------------------
(* A request.                                                              *)

NoOutcome == [kind |-> Missing, cause |-> Missing, bundle |-> Missing, audit |-> <<>>, said |-> FALSE]
Settled(kind, cause) == [NoOutcome EXCEPT !.kind = kind, !.cause = cause]

CrossVersionInit ==
  /\ request \in Requests
  /\ world \in Worlds
  /\ loaded = [step |-> "asked", subject |-> Missing, baseline |-> Missing]
  /\ outcome = NoOutcome

ShapeRefused == request.extra \/ request.subject = request.baseline

Decide(result) ==
  /\ outcome' = result
  /\ loaded' = [loaded EXCEPT !.step = "decided"]

\* Whoever is no member learns nothing, and nothing is recorded of it.
ResolveScope ==
  /\ loaded.step = "asked"
  /\ \/ /\ ~request.member
        /\ outcome' = [Settled("unavailable", Missing) EXCEPT !.said = TRUE]
        /\ loaded' = [loaded EXCEPT !.step = "answered"]
     \/ /\ request.member /\ ShapeRefused
        /\ Decide(Settled("refused", UNORDERED_PAIR))
     \/ /\ request.member /\ ~ShapeRefused
        /\ loaded' = [loaded EXCEPT !.step = "scoped"]
        /\ UNCHANGED outcome
  /\ UNCHANGED <<request, world>>

ReadVersions ==
  /\ loaded.step = "scoped"
  /\ \/ /\ ~world[request.subject].live \/ ~world[request.baseline].live
        /\ Decide(Settled("unavailable", Missing))
     \/ /\ world[request.subject].live /\ world[request.baseline].live
        /\ loaded' = [loaded EXCEPT !.step = "read"]
        /\ UNCHANGED outcome
  /\ UNCHANGED <<request, world>>

LoadSubject ==
  /\ loaded.step = "read"
  /\ loaded' = [loaded EXCEPT !.step = "subject loaded", !.subject = LoadOperand(request.subject)]
  /\ UNCHANGED <<request, world, outcome>>

LoadBaseline ==
  /\ loaded.step = "subject loaded"
  /\ loaded' = [loaded EXCEPT !.step = "loaded", !.baseline = LoadOperand(request.baseline)]
  /\ UNCHANGED <<request, world, outcome>>

States == {loaded.subject.state, loaded.baseline.state}
CauseOf == IF "incomplete" \in States THEN INCOMPLETE ELSE AdmissionCause(loaded.subject, loaded.baseline)

\* A surface that cannot be made of an admitted pair leaves it unavailable.
Assemble ==
  /\ loaded.step = "loaded"
  /\ \/ /\ "missing" \in States
        /\ Decide(Settled("unavailable", Missing))
     \/ /\ "missing" \notin States /\ CauseOf # Missing
        /\ Decide(Settled("refused", CauseOf))
     \/ /\ "missing" \notin States /\ CauseOf = Missing
        /\ LET bundle == CrossVersionBundle(loaded.subject, loaded.baseline) IN
           \/ Decide([Settled(IF BundleRules(bundle) THEN "admitted" ELSE "raised", Missing) EXCEPT !.bundle = bundle])
           \/ Decide(Settled("unavailable", Missing))
  /\ UNCHANGED <<request, world>>

\* The outcome is recorded before it is told.
Audit ==
  /\ loaded.step = "decided" /\ outcome.kind # "raised"
  /\ outcome' = [outcome EXCEPT !.audit = Append(@, IF outcome.kind = "admitted" THEN "completed" ELSE "failed")]
  /\ loaded' = [loaded EXCEPT !.step = "audited"]
  /\ UNCHANGED <<request, world>>

Answer ==
  /\ loaded.step = "audited"
  /\ outcome' = [outcome EXCEPT !.said = TRUE]
  /\ loaded' = [loaded EXCEPT !.step = "answered"]
  /\ UNCHANGED <<request, world>>

\* Another member revokes a version; its runs end with it.
Revoke(v) ==
  /\ world[v].live
  /\ world' = [world EXCEPT ![v].live = FALSE, ![v].revoked = loaded.step]
  /\ UNCHANGED <<request, loaded, outcome>>

CrossVersionNext ==
  \/ ResolveScope \/ ReadVersions \/ LoadSubject \/ LoadBaseline \/ Assemble \/ Audit \/ Answer
  \/ \E v \in DOMAIN world : Revoke(v)

CrossVersionSpec == CrossVersionInit /\ [][CrossVersionNext]_xvars

CrossVersionTypeOK ==
  /\ loaded.step \in {"asked", "scoped", "read", "subject loaded", "loaded", "decided", "audited", "answered"}
  /\ outcome.kind \in {Missing, "admitted", "refused", "unavailable", "raised"}

----------------------------------------------------------------------------
(* What is kept of the versions.                                           *)

\* The runs of a version are told apart by their identifiers.
RunsAreOrdered(runs) ==
  /\ IsFiniteSet(runs)
  /\ \A r \in runs : r.run_id \in Int /\ (r.completed_at # Missing => r.completed_at \in Int)
  /\ \A r, q \in runs : r.run_id = q.run_id => r = q

\* A manifest names one kind of scope; a package signs all of them or none.
KeptIsRead(k) ==
  /\ k.manifest # Missing => /\ OneScopeMode(k.manifest) /\ k.manifest.end \in Int
                             /\ k.signatures \in {{}, ScopesOf(k.manifest)}
  /\ k.provenance # Missing => k.provenance[1] \in Int /\ k.provenance[2] \in Int

\* A version that is live was never revoked.
WorldIsKept(w) ==
  /\ w = [v \in DOMAIN w |-> w[v]]
  /\ \A v \in DOMAIN w :
       /\ w[v] = [live |-> w[v].live, revoked |-> w[v].revoked, runs |-> w[v].runs]
       /\ w[v].live => w[v].revoked = Missing
       /\ RunsAreOrdered(w[v].runs)
       /\ \A r \in w[v].runs : KeptIsRead(r.kept)

WorldsAreKept ==
  \A w \in Worlds : WorldIsKept(w) /\ \A q \in Requests : {q.subject, q.baseline} \subseteq DOMAIN w

----------------------------------------------------------------------------
(* What holds of it.                                                       *)

Admitted == outcome.kind = "admitted"
Both == {loaded.subject, loaded.baseline}
KeptOf(o) == (CHOOSE r \in world[o.version].runs : r.run_id = o.run_id).kept
FigureOf(u, metric, label) == {f \in Range(u.figures) : f.metric = metric /\ f.label = label}

Fact(metric, unit, value) == [metric |-> metric, unit |-> unit, value |-> value]

\* Which of two versions is called the subject never decides whether, or why,
\* they can be compared.
OrderNeverDecides ==
  loaded.step = "loaded" /\ States = {"loaded"} =>
    AdmissionCause(loaded.subject, loaded.baseline) = AdmissionCause(loaded.baseline, loaded.subject)

\* Turning an admitted pair round negates every difference.
DifferencesNegate ==
  LET s == loaded.subject
      b == loaded.baseline
  IN loaded.step = "loaded" /\ States = {"loaded"} /\ AdmissionCause(s, b) = Missing =>
       \A f \in {f \in Range(CrossVersionBundle(s, b).figures) : f.label = "difference"} :
         \E g \in FigureOf(CrossVersionBundle(b, s), f.metric, "difference") : g.value = -f.value

\* What is compared was measured alike: in one currency and time zone, over the
\* same stores, and each period whole, with no day of it lost or cut short.
LikeWithLike ==
  Admitted =>
    /\ request.subject # request.baseline /\ request.member
    /\ \A o, p \in Both :
         /\ o.package.currency = p.package.currency /\ o.timezone = p.timezone
         /\ Range(o.package.kinds) = Range(p.package.kinds)
    /\ ScopesOf(KeptOf(loaded.subject).manifest) = ScopesOf(KeptOf(loaded.baseline).manifest)
    /\ \A o \in Both :
         LET kept == KeptOf(o)
         IN /\ kept.sealed = "same"
            /\ \A s \in ScopesOf(kept.manifest), d \in kept.provenance[1]..kept.provenance[2] :
                 <<s, d>> \in kept.manifest.pairs \ kept.manifest.gaps
            /\ kept.manifest.partial => kept.provenance[2] < kept.manifest.end

\* The bundle of an admitted pair meets every rule it is made under, and its
\* differences and percentages follow from the two values beside them.
FiguresFollow ==
  /\ outcome.kind # "raised"
  /\ Admitted =>
       \A metric \in SharedMetrics(loaded.subject, loaded.baseline) :
         \E s \in FigureOf(outcome.bundle, metric, "subject"), b \in FigureOf(outcome.bundle, metric, "baseline"),
            d \in FigureOf(outcome.bundle, metric, "difference") :
           /\ b.value + d.value = s.value
           /\ Fact(metric, b.unit, b.value) \in Range(loaded.baseline.facts)
           /\ Fact(metric, s.unit, s.value) \in Range(loaded.subject.facts) /\ s.unit = b.unit
           /\ FigureOf(outcome.bundle, metric, "percentage_difference") # {} <=> b.value > 0
           /\ \A r \in FigureOf(outcome.bundle, metric, "percentage_difference") :
                2 * (r.value * b.value - 10000 * d.value) \in (-b.value)..b.value

\* Nothing is told of a member's comparison that its one audit event does not
\* record; an outsider leaves none.
AuditedOnce ==
  outcome.said =>
    IF request.member THEN outcome.audit = <<IF Admitted THEN "completed" ELSE "failed">> ELSE outcome.audit = <<>>

\* A version revoked before its operand was loaded is never compared, and what
\* is compared is the run that completed last.
RevokedIsNotCompared ==
  Admitted =>
    /\ world[request.subject].revoked \notin {"asked", "scoped", "read"}
    /\ world[request.baseline].revoked \notin {"asked", "scoped", "read", "subject loaded"}
    /\ \A o \in Both : \A r \in world[o.version].runs : r.completed_at # Missing =>
         \E mine \in world[o.version].runs :
           mine.run_id = o.run_id /\ mine.completed_at # Missing /\ mine.completed_at >= r.completed_at

CrossVersionHolds ==
  CrossVersionTypeOK /\ OrderNeverDecides /\ LikeWithLike /\ AuditedOnce /\ RevokedIsNotCompared
=============================================================================
