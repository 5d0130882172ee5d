---------------------------- MODULE CoverageManifest ----------------------------
(***************************************************************************)
(* A coverage manifest: the operator's attestation of the days an input    *)
(* covers, scope by scope, and what it proves.  Days are integers; a scope *)
(* is the one aggregate of the input or a store of its roster.             *)
(***************************************************************************)
EXTENDS Integers, Sequences, FiniteSets, FiniteSetsExt

CONSTANT Missing

\* An attester of documents stored before attribution, reserved for them.
UNRECORDED_ATTESTER == "attribution not recorded"

ScopesOf(m) == IF m.aggregate # Missing THEN {m.aggregate} ELSE m.roster

\* What the operator declares names days; every one is claimed for every scope.
Pairs(attested, days) == ScopesOf(attested) \X days

ToManifest(attested, contract) ==
  [contract |-> contract, attested_by |-> attested.attested_by, timezone |-> attested.timezone,
   start |-> attested.start, end |-> attested.end,
   aggregate |-> attested.aggregate, roster |-> attested.roster,
   pairs |-> Pairs(attested, attested.days), kinds |-> attested.kinds, statuses |-> attested.statuses,
   closures |-> Pairs(attested, attested.closed), gaps |-> Pairs(attested, attested.gaps),
   partial |-> attested.partial]

OneScopeMode(m) ==
  /\ m.aggregate = Missing \/ m.roster = {}
  /\ ScopesOf(m) # {}
  /\ "" \notin ScopesOf(m)

\* The structural rules: none of them looks at what the manifest is bound to.
Usable(m) ==
  /\ OneScopeMode(m)
  /\ m.start <= m.end
  /\ m.timezone # "unrecognised"
  /\ m.kinds # {} /\ m.statuses # {}
  /\ m.closures \cap m.gaps = {}
  /\ \A s \in ScopesOf(m), d \in m.start..m.end : <<s, d>> \in m.pairs
  /\ \A p \in m.pairs : p[2] \in m.start..m.end

\* Checked where it is used: who attested it, and under which reading of the file.
Bound(m) == m.contract # "" /\ m.attested_by \notin {"", UNRECORDED_ATTESTER}

----------------------------------------------------------------------------
(* Completeness of a window.                                               *)

Query(contract, scope, start, end) == [contract |-> contract, scope |-> scope, start |-> start, end |-> end]

\* A partial last day spoils every window that reaches it or goes beyond.
Cut(m, q) == m.partial /\ q.end >= m.end

DayProven(m, scope, day) == <<scope, day>> \in m.pairs \ m.gaps

AdmitsCompleteness(m, q) ==
  /\ q.start <= q.end
  /\ m.contract = q.contract
  /\ ~Cut(m, q)
  /\ q.scope \in ScopesOf(m)
  /\ \A d \in q.start..q.end : DayProven(m, q.scope, d)

----------------------------------------------------------------------------
(* Signatures: which days of a window are covered, counted from its first, *)
(* so that windows of different dates can be compared.                     *)

FULL_CALENDAR == "full_calendar"
PREFIX == "contiguous_day_one_prefix"

Ordinals(m, scope, start, end) == {n \in 1..(end - start + 1) : DayProven(m, scope, start + n - 1)}

ModeOf(ordinals, span) ==
  IF ordinals # 1..Cardinality(ordinals) THEN Missing
  ELSE IF Cardinality(ordinals) = span THEN FULL_CALENDAR ELSE PREFIX

\* Missing where refused: an empty window, one of another scope, no covered
\* day, or days covered in neither shape.
Signature(m, scope, start, end) ==
  LET span == end - start + 1
      ordinals == Ordinals(m, scope, start, end)
  IN IF end < start \/ scope \notin ScopesOf(m) \/ ordinals = {} \/ ModeOf(ordinals, span) = Missing
     THEN Missing
     ELSE [scope |-> scope, mode |-> ModeOf(ordinals, span), ordinals |-> ordinals, days |-> span]

ProjectPrefix(parent, days) ==
  LET kept == {n \in parent.ordinals : n <= days}
  IN IF days < 1 \/ parent.mode # FULL_CALENDAR \/ days > parent.days \/ Cardinality(kept) # days
     THEN Missing
     ELSE [parent EXCEPT !.mode = PREFIX, !.ordinals = kept, !.days = days]
=============================================================================
