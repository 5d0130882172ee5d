---------------------------- MODULE EvidenceProofs ----------------------------
(***************************************************************************)
(* Proofs about what is attested of an upload and what it is compared for: *)
(* that profiles answer the question they were asked and that completeness *)
(* and signatures of one window agree with those of every other, whatever  *)
(* days are attested; and that a comparison is of like with like, of the   *)
(* runs that completed last, whatever is revoked meanwhile.                *)
(***************************************************************************)
EXTENDS CoverageEvidence, CrossVersion, FiniteSetTheorems, WellFoundedInduction, TLAPS

(* What the values are.                                                    *)

\* The absent value is neither a mode nor a record.
MissingIsApart == Missing \notin {FULL_CALENDAR, PREFIX} /\ DOMAIN Missing = {}

----------------------------------------------------------------------------
(* Completeness and signatures.                                            *)

\* A mode is told from the other and from none.
LEMMA ModesDiffer ==
  ASSUME MissingIsApart
  PROVE  FULL_CALENDAR # Missing /\ PREFIX # Missing /\ FULL_CALENDAR # PREFIX
BY DEF FULL_CALENDAR, PREFIX, MissingIsApart

\* The days of a window counted from its first are at most its days.
LEMMA OrdinalsBound ==
  ASSUME NEW m, NEW s, NEW a \in Int, NEW b \in Int, a <= b
  PROVE  /\ Ordinals(m, s, a, b) \subseteq 1..(b - a + 1)
         /\ IsFiniteSet(Ordinals(m, s, a, b))
         /\ Cardinality(Ordinals(m, s, a, b)) \in Nat
         /\ Cardinality(Ordinals(m, s, a, b)) <= b - a + 1
<1>1. Ordinals(m, s, a, b) \subseteq 1..(b - a + 1)
  BY DEF Ordinals
<1>2. IsFiniteSet(1..(b - a + 1)) /\ Cardinality(1..(b - a + 1)) = b - a + 1
  BY FS_Interval
<1> QED BY <1>1, <1>2, FS_Subset, FS_CardinalityType

\* The days counted are all of them exactly where each is proven.
LEMMA OrdinalsFull ==
  ASSUME NEW m, NEW s, NEW a \in Int, NEW b \in Int, a <= b
  PROVE  Ordinals(m, s, a, b) = 1..(b - a + 1) <=> \A d \in a..b : DayProven(m, s, d)
<1>1. ASSUME Ordinals(m, s, a, b) = 1..(b - a + 1), NEW d \in a..b PROVE DayProven(m, s, d)
  <2>1. d - a + 1 \in Ordinals(m, s, a, b) /\ a + (d - a + 1) - 1 = d
    BY <1>1
  <2> QED BY <2>1 DEF Ordinals
<1>2. ASSUME \A d \in a..b : DayProven(m, s, d) PROVE Ordinals(m, s, a, b) = 1..(b - a + 1)
  <2>1. \A n \in 1..(b - a + 1) : a + n - 1 \in a..b
    OBVIOUS
  <2> QED BY <2>1, <1>2 DEF Ordinals
<1> QED BY <1>1, <1>2

\* The signature of a window whose days are all proven.
LEMMA WholeSignature ==
  ASSUME MissingIsApart, NEW m, NEW s, NEW a \in Int, NEW b \in Int,
         a <= b, s \in ScopesOf(m), \A d \in a..b : DayProven(m, s, d)
  PROVE  Signature(m, s, a, b) = [scope |-> s, mode |-> FULL_CALENDAR, ordinals |-> 1..(b - a + 1), days |-> b - a + 1]
<1> DEFINE k == b - a + 1
<1>1. Ordinals(m, s, a, b) = 1..k /\ k \in Nat /\ k >= 1
  BY OrdinalsFull
<1>2. Cardinality(1..k) = k /\ 1 \in 1..k
  BY <1>1, FS_Interval
<1>3. ModeOf(1..k, k) = FULL_CALENDAR
  BY <1>2 DEF ModeOf
<1>4. ~(b < a) /\ 1..k # {} /\ ModeOf(1..k, k) # Missing
  BY <1>2, <1>3, ModesDiffer
<1> QED BY <1>1, <1>3, <1>4 DEF Signature

\* A signature is a full calendar exactly where every day of the window is proven.
LEMMA FullCalendar ==
  ASSUME MissingIsApart, NEW m, NEW s, NEW a \in Int, NEW b \in Int
  PROVE  Full(m, s, <<a, b>>) <=> a <= b /\ s \in ScopesOf(m) /\ \A d \in a..b : DayProven(m, s, d)
<1> DEFINE o == Ordinals(m, s, a, b)
           k == b - a + 1
<1>1. ASSUME Full(m, s, <<a, b>>) PROVE a <= b /\ s \in ScopesOf(m) /\ \A d \in a..b : DayProven(m, s, d)
  <2>1. Signature(m, s, a, b) # Missing /\ Signature(m, s, a, b).mode = FULL_CALENDAR
    BY <1>1 DEF Full
  <2>2. ~(b < a) /\ s \in ScopesOf(m) /\ ModeOf(o, k) = FULL_CALENDAR
    BY <2>1 DEF Signature
  <2>3. a <= b
    BY <2>2
  <2>4. o = 1..k
    <3>1. o = 1..Cardinality(o) /\ Cardinality(o) = k
      BY <2>2, ModesDiffer DEF ModeOf
    <3> QED BY <3>1
  <2> QED BY <2>2, <2>3, <2>4, OrdinalsFull
<1>2. ASSUME a <= b, s \in ScopesOf(m), \A d \in a..b : DayProven(m, s, d) PROVE Full(m, s, <<a, b>>)
  <2>4. Signature(m, s, a, b) = [scope |-> s, mode |-> FULL_CALENDAR, ordinals |-> 1..k, days |-> k]
    BY <1>2, WholeSignature
  <2>5. Signature(m, s, a, b) # Missing
    <3>1. "scope" \in DOMAIN Signature(m, s, a, b)
      BY <2>4
    <3> QED BY <3>1 DEF MissingIsApart
  <2> QED BY <2>4, <2>5 DEF Full
<1> QED BY <1>1, <1>2

\* A window is complete exactly where every day is proven, the reading is the one
\* attested, and the last day is not cut short.
LEMMA CompleteMeans ==
  ASSUME NEW r, r.manifest # Missing, r.manifest.contract # Missing, NEW s, NEW a \in Int, NEW b \in Int
  PROVE  Completeness(r, s, a, b) = "complete" <=>
           /\ a <= b /\ s \in ScopesOf(r.manifest) /\ \A d \in a..b : DayProven(r.manifest, s, d)
           /\ r.contract = r.manifest.contract
           /\ ~(r.manifest.partial /\ b >= r.manifest.end)
BY DEF Completeness, AdmitsCompleteness, Query, Cut

\* Where a signature is a prefix, its days are proven.
LEMMA PrefixIsFull ==
  ASSUME MissingIsApart, NEW m, NEW s, NEW a \in Int, NEW b \in Int, Signature(m, s, a, b) # Missing
  PROVE  LET k == Cardinality(Signature(m, s, a, b).ordinals)
         IN k \in Nat /\ k >= 1 /\ Full(m, s, <<a, a + k - 1>>)
<1> DEFINE o == Ordinals(m, s, a, b)
           k == Cardinality(o)
<1>1. a <= b /\ s \in ScopesOf(m) /\ o # {} /\ ModeOf(o, b - a + 1) # Missing
  BY DEF Signature
<1>2. Signature(m, s, a, b).ordinals = o
  BY <1>1 DEF Signature
<1>3. o = 1..k /\ k \in Nat
  BY <1>1, OrdinalsBound DEF ModeOf
<1>4. k >= 1
  BY <1>1, <1>3
<1>5. a + k - 1 \in Int /\ a <= a + k - 1
  BY <1>3, <1>4
<1>6. ASSUME NEW d \in a..(a + k - 1) PROVE DayProven(m, s, d)
  <2>1. d - a + 1 \in o /\ a + (d - a + 1) - 1 = d
    BY <1>3
  <2> QED BY <2>1 DEF Ordinals
<1>7. Full(m, s, <<a, a + k - 1>>)
  BY <1>1, <1>5, <1>6, FullCalendar
<1> QED BY <1>2, <1>3, <1>4, <1>7

----------------------------------------------------------------------------
(* What a stored profile holds.                                            *)

\* A profile, of this release or an earlier one.
Recorded(r) ==
  /\ r = [semantics |-> r.semantics, contract |-> r.contract, manifest |-> r.manifest]
  /\ r.manifest # Missing => Dated(r.manifest) /\ r.manifest.contract # Missing

\* The three questions about a manifest are answered alike for every profile.
LEMMA SignaturesAgree ==
  ASSUME MissingIsApart, record # Missing => Recorded(record)
  PROVE  CompletenessMatchesSignature
<1> SUFFICES ASSUME NEW s \in AnyScope, NEW w \in Windows
    PROVE  LET m == record.manifest
               signed == Signature(m, s, w[1], w[2])
           IN /\ Complete(s, w) <=>
                   /\ Full(m, s, w)
                   /\ record.contract = m.contract
                   /\ ~(m.partial /\ w[2] >= m.end)
              /\ Complete(s, w) => \A p \in m.gaps : p[1] = s => p[2] \notin w[1]..w[2]
              /\ signed # Missing => Full(m, s, <<w[1], w[1] + Cardinality(signed.ordinals) - 1>>)
  BY DEF CompletenessMatchesSignature
<1> DEFINE m == record.manifest
           a == w[1]
           b == w[2]
<1>1. Recorded(record) /\ m # Missing /\ a \in Int /\ b \in Int /\ w = <<a, b>>
  BY DEF Windows, Span, Recorded, Dated
<1>2. Dated(m) /\ m.contract # Missing
  BY <1>1 DEF Recorded
<1>3. Complete(s, w) <=>
        /\ a <= b /\ s \in ScopesOf(m) /\ \A d \in a..b : DayProven(m, s, d)
        /\ record.contract = m.contract
        /\ ~(m.partial /\ b >= m.end)
  BY <1>1, <1>2, CompleteMeans DEF Complete
<1>4. Full(m, s, w) <=> a <= b /\ s \in ScopesOf(m) /\ \A d \in a..b : DayProven(m, s, d)
  BY <1>1, FullCalendar
<1>5. ASSUME Complete(s, w), NEW p \in m.gaps, p[1] = s, p[2] \in a..b PROVE FALSE
  <2>1. DayProven(m, s, p[2]) /\ p = <<s, p[2]>>
    BY <1>2, <1>3, <1>5 DEF Dated
  <2> QED BY <2>1, <1>5 DEF DayProven
<1>6. Signature(m, s, a, b) # Missing =>
        Full(m, s, <<a, a + Cardinality(Signature(m, s, a, b).ordinals) - 1>>)
  BY <1>1, PrefixIsFull
<1> QED BY <1>3, <1>4, <1>5, <1>6

\* Windows join, and a part of a complete window is complete.
LEMMA WindowsJoin ==
  ASSUME MissingIsApart, record # Missing => Recorded(record)
  PROVE  CompleteWindowsJoin
<1> SUFFICES ASSUME NEW s \in AnyScope, NEW v \in Windows, NEW w \in Windows
    PROVE  /\ Complete(s, v) /\ Complete(s, w) /\ v[2] + 1 = w[1] => Complete(s, <<v[1], w[2]>>)
           /\ Complete(s, w) /\ w[1] <= v[1] /\ v[2] <= w[2] => Complete(s, v)
  BY DEF CompleteWindowsJoin
<1> DEFINE m == record.manifest
           Whole(a, b) == /\ a <= b /\ s \in ScopesOf(m) /\ \A d \in a..b : DayProven(m, s, d)
                          /\ record.contract = m.contract
                          /\ ~(m.partial /\ b >= m.end)
<1>1. /\ Recorded(record) /\ m # Missing
      /\ v[1] \in Int /\ v[2] \in Int /\ v = <<v[1], v[2]>> /\ v[1] <= v[2]
      /\ w[1] \in Int /\ w[2] \in Int /\ w = <<w[1], w[2]>> /\ w[1] <= w[2]
  BY DEF Windows, Span, Recorded, Dated
<1>2. m.contract # Missing /\ m.end \in Int
  BY <1>1 DEF Recorded, Dated
<1>3. ASSUME NEW a \in Int, NEW b \in Int PROVE Complete(s, <<a, b>>) <=> Whole(a, b)
  <2>1. Completeness(record, s, a, b) = "complete" <=> Whole(a, b)
    BY <1>1, <1>2, CompleteMeans
  <2> QED BY <2>1 DEF Complete
<1>4. ASSUME Complete(s, v), Complete(s, w), v[2] + 1 = w[1] PROVE Complete(s, <<v[1], w[2]>>)
  <2>1. Whole(v[1], v[2]) /\ Whole(w[1], w[2])
    BY <1>1, <1>3, <1>4
  <2>2. \A d \in v[1]..w[2] : d \in v[1]..v[2] \/ d \in w[1]..w[2]
    BY <1>1, <1>4
  <2>3. Whole(v[1], w[2])
    BY <1>1, <1>2, <2>1, <2>2, <1>4
  <2> QED BY <1>1, <1>3, <2>3
<1>5. ASSUME Complete(s, w), w[1] <= v[1], v[2] <= w[2] PROVE Complete(s, v)
  <2>1. Whole(w[1], w[2])
    BY <1>1, <1>3, <1>5
  <2>2. v[1]..v[2] \subseteq w[1]..w[2]
    BY <1>1, <1>5
  <2>3. Whole(v[1], v[2])
    BY <1>1, <1>2, <2>1, <2>2, <1>5
  <2> QED BY <1>1, <1>3, <2>3
<1> QED BY <1>4, <1>5

\* The same attestation, so many days later.
LEMMA ShiftedDays ==
  ASSUME NEW m, Dated(m), NEW s, NEW d \in Int, NEW later,
         later.pairs = {<<p[1], p[2] + 30>> : p \in m.pairs}, later.gaps = {<<p[1], p[2] + 30>> : p \in m.gaps}
  PROVE  DayProven(later, s, d + 30) <=> DayProven(m, s, d)
<1>1. ASSUME NEW P, \A p \in P : p = <<p[1], p[2]>> /\ p[2] \in Int
      PROVE  <<s, d + 30>> \in {<<p[1], p[2] + 30>> : p \in P} <=> <<s, d>> \in P
  <2>1. ASSUME <<s, d + 30>> \in {<<p[1], p[2] + 30>> : p \in P} PROVE <<s, d>> \in P
    <3>1. PICK p \in P : <<s, d + 30>> = <<p[1], p[2] + 30>>
      BY <2>1
    <3>2. p[1] = s /\ p[2] = d
      BY <1>1, <3>1
    <3> QED BY <1>1, <3>2
  <2>2. ASSUME <<s, d>> \in P PROVE <<s, d + 30>> \in {<<p[1], p[2] + 30>> : p \in P}
    BY <2>2
  <2> QED BY <2>1, <2>2
<1>2. <<s, d + 30>> \in later.pairs <=> <<s, d>> \in m.pairs
  BY <1>1 DEF Dated
<1>3. <<s, d + 30>> \in later.gaps <=> <<s, d>> \in m.gaps
  BY <1>1 DEF Dated
<1> QED BY <1>2, <1>3 DEF DayProven

\* A signature counts days from the first of its window, whatever its date.
LEMMA ShiftedSignature ==
  ASSUME NEW m, Dated(m), NEW s, NEW a \in Int, NEW b \in Int, NEW later,
         later.aggregate = m.aggregate, later.roster = m.roster,
         later.pairs = {<<p[1], p[2] + 30>> : p \in m.pairs}, later.gaps = {<<p[1], p[2] + 30>> : p \in m.gaps}
  PROVE  Signature(later, s, a + 30, b + 30) = Signature(m, s, a, b)
<1>1. ASSUME NEW n \in 1..(b - a + 1) PROVE DayProven(later, s, (a + 30) + n - 1) <=> DayProven(m, s, a + n - 1)
  <2>1. a + n - 1 \in Int /\ (a + 30) + n - 1 = (a + n - 1) + 30
    OBVIOUS
  <2> QED BY <2>1, ShiftedDays
<1>2. (b + 30) - (a + 30) + 1 = b - a + 1
  OBVIOUS
<1>3. Ordinals(later, s, a + 30, b + 30) = Ordinals(m, s, a, b)
  BY <1>1, <1>2 DEF Ordinals
<1>4. ScopesOf(later) = ScopesOf(m)
  BY DEF ScopesOf
<1>5. b + 30 < a + 30 <=> b < a
  OBVIOUS
<1> QED BY <1>2, <1>3, <1>4, <1>5 DEF Signature

\* The first days of a signed window are signed as a window of their own.
LEMMA FirstDays ==
  ASSUME MissingIsApart, NEW m, NEW s, NEW a \in Int, NEW b \in Int, Signature(m, s, a, b) # Missing,
         NEW n \in 0..(Signature(m, s, a, b).days + 1)
  PROVE  LET whole == Signature(m, s, a, b)
             part == ProjectPrefix(whole, n)
         IN IF n \notin 1..whole.days \/ whole.mode = PREFIX THEN part = Missing
            ELSE [part EXCEPT !.mode = FULL_CALENDAR] = Signature(m, s, a, a + n - 1)
<1> DEFINE whole == Signature(m, s, a, b)
           k == b - a + 1
<1>1. a <= b /\ s \in ScopesOf(m) /\ whole.days = k /\ k \in Nat /\ n \in Int
  BY DEF Signature
<1> HIDE DEF whole
<1>2. CASE n \notin 1..whole.days \/ whole.mode = PREFIX
  <2>1. n < 1 \/ n > whole.days \/ whole.mode # FULL_CALENDAR
    BY <1>1, <1>2, ModesDiffer
  <2>2. ProjectPrefix(whole, n) = Missing
    BY <2>1 DEF ProjectPrefix
  <2> QED BY <1>2, <2>2 DEF whole
<1>3. CASE n \in 1..whole.days /\ whole.mode # PREFIX
  <2>1. Full(m, s, <<a, b>>)
    <3>1. whole.mode = FULL_CALENDAR
      BY <1>3 DEF Signature, ModeOf, whole
    <3> QED BY <3>1 DEF Full, whole
  <2>2. \A d \in a..b : DayProven(m, s, d)
    BY <2>1, FullCalendar
  <2>3. whole = [scope |-> s, mode |-> FULL_CALENDAR, ordinals |-> 1..k, days |-> k]
    BY <1>1, <2>2, WholeSignature DEF whole
  <2>4. {x \in whole.ordinals : x <= n} = 1..n
    BY <1>1, <1>3, <2>3
  <2>5. Cardinality(1..n) = n
    BY <1>1, <1>3, FS_Interval
  <2>6. ProjectPrefix(whole, n) = [scope |-> s, mode |-> PREFIX, ordinals |-> 1..n, days |-> n]
    <3>1. ~(n < 1) /\ whole.mode = FULL_CALENDAR /\ ~(n > whole.days)
      BY <1>1, <1>3, <2>3
    <3>2. ProjectPrefix(whole, n) = [whole EXCEPT !.mode = PREFIX, !.ordinals = 1..n, !.days = n]
      BY <3>1, <2>4, <2>5 DEF ProjectPrefix
    <3> QED BY <3>2, <2>3
  <2>7. Signature(m, s, a, a + n - 1) = [scope |-> s, mode |-> FULL_CALENDAR, ordinals |-> 1..n, days |-> n]
    <3>1. a + n - 1 \in Int /\ a <= a + n - 1 /\ a..(a + n - 1) \subseteq a..b /\ (a + n - 1) - a + 1 = n
      BY <1>1, <1>3
    <3> QED BY <1>1, <2>2, <3>1, WholeSignature
  <2> QED BY <1>3, <2>6, <2>7 DEF whole
<1> QED BY <1>2, <1>3 DEF whole

LEMMA ProjectionsAgree ==
  ASSUME MissingIsApart, record # Missing => Recorded(record)
  PROVE  ProjectionIsItsOwnWindow
<1> SUFFICES ASSUME NEW s \in AnyScope, NEW w \in Windows
    PROVE  LET m == record.manifest
               whole == Signature(m, s, w[1], w[2])
               later == [m EXCEPT !.start = @ + 30, !.end = @ + 30,
                                  !.pairs = {<<p[1], p[2] + 30>> : p \in @}, !.gaps = {<<p[1], p[2] + 30>> : p \in @}]
           IN /\ Signature(later, s, w[1] + 30, w[2] + 30) = whole
              /\ whole # Missing => \A n \in 0..(whole.days + 1) :
                   LET part == ProjectPrefix(whole, n)
                   IN IF n \notin 1..whole.days \/ whole.mode = PREFIX THEN part = Missing
                      ELSE [part EXCEPT !.mode = FULL_CALENDAR] = Signature(m, s, w[1], w[1] + n - 1)
  BY DEF ProjectionIsItsOwnWindow
<1> DEFINE m == record.manifest
           later == [m EXCEPT !.start = @ + 30, !.end = @ + 30,
                              !.pairs = {<<p[1], p[2] + 30>> : p \in @}, !.gaps = {<<p[1], p[2] + 30>> : p \in @}]
<1>1. Recorded(record) /\ m # Missing /\ w[1] \in Int /\ w[2] \in Int
  BY DEF Windows, Span, Recorded, Dated
<1>2. Dated(m)
  BY <1>1 DEF Recorded
<1>3. /\ later.aggregate = m.aggregate /\ later.roster = m.roster
      /\ later.pairs = {<<p[1], p[2] + 30>> : p \in m.pairs} /\ later.gaps = {<<p[1], p[2] + 30>> : p \in m.gaps}
  BY <1>2 DEF Dated
<1> HIDE DEF m, later
<1>4. Signature(later, s, w[1] + 30, w[2] + 30) = Signature(m, s, w[1], w[2])
  BY <1>1, <1>2, <1>3, ShiftedSignature
<1>5. ASSUME Signature(m, s, w[1], w[2]) # Missing, NEW n \in 0..(Signature(m, s, w[1], w[2]).days + 1)
      PROVE  LET whole == Signature(m, s, w[1], w[2])
                 part == ProjectPrefix(whole, n)
             IN IF n \notin 1..whole.days \/ whole.mode = PREFIX THEN part = Missing
                ELSE [part EXCEPT !.mode = FULL_CALENDAR] = Signature(m, s, w[1], w[1] + n - 1)
  BY <1>1, <1>5, FirstDays
<1> QED BY <1>4, <1>5 DEF m, later

----------------------------------------------------------------------------
(* What callers are told.                                                  *)

Steps == {"asked", "declared", "reading", "refused", "raised", "conflict", "answered"}

\* Where each caller is, and under what it asks.
CallersAreTyped ==
  /\ question \in [Profilers -> Questions]
  /\ progress = [step |-> progress.step, evidence |-> progress.evidence]
  /\ progress.step \in [Profilers -> Steps]

RecordIsTyped == record # Missing => Recorded(record)

\* What a caller beyond the route's refusals declared can be used.
UsableOrNone(q) == RequestedManifest(q, "") = Missing \/ Usable(RequestedManifest(q, ""))
DeclaredIsUsable ==
  \A c \in Profilers : progress.step[c] \notin {"asked", "refused"} => UsableOrNone(question[c])

\* What a caller was told, the record would tell it still.
ToldByTheRecord ==
  \A c \in Profilers : progress.step[c] \in {"conflict", "answered"} =>
    record # Missing /\ Answering(record, question[c]) = progress.step[c]

EvidenceOfTheRecord ==
  progress.evidence # Missing =>
    /\ record # Missing
    /\ progress.evidence = [signatures |-> SignaturesOf(record.manifest), bases |-> DailyBasesOf(record.manifest)]

CoverageInv ==
  CallersAreTyped /\ RecordIsTyped /\ DeclaredIsUsable /\ ToldByTheRecord /\ EvidenceOfTheRecord

\* The profile of a question is one.
LEMMA ProfilesAreRecorded ==
  ASSUME QuestionsAreDeclared, NEW q \in Questions
  PROVE  Recorded(ProfileOf(q)) /\ ProfileOf(q).contract = q.contract
<1> DEFINE m == RequestedManifest(q, q.contract)
           a == q.attestation
<1>1. ASSUME m # Missing PROVE Dated(m) /\ m.contract = q.contract
  <2>1. a # Missing /\ m = ToManifest(a, q.contract)
    BY <1>1 DEF RequestedManifest
  <2>2. a.start \in Int /\ a.end \in Int /\ a.partial \in BOOLEAN /\ a.days \subseteq Int /\ a.gaps \subseteq Int
    BY <2>1 DEF QuestionsAreDeclared
  <2>3. \A p \in Pairs(a, a.days) \cup Pairs(a, a.gaps) : p = <<p[1], p[2]>> /\ p[2] \in Int
    BY <2>2 DEF Pairs
  <2>4. /\ m.start = a.start /\ m.end = a.end /\ m.partial = a.partial /\ m.contract = q.contract
        /\ m.pairs = Pairs(a, a.days) /\ m.gaps = Pairs(a, a.gaps)
        /\ {"aggregate", "roster", "start", "end", "pairs", "gaps"} \subseteq DOMAIN m
    BY <2>1 DEF ToManifest
  <2> QED BY <2>2, <2>3, <2>4 DEF Dated
<1>2. q.contract # Missing
  BY DEF QuestionsAreDeclared
<1> QED BY <1>1, <1>2 DEF ProfileOf, Recorded

\* Whether a declaration can be used does not depend on what it is bound to.
LEMMA UsableWhateverTheReading ==
  ASSUME NEW a, NEW c, NEW d, Usable(ToManifest(a, c))
  PROVE  Usable(ToManifest(a, d))
BY DEF Usable, OneScopeMode, ScopesOf, ToManifest

\* A record answers the questions it is the profile of, and no other.
LEMMA AnswersItsOwn ==
  ASSUME MissingIsApart, QuestionsAreDeclared, NEW q \in Questions, UsableOrNone(q),
         NEW r, Recorded(r), Answering(r, q) = "answered"
  PROVE  /\ r = ProfileOf(q)
         /\ r.manifest # Missing => Usable(r.manifest) /\ Bound(r.manifest)
<1>1. /\ r.semantics = q.semantics /\ r.contract = q.contract
      /\ r.manifest = RequestedManifest(q, IF r.contract = Missing THEN "" ELSE r.contract)
      /\ Bindable(RequestedManifest(q, IF r.contract = Missing THEN "" ELSE r.contract))
  BY DEF Answering, RecordedContract
<1>2. r.contract # Missing
  BY <1>1 DEF QuestionsAreDeclared
<1>3. r.manifest = RequestedManifest(q, q.contract) /\ Bindable(r.manifest)
  BY <1>1, <1>2
<1>4. r = ProfileOf(q)
  BY <1>1, <1>3 DEF Recorded, ProfileOf
<1>5. ASSUME r.manifest # Missing PROVE Usable(r.manifest) /\ Bound(r.manifest)
  <2>1. q.attestation # Missing /\ r.manifest = ToManifest(q.attestation, q.contract)
    BY <1>3, <1>5 DEF RequestedManifest
  <2>2. RequestedManifest(q, "") = ToManifest(q.attestation, "")
    BY <2>1 DEF RequestedManifest
  <2>3. ToManifest(q.attestation, "") # Missing
    <3>1. "contract" \in DOMAIN ToManifest(q.attestation, "")
      BY DEF ToManifest
    <3> QED BY <3>1 DEF MissingIsApart
  <2>4. Usable(ToManifest(q.attestation, ""))
    BY <2>2, <2>3 DEF UsableOrNone
  <2> QED BY <1>3, <1>5, <2>1, <2>4, UsableWhateverTheReading DEF Bindable
<1> QED BY <1>4, <1>5

\* Evidence built from a record states what its manifest attests.
LEMMA EvidenceAttested ==
  ASSUME MissingIsApart, RecordIsTyped, EvidenceOfTheRecord
  PROVE  EvidenceIsAttested
<1> SUFFICES ASSUME progress.evidence # Missing, progress.evidence # NoEvidence
    PROVE  /\ \A r \in Range(input.rows) : r.kind \in record.manifest.kinds
           /\ progress.evidence.signatures # {} =>
                {g.scope : g \in progress.evidence.signatures} = ScopesOf(record.manifest)
           /\ \A b \in progress.evidence.bases :
                /\ b.scope \in ScopesOf(record.manifest)
                /\ \A p \in record.manifest.gaps : p[1] = b.scope => p[2] \notin DOMAIN b.units \cup DOMAIN b.revenue
  BY DEF EvidenceIsAttested
<1> DEFINE m == record.manifest
           signed == {Signature(m, s, Min(Dates), Max(Dates)) : s \in ScopesOf(m)}
           days == AttestedDays(m, m.aggregate)
<1>1. /\ progress.evidence.signatures = SignaturesOf(m) /\ progress.evidence.bases = DailyBasesOf(m)
      /\ SignaturesOf(m) # {} \/ DailyBasesOf(m) # {}
  BY DEF EvidenceOfTheRecord, NoEvidence
<1>2. m # Missing /\ AttestsThePopulation(m)
  BY <1>1 DEF SignaturesOf, DailyBasesOf
<1>3. Dated(m)
  BY <1>2 DEF RecordIsTyped, Recorded, EvidenceOfTheRecord
<1>4. \A r \in Range(input.rows) : r.kind \in m.kinds
  BY <1>2 DEF AttestsThePopulation, Kinds
<1>5. ASSUME SignaturesOf(m) # {} PROVE {g.scope : g \in SignaturesOf(m)} = ScopesOf(m)
  <2>1. SignaturesOf(m) = signed /\ Missing \notin signed
    BY <1>5 DEF SignaturesOf
  <2>2. \A s \in ScopesOf(m) : Signature(m, s, Min(Dates), Max(Dates)).scope = s
    <3> SUFFICES ASSUME NEW s \in ScopesOf(m) PROVE Signature(m, s, Min(Dates), Max(Dates)).scope = s
      OBVIOUS
    <3>1. Signature(m, s, Min(Dates), Max(Dates)) # Missing
      BY <2>1
    <3> QED BY <3>1 DEF Signature
  <2> QED BY <2>1, <2>2
<1>6. ASSUME NEW b \in DailyBasesOf(m)
      PROVE  /\ b.scope \in ScopesOf(m)
             /\ \A p \in m.gaps : p[1] = b.scope => p[2] \notin DOMAIN b.units \cup DOMAIN b.revenue
  <2>1. m.aggregate # Missing /\ b.scope = m.aggregate /\ DOMAIN b.units = days /\ DOMAIN b.revenue = days
    BY DEF DailyBasesOf
  <2>2. ASSUME NEW p \in m.gaps, p[1] = b.scope, p[2] \in days PROVE FALSE
    <3>1. DayProven(m, m.aggregate, p[2])
      BY <2>2 DEF AttestedDays
    <3>2. p = <<m.aggregate, p[2]>>
      BY <1>3, <2>1, <2>2 DEF Dated
    <3> QED BY <3>1, <3>2 DEF DayProven
  <2> QED BY <2>1, <2>2 DEF ScopesOf
<1> QED BY <1>1, <1>4, <1>5, <1>6

----------------------------------------------------------------------------
(* The invariant is inductive.                                             *)

LEMMA CoverageStarts ==
  ASSUME LegacyIsRecorded, CoverageInit
  PROVE  CoverageInv
<1>1. CallersAreTyped
  BY DEF CoverageInit, CallersAreTyped, Steps
<1>2. RecordIsTyped
  BY DEF CoverageInit, RecordIsTyped, LegacyIsRecorded, Recorded
<1>3. DeclaredIsUsable /\ ToldByTheRecord /\ EvidenceOfTheRecord
  BY DEF CoverageInit, DeclaredIsUsable, ToldByTheRecord, EvidenceOfTheRecord
<1> QED BY <1>1, <1>2, <1>3 DEF CoverageInv

\* What is built of a manifest is a matter of the file.
LEMMA SameEvidence ==
  ASSUME UNCHANGED input, record' = record
  PROVE  /\ SignaturesOf(record.manifest)' = SignaturesOf(record.manifest)
         /\ DailyBasesOf(record.manifest)' = DailyBasesOf(record.manifest)
<1>1. Kinds' = Kinds /\ Dates' = Dates
  BY DEF Kinds, Dates
<1>2. AttestsThePopulation(record.manifest)' = AttestsThePopulation(record.manifest)
  BY <1>1 DEF AttestsThePopulation
<1> QED BY <1>1, <1>2 DEF SignaturesOf, DailyBasesOf

\* A caller moves alone.
LEMMA ReachMoves ==
  ASSUME CallersAreTyped, NEW c \in Profilers, NEW step \in Steps, Reach(c, step), UNCHANGED question
  PROVE  /\ CallersAreTyped'
         /\ progress'.step = [progress.step EXCEPT ![c] = step]
         /\ progress'.evidence = progress.evidence
BY DEF CallersAreTyped, Reach

LEMMA DeclareKeeps ==
  ASSUME CoverageInv, NEW c \in Profilers, Declare(c)
  PROVE  CoverageInv'
<1> DEFINE asked == RequestedManifest(question[c], "")
           step == IF asked # Missing /\ (asked.attested_by = "" \/ ~Usable(asked)) THEN "refused" ELSE "declared"
<1>1. step \in Steps /\ Reach(c, step) /\ UNCHANGED <<question, record, input>> /\ progress.step[c] = "asked"
  BY DEF Declare, Steps
<1>2. /\ CallersAreTyped' /\ progress'.step = [progress.step EXCEPT ![c] = step]
      /\ progress'.evidence = progress.evidence /\ progress.step \in [Profilers -> Steps]
  BY <1>1, ReachMoves DEF CoverageInv, CallersAreTyped
<1>3. RecordIsTyped'
  BY <1>1 DEF CoverageInv, RecordIsTyped, Recorded, Dated
<1>4. DeclaredIsUsable'
  BY <1>1, <1>2 DEF CoverageInv, DeclaredIsUsable, UsableOrNone
<1>5. ToldByTheRecord'
  BY <1>1, <1>2 DEF CoverageInv, ToldByTheRecord
<1>6. EvidenceOfTheRecord'
  BY <1>1, <1>2, SameEvidence DEF CoverageInv, EvidenceOfTheRecord
<1> QED BY <1>2, <1>3, <1>4, <1>5, <1>6 DEF CoverageInv

LEMMA LookKeeps ==
  ASSUME CoverageInv, NEW c \in Profilers, Look(c)
  PROVE  CoverageInv'
<1> DEFINE step == IF record = Missing THEN "reading" ELSE Answering(record, question[c])
<1>1. step \in Steps /\ Reach(c, step) /\ UNCHANGED <<question, record, input>> /\ progress.step[c] = "declared"
  BY DEF Look, Steps, Answering
<1>2. /\ CallersAreTyped' /\ progress'.step = [progress.step EXCEPT ![c] = step]
      /\ progress'.evidence = progress.evidence /\ progress.step \in [Profilers -> Steps]
  BY <1>1, ReachMoves DEF CoverageInv, CallersAreTyped
<1>3. RecordIsTyped'
  BY <1>1 DEF CoverageInv, RecordIsTyped, Recorded, Dated
<1>4. DeclaredIsUsable'
  BY <1>1, <1>2 DEF CoverageInv, DeclaredIsUsable
<1>5. ToldByTheRecord'
  BY <1>1, <1>2 DEF CoverageInv, ToldByTheRecord
<1>6. EvidenceOfTheRecord'
  BY <1>1, <1>2, SameEvidence DEF CoverageInv, EvidenceOfTheRecord
<1> QED BY <1>2, <1>3, <1>4, <1>5, <1>6 DEF CoverageInv

\* A record, once there, is never replaced: the loser is answered from it.
LEMMA StoreKeeps ==
  ASSUME QuestionsAreDeclared, MissingIsApart, CoverageInv, NEW c \in Profilers, Store(c)
  PROVE  CoverageInv'
<1> DEFINE profile == ProfileOf(question[c])
           step == IF Bindable(profile.manifest) THEN Answering(record', question[c]) ELSE "raised"
<1>1. /\ Reach(c, step) /\ UNCHANGED <<question, input>> /\ progress.step[c] = "reading"
      /\ record' = IF record = Missing /\ Bindable(profile.manifest) THEN profile ELSE record
  BY DEF Store
<1>2. question[c] \in Questions
  BY DEF CoverageInv, CallersAreTyped
<1>3. Recorded(profile) /\ profile # Missing
  <2>1. Recorded(profile)
    BY <1>2, ProfilesAreRecorded
  <2>2. "contract" \in DOMAIN profile
    BY DEF ProfileOf
  <2> QED BY <2>1, <2>2 DEF MissingIsApart
<1>4. step \in Steps
  BY DEF Steps, Answering
<1>5. /\ CallersAreTyped' /\ progress'.step = [progress.step EXCEPT ![c] = step]
      /\ progress'.evidence = progress.evidence /\ progress.step \in [Profilers -> Steps]
  BY <1>1, <1>4, ReachMoves DEF CoverageInv, CallersAreTyped
<1>6. record # Missing => record' = record
  BY <1>1
<1>7. RecordIsTyped'
  <2>1. ASSUME record' # Missing PROVE Recorded(record')
    BY <1>1, <1>3, <2>1 DEF CoverageInv, RecordIsTyped
  <2> QED BY <2>1 DEF RecordIsTyped, Recorded, Dated
<1>8. DeclaredIsUsable'
  BY <1>1, <1>5 DEF CoverageInv, DeclaredIsUsable
<1>9. ToldByTheRecord'
  <2> SUFFICES ASSUME NEW d \in Profilers, progress'.step[d] \in {"conflict", "answered"}
               PROVE  record' # Missing /\ Answering(record', question[d]) = progress'.step[d]
    BY <1>1 DEF ToldByTheRecord
  <2>1. CASE d = c
    <3>1. Bindable(profile.manifest) /\ progress'.step[d] = Answering(record', question[c])
      BY <1>5, <2>1
    <3> QED BY <1>1, <1>3, <2>1, <3>1
  <2>2. CASE d # c
    <3>1. progress'.step[d] = progress.step[d]
      BY <1>5, <2>2
    <3> QED BY <1>6, <3>1 DEF CoverageInv, ToldByTheRecord
  <2> QED BY <2>1, <2>2
<1>10. EvidenceOfTheRecord'
  BY <1>1, <1>5, <1>6, SameEvidence DEF CoverageInv, EvidenceOfTheRecord
<1> QED BY <1>5, <1>7, <1>8, <1>9, <1>10 DEF CoverageInv

LEMMA BuildKeeps ==
  ASSUME CoverageInv, BuildEvidence
  PROVE  CoverageInv'
<1>1. /\ UNCHANGED <<question, record, input>> /\ record # Missing
      /\ progress' = [progress EXCEPT !.evidence =
           [signatures |-> SignaturesOf(record.manifest), bases |-> DailyBasesOf(record.manifest)]]
  BY DEF BuildEvidence
<1>2. /\ CallersAreTyped' /\ progress'.step = progress.step
      /\ progress'.evidence = [signatures |-> SignaturesOf(record.manifest), bases |-> DailyBasesOf(record.manifest)]
  BY <1>1 DEF CoverageInv, CallersAreTyped
<1>3. RecordIsTyped' /\ DeclaredIsUsable' /\ ToldByTheRecord'
  BY <1>1, <1>2 DEF CoverageInv, RecordIsTyped, Recorded, Dated, DeclaredIsUsable, ToldByTheRecord
<1>4. EvidenceOfTheRecord'
  BY <1>1, <1>2, SameEvidence DEF EvidenceOfTheRecord
<1> QED BY <1>2, <1>3, <1>4 DEF CoverageInv

LEMMA CoverageIsInductive ==
  ASSUME QuestionsAreDeclared, MissingIsApart, CoverageInv, [CoverageNext]_cvars
  PROVE  CoverageInv'
<1>1. ASSUME NEW c \in Profilers, Declare(c) PROVE CoverageInv'
  BY <1>1, DeclareKeeps
<1>2. ASSUME NEW c \in Profilers, Look(c) PROVE CoverageInv'
  BY <1>2, LookKeeps
<1>3. ASSUME NEW c \in Profilers, Store(c) PROVE CoverageInv'
  BY <1>3, StoreKeeps
<1>4. CASE BuildEvidence
  BY <1>4, BuildKeeps
<1>5. CASE UNCHANGED cvars
  <2>1. UNCHANGED <<question, record, input, progress>>
    BY <1>5 DEF cvars
  <2>2. CallersAreTyped' /\ RecordIsTyped' /\ DeclaredIsUsable' /\ ToldByTheRecord'
    BY <2>1 DEF CoverageInv, CallersAreTyped, RecordIsTyped, Recorded, Dated, DeclaredIsUsable, ToldByTheRecord
  <2>3. EvidenceOfTheRecord'
    BY <2>1, SameEvidence DEF CoverageInv, EvidenceOfTheRecord
  <2> QED BY <2>2, <2>3 DEF CoverageInv
<1> QED BY <1>1, <1>2, <1>3, <1>4, <1>5 DEF CoverageNext

\* What the invariant gives.
LEMMA AnsweredFollows ==
  ASSUME QuestionsAreDeclared, MissingIsApart, CoverageInv
  PROVE  AnsweredAsAsked
<1> SUFFICES ASSUME NEW c \in Profilers, progress.step[c] = "answered"
             PROVE  /\ record = ProfileOf(question[c])
                    /\ record.manifest # Missing => Usable(record.manifest) /\ Bound(record.manifest)
  BY DEF AnsweredAsAsked
<1>1. question[c] \in Questions /\ UsableOrNone(question[c])
  BY DEF CoverageInv, CallersAreTyped, DeclaredIsUsable
<1>2. record # Missing /\ Recorded(record) /\ Answering(record, question[c]) = "answered"
  BY DEF CoverageInv, ToldByTheRecord, RecordIsTyped
<1> QED BY <1>1, <1>2, AnswersItsOwn

LEMMA CoverageFollows ==
  ASSUME QuestionsAreDeclared, MissingIsApart, CoverageInv
  PROVE  CoverageHolds
<1>1. CoverageTypeOK
  BY DEF CoverageInv, CallersAreTyped, RecordIsTyped, Recorded, Steps, CoverageTypeOK
<1>2. AnsweredAsAsked
  BY AnsweredFollows
<1>3. RepetitionNeverConflicts
  BY DEF CoverageInv, ToldByTheRecord, RepetitionNeverConflicts
<1>4. EvidenceIsAttested
  BY EvidenceAttested DEF CoverageInv
<1>5. CompletenessMatchesSignature /\ CompleteWindowsJoin /\ ProjectionIsItsOwnWindow
  BY SignaturesAgree, WindowsJoin, ProjectionsAgree DEF CoverageInv, RecordIsTyped
<1> QED BY <1>1, <1>2, <1>3, <1>4, <1>5 DEF CoverageHolds

----------------------------------------------------------------------------
(* The theorems.                                                           *)

\* Whatever callers ask of one upload and however they race, who is told its
\* question was answered is served a profile made under its own declaration, and
\* callers that ask the same are told the same (datasets.py _answering).
THEOREM QuestionsAreAnswered ==
  ASSUME QuestionsAreDeclared, LegacyIsRecorded, MissingIsApart
  PROVE  CoverageSpec => [](AnsweredAsAsked /\ RepetitionNeverConflicts)
<1>1. CoverageInv /\ [CoverageNext]_cvars => CoverageInv'
  BY CoverageIsInductive
<1>2. CoverageInit => CoverageInv
  BY CoverageStarts
<1>3. CoverageInv => AnsweredAsAsked /\ RepetitionNeverConflicts
  BY CoverageFollows, AnsweredFollows DEF CoverageInv, ToldByTheRecord, RepetitionNeverConflicts
<1> QED BY <1>1, <1>2, <1>3, PTL DEF CoverageSpec

\* Of every manifest a record may hold, however many its days and scopes: what the
\* profile calls complete, its signatures and their projections never disagree, and
\* the evidence of the package attests nothing the manifest does not.
THEOREM AttestationsAgree ==
  ASSUME QuestionsAreDeclared, LegacyIsRecorded, MissingIsApart
  PROVE  CoverageSpec => []CoverageHolds
<1>1. CoverageInv /\ [CoverageNext]_cvars => CoverageInv'
  BY CoverageIsInductive
<1>2. CoverageInit => CoverageInv
  BY CoverageStarts
<1>3. CoverageInv => CoverageHolds
  BY CoverageFollows
<1> QED BY <1>1, <1>2, <1>3, PTL DEF CoverageSpec

----------------------------------------------------------------------------
(* The words of a comparison.                                              *)

CAUSES == {SCOPE, MAPPING_DRIFT, FORMULA_DRIFT, PACKAGE_DRIFT, BASIS, STORE_SET, GRANULARITY, RETAIL_DAY, INCOMPLETE, UNORDERED_PAIR}
OUTCOMES == {"admitted", "refused", "unavailable", "raised"}
STEPS == {"asked", "scoped", "read", "subject loaded", "loaded", "decided", "audited", "answered"}

\* The absent value is no word of the comparison.
MissingIsNoWord == Missing \notin CAUSES \cup OUTCOMES \cup STEPS

----------------------------------------------------------------------------
(* Minima.                                                                 *)

\* Of any sets that are finite, one includes no other.
LEMMA SmallestSet ==
  ASSUME NEW U, U # {}, \A x \in U : IsFiniteSet(x)
  PROVE  \E x \in U : \A y \in U : y \subseteq x => y = x
<1> DEFINE S == UNION U
<1>1. U \subseteq FiniteSubsetsOf(S)
  BY DEF FiniteSubsetsOf
<1>2. \E x \in U : \A y \in U : ~(<<y, x>> \in StrictSubsetOrdering(S))
  <2> HIDE DEF IsWellFoundedOn, S
  <2> QED BY <1>1, FS_StrictSubsetOrderingWellFounded, WFMin
<1>3. \A x, y \in U : y \subseteq x /\ y # x => <<y, x>> \in StrictSubsetOrdering(S)
  BY DEF StrictSubsetOrdering
<1> QED BY <1>2, <1>3

\* Any numbers have a least one.
LEMMA LeastNumber ==
  ASSUME NEW T \in SUBSET Nat, T # {}
  PROVE  \E x \in T : \A y \in T : x <= y
<1> DEFINE U == {1..x : x \in T}
<1>1. U # {} /\ \A x \in U : IsFiniteSet(x)
  <2>1. \A x \in T : IsFiniteSet(1..x)
    BY FS_Interval
  <2> QED BY <2>1
<1>2. \E u \in U : \A y \in U : y \subseteq u => y = u
  <2> HIDE DEF U
  <2> QED BY <1>1, SmallestSet
<1>3. PICK x \in T : \A y \in U : y \subseteq 1..x => y = 1..x
  BY <1>2
<1>4. ASSUME NEW y \in T PROVE x <= y
  <2>1. 1..y \subseteq 1..x => 1..y = 1..x
    BY <1>3
  <2>2. x \in Nat /\ y \in Nat
    OBVIOUS
  <2>3. CASE y < x
    <3>1. 1..y \subseteq 1..x /\ x \in 1..x /\ x \notin 1..y
      BY <2>2, <2>3
    <3> QED BY <2>1, <3>1
  <2> QED BY <2>2, <2>3
<1> QED BY <1>4

LEMMA MinIsLeast ==
  ASSUME NEW T \in SUBSET Nat, T # {}
  PROVE  Min(T) \in T /\ \A y \in T : Min(T) <= y
BY LeastNumber DEF Min

----------------------------------------------------------------------------
(* The cause of a refusal.                                                 *)

LEMMA CausesListed ==
  ASSUME NEW s, NEW b
  PROVE  /\ DOMAIN Causes(s, b) = 1..14
         /\ Causes(s, b)[1] = <<s.package.mapping # b.package.mapping, MAPPING_DRIFT>>
         /\ Causes(s, b)[2] = <<s.package.formula # b.package.formula, FORMULA_DRIFT>>
         /\ Causes(s, b)[3] = <<s.package.version # b.package.version, PACKAGE_DRIFT>>
         /\ Causes(s, b)[4] = <<s.package.currency # b.package.currency, BASIS>>
         /\ Causes(s, b)[5] = <<PopulationScope(s) # PopulationScope(b), SCOPE>>
         /\ Causes(s, b)[6] = <<StoreSet(s) # StoreSet(b), STORE_SET>>
         /\ Causes(s, b)[7] = <<Range(s.package.kinds) # Range(b.package.kinds), BASIS>>
         /\ Causes(s, b)[8] = <<Range(s.package.statuses) # Range(b.package.statuses), BASIS>>
         /\ Causes(s, b)[9] = <<~CompositeProvenance(s, b), INCOMPLETE>>
         /\ Causes(s, b)[10] = <<s.version = b.version, UNORDERED_PAIR>>
         /\ Causes(s, b)[11] = <<s.granularity # b.granularity, GRANULARITY>>
         /\ Causes(s, b)[12] = <<~s.complete \/ ~b.complete, INCOMPLETE>>
         /\ Causes(s, b)[13] = <<SharedMetrics(s, b) = {}, INCOMPLETE>>
         /\ Causes(s, b)[14] = <<s.timezone # b.timezone, RETAIL_DAY>>
BY DEF Causes, Separations

\* What each of the causes that are about measurement asks.
LEMMA CausesAsk ==
  ASSUME NEW s, NEW b
  PROVE  /\ Causes(s, b)[4][1] = (s.package.currency # b.package.currency)
         /\ Causes(s, b)[5][1] = (PopulationScope(s) # PopulationScope(b))
         /\ Causes(s, b)[6][1] = (StoreSet(s) # StoreSet(b))
         /\ Causes(s, b)[7][1] = (Range(s.package.kinds) # Range(b.package.kinds))
         /\ Causes(s, b)[9][1] = ~CompositeProvenance(s, b)
         /\ Causes(s, b)[12][1] = (~s.complete \/ ~b.complete)
         /\ Causes(s, b)[14][1] = (s.timezone # b.timezone)
BY CausesListed

\* A pair is admitted only where nothing separates the two.
LEMMA AdmittedUnseparated ==
  ASSUME MissingIsNoWord, NEW s, NEW b, AdmissionCause(s, b) = Missing
  PROVE  \A n \in 1..14 : ~Causes(s, b)[n][1]
<1> DEFINE held == {n \in DOMAIN Causes(s, b) : Causes(s, b)[n][1]}
<1>1. \A n \in 1..14 : Causes(s, b)[n][2] \in CAUSES
  <2>1. ASSUME NEW n \in 1..14 PROVE Causes(s, b)[n][2] \in CAUSES
    <3>1. n \in {1, 2, 3, 4, 5, 6, 7, 8, 9, 10, 11, 12, 13, 14}
      OBVIOUS
    <3> QED BY <3>1, CausesListed DEF CAUSES
  <2> QED BY <2>1
<1>2. DOMAIN Causes(s, b) = 1..14
  BY CausesListed
<1>3. ASSUME held # {} PROVE FALSE
  <2>1. held \in SUBSET Nat
    BY <1>2
  <2>2. Min(held) \in held
    BY <1>3, <2>1, MinIsLeast
  <2>3. AdmissionCause(s, b) = Causes(s, b)[Min(held)][2]
    BY <1>3 DEF AdmissionCause
  <2> QED BY <1>1, <1>2, <2>2, <2>3 DEF MissingIsNoWord
<1> QED BY <1>2, <1>3

LEMMA SharedAlike ==
  ASSUME NEW s, NEW b
  PROVE  SharedMetrics(s, b) \subseteq SharedMetrics(b, s)
<1> SUFFICES ASSUME NEW f \in Range(s.facts), Counterpart(b, f) # {} PROVE f.metric \in SharedMetrics(b, s)
  BY DEF SharedMetrics
<1>1. PICK g \in Range(b.facts) : g.metric = f.metric /\ g.unit = f.unit
  BY DEF Counterpart
<1>2. f \in Counterpart(s, g)
  BY <1>1 DEF Counterpart
<1> QED BY <1>1, <1>2 DEF SharedMetrics

\* Nothing separates one of two from the other that does not separate the other
\* from it.
LEMMA CausesAlike ==
  ASSUME NEW s, NEW b, NEW n \in 1..14
  PROVE  Causes(s, b)[n] = Causes(b, s)[n]
<1>1. SharedMetrics(s, b) = SharedMetrics(b, s)
  BY SharedAlike
<1>2. CompositeProvenance(s, b) <=> CompositeProvenance(b, s)
  BY <1>1 DEF CompositeProvenance
<1>3. n \in {1, 2, 3, 4, 5, 6, 7, 8, 9, 10, 11, 12, 13, 14}
  OBVIOUS
<1>4. Causes(s, b)[1] = Causes(b, s)[1] /\ Causes(s, b)[2] = Causes(b, s)[2] /\ Causes(s, b)[3] = Causes(b, s)[3]
  BY CausesListed
<1>5. Causes(s, b)[4] = Causes(b, s)[4] /\ Causes(s, b)[5] = Causes(b, s)[5] /\ Causes(s, b)[6] = Causes(b, s)[6]
  BY CausesListed
<1>6. Causes(s, b)[7] = Causes(b, s)[7] /\ Causes(s, b)[8] = Causes(b, s)[8]
  BY CausesListed
<1>7. Causes(s, b)[9] = Causes(b, s)[9]
  BY <1>2, CausesListed
<1>8. Causes(s, b)[10] = Causes(b, s)[10] /\ Causes(s, b)[11] = Causes(b, s)[11]
  BY CausesListed
<1>9. Causes(s, b)[12] = Causes(b, s)[12] /\ Causes(s, b)[13] = Causes(b, s)[13]
  <2>1. Causes(s, b)[12] = <<~s.complete \/ ~b.complete, INCOMPLETE>>
    BY CausesListed
  <2>2. Causes(b, s)[12] = <<~b.complete \/ ~s.complete, INCOMPLETE>>
    BY CausesListed
  <2>3. (~s.complete \/ ~b.complete) <=> (~b.complete \/ ~s.complete)
    OBVIOUS
  <2>4. Causes(s, b)[12] = Causes(b, s)[12]
    BY <2>1, <2>2, <2>3
  <2>5. Causes(s, b)[13] = Causes(b, s)[13]
    BY <1>1, CausesListed
  <2> QED BY <2>4, <2>5
<1>10. Causes(s, b)[14] = Causes(b, s)[14]
  BY CausesListed
<1> QED BY <1>3, <1>4, <1>5, <1>6, <1>7, <1>8, <1>9, <1>10

LEMMA CauseAlike ==
  ASSUME NEW s, NEW b
  PROVE  AdmissionCause(s, b) = AdmissionCause(b, s)
<1>1. DOMAIN Causes(s, b) = 1..14 /\ DOMAIN Causes(b, s) = 1..14
  BY CausesListed
<1>2. {n \in DOMAIN Causes(s, b) : Causes(s, b)[n][1]} = {n \in DOMAIN Causes(b, s) : Causes(b, s)[n][1]}
  BY <1>1, CausesAlike
<1> DEFINE held == {n \in DOMAIN Causes(s, b) : Causes(s, b)[n][1]}
<1>3. held # {} => Min(held) \in 1..14
  <2>1. held \in SUBSET Nat /\ held \subseteq 1..14
    BY <1>1
  <2> QED BY <2>1, MinIsLeast
<1>4. held # {} => Causes(s, b)[Min(held)] = Causes(b, s)[Min(held)]
  BY <1>3, CausesAlike
<1> QED BY <1>2, <1>4 DEF AdmissionCause

----------------------------------------------------------------------------
(* The run that completed last.                                            *)

LEMMA LowestExists ==
  ASSUME NEW C, IsFiniteSet(C), C # {}, NEW above \in [C -> SUBSET C]
  PROVE  \E r \in C : \A s \in C : above[s] \subseteq above[r] => above[s] = above[r]
<1> DEFINE U == {above[r] : r \in C}
<1>1. U # {}
  OBVIOUS
<1>2. \A x \in U : IsFiniteSet(x)
  BY FS_Subset
<1>3. \E x \in U : \A y \in U : y \subseteq x => y = x
  <2> HIDE DEF U
  <2> QED BY <1>1, <1>2, SmallestSet
<1>4. PICK x \in U : \A y \in U : y \subseteq x => y = x
  BY <1>3
<1>5. PICK r \in C : x = above[r]
  OBVIOUS
<1> QED BY <1>4, <1>5

LEMMA LatestExists ==
  ASSUME NEW runs, RunsAreOrdered(runs), NEW C \in SUBSET runs, \A r \in C : r.completed_at # Missing, C # {}
  PROVE  \E r \in C : \A s \in C \ {r} : LaterRun(r, s)
<1> DEFINE Above(r) == {s \in C : LaterRun(s, r)}
<1>3. \E r \in C : \A s \in C : Above(s) \subseteq Above(r) => Above(s) = Above(r)
  <2> DEFINE above == [r \in C |-> Above(r)]
  <2>1. IsFiniteSet(C)
    BY FS_Subset DEF RunsAreOrdered
  <2>2. above \in [C -> SUBSET C]
    OBVIOUS
  <2>3. \E r \in C : \A s \in C : above[s] \subseteq above[r] => above[s] = above[r]
    <3> HIDE DEF above
    <3> QED BY <2>1, <2>2, LowestExists
  <2> QED BY <2>2, <2>3
<1>4. \A p, q \in C : /\ p.run_id \in Int /\ q.run_id \in Int /\ p.completed_at \in Int /\ q.completed_at \in Int
                      /\ p.run_id = q.run_id => p = q
  BY DEF RunsAreOrdered
<1>1. PICK r \in C : \A s \in C : Above(s) \subseteq Above(r) => Above(s) = Above(r)
  BY <1>3
<1>5. Above(r) = {}
  <2> SUFFICES ASSUME NEW s \in C, LaterRun(s, r) PROVE FALSE
    OBVIOUS
  <2>1. Above(s) \subseteq Above(r)
    BY <1>4 DEF LaterRun
  <2>2. s \in Above(r) /\ s \notin Above(s)
    BY <1>4 DEF LaterRun
  <2> QED BY <1>1, <2>1, <2>2
<1>6. \A s \in C \ {r} : LaterRun(r, s)
  <2> SUFFICES ASSUME NEW s \in C, s # r PROVE LaterRun(r, s)
    OBVIOUS
  <2>1. ~LaterRun(s, r)
    BY <1>5
  <2> QED BY <1>4, <2>1 DEF LaterRun
<1> QED BY <1>6

----------------------------------------------------------------------------
(* Operands.                                                               *)

\* What a loaded operand says is what was kept of its run.
LEMMA OperandSays ==
  ASSUME NEW v, NEW r, Operand(v, r).state = "loaded"
  PROVE  LET o == Operand(v, r) IN
         /\ o.version = v /\ o.run_id = r.run_id /\ o.package = r.kept.declared /\ o.signatures = r.kept.signatures
         /\ o.aggregate = r.kept.manifest.aggregate /\ o.timezone = r.kept.manifest.timezone
         /\ o.complete = PeriodComplete(r.kept.manifest, r.kept.provenance[1], r.kept.provenance[2])
         /\ r.kept.sealed = "same" /\ r.kept.manifest # Missing /\ r.kept.provenance # Missing
<1>1. PackageUsable(r.kept) /\ r.kept.manifest # Missing /\ r.kept.provenance # Missing
  BY DEF Operand, Unloaded
<1>2. r.kept.sealed = "same"
  BY <1>1 DEF PackageUsable
<1> QED BY <1>1, <1>2 DEF Operand

LEMMA OperandStates ==
  ASSUME NEW v, NEW r
  PROVE  Operand(v, r).state \in {"missing", "incomplete", "loaded"}
BY DEF Operand, Unloaded

----------------------------------------------------------------------------
(* The invariant.                                                          *)

\* The operand is of the run that completed last.
Taken(o, v) ==
  \E r \in world[v].runs :
    /\ o = Operand(v, r) /\ r.completed_at # Missing
    /\ \A q \in world[v].runs : q.completed_at # Missing => r.completed_at >= q.completed_at

\* An operand that says anything is of a version that was not revoked before.
Fresh(o, v, before) ==
  /\ o.state \in {"missing", "incomplete", "loaded"}
  /\ o.state # "missing" => Taken(o, v) /\ world[v].revoked \notin before

BeforeSubject == {"asked", "scoped", "read"}
BeforeBaseline == BeforeSubject \cup {"subject loaded"}
Word == IF Admitted THEN "completed" ELSE "failed"

ScopeIsTyped == WorldIsKept(world) /\ request.subject \in DOMAIN world /\ request.baseline \in DOMAIN world

RequestIsTyped ==
  /\ loaded = [step |-> loaded.step, subject |-> loaded.subject, baseline |-> loaded.baseline]
  /\ loaded.step \in STEPS
  /\ outcome = [kind |-> outcome.kind, cause |-> outcome.cause, bundle |-> outcome.bundle,
                audit |-> outcome.audit, said |-> outcome.said]
  /\ outcome.kind \in {Missing} \cup OUTCOMES

\* What is recorded and told at each step of a request.
OutcomeFollowsStep ==
  /\ loaded.step \in {"asked", "scoped", "read", "subject loaded", "loaded"} => outcome = NoOutcome
  /\ loaded.step \in STEPS \ {"asked", "answered"} => request.member
  /\ loaded.step \in {"scoped", "read", "subject loaded", "loaded"} => ~ShapeRefused
  /\ loaded.step = "decided" => outcome.audit = <<>>
  /\ loaded.step = "audited" => outcome.audit = <<Word>>
  /\ loaded.step = "answered" => outcome.audit = IF request.member THEN <<Word>> ELSE <<>>
  /\ outcome.said => loaded.step = "answered"

OperandsAreFresh ==
  /\ loaded.step \in {"subject loaded", "loaded"} \/ Admitted => Fresh(loaded.subject, request.subject, BeforeSubject)
  /\ loaded.step = "loaded" \/ Admitted => Fresh(loaded.baseline, request.baseline, BeforeBaseline)

AdmittedUnlikeNothing ==
  Admitted =>
    /\ loaded.step \in {"decided", "audited", "answered"}
    /\ request.member /\ ~ShapeRefused
    /\ loaded.subject.state = "loaded" /\ loaded.baseline.state = "loaded"
    /\ AdmissionCause(loaded.subject, loaded.baseline) = Missing

ComparisonInv == ScopeIsTyped /\ RequestIsTyped /\ OutcomeFollowsStep /\ OperandsAreFresh /\ AdmittedUnlikeNothing

\* What is loaded of a version is fresh.
LEMMA LoadIsFresh ==
  ASSUME MissingIsNoWord, WorldIsKept(world), NEW v \in DOMAIN world, NEW before, before \subseteq STEPS
  PROVE  Fresh(LoadOperand(v), v, before)
<1>1. CASE Completed(v) = {}
  BY <1>1 DEF LoadOperand, Unloaded, Fresh
<1>2. CASE Completed(v) # {}
  <2> DEFINE r == LatestCompleted(v)
  <2>1. world[v].live /\ Completed(v) = {r1 \in world[v].runs : r1.completed_at # Missing}
    BY <1>2 DEF Completed, LiveRuns
  <2>2. Completed(v) \in SUBSET world[v].runs /\ \A r1 \in Completed(v) : r1.completed_at # Missing
    BY <2>1
  <2>3. RunsAreOrdered(world[v].runs)
    BY DEF WorldIsKept
  <2>4. \E r1 \in Completed(v) : \A s \in Completed(v) \ {r1} : LaterRun(r1, s)
    BY <1>2, <2>2, <2>3, LatestExists
  <2>5. r \in Completed(v) /\ \A s \in Completed(v) \ {r} : LaterRun(r, s)
    BY <2>4 DEF LatestCompleted
  <2>6. \A q \in world[v].runs : q.completed_at # Missing => r.completed_at >= q.completed_at
    <3> SUFFICES ASSUME NEW q \in world[v].runs, q.completed_at # Missing PROVE r.completed_at >= q.completed_at
      OBVIOUS
    <3>1. q \in Completed(v) /\ q.completed_at \in Int /\ r.completed_at \in Int
      BY <2>1, <2>3, <2>5 DEF RunsAreOrdered
    <3>2. CASE q = r
      BY <3>1, <3>2
    <3>3. CASE q # r
      BY <2>5, <3>1, <3>3 DEF LaterRun
    <3> QED BY <3>2, <3>3
  <2>7. LoadOperand(v) = Operand(v, r)
    BY <1>2 DEF LoadOperand
  <2>8. Taken(LoadOperand(v), v)
    BY <2>2, <2>5, <2>6, <2>7 DEF Taken
  <2>9. world[v].revoked \notin before
    BY <2>1 DEF WorldIsKept, MissingIsNoWord
  <2> QED BY <2>7, <2>8, <2>9, OperandStates DEF Fresh
<1> QED BY <1>1, <1>2

LEMMA ComparisonStarts ==
  ASSUME MissingIsNoWord, WorldsAreKept, CrossVersionInit
  PROVE  ComparisonInv
<1>1. loaded = [step |-> "asked", subject |-> Missing, baseline |-> Missing] /\ outcome = NoOutcome /\ ~Admitted
  BY DEF CrossVersionInit, NoOutcome, Admitted, MissingIsNoWord, OUTCOMES
<1>2. ScopeIsTyped
  BY DEF CrossVersionInit, WorldsAreKept, ScopeIsTyped
<1>3. RequestIsTyped
  BY <1>1 DEF RequestIsTyped, STEPS, NoOutcome
<1>4. OutcomeFollowsStep
  BY <1>1 DEF OutcomeFollowsStep, NoOutcome
<1>5. OperandsAreFresh /\ AdmittedUnlikeNothing
  BY <1>1 DEF OperandsAreFresh, AdmittedUnlikeNothing
<1> QED BY <1>2, <1>3, <1>4, <1>5 DEF ComparisonInv

LEMMA ResolveKeeps ==
  ASSUME MissingIsNoWord, ComparisonInv, ResolveScope
  PROVE  ComparisonInv'
<1>1. /\ loaded.step = "asked" /\ outcome = NoOutcome /\ UNCHANGED <<request, world>>
      /\ loaded = [step |-> "asked", subject |-> loaded.subject, baseline |-> loaded.baseline]
  BY DEF ResolveScope, ComparisonInv, OutcomeFollowsStep, RequestIsTyped
<1>2. /\ ScopeIsTyped' /\ ~Admitted
  BY <1>1 DEF ComparisonInv, ScopeIsTyped, Admitted, NoOutcome, MissingIsNoWord, OUTCOMES
<1>3. CASE /\ ~request.member
           /\ outcome' = [Settled("unavailable", Missing) EXCEPT !.said = TRUE]
           /\ loaded' = [loaded EXCEPT !.step = "answered"]
  <2>1. /\ outcome' = [kind |-> "unavailable", cause |-> Missing, bundle |-> Missing, audit |-> <<>>, said |-> TRUE]
        /\ loaded' = [step |-> "answered", subject |-> loaded.subject, baseline |-> loaded.baseline]
    BY <1>1, <1>3 DEF Settled, NoOutcome
  <2>2. ~Admitted' /\ RequestIsTyped'
    BY <2>1 DEF RequestIsTyped, STEPS, OUTCOMES, Admitted
  <2>3. OutcomeFollowsStep'
    BY <1>1, <1>3, <2>1 DEF OutcomeFollowsStep
  <2>4. OperandsAreFresh' /\ AdmittedUnlikeNothing'
    BY <2>1, <2>2 DEF OperandsAreFresh, AdmittedUnlikeNothing
  <2> QED BY <1>2, <2>2, <2>3, <2>4 DEF ComparisonInv
<1>4. CASE request.member /\ ShapeRefused /\ Decide(Settled("refused", UNORDERED_PAIR))
  <2>1. /\ outcome' = [kind |-> "refused", cause |-> UNORDERED_PAIR, bundle |-> Missing, audit |-> <<>>, said |-> FALSE]
        /\ loaded' = [step |-> "decided", subject |-> loaded.subject, baseline |-> loaded.baseline]
    BY <1>1, <1>4 DEF Settled, NoOutcome, Decide
  <2>2. ~Admitted' /\ RequestIsTyped'
    BY <2>1 DEF RequestIsTyped, STEPS, OUTCOMES, Admitted
  <2>3. OutcomeFollowsStep'
    BY <1>1, <1>4, <2>1 DEF OutcomeFollowsStep
  <2>4. OperandsAreFresh' /\ AdmittedUnlikeNothing'
    BY <2>1, <2>2 DEF OperandsAreFresh, AdmittedUnlikeNothing
  <2> QED BY <1>2, <2>2, <2>3, <2>4 DEF ComparisonInv
<1>5. CASE request.member /\ ~ShapeRefused /\ loaded' = [loaded EXCEPT !.step = "scoped"] /\ UNCHANGED outcome
  <2>1. loaded' = [step |-> "scoped", subject |-> loaded.subject, baseline |-> loaded.baseline] /\ outcome' = NoOutcome
    BY <1>1, <1>5
  <2>2. ~Admitted' /\ RequestIsTyped'
    <3>1. ~Admitted'
      BY <2>1 DEF Admitted, NoOutcome, MissingIsNoWord, OUTCOMES
    <3> QED BY <2>1, <3>1 DEF RequestIsTyped, STEPS, NoOutcome
  <2>3. OutcomeFollowsStep'
    BY <1>1, <1>5, <2>1 DEF OutcomeFollowsStep, ShapeRefused, NoOutcome
  <2>4. OperandsAreFresh' /\ AdmittedUnlikeNothing'
    BY <2>1, <2>2 DEF OperandsAreFresh, AdmittedUnlikeNothing
  <2> QED BY <1>2, <2>2, <2>3, <2>4 DEF ComparisonInv
<1> QED BY <1>3, <1>4, <1>5 DEF ResolveScope

LEMMA ReadKeeps ==
  ASSUME MissingIsNoWord, ComparisonInv, ReadVersions
  PROVE  ComparisonInv'
<1>1. /\ loaded.step = "scoped" /\ outcome = NoOutcome /\ UNCHANGED <<request, world>> /\ request.member /\ ~ShapeRefused
      /\ loaded = [step |-> "scoped", subject |-> loaded.subject, baseline |-> loaded.baseline]
  BY DEF ReadVersions, ComparisonInv, OutcomeFollowsStep, RequestIsTyped, STEPS
<1>2. /\ ScopeIsTyped' /\ ~Admitted
  BY <1>1 DEF ComparisonInv, ScopeIsTyped, Admitted, NoOutcome, MissingIsNoWord, OUTCOMES
<1>3. CASE Decide(Settled("unavailable", Missing))
  <2>1. /\ outcome' = [kind |-> "unavailable", cause |-> Missing, bundle |-> Missing, audit |-> <<>>, said |-> FALSE]
        /\ loaded' = [step |-> "decided", subject |-> loaded.subject, baseline |-> loaded.baseline]
    BY <1>1, <1>3 DEF Settled, NoOutcome, Decide
  <2>2. ~Admitted' /\ RequestIsTyped'
    BY <2>1 DEF RequestIsTyped, STEPS, OUTCOMES, Admitted
  <2>3. OutcomeFollowsStep'
    BY <1>1, <2>1 DEF OutcomeFollowsStep
  <2>4. OperandsAreFresh' /\ AdmittedUnlikeNothing'
    BY <2>1, <2>2 DEF OperandsAreFresh, AdmittedUnlikeNothing
  <2> QED BY <1>2, <2>2, <2>3, <2>4 DEF ComparisonInv
<1>4. CASE loaded' = [loaded EXCEPT !.step = "read"] /\ UNCHANGED outcome
  <2>1. loaded' = [step |-> "read", subject |-> loaded.subject, baseline |-> loaded.baseline] /\ outcome' = NoOutcome
    BY <1>1, <1>4
  <2>2. ~Admitted' /\ RequestIsTyped'
    <3>1. ~Admitted'
      BY <2>1 DEF Admitted, NoOutcome, MissingIsNoWord, OUTCOMES
    <3> QED BY <2>1, <3>1 DEF RequestIsTyped, STEPS, NoOutcome
  <2>3. OutcomeFollowsStep'
    BY <1>1, <2>1 DEF OutcomeFollowsStep, ShapeRefused, NoOutcome
  <2>4. OperandsAreFresh' /\ AdmittedUnlikeNothing'
    BY <2>1, <2>2 DEF OperandsAreFresh, AdmittedUnlikeNothing
  <2> QED BY <1>2, <2>2, <2>3, <2>4 DEF ComparisonInv
<1> QED BY <1>3, <1>4 DEF ReadVersions

\* An operand is as fresh when the world has not moved.
LEMMA FreshStays ==
  ASSUME NEW o, NEW v, NEW before, Fresh(o, v, before), UNCHANGED world
  PROVE  /\ o.state \in {"missing", "incomplete", "loaded"}
         /\ o.state # "missing" => world'[v].revoked \notin before
                                 /\ \E r \in world'[v].runs :
                                      /\ o = Operand(v, r) /\ r.completed_at # Missing
                                      /\ \A q \in world'[v].runs : q.completed_at # Missing => r.completed_at >= q.completed_at
BY DEF Fresh, Taken

LEMMA LoadSubjectKeeps ==
  ASSUME MissingIsNoWord, ComparisonInv, LoadSubject
  PROVE  ComparisonInv'
<1>1. /\ loaded.step = "read" /\ outcome = NoOutcome /\ UNCHANGED <<request, world, outcome>> /\ request.member /\ ~ShapeRefused
      /\ loaded' = [step |-> "subject loaded", subject |-> LoadOperand(request.subject), baseline |-> loaded.baseline]
  BY DEF LoadSubject, ComparisonInv, OutcomeFollowsStep, RequestIsTyped, STEPS
<1>2. /\ ScopeIsTyped' /\ ~Admitted
  BY <1>1 DEF ComparisonInv, ScopeIsTyped, Admitted, NoOutcome, MissingIsNoWord, OUTCOMES
<1>3. ~Admitted' /\ RequestIsTyped'
  BY <1>1, <1>2 DEF RequestIsTyped, STEPS, Admitted, NoOutcome
<1>4. OutcomeFollowsStep'
  BY <1>1 DEF OutcomeFollowsStep, ShapeRefused, NoOutcome
<1>5. OperandsAreFresh'
  <2>1. Fresh(LoadOperand(request.subject), request.subject, BeforeSubject)
    BY LoadIsFresh DEF ComparisonInv, ScopeIsTyped, STEPS, BeforeSubject
  <2>2. Fresh(loaded.subject, request.subject, BeforeSubject)'
    BY <1>1, <2>1, FreshStays DEF Fresh, Taken, BeforeSubject
  <2> QED BY <1>1, <1>3, <2>2 DEF OperandsAreFresh
<1>6. AdmittedUnlikeNothing'
  BY <1>3 DEF AdmittedUnlikeNothing
<1> QED BY <1>2, <1>3, <1>4, <1>5, <1>6 DEF ComparisonInv

LEMMA LoadBaselineKeeps ==
  ASSUME MissingIsNoWord, ComparisonInv, LoadBaseline
  PROVE  ComparisonInv'
<1>1. /\ loaded.step = "subject loaded" /\ outcome = NoOutcome /\ UNCHANGED <<request, world, outcome>> /\ request.member /\ ~ShapeRefused
      /\ loaded' = [step |-> "loaded", subject |-> loaded.subject, baseline |-> LoadOperand(request.baseline)]
  BY DEF LoadBaseline, ComparisonInv, OutcomeFollowsStep, RequestIsTyped, STEPS
<1>2. /\ ScopeIsTyped' /\ ~Admitted
  BY <1>1 DEF ComparisonInv, ScopeIsTyped, Admitted, NoOutcome, MissingIsNoWord, OUTCOMES
<1>3. ~Admitted' /\ RequestIsTyped'
  BY <1>1, <1>2 DEF RequestIsTyped, STEPS, Admitted, NoOutcome
<1>4. OutcomeFollowsStep'
  BY <1>1 DEF OutcomeFollowsStep, ShapeRefused, NoOutcome
<1>5. OperandsAreFresh'
  <2>1. Fresh(LoadOperand(request.baseline), request.baseline, BeforeBaseline)
    BY LoadIsFresh DEF ComparisonInv, ScopeIsTyped, STEPS, BeforeBaseline, BeforeSubject
  <2>2. Fresh(loaded.subject, request.subject, BeforeSubject)
    BY <1>1 DEF ComparisonInv, OperandsAreFresh
  <2>3. Fresh(loaded.baseline, request.baseline, BeforeBaseline)'
    BY <1>1, <2>1, FreshStays DEF Fresh, Taken, BeforeBaseline, BeforeSubject
  <2>4. Fresh(loaded.subject, request.subject, BeforeSubject)'
    BY <1>1, <2>2, FreshStays DEF Fresh, Taken, BeforeSubject
  <2> QED BY <1>1, <1>3, <2>3, <2>4 DEF OperandsAreFresh
<1>6. AdmittedUnlikeNothing'
  BY <1>3 DEF AdmittedUnlikeNothing
<1> QED BY <1>2, <1>3, <1>4, <1>5, <1>6 DEF ComparisonInv

LEMMA SettledIs ==
  ASSUME NEW kind, NEW cause
  PROVE  Settled(kind, cause) = [kind |-> kind, cause |-> cause, bundle |-> Missing, audit |-> <<>>, said |-> FALSE]
<1> SUFFICES ASSUME NEW x, x = Settled(kind, cause)
             PROVE  x = [kind |-> kind, cause |-> cause, bundle |-> Missing, audit |-> <<>>, said |-> FALSE]
  OBVIOUS
<1> QED BY DEF Settled, NoOutcome

LEMMA MadeIs ==
  ASSUME NEW kind, NEW bundle
  PROVE  [Settled(kind, Missing) EXCEPT !.bundle = bundle]
           = [kind |-> kind, cause |-> Missing, bundle |-> bundle, audit |-> <<>>, said |-> FALSE]
<1> SUFFICES ASSUME NEW x, x = [Settled(kind, Missing) EXCEPT !.bundle = bundle]
             PROVE  x = [kind |-> kind, cause |-> Missing, bundle |-> bundle, audit |-> <<>>, said |-> FALSE]
  OBVIOUS
<1> QED BY DEF Settled, NoOutcome

\* A decision of a loaded pair admits it only where nothing separates the two.
LEMMA DecisionKeeps ==
  ASSUME MissingIsNoWord, ComparisonInv, Assemble, NEW kind \in OUTCOMES, NEW cause, NEW bundle,
         Decide([kind |-> kind, cause |-> cause, bundle |-> bundle, audit |-> <<>>, said |-> FALSE]),
         kind = "admitted" => "missing" \notin States /\ CauseOf = Missing
  PROVE  ComparisonInv'
<1>1. /\ loaded.step = "loaded" /\ outcome = NoOutcome /\ UNCHANGED <<request, world>> /\ request.member /\ ~ShapeRefused
      /\ loaded = [step |-> "loaded", subject |-> loaded.subject, baseline |-> loaded.baseline]
  BY DEF Assemble, ComparisonInv, OutcomeFollowsStep, RequestIsTyped, STEPS
<1>2. /\ ScopeIsTyped'
      /\ Fresh(loaded.subject, request.subject, BeforeSubject) /\ Fresh(loaded.baseline, request.baseline, BeforeBaseline)
  BY <1>1 DEF ComparisonInv, ScopeIsTyped, OperandsAreFresh
<1>4. /\ loaded' = [step |-> "decided", subject |-> loaded.subject, baseline |-> loaded.baseline]
      /\ outcome' = [kind |-> kind, cause |-> cause, bundle |-> bundle, audit |-> <<>>, said |-> FALSE]
  BY <1>1 DEF Decide
<1>5. RequestIsTyped' /\ OutcomeFollowsStep'
  BY <1>1, <1>4 DEF RequestIsTyped, OutcomeFollowsStep, STEPS
<1>6. OperandsAreFresh'
  <2>1. Fresh(loaded.subject, request.subject, BeforeSubject)' /\ Fresh(loaded.baseline, request.baseline, BeforeBaseline)'
    BY <1>1, <1>2, <1>4, FreshStays DEF Fresh, Taken, BeforeSubject, BeforeBaseline
  <2> QED BY <2>1 DEF OperandsAreFresh
<1>7. AdmittedUnlikeNothing'
  <2> SUFFICES ASSUME Admitted' PROVE AdmittedUnlikeNothing'
    BY DEF AdmittedUnlikeNothing
  <2>1. "missing" \notin States /\ CauseOf = Missing
    BY <1>4 DEF Admitted
  <2>2. "incomplete" \notin States /\ AdmissionCause(loaded.subject, loaded.baseline) = Missing
    BY <2>1 DEF CauseOf, MissingIsNoWord, CAUSES
  <2>3. loaded.subject.state = "loaded" /\ loaded.baseline.state = "loaded"
    BY <1>2, <2>1, <2>2 DEF States, Fresh
  <2>4. ~ShapeRefused'
    BY <1>1 DEF ShapeRefused
  <2> QED BY <1>1, <1>4, <2>2, <2>3, <2>4 DEF AdmittedUnlikeNothing
<1> QED BY <1>2, <1>5, <1>6, <1>7 DEF ComparisonInv

LEMMA AssembleKeeps ==
  ASSUME MissingIsNoWord, ComparisonInv, Assemble
  PROVE  ComparisonInv'
<1>3. CASE Decide(Settled("unavailable", Missing))
  <2>1. Decide([kind |-> "unavailable", cause |-> Missing, bundle |-> Missing, audit |-> <<>>, said |-> FALSE])
    BY <1>3, SettledIs
  <2>2. "unavailable" \in OUTCOMES /\ "unavailable" # "admitted"
    BY DEF OUTCOMES
  <2> QED BY <2>1, <2>2, DecisionKeeps
<1>4. CASE Decide(Settled("refused", CauseOf))
  <2>1. Decide([kind |-> "refused", cause |-> CauseOf, bundle |-> Missing, audit |-> <<>>, said |-> FALSE])
    BY <1>4, SettledIs
  <2>2. "refused" \in OUTCOMES /\ "refused" # "admitted"
    BY DEF OUTCOMES
  <2> QED BY <2>1, <2>2, DecisionKeeps
<1>5. ASSUME "missing" \notin States, CauseOf = Missing, NEW bundle, NEW kind \in {"admitted", "raised"},
             Decide([Settled(kind, Missing) EXCEPT !.bundle = bundle])
      PROVE  ComparisonInv'
  <2>1. Decide([kind |-> kind, cause |-> Missing, bundle |-> bundle, audit |-> <<>>, said |-> FALSE])
    BY <1>5, MadeIs
  <2>2. kind \in OUTCOMES
    BY DEF OUTCOMES
  <2> QED BY <1>5, <2>1, <2>2, DecisionKeeps
<1> DEFINE bundle == CrossVersionBundle(loaded.subject, loaded.baseline)
           kind == IF BundleRules(bundle) THEN "admitted" ELSE "raised"
<1>6. \/ Decide(Settled("unavailable", Missing))
      \/ Decide(Settled("refused", CauseOf))
      \/ "missing" \notin States /\ CauseOf = Missing /\ Decide([Settled(kind, Missing) EXCEPT !.bundle = bundle])
  BY DEF Assemble
<1>7. kind \in {"admitted", "raised"}
  OBVIOUS
<1> HIDE DEF bundle, kind
<1> QED BY <1>3, <1>4, <1>5, <1>6, <1>7

LEMMA AuditKeeps ==
  ASSUME MissingIsNoWord, ComparisonInv, Audit
  PROVE  ComparisonInv'
<1>1. /\ loaded.step = "decided" /\ UNCHANGED <<request, world>> /\ request.member /\ outcome.audit = <<>> /\ ~outcome.said
      /\ loaded' = [step |-> "audited", subject |-> loaded.subject, baseline |-> loaded.baseline]
      /\ outcome' = [kind |-> outcome.kind, cause |-> outcome.cause, bundle |-> outcome.bundle,
                     audit |-> Append(outcome.audit, Word), said |-> outcome.said]
  BY DEF Audit, Word, Admitted, ComparisonInv, OutcomeFollowsStep, RequestIsTyped, STEPS
<1>2. outcome'.audit = <<Word>> /\ (Admitted' <=> Admitted) /\ Word' = Word
  BY <1>1 DEF Admitted, Word
<1>3. ScopeIsTyped' /\ RequestIsTyped'
  BY <1>1 DEF ComparisonInv, ScopeIsTyped, RequestIsTyped, STEPS
<1>4. OutcomeFollowsStep'
  BY <1>1, <1>2 DEF OutcomeFollowsStep, STEPS
<1>5. OperandsAreFresh'
  BY <1>1, <1>2, FreshStays DEF ComparisonInv, OperandsAreFresh, Fresh, Taken, BeforeSubject, BeforeBaseline
<1>6. AdmittedUnlikeNothing'
  BY <1>1, <1>2 DEF ComparisonInv, AdmittedUnlikeNothing, ShapeRefused
<1> QED BY <1>3, <1>4, <1>5, <1>6 DEF ComparisonInv

LEMMA AnswerKeeps ==
  ASSUME MissingIsNoWord, ComparisonInv, Answer
  PROVE  ComparisonInv'
<1>1. /\ loaded.step = "audited" /\ UNCHANGED <<request, world>> /\ request.member /\ outcome.audit = <<Word>>
      /\ loaded' = [step |-> "answered", subject |-> loaded.subject, baseline |-> loaded.baseline]
      /\ outcome' = [kind |-> outcome.kind, cause |-> outcome.cause, bundle |-> outcome.bundle,
                     audit |-> outcome.audit, said |-> TRUE]
  BY DEF Answer, ComparisonInv, OutcomeFollowsStep, RequestIsTyped, STEPS
<1>2. outcome'.audit = <<Word>> /\ (Admitted' <=> Admitted) /\ Word' = Word
  BY <1>1 DEF Admitted, Word
<1>3. ScopeIsTyped' /\ RequestIsTyped'
  BY <1>1 DEF ComparisonInv, ScopeIsTyped, RequestIsTyped, STEPS
<1>4. OutcomeFollowsStep'
  BY <1>1, <1>2 DEF OutcomeFollowsStep, STEPS
<1>5. OperandsAreFresh'
  BY <1>1, <1>2, FreshStays DEF ComparisonInv, OperandsAreFresh, Fresh, Taken, BeforeSubject, BeforeBaseline
<1>6. AdmittedUnlikeNothing'
  BY <1>1, <1>2 DEF ComparisonInv, AdmittedUnlikeNothing, ShapeRefused
<1> QED BY <1>3, <1>4, <1>5, <1>6 DEF ComparisonInv

LEMMA Ended ==
  ASSUME NEW version, NEW live, NEW revoked, NEW runs, version = [live |-> live, revoked |-> revoked, runs |-> runs],
         NEW step, NEW after, after = [version EXCEPT !.live = FALSE, !.revoked = step]
  PROVE  after = [live |-> FALSE, revoked |-> step, runs |-> runs]
OBVIOUS

\* A revocation under way is of no operand that is loaded already.
LEMMA RevokeKeeps ==
  ASSUME MissingIsNoWord, ComparisonInv, NEW v \in DOMAIN world, Revoke(v)
  PROVE  ComparisonInv'
<1>1. /\ UNCHANGED <<request, loaded, outcome>> /\ world[v].live
      /\ world' = [world EXCEPT ![v].live = FALSE, ![v].revoked = loaded.step]
      /\ WorldIsKept(world)
  BY DEF Revoke, ComparisonInv, ScopeIsTyped
<1>2. /\ DOMAIN world' = DOMAIN world /\ world' = [x \in DOMAIN world' |-> world'[x]]
      /\ \A x \in DOMAIN world : x # v => world'[x] = world[x]
      /\ world'[v] = [live |-> FALSE, revoked |-> loaded.step, runs |-> world[v].runs]
  <2>1. world[v] = [live |-> world[v].live, revoked |-> world[v].revoked, runs |-> world[v].runs]
    BY <1>1 DEF WorldIsKept
  <2>2. world' = [x \in DOMAIN world |-> IF x = v THEN [world[v] EXCEPT !.live = FALSE, !.revoked = loaded.step] ELSE world[x]]
    BY <1>1
  <2>3. world'[v] = [world[v] EXCEPT !.live = FALSE, !.revoked = loaded.step]
    BY <2>2
  <2>4. world'[v] = [live |-> FALSE, revoked |-> loaded.step, runs |-> world[v].runs]
    BY <2>1, <2>3, Ended
  <2>5. DOMAIN world' = DOMAIN world /\ world' = [x \in DOMAIN world' |-> world'[x]]
    BY <1>1
  <2>6. \A x \in DOMAIN world : x # v => world'[x] = world[x]
    BY <1>1
  <2> QED BY <2>4, <2>5, <2>6
<1>3. WorldIsKept(world')
  <2> SUFFICES ASSUME NEW x \in DOMAIN world
               PROVE  /\ world'[x] = [live |-> world'[x].live, revoked |-> world'[x].revoked, runs |-> world'[x].runs]
                      /\ world'[x].live => world'[x].revoked = Missing
                      /\ RunsAreOrdered(world'[x].runs)
                      /\ \A r \in world'[x].runs : KeptIsRead(r.kept)
    BY <1>2 DEF WorldIsKept
  <2>1. CASE x = v
    BY <1>1, <1>2, <2>1 DEF WorldIsKept
  <2>2. CASE x # v
    BY <1>1, <1>2, <2>2 DEF WorldIsKept
  <2> QED BY <2>1, <2>2
<1>4. ScopeIsTyped'
  BY <1>1, <1>2, <1>3 DEF ComparisonInv, ScopeIsTyped
<1>5. RequestIsTyped' /\ OutcomeFollowsStep' /\ AdmittedUnlikeNothing' /\ (Admitted' <=> Admitted)
  BY <1>1 DEF ComparisonInv, RequestIsTyped, OutcomeFollowsStep, AdmittedUnlikeNothing, Admitted, Word, ShapeRefused
<1>6. ASSUME NEW o, NEW x \in DOMAIN world, NEW before, Fresh(o, x, before), loaded.step \notin before
      PROVE  /\ o.state \in {"missing", "incomplete", "loaded"}
             /\ o.state # "missing" => world'[x].revoked \notin before
                                     /\ \E r \in world'[x].runs :
                                          /\ o = Operand(x, r) /\ r.completed_at # Missing
                                          /\ \A q \in world'[x].runs : q.completed_at # Missing => r.completed_at >= q.completed_at
  <2>1. world'[x].runs = world[x].runs /\ world'[x].revoked \in {world[x].revoked, loaded.step}
    BY <1>2
  <2> QED BY <1>6, <2>1 DEF Fresh, Taken
<1>7. OperandsAreFresh'
  <2>1. ASSUME loaded.step \in {"subject loaded", "loaded"} \/ Admitted
        PROVE  Fresh(loaded.subject, request.subject, BeforeSubject)'
    <3>1. Fresh(loaded.subject, request.subject, BeforeSubject) /\ loaded.step \notin BeforeSubject
      BY <2>1 DEF ComparisonInv, OperandsAreFresh, AdmittedUnlikeNothing, BeforeSubject
    <3>2. request.subject \in DOMAIN world
      BY DEF ComparisonInv, ScopeIsTyped
    <3> QED BY <1>1, <1>6, <3>1, <3>2 DEF Fresh, Taken, BeforeSubject
  <2>2. ASSUME loaded.step = "loaded" \/ Admitted
        PROVE  Fresh(loaded.baseline, request.baseline, BeforeBaseline)'
    <3>1. Fresh(loaded.baseline, request.baseline, BeforeBaseline) /\ loaded.step \notin BeforeBaseline
      BY <2>2 DEF ComparisonInv, OperandsAreFresh, AdmittedUnlikeNothing, BeforeSubject, BeforeBaseline
    <3>2. request.baseline \in DOMAIN world
      BY DEF ComparisonInv, ScopeIsTyped
    <3>3. BeforeBaseline' = BeforeBaseline
      BY DEF BeforeBaseline, BeforeSubject
    <3> HIDE DEF BeforeBaseline
    <3> QED BY <1>1, <1>6, <3>1, <3>2, <3>3 DEF Fresh, Taken
  <2> QED BY <1>1, <1>5, <2>1, <2>2 DEF OperandsAreFresh
<1> QED BY <1>4, <1>5, <1>7 DEF ComparisonInv

LEMMA ComparisonIsInductive ==
  ASSUME MissingIsNoWord, ComparisonInv, [CrossVersionNext]_xvars
  PROVE  ComparisonInv'
<1>1. ASSUME NEW v \in DOMAIN world, Revoke(v) PROVE ComparisonInv'
  BY <1>1, RevokeKeeps
<1>2. CASE UNCHANGED xvars
  <2>1. UNCHANGED <<request, world, loaded, outcome>>
    BY <1>2 DEF xvars
  <2>2. ScopeIsTyped' /\ RequestIsTyped' /\ OutcomeFollowsStep' /\ AdmittedUnlikeNothing'
    BY <2>1 DEF ComparisonInv, ScopeIsTyped, RequestIsTyped, OutcomeFollowsStep, AdmittedUnlikeNothing, Admitted, Word, ShapeRefused
  <2>3. OperandsAreFresh'
    BY <2>1 DEF ComparisonInv, OperandsAreFresh, Fresh, Taken, Admitted, BeforeSubject, BeforeBaseline
  <2> QED BY <2>2, <2>3 DEF ComparisonInv
<1> QED BY <1>1, <1>2, ResolveKeeps, ReadKeeps, LoadSubjectKeeps, LoadBaselineKeeps, AssembleKeeps, AuditKeeps, AnswerKeeps
        DEF CrossVersionNext

----------------------------------------------------------------------------
(* What the invariant says of a comparison.                                *)

\* A loaded operand speaks for what was kept of its run, and for no other run.
LEMMA KeptOfOperand ==
  ASSUME WorldIsKept(world), NEW v \in DOMAIN world, NEW o, o.state = "loaded", Taken(o, v)
  PROVE  /\ o.version = v
         /\ o.signatures = KeptOf(o).signatures /\ o.aggregate = KeptOf(o).manifest.aggregate
         /\ o.complete = PeriodComplete(KeptOf(o).manifest, KeptOf(o).provenance[1], KeptOf(o).provenance[2])
         /\ KeptOf(o).sealed = "same" /\ KeptIsRead(KeptOf(o))
         /\ KeptOf(o).manifest # Missing /\ KeptOf(o).provenance # Missing
         /\ \A r \in world[v].runs : r.completed_at # Missing =>
              \E mine \in world[v].runs :
                mine.run_id = o.run_id /\ mine.completed_at # Missing /\ mine.completed_at >= r.completed_at
<1>1. PICK r \in world[v].runs :
        /\ o = Operand(v, r) /\ r.completed_at # Missing
        /\ \A q \in world[v].runs : q.completed_at # Missing => r.completed_at >= q.completed_at
  BY DEF Taken
<1>2. /\ o.version = v /\ o.run_id = r.run_id /\ o.signatures = r.kept.signatures
      /\ o.aggregate = r.kept.manifest.aggregate
      /\ o.complete = PeriodComplete(r.kept.manifest, r.kept.provenance[1], r.kept.provenance[2])
      /\ r.kept.sealed = "same" /\ r.kept.manifest # Missing /\ r.kept.provenance # Missing
  BY <1>1, OperandSays
<1>3. KeptOf(o) = r.kept
  <2>1. \A q \in world[v].runs : q.run_id = r.run_id => q = r
    BY DEF WorldIsKept, RunsAreOrdered
  <2>2. (CHOOSE q \in world[o.version].runs : q.run_id = o.run_id) = r
    BY <1>2, <2>1
  <2> QED BY <2>2 DEF KeptOf
<1>4. KeptIsRead(r.kept)
  BY DEF WorldIsKept
<1> QED BY <1>1, <1>2, <1>3, <1>4

\* Populations that nothing separates cover the same scopes.
LEMMA PopulationsAlike ==
  ASSUME NEW s, NEW b, NEW m, NEW n, OneScopeMode(m), OneScopeMode(n),
         s.aggregate = m.aggregate, b.aggregate = n.aggregate,
         s.signatures \in {{}, ScopesOf(m)}, b.signatures \in {{}, ScopesOf(n)},
         PopulationScope(s) = PopulationScope(b), StoreSet(s) = StoreSet(b),
         PopulationAttested(s), PopulationAttested(b)
  PROVE  ScopesOf(m) = ScopesOf(n)
<1>1. /\ m.aggregate # Missing => m.aggregate # "" /\ ScopesOf(m) = {m.aggregate}
      /\ n.aggregate # Missing => n.aggregate # "" /\ ScopesOf(n) = {n.aggregate}
  BY DEF OneScopeMode, ScopesOf
<1>2. CASE m.aggregate # Missing
  BY <1>1, <1>2 DEF PopulationScope
<1>3. CASE m.aggregate = Missing
  <2>1. n.aggregate = Missing
    BY <1>1, <1>3 DEF PopulationScope
  <2>2. s.signatures = ScopesOf(m) /\ b.signatures = ScopesOf(n)
    BY <1>3, <2>1 DEF PopulationAttested
  <2> QED BY <1>3, <2>1, <2>2 DEF StoreSet
<1> QED BY <1>2, <1>3

\* A period that is complete has each of its days proven, and is not cut short.
LEMMA PeriodIsWhole ==
  ASSUME NEW m, NEW start \in Int, NEW end \in Int, PeriodComplete(m, start, end), m.end \in Int
  PROVE  /\ \A s \in ScopesOf(m), d \in start..end : <<s, d>> \in m.pairs \ m.gaps
         /\ m.partial => end < m.end
<1>1. \A s \in ScopesOf(m) : ~(m.partial /\ end >= m.end) /\ \A d \in start..end : <<s, d>> \in m.pairs \ m.gaps
  BY DEF PeriodComplete, AdmitsCompleteness, Query, Cut, DayProven
<1>2. ScopesOf(m) # {}
  BY DEF PeriodComplete
<1> QED BY <1>1, <1>2

\* What the invariant says of the two operands of an admitted pair.
LEMMA AdmittedOperands ==
  ASSUME ComparisonInv, Admitted
  PROVE  /\ WorldIsKept(world) /\ request.subject \in DOMAIN world /\ request.baseline \in DOMAIN world
         /\ loaded.subject.state = "loaded" /\ Taken(loaded.subject, request.subject)
         /\ loaded.baseline.state = "loaded" /\ Taken(loaded.baseline, request.baseline)
         /\ world[request.subject].revoked \notin BeforeSubject
         /\ world[request.baseline].revoked \notin BeforeBaseline
         /\ AdmissionCause(loaded.subject, loaded.baseline) = Missing
         /\ request.member /\ request.subject # request.baseline
BY DEF ComparisonInv, ScopeIsTyped, OperandsAreFresh, AdmittedUnlikeNothing, Fresh, ShapeRefused

LEMMA LikeWithLikeFollows ==
  ASSUME MissingIsNoWord, ComparisonInv
  PROVE  LikeWithLike
<1> SUFFICES ASSUME Admitted PROVE LikeWithLike
  BY DEF LikeWithLike
<1> DEFINE s == loaded.subject
           b == loaded.baseline
<1>1. \A n \in 1..14 : ~Causes(s, b)[n][1]
  BY AdmittedOperands, AdmittedUnseparated
<1>2. /\ s.package.currency = b.package.currency
      /\ PopulationScope(s) = PopulationScope(b) /\ StoreSet(s) = StoreSet(b)
      /\ Range(s.package.kinds) = Range(b.package.kinds)
      /\ CompositeProvenance(s, b) /\ s.complete /\ b.complete
      /\ s.timezone = b.timezone
  <2>1. /\ ~Causes(s, b)[4][1] /\ ~Causes(s, b)[5][1] /\ ~Causes(s, b)[6][1] /\ ~Causes(s, b)[7][1]
        /\ ~Causes(s, b)[9][1] /\ ~Causes(s, b)[12][1] /\ ~Causes(s, b)[14][1]
    BY <1>1
  <2> HIDE DEF s, b
  <2>2. s.package.currency = b.package.currency
    <3>1. Causes(s, b)[4][1] = (s.package.currency # b.package.currency)
      BY CausesAsk
    <3> QED BY <2>1, <3>1
  <2>3. PopulationScope(s) = PopulationScope(b) /\ StoreSet(s) = StoreSet(b)
    BY <2>1, CausesAsk
  <2>4. Range(s.package.kinds) = Range(b.package.kinds)
    <3>1. Causes(s, b)[7][1] = (Range(s.package.kinds) # Range(b.package.kinds))
      BY CausesAsk
    <3> QED BY <2>1, <3>1
  <2>5. CompositeProvenance(s, b)
    <3>1. Causes(s, b)[9][1] = ~CompositeProvenance(s, b)
      BY CausesAsk
    <3> QED BY <2>1, <3>1
  <2>6. s.complete /\ b.complete
    BY <2>1, CausesAsk
  <2>7. s.timezone = b.timezone
    BY <2>1, CausesAsk
  <2> QED BY <2>2, <2>3, <2>4, <2>5, <2>6, <2>7
<1>3. ASSUME NEW v \in DOMAIN world, NEW o \in Both, o.state = "loaded", Taken(o, v), o.complete
      PROVE  LET kept == KeptOf(o) IN
             /\ kept.sealed = "same"
             /\ \A x \in ScopesOf(kept.manifest), d \in kept.provenance[1]..kept.provenance[2] :
                  <<x, d>> \in kept.manifest.pairs \ kept.manifest.gaps
             /\ kept.manifest.partial => kept.provenance[2] < kept.manifest.end
             /\ OneScopeMode(kept.manifest) /\ o.aggregate = kept.manifest.aggregate
             /\ o.signatures \in {{}, ScopesOf(kept.manifest)}
  <2> DEFINE kept == KeptOf(o)
  <2>1. /\ kept.sealed = "same" /\ KeptIsRead(kept) /\ kept.manifest # Missing /\ kept.provenance # Missing
        /\ PeriodComplete(kept.manifest, kept.provenance[1], kept.provenance[2])
        /\ o.aggregate = kept.manifest.aggregate /\ o.signatures = kept.signatures
    BY <1>3, AdmittedOperands, KeptOfOperand
  <2>2. /\ kept.provenance[1] \in Int /\ kept.provenance[2] \in Int /\ kept.manifest.end \in Int
        /\ OneScopeMode(kept.manifest) /\ kept.signatures \in {{}, ScopesOf(kept.manifest)}
    BY <2>1 DEF KeptIsRead
  <2> HIDE DEF kept
  <2>3. /\ \A x \in ScopesOf(kept.manifest), d \in kept.provenance[1]..kept.provenance[2] :
             <<x, d>> \in kept.manifest.pairs \ kept.manifest.gaps
        /\ kept.manifest.partial => kept.provenance[2] < kept.manifest.end
    BY <2>1, <2>2, PeriodIsWhole
  <2> QED BY <2>1, <2>2, <2>3 DEF kept
<1>4. ScopesOf(KeptOf(s).manifest) = ScopesOf(KeptOf(b).manifest)
  <2>1. /\ OneScopeMode(KeptOf(s).manifest) /\ s.aggregate = KeptOf(s).manifest.aggregate
        /\ s.signatures \in {{}, ScopesOf(KeptOf(s).manifest)}
    BY <1>2, <1>3, AdmittedOperands DEF Both
  <2>2. /\ OneScopeMode(KeptOf(b).manifest) /\ b.aggregate = KeptOf(b).manifest.aggregate
        /\ b.signatures \in {{}, ScopesOf(KeptOf(b).manifest)}
    BY <1>2, <1>3, AdmittedOperands DEF Both
  <2>3. PopulationAttested(s) /\ PopulationAttested(b)
    BY <1>2 DEF CompositeProvenance
  <2> QED BY <1>2, <2>1, <2>2, <2>3, PopulationsAlike
<1>5. \A o \in Both :
        LET kept == KeptOf(o)
        IN /\ kept.sealed = "same"
           /\ \A x \in ScopesOf(kept.manifest), d \in kept.provenance[1]..kept.provenance[2] :
                <<x, d>> \in kept.manifest.pairs \ kept.manifest.gaps
           /\ kept.manifest.partial => kept.provenance[2] < kept.manifest.end
  BY <1>2, <1>3, AdmittedOperands DEF Both
<1>6. \A o, p \in Both :
        /\ o.package.currency = p.package.currency /\ o.timezone = p.timezone
        /\ Range(o.package.kinds) = Range(p.package.kinds)
  BY <1>2 DEF Both
<1>7. request.subject # request.baseline /\ request.member
  BY AdmittedOperands
<1> HIDE DEF s, b
<1> QED BY <1>4, <1>5, <1>6, <1>7 DEF LikeWithLike, s, b

LEMMA RevokedFollows ==
  ASSUME ComparisonInv
  PROVE  RevokedIsNotCompared
<1> SUFFICES ASSUME Admitted PROVE RevokedIsNotCompared
  BY DEF RevokedIsNotCompared
<1>1. /\ world[request.subject].revoked \notin {"asked", "scoped", "read"}
      /\ world[request.baseline].revoked \notin {"asked", "scoped", "read", "subject loaded"}
  BY AdmittedOperands DEF BeforeSubject, BeforeBaseline
<1>2. \A o \in Both : \A r \in world[o.version].runs : r.completed_at # Missing =>
        \E mine \in world[o.version].runs :
          mine.run_id = o.run_id /\ mine.completed_at # Missing /\ mine.completed_at >= r.completed_at
  <2>1. \A o \in Both : \E v \in DOMAIN world : o.state = "loaded" /\ Taken(o, v)
    BY AdmittedOperands DEF Both
  <2> QED BY <2>1, AdmittedOperands, KeptOfOperand
<1> QED BY <1>1, <1>2 DEF RevokedIsNotCompared

LEMMA AuditedFollows ==
  ASSUME ComparisonInv
  PROVE  AuditedOnce
BY DEF ComparisonInv, OutcomeFollowsStep, AuditedOnce, Word

LEMMA ComparisonFollows ==
  ASSUME MissingIsNoWord, ComparisonInv
  PROVE  CrossVersionHolds
<1>1. CrossVersionTypeOK
  BY DEF ComparisonInv, RequestIsTyped, CrossVersionTypeOK, STEPS, OUTCOMES
<1>2. OrderNeverDecides
  BY CauseAlike DEF OrderNeverDecides
<1> QED BY <1>1, <1>2, LikeWithLikeFollows, RevokedFollows, AuditedFollows DEF CrossVersionHolds

\* Whatever versions there are, whoever asks, and whenever a version is revoked,
\* a comparison is of like with like, of the runs that completed last, of
\* versions that were not revoked before they were loaded; it is recorded before
\* it is told, and which version is named first does not decide whether it is made.
THEOREM ComparisonsAreOfLikeWithLike ==
  ASSUME MissingIsNoWord, WorldsAreKept
  PROVE  CrossVersionSpec => []CrossVersionHolds
<1>1. CrossVersionInit => ComparisonInv
  BY ComparisonStarts
<1>2. ComparisonInv /\ [CrossVersionNext]_xvars => ComparisonInv'
  BY ComparisonIsInductive
<1>3. ComparisonInv => CrossVersionHolds
  BY ComparisonFollows
<1> QED BY <1>1, <1>2, <1>3, PTL DEF CrossVersionSpec
=============================================================================
