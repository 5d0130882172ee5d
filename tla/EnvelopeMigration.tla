-------------------------- MODULE EnvelopeMigration --------------------------
(***************************************************************************)
(* Passes of the envelope migration (rra/envelope_migration.py), which     *)
(* rewrite every report artifact sealed in the first format, while         *)
(* sessions are deleted, artifacts are recorded, passes crash and object   *)
(* writes fail, take effect unseen or land after their caller gave up.     *)
(*                                                                         *)
(* A seal is one encryption of a file's content: FirstSeal in the first    *)
(* format, every later one in the second, each with a digest of its own.   *)
(* An object is the seal it holds and a row the seal whose digest it       *)
(* records, with the format it says that is.                               *)
(***************************************************************************)
EXTENDS Naturals, FiniteSets

CONSTANTS Files, Scopes, Movers,
  Unscoped,     \* the sessions whose owner_id is empty
  NoFile,
  MaxSeals,     \* bound on the seals of one file
  MaxGivenUp    \* bound on the writes whose outcome a pass never learned

ASSUME EnvelopeAssumption ==
  /\ Scopes \subseteq Nat /\ Unscoped \subseteq Scopes /\ NoFile \notin Files
  /\ MaxSeals \in Nat \ {0} /\ MaxGivenUp \in Nat

VARIABLES
  sealed,     \* rra_report_artifacts and the object each row names
  closing,    \* the deletion of each session
  mover,      \* where each pass is
  stray,      \* writes given up by their caller that may still land
  givenUp,    \* the files a write was given up for
  newcomers   \* files recorded in the first format since each pass counted them

evars == <<sealed, closing, mover, stray, givenUp, newcomers>>

NoSeal == 0
FirstSeal == 1
Seal == NoSeal..MaxSeals

MoverAt == {"idle", "walking", "locked", "fetched", "written", "reported"}

EnvelopeTypeOK ==
  /\ sealed \in [Files -> [scope : Scopes, row : {"none", "v1", "v2"}, digest : Seal,
                           object : Seal, last : Seal]]
  /\ closing \in [Scopes -> {"live", "requested", "swept", "deleted"}]
  /\ mover \in [Movers -> [at : MoverAt, sessions : SUBSET Scopes, todo : SUBSET Files,
                           file : Files \cup {NoFile}, got : Seal, clear : BOOLEAN]]
  /\ stray \subseteq Files \X Seal
  /\ givenUp \subseteq Files
  /\ newcomers \in [Movers -> SUBSET Files]

-----------------------------------------------------------------------------

InScope(s) == {f \in Files : sealed[f].scope = s}
Legacy(s) == {f \in InScope(s) : sealed[f].row = "v1"}

Holding == {"locked", "fetched", "written"}

\* A pass holds the lock of the session of the row it rewrites.
ScopeLocked(s) ==
  \E m \in Movers : mover[m].at \in Holding /\ sealed[mover[m].file].scope = s

Resting == [at |-> "idle", sessions |-> {}, todo |-> {}, file |-> NoFile,
            got |-> NoSeal, clear |-> TRUE]

\* The candidate is done with, its transaction over.
NextCandidate(m) ==
  mover' = [mover EXCEPT ![m].at = "walking", ![m].todo = @ \ {mover[m].file},
                         ![m].file = NoFile, ![m].got = NoSeal]

\* assert_supported, the digests and the version: what opens under its record.
Opens(f) == sealed[f].object # NoSeal /\ sealed[f].object = sealed[f].digest

-----------------------------------------------------------------------------
(* A pass.                                                                 *)

\* The sessions are listed once, and walked in the order of the listing.
NextInOrder(m, s) == s \in mover[m].sessions /\ \A t \in mover[m].sessions : s <= t

ListSessions(m) ==
  /\ mover[m].at \in {"idle", "reported"}
  /\ mover' = [mover EXCEPT ![m] = [Resting EXCEPT !.at = "walking", !.sessions = Scopes]]
  /\ newcomers' = [newcomers EXCEPT ![m] = {}]
  /\ UNCHANGED <<sealed, closing, stray, givenUp>>

\* The first-format rows of a session, read without a lock; no scoped read
\* finds those of a session without an owner, so it blocks the verdict.
ReadCandidates(m, s) ==
  /\ mover[m].at = "walking" /\ NextInOrder(m, s) /\ mover[m].todo = {}
  /\ IF s \in Unscoped
       THEN mover' = [mover EXCEPT ![m].sessions = @ \ {s}, ![m].clear = FALSE]
       ELSE Legacy(s) # {} /\ mover' = [mover EXCEPT ![m].todo = Legacy(s)]
  /\ UNCHANGED <<sealed, closing, stray, givenUp, newcomers>>

\* A bug: the session's deletion is not looked at.
LiveUnread(s) == TRUE

\* _content_is_live, under the session's lock
ContentIsLiveIn(s) == closing[s] = "live"

\* The session is locked before the row, so that a deletion has either begun and
\* is seen, or waits; the row must still be there in the first format.
LockCandidate(m, f) ==
  /\ mover[m].at = "walking" /\ f \in mover[m].todo
  /\ ~ScopeLocked(sealed[f].scope)
  /\ mover' = IF ContentIsLiveIn(sealed[f].scope) /\ sealed[f].row = "v1"
                THEN [mover EXCEPT ![m].at = "locked", ![m].file = f]
                ELSE [mover EXCEPT ![m].todo = @ \ {f}]
  /\ UNCHANGED <<sealed, closing, stray, givenUp, newcomers>>

\* A body in the second format was written by a pass that stopped: it is
\* adopted as it is.  One in the first must open under the row's digests.
FetchBody(m) ==
  LET f == mover[m].file IN
  /\ mover[m].at = "locked"
  /\ IF sealed[f].object > FirstSeal
       THEN mover' = [mover EXCEPT ![m].at = "written", ![m].got = sealed[f].object]
       ELSE IF Opens(f) THEN mover' = [mover EXCEPT ![m].at = "fetched"]
       ELSE NextCandidate(m)
  /\ UNCHANGED <<sealed, closing, stray, givenUp, newcomers>>

\* The object is replaced unconditionally: confirmed, refused, or given up with
\* the write done, or still on its way.
OverwriteObject(m) ==
  LET f == mover[m].file
      new == sealed[f].last + 1
  IN
  /\ mover[m].at = "fetched"
  /\ sealed[f].last < MaxSeals
  /\ \/ /\ sealed' = [sealed EXCEPT ![f].object = new, ![f].last = new]
        /\ mover' = [mover EXCEPT ![m].at = "written", ![m].got = new]
        /\ UNCHANGED <<stray, givenUp>>
     \/ sealed' = [sealed EXCEPT ![f].object = new, ![f].last = new]
        /\ NextCandidate(m) /\ UNCHANGED <<stray, givenUp>>
     \/ /\ Cardinality(stray) < MaxGivenUp /\ f \notin givenUp
        /\ stray' = stray \cup {<<f, new>>} /\ givenUp' = givenUp \cup {f}
        /\ sealed' = [sealed EXCEPT ![f].last = new]
        /\ NextCandidate(m)
  /\ UNCHANGED <<closing, newcomers>>

\* The row records the new format and digest, and the locks go.
CommitRow(m) ==
  LET f == mover[m].file IN
  /\ mover[m].at = "written"
  /\ sealed' = [sealed EXCEPT ![f].row = "v2", ![f].digest = mover[m].got]
  /\ NextCandidate(m)
  /\ UNCHANGED <<closing, stray, givenUp, newcomers>>

\* Its candidates done, a session is counted; a fault while its rows are read
\* or counted blocks the verdict as well.
CountSession(m, s) ==
  /\ mover[m].at = "walking" /\ NextInOrder(m, s) /\ s \notin Unscoped
  /\ mover[m].todo = {}
  /\ \E readable \in BOOLEAN :
       mover' = [mover EXCEPT ![m].sessions = @ \ {s},
                              ![m].clear = @ /\ readable /\ Legacy(s) = {}]
  /\ UNCHANGED <<sealed, closing, stray, givenUp, newcomers>>

ReportPass(m) ==
  /\ mover[m].at = "walking" /\ mover[m].sessions = {}
  /\ mover' = [mover EXCEPT ![m].at = "reported"]
  /\ UNCHANGED <<sealed, closing, stray, givenUp, newcomers>>

\* The process dies, and the database rolls its transaction back.
PassDies(m) ==
  /\ mover[m].at \in Holding \cup {"walking"}
  /\ mover' = [mover EXCEPT ![m] = Resting]
  /\ UNCHANGED <<sealed, closing, stray, givenUp, newcomers>>

-----------------------------------------------------------------------------
(* The store, publication and deletion.                                    *)

LateWriteLands(f, n) ==
  /\ <<f, n>> \in stray
  /\ stray' = stray \ {<<f, n>>}
  /\ sealed' = [sealed EXCEPT ![f].object = n]
  /\ UNCHANGED <<closing, mover, givenUp, newcomers>>

\* A publication records what it stored; an object that was there before, proved
\* by its content, may be in the first format.
RecordArtifact(f) ==
  /\ sealed[f].row = "none" /\ sealed[f].last = NoSeal
  /\ closing[sealed[f].scope] \in {"live", "requested"} /\ ~ScopeLocked(sealed[f].scope)
  /\ \/ /\ FirstSeal < MaxSeals
        /\ sealed' = [sealed EXCEPT ![f] = [@ EXCEPT !.row = "v2", !.digest = FirstSeal + 1,
                        !.object = FirstSeal + 1, !.last = FirstSeal + 1]]
        /\ UNCHANGED newcomers
     \/ /\ sealed' = [sealed EXCEPT ![f] = [@ EXCEPT !.row = "v1", !.digest = FirstSeal,
                        !.object = FirstSeal, !.last = FirstSeal]]
        /\ newcomers' = [m \in Movers |->
              IF sealed[f].scope \in mover[m].sessions THEN newcomers[m]
              ELSE newcomers[m] \cup {f}]
  /\ UNCHANGED <<closing, mover, stray, givenUp>>

\* Deletion's begin takes the session's lock.
RequestClose(s) ==
  /\ closing[s] = "live" /\ ~ScopeLocked(s)
  /\ closing' = [closing EXCEPT ![s] = "requested"]
  /\ UNCHANGED <<sealed, mover, stray, givenUp, newcomers>>

\* Objects before rows.
SweepObjects(s) ==
  /\ closing[s] = "requested"
  /\ closing' = [closing EXCEPT ![s] = "swept"]
  /\ sealed' = [f \in Files |-> IF f \in InScope(s) THEN [sealed[f] EXCEPT !.object = NoSeal]
                                ELSE sealed[f]]
  /\ UNCHANGED <<mover, stray, givenUp, newcomers>>

RemoveRows(s) ==
  /\ closing[s] = "swept"
  /\ closing' = [closing EXCEPT ![s] = "deleted"]
  /\ sealed' = [f \in Files |-> IF f \in InScope(s)
                  THEN [sealed[f] EXCEPT !.row = "none", !.digest = NoSeal] ELSE sealed[f]]
  /\ UNCHANGED <<mover, stray, givenUp, newcomers>>

-----------------------------------------------------------------------------

\* What a release that wrote the first format left, and what it had not.
Stocked(s, row) ==
  [scope |-> s, row |-> row, digest |-> IF row = "v1" THEN FirstSeal ELSE NoSeal,
   object |-> IF row = "v1" THEN FirstSeal ELSE NoSeal,
   last |-> IF row = "v1" THEN FirstSeal ELSE NoSeal]

EnvelopeInit ==
  /\ sealed \in [Files -> {Stocked(s, row) : s \in Scopes, row \in {"none", "v1"}}]
  /\ closing = [s \in Scopes |-> "live"]
  /\ mover = [m \in Movers |-> Resting]
  /\ stray = {} /\ givenUp = {}
  /\ newcomers = [m \in Movers |-> {}]

EnvelopeNext ==
  \/ \E m \in Movers :
       \/ ListSessions(m) \/ FetchBody(m) \/ OverwriteObject(m) \/ CommitRow(m)
       \/ ReportPass(m) \/ PassDies(m)
       \/ \E s \in Scopes : ReadCandidates(m, s) \/ CountSession(m, s)
       \/ \E f \in Files : LockCandidate(m, f)
  \/ \E f \in Files : RecordArtifact(f) \/ \E n \in Seal : LateWriteLands(f, n)
  \/ \E s \in Scopes : RequestClose(s) \/ SweepObjects(s) \/ RemoveRows(s)

EnvelopeSpec == EnvelopeInit /\ [][EnvelopeNext]_evars

-----------------------------------------------------------------------------

Ended(f) == closing[sealed[f].scope] \in {"swept", "deleted"}

\* Rows and objects stay what each other says, whatever pass died where: a row of
\* the second format names the seal its object holds, one of the first an object
\* that opens or that a later pass adopts; no rewrite brings back an object that a
\* deletion swept; and a pass that reports verified left no row of the first
\* format, but those a publication recorded since it counted.  Excepted are the
\* files a write was given up for while it could still land.
SealedAsRecorded ==
  /\ \A f \in Files \ givenUp :
       /\ sealed[f].row = "v2" /\ ~Ended(f) => Opens(f)
       /\ sealed[f].row = "v1" /\ ~Ended(f) => Opens(f) \/ sealed[f].object > FirstSeal
       /\ Ended(f) => sealed[f].object = NoSeal
  /\ \A m \in Movers :
       mover[m].at = "reported" /\ mover[m].clear =>
         \A f \in Files : sealed[f].row = "v1" => f \in newcomers[m]
=============================================================================
