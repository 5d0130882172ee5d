---------------------------- MODULE RetailJourney ----------------------------
(***************************************************************************)
(* The journey of one session's content before its report: an invitation   *)
(* redeemed, consent, the upload, its profile and its fact packages, while *)
(* a deletion is requested and completed and the raw upload is purged.     *)
(*                                                                         *)
(* Every repository call is a transaction of its own and takes no lock the *)
(* next one keeps: what a call was admitted by may have changed when it    *)
(* writes, and the unique and foreign keys of the rows decide.  Servers of *)
(* two releases may run at once, as during a deployment.  How the object   *)
(* of an upload is stored and removed is in ContentLifecycle.              *)
(***************************************************************************)
EXTENDS Naturals, FiniteSets

CONSTANTS Callers, Questions, Releases, NoQuestion,
  MaxUploads    \* how many uploads a session may have, one after another

ASSUME JourneyAssumption == NoQuestion \notin Questions \cup Releases /\ MaxUploads \in Nat

VARIABLES
  token,      \* the invitation: "open", "expired" or "redeemed"
  opened,     \* how many sessions it opened
  sessionRow, \* rra_beta_sessions: consent, the content window, deletion
  upload,     \* rra_uploads: 0, or the number of the session's upload
  uploads,    \* how many uploads the session has had
  profile,    \* rra_dataset_profiles: the row of the session
  packages,   \* rra_fact_packages: the releases that have one
  call        \* what each caller is doing, and what it was answered

jvars == <<token, opened, sessionRow, upload, uploads, profile, packages, call>>
rowVars == <<upload, uploads, profile, packages>>

NoProfile == [question |-> NoQuestion, release |-> NoQuestion, upload |-> 0]

Doing == {"nothing", "redeem", "consent", "upload", "profile", "facts"}
Where == {"idle", "admitted", "found", "built", "answered"}
Call == [doing : Doing, where : Where, question : Questions \cup {NoQuestion},
         release : Releases \cup {NoQuestion}, upload : Nat]

JourneyTypeOK ==
  /\ token \in {"open", "expired", "redeemed"}
  /\ opened \in Nat
  /\ sessionRow \in [consented : BOOLEAN, lapsed : BOOLEAN, requested : BOOLEAN, deleted : BOOLEAN]
  /\ upload \in 0..uploads /\ uploads \in Nat
  /\ profile \in [question : Questions \cup {NoQuestion},
                  release : Releases \cup {NoQuestion}, upload : Nat]
  /\ packages \subseteq Releases
  /\ call \in [Callers -> Call]

-----------------------------------------------------------------------------

Calls(q, doing, where) == call[q].doing = doing /\ call[q].where = where
Start(q, doing, question, release) ==
  /\ call[q].where = "idle"
  /\ call' = [call EXCEPT ![q] = [doing |-> doing, where |-> "admitted",
                question |-> question, release |-> release, upload |-> 0]]
Proceed(q, where) == call' = [call EXCEPT ![q].where = where]

\* A call that ended and whose answer says nothing of the profile.
NoCall == [doing |-> "nothing", where |-> "idle", question |-> NoQuestion,
           release |-> NoQuestion, upload |-> 0]
Return(q) == call' = [call EXCEPT ![q] = NoCall]

ContentIsLive == ~sessionRow.requested /\ ~sessionRow.lapsed

\* require_upload_consent
MayUseContent == opened > 0 /\ ContentIsLive /\ sessionRow.consented

HasProfile == profile # NoProfile

-----------------------------------------------------------------------------
(* The invitation and consent.                                             *)

\* The secret matches an invitation that reads open.
PresentToken(q) ==
  /\ token = "open"
  /\ Start(q, "redeem", NoQuestion, NoQuestion)
  /\ UNCHANGED <<token, opened, sessionRow, rowVars>>

\* Under the lock of its row the invitation must still be unredeemed; its expiry
\* is judged at the instant it was presented.  The session is inserted with the mark.
RedeemInvitation(q) ==
  /\ Calls(q, "redeem", "admitted")
  /\ IF token # "redeemed"
       THEN token' = "redeemed" /\ opened' = opened + 1
       ELSE UNCHANGED <<token, opened>>
  /\ Return(q)
  /\ UNCHANGED <<sessionRow, rowVars>>

TokenExpires ==
  /\ token = "open" /\ token' = "expired"
  /\ UNCHANGED <<opened, sessionRow, rowVars, call>>

\* The session is read and must be live.
AskConsent(q) ==
  /\ opened > 0 /\ ContentIsLive
  /\ Start(q, "consent", NoQuestion, NoQuestion)
  /\ UNCHANGED <<token, opened, sessionRow, rowVars>>

\* A bug: the copy read before is saved as it is.
SaveCopy(q) ==
  /\ Calls(q, "consent", "admitted")
  /\ sessionRow' = [sessionRow EXCEPT !.consented = TRUE, !.requested = FALSE, !.deleted = FALSE]
  /\ Return(q)
  /\ UNCHANGED <<token, opened, rowVars>>

\* update_session: the deletion columns of the row win over those of the copy,
\* which were empty when it was read.
SaveConsent(q) ==
  /\ Calls(q, "consent", "admitted")
  /\ sessionRow' = [sessionRow EXCEPT !.consented = TRUE]
  /\ Return(q)
  /\ UNCHANGED <<token, opened, rowVars>>

-----------------------------------------------------------------------------
(* The upload.                                                             *)

BeginUpload(q) ==
  /\ MayUseContent
  /\ Start(q, "upload", NoQuestion, NoQuestion)
  /\ UNCHANGED <<token, opened, sessionRow, rowVars>>

\* A bug: the row is added and not counted.
AddUploadUncounted(q) ==
  /\ Calls(q, "upload", "admitted") /\ uploads < MaxUploads
  /\ upload' = IF upload = 0 THEN uploads + 1 ELSE upload
  /\ Return(q)
  /\ UNCHANGED <<token, opened, sessionRow, uploads, profile, packages>>

\* One upload row per session.
AddUpload(q) ==
  /\ Calls(q, "upload", "admitted") /\ uploads < MaxUploads
  /\ IF upload = 0
       THEN uploads' = uploads + 1 /\ upload' = uploads'
       ELSE UNCHANGED <<upload, uploads>>
  /\ Return(q)
  /\ UNCHANGED <<token, opened, sessionRow, profile, packages>>

-----------------------------------------------------------------------------
(* The profile.                                                            *)

AskProfile(q) ==
  /\ MayUseContent
  /\ \E question \in Questions, release \in Releases : Start(q, "profile", question, release)
  /\ UNCHANGED <<token, opened, sessionRow, rowVars>>

FindUpload(q) ==
  /\ Calls(q, "profile", "admitted")
  /\ IF upload = 0 THEN Return(q)
     ELSE call' = [call EXCEPT ![q].where = "found", ![q].upload = upload]
  /\ UNCHANGED <<token, opened, sessionRow, rowVars>>

ProfileOf(u) == HasProfile /\ profile.upload = u /\ u # 0

\* The profile there is answers only the question it was made for: the same
\* requested semantics, attestation and contract.
Answering(q) ==
  IF profile.question = call[q].question THEN Proceed(q, "answered") ELSE Return(q)

\* An existing profile answers; otherwise the object is read and profiled.
FindProfile(q) ==
  /\ Calls(q, "profile", "found")
  /\ IF ProfileOf(call[q].upload) THEN Answering(q) ELSE Proceed(q, "built")
  /\ UNCHANGED <<token, opened, sessionRow, rowVars>>

\* A bug: whatever profile is stored is the answer.
AddProfileUnasked(q) ==
  /\ Calls(q, "profile", "built")
  /\ IF ~HasProfile /\ upload = call[q].upload
       THEN profile' = [question |-> call[q].question, release |-> call[q].release,
                        upload |-> upload]
       ELSE UNCHANGED profile
  /\ Proceed(q, "answered")
  /\ UNCHANGED <<token, opened, sessionRow, upload, uploads, packages>>

\* The insert needs the upload's row and that the session has no profile; an
\* insert that clashed is answered by the profile of that upload, if there is one.
AddProfileRow(q) ==
  /\ Calls(q, "profile", "built")
  /\ IF ~HasProfile /\ upload = call[q].upload
       THEN /\ profile' = [question |-> call[q].question, release |-> call[q].release,
                           upload |-> upload]
            /\ Proceed(q, "answered")
       ELSE /\ UNCHANGED profile
            /\ IF ProfileOf(call[q].upload) THEN Answering(q) ELSE Return(q)
  /\ UNCHANGED <<token, opened, sessionRow, upload, uploads, packages>>

-----------------------------------------------------------------------------
(* The fact packages.                                                      *)

AskFacts(q) ==
  /\ MayUseContent
  /\ \E release \in Releases : Start(q, "facts", NoQuestion, release)
  /\ UNCHANGED <<token, opened, sessionRow, rowVars>>

\* The profile must have been made by the release that is asked; the package of
\* that release answers if there is one; otherwise the upload must still be there,
\* and the call fails if it no longer reads as the profile says.
FindPackage(q) ==
  LET mine == call[q].release IN
  /\ Calls(q, "facts", "admitted")
  /\ IF profile.release # mine \/ (mine \notin packages /\ upload = 0)
       THEN Return(q)
       ELSE call' = [call EXCEPT ![q].question = profile.question,
                                 ![q].where = IF mine \in packages THEN "answered" ELSE "built"]
  /\ UNCHANGED <<token, opened, sessionRow, rowVars>>

\* The insert needs the profile's row.
AddPackage(q) ==
  /\ Calls(q, "facts", "built")
  /\ IF HasProfile
       THEN packages' = packages \cup {call[q].release} /\ Proceed(q, "answered")
       ELSE UNCHANGED packages /\ Return(q)
  /\ UNCHANGED <<token, opened, sessionRow, upload, uploads, profile>>

-----------------------------------------------------------------------------
(* What ends content, and calls that fail.                                 *)

WindowLapses ==
  /\ opened > 0 /\ ~sessionRow.lapsed
  /\ sessionRow' = [sessionRow EXCEPT !.lapsed = TRUE]
  /\ UNCHANGED <<token, opened, rowVars, call>>

RequestDeletion ==
  /\ opened > 0 /\ ~sessionRow.requested
  /\ sessionRow' = [sessionRow EXCEPT !.requested = TRUE]
  /\ UNCHANGED <<token, opened, rowVars, call>>

\* Derived rows go first, then the upload's; a profile inserted in between is
\* left, naming no upload.
CompleteDeletion ==
  /\ sessionRow.requested /\ ~sessionRow.deleted
  /\ sessionRow' = [sessionRow EXCEPT !.deleted = TRUE]
  /\ upload' = 0
  /\ packages' = {}
  /\ \/ profile' = NoProfile /\ UNCHANGED call
     \/ \E q \in Callers :
          /\ Calls(q, "profile", "built") /\ upload # 0 /\ upload = call[q].upload
          /\ profile' = [question |-> call[q].question, release |-> call[q].release,
                         upload |-> 0]
          /\ Proceed(q, "answered")
  /\ UNCHANGED <<token, opened, uploads>>

\* The raw upload of a completed run goes at its horizon; its profile stays.
PurgeRawUpload ==
  /\ upload # 0 /\ packages # {}
  /\ upload' = 0
  /\ profile' = [profile EXCEPT !.upload = 0]
  /\ UNCHANGED <<token, opened, sessionRow, uploads, packages, call>>

\* Storage fails, the content is refused, or the server dies.
CallFails(q) ==
  /\ call[q].where \in {"admitted", "found", "built"}
  /\ Return(q)
  /\ UNCHANGED <<token, opened, sessionRow, rowVars>>

-----------------------------------------------------------------------------

JourneyInit ==
  /\ token = "open" /\ opened = 0
  /\ sessionRow = [consented |-> FALSE, lapsed |-> FALSE, requested |-> FALSE, deleted |-> FALSE]
  /\ upload = 0 /\ uploads = 0
  /\ profile = NoProfile
  /\ packages = {}
  /\ call = [q \in Callers |-> NoCall]

JourneyCall(q) ==
  \/ PresentToken(q) \/ RedeemInvitation(q) \/ AskConsent(q) \/ SaveConsent(q)
  \/ BeginUpload(q) \/ AddUpload(q)
  \/ AskProfile(q) \/ FindUpload(q) \/ FindProfile(q) \/ AddProfileRow(q)
  \/ AskFacts(q) \/ FindPackage(q) \/ AddPackage(q) \/ CallFails(q)

JourneyNext ==
  \/ \E q \in Callers : JourneyCall(q)
  \/ TokenExpires \/ WindowLapses \/ RequestDeletion \/ CompleteDeletion \/ PurgeRawUpload

JourneySpec == JourneyInit /\ [][JourneyNext]_jvars

-----------------------------------------------------------------------------

\* Until its content is deleted a session has one reading of one upload: whoever
\* was answered, by whichever server, was answered for the question it asked and
\* from the same profile, also when several inserts raced; a package belongs to
\* the release its profile was made by; and one invitation opens one session.
OneReading ==
  /\ opened <= 1 /\ (opened = 1 <=> token = "redeemed")
  /\ ~sessionRow.deleted =>
       /\ \A q \in Callers :
            call[q].doing \in {"profile", "facts"} /\ call[q].where = "answered" =>
              HasProfile /\ call[q].question = profile.question
       /\ packages \subseteq {profile.release}
       /\ upload # 0 /\ HasProfile => profile.upload \in {0, upload}

\* Consent read before a deletion and saved after it does not bring the content
\* back: a requested or completed deletion stays so, and while content lives its
\* profile is never replaced.
DeletionStands ==
  [][/\ sessionRow.requested => sessionRow'.requested
     /\ sessionRow.deleted => sessionRow'.deleted
     /\ sessionRow'.deleted => sessionRow'.requested
     /\ HasProfile /\ ~sessionRow'.deleted =>
          profile'.question = profile.question /\ profile'.release = profile.release]_jvars
=============================================================================
