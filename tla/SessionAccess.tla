---------------------------- MODULE SessionAccess ----------------------------
(***************************************************************************)
(* Commercial sessions: sign-in through an external identity, switching    *)
(* and authorization on every request, logout, recovery, the provider hard *)
(* stop and the session sweep, as concurrent requests run them.            *)
(*                                                                         *)
(* Every statement is a transaction of its own, so a request is split at   *)
(* each: what it read in one step may have changed in the next.  Accounts  *)
(* and memberships change at any moment here; the rules by which they do   *)
(* are those of Ownership.                                                 *)
(***************************************************************************)
EXTENDS Naturals, FiniteSets

CONSTANTS Accounts, Orgs, Sessions, Keys, Clients, NoOne

ASSUME SessionAssumption == NoOne \notin Accounts \cup Orgs \cup Sessions \cup Keys

VARIABLES
  active,      \* accounts that can act
  linked,      \* accounts an external identity is linked to
  role,        \* the role of each account in each organization, or NoOne
  session,     \* rca_sessions
  recovery,    \* rca_recovery_security_events: the account of each key
  asking,      \* the request each client runs
  seen         \* what was true of each request's actor at some moment since it began

svars == <<active, linked, role, session, recovery, asking, seen>>
accountVars == <<active, linked, role>>

Roles == {"member", "owner"}

SessionState == [of : Accounts \cup {NoOne}, org : Orgs \cup {NoOne},
                 row : BOOLEAN, revoked : BOOLEAN, expired : BOOLEAN]

Errand == {"none", "sign in", "switch", "recover", "act", "resolve"}
Stage == {"idle", "named", "cleared", "issued", "found", "member", "refused", "checked",
          "revoked", "verified", "context", "scoped", "done", "rejected"}
Asking == [errand : Errand, stage : Stage, account : Accounts \cup {NoOne},
           session : Sessions \cup {NoOne}, org : Orgs \cup {NoOne},
           key : Keys \cup {NoOne}, role : Roles \cup {NoOne},
           known : SUBSET Sessions]   \* the account's sessions when its key was first asked with

Seen == [org : SUBSET Orgs, owned : SUBSET Orgs, acted : BOOLEAN, live : BOOLEAN]

SessionTypeOK ==
  /\ active \subseteq Accounts /\ linked \subseteq Accounts
  /\ role \in [Orgs \X Accounts -> Roles \cup {NoOne}]
  /\ session \in [Sessions -> SessionState]
  /\ recovery \in [Keys -> Accounts \cup {NoOne}]
  /\ asking \in [Clients -> Asking]
  /\ seen \in [Clients -> Seen]

-----------------------------------------------------------------------------

IsLive(s) == session[s].row /\ ~session[s].revoked /\ ~session[s].expired
SessionsOf(a) == {s \in Sessions : session[s].row /\ session[s].of = a}
IsMember(o, a) == role[o, a] # NoOne

NoSession == [of |-> NoOne, org |-> NoOne, row |-> FALSE, revoked |-> FALSE, expired |-> FALSE]

Standing(a, o) == [NoSession EXCEPT !.of = a, !.org = o, !.row = TRUE]

NoErrand == [errand |-> "none", stage |-> "idle", account |-> NoOne, session |-> NoOne,
             org |-> NoOne, key |-> NoOne, role |-> NoOne, known |-> {}]

Stands(c, errands, stage) == asking[c].errand \in errands /\ asking[c].stage = stage
Reach(c, stage) == asking' = [asking EXCEPT ![c].stage = stage]
Begin(c, ask) == asking[c] = NoErrand /\ asking' = [asking EXCEPT ![c] = ask]
Give(c) == asking' = [asking EXCEPT ![c] = [NoErrand EXCEPT !.stage = "done"]]

\* A bug: the UPDATE does not ask whether the session was revoked.
UpdateAny(s) == session[s].row

\* An UPDATE whose WHERE names a session no one has revoked.
UpdateLive(s) == session[s].row /\ ~session[s].revoked

Unseen == [org |-> {}, owned |-> {}, acted |-> FALSE, live |-> FALSE]

\* What is true of a request's actor now.
Witness(ask) ==
  [org |-> {o \in Orgs : ask.account # NoOne /\ IsMember(o, ask.account)},
   owned |-> {o \in Orgs : ask.account # NoOne /\ role[o, ask.account] = "owner"},
   acted |-> ask.account \in active,
   live |-> ask.session # NoOne /\ IsLive(ask.session)]

-----------------------------------------------------------------------------
(* Sign-in: name the account, assert it active, issue, switch.             *)

\* The credential verified; the account its subject is linked to is read.
NameAccount(c, a) ==
  /\ a \in linked
  /\ Begin(c, [NoErrand EXCEPT !.errand = "sign in", !.stage = "named", !.account = a])
  /\ UNCHANGED <<accountVars, session, recovery>>

AssertActive(c) ==
  /\ Stands(c, {"sign in"}, "named")
  /\ IF asking[c].account \in active THEN Reach(c, "cleared") ELSE Give(c)
  /\ UNCHANGED <<accountVars, session, recovery>>

\* A new identifier; the session points at no organization yet.
IssueSession(c, s, o) ==
  /\ Stands(c, {"sign in"}, "cleared")
  /\ ~session[s].row /\ session[s].of = NoOne
  /\ session' = [session EXCEPT ![s] = [@ EXCEPT !.of = asking[c].account, !.row = TRUE]]
  /\ asking' = [asking EXCEPT ![c] = [@ EXCEPT !.stage = "issued", !.session = s, !.org = o]]
  /\ UNCHANGED <<accountVars, recovery>>

AskToSwitch(c, s, o) ==
  /\ session[s].row
  /\ Begin(c, [NoErrand EXCEPT !.errand = "switch", !.stage = "issued", !.session = s,
                               !.account = session[s].of, !.org = o])
  /\ UNCHANGED <<accountVars, session, recovery>>

ResolveToSwitch(c) ==
  /\ Stands(c, {"sign in", "switch"}, "issued")
  /\ Reach(c, IF IsLive(asking[c].session) THEN "found" ELSE "refused")
  /\ UNCHANGED <<accountVars, session, recovery>>

CheckMembership(c) ==
  /\ Stands(c, {"sign in", "switch"}, "found")
  /\ Reach(c, IF IsMember(asking[c].org, asking[c].account) THEN "member" ELSE "refused")
  /\ UNCHANGED <<accountVars, session, recovery>>

PointAtOrganization(c) ==
  LET s == asking[c].session IN
  /\ Stands(c, {"sign in", "switch"}, "member")
  /\ session' = IF UpdateLive(s) THEN [session EXCEPT ![s].org = asking[c].org] ELSE session
  /\ IF UpdateLive(s) THEN Give(c) ELSE Reach(c, "refused")
  /\ UNCHANGED <<accountVars, recovery>>

\* A refused sign-in revokes what it issued; a refused switch changes nothing.
Refuse(c) ==
  LET s == asking[c].session IN
  /\ Stands(c, {"sign in", "switch"}, "refused")
  /\ session' = IF asking[c].errand = "sign in" /\ UpdateLive(s)
                  THEN [session EXCEPT ![s].revoked = TRUE] ELSE session
  /\ IF asking[c].errand = "sign in" THEN Reach(c, "rejected") ELSE Give(c)
  /\ UNCHANGED <<accountVars, recovery>>

-----------------------------------------------------------------------------
(* The end of sessions.                                                    *)

Logout(s) ==
  /\ UpdateLive(s)
  /\ session' = [session EXCEPT ![s].revoked = TRUE]
  /\ UNCHANGED <<accountVars, recovery, asking>>

RevokeAll(accounts) ==
  [s \in Sessions |-> IF session[s].of \in accounts /\ UpdateLive(s)
                        THEN [session[s] EXCEPT !.revoked = TRUE] ELSE session[s]]

\* The operator's stop of the identity provider asks only its own settings, so
\* requests may be under way; it revokes the sessions of every linked account.
HardStop ==
  /\ session' = RevokeAll(linked)
  /\ UNCHANGED <<accountVars, recovery, asking>>

\* The twelve hours of a session pass; of a revoked one they change nothing.
Expire(s) ==
  /\ IsLive(s)
  /\ session' = [session EXCEPT ![s].expired = TRUE]
  /\ UNCHANGED <<accountVars, recovery, asking>>

\* The sweep deletes sessions dead for longer than its horizon.
SweepSession(s) ==
  /\ session[s].row /\ (session[s].revoked \/ session[s].expired)
  /\ session' = [session EXCEPT ![s] = [NoSession EXCEPT !.of = session[s].of]]
  /\ UNCHANGED <<accountVars, recovery, asking>>

-----------------------------------------------------------------------------
(* Recovery: revoke everything, prove the identity again, record it once.  *)

\* The sessions a recovery is to end: those there were when its key was first
\* asked with.
Known(a, k) ==
  LET asked == {c \in Clients : asking[c].key = k /\ asking[c].account = a} IN
  IF asked = {} THEN SessionsOf(a) ELSE asking[CHOOSE c \in asked : TRUE].known

\* The identity resolved to an account that is active.
AskToRecover(c, a, k) ==
  /\ a \in linked /\ a \in active
  /\ Begin(c, [NoErrand EXCEPT !.errand = "recover", !.stage = "named", !.account = a,
                               !.key = k, !.known = Known(a, k)])
  /\ UNCHANGED <<accountVars, session, recovery>>

\* A bug: the event is recorded before the sessions are revoked.
FindRecoveryRecording(c) ==
  LET k == asking[c].key IN
  /\ Stands(c, {"recover"}, "named")
  /\ recovery' = [recovery EXCEPT ![k] = IF @ = NoOne THEN asking[c].account ELSE @]
  /\ asking' = [asking EXCEPT ![c].stage = IF recovery[k] = NoOne THEN "checked" ELSE "done"]
  /\ UNCHANGED <<accountVars, session>>

\* A key already recorded is answered as before; another account's is rejected.
FindRecovery(c) ==
  /\ Stands(c, {"recover"}, "named")
  /\ asking' = [asking EXCEPT ![c].stage =
       IF recovery[asking[c].key] = NoOne THEN "checked" ELSE "done"]
  /\ UNCHANGED <<accountVars, session, recovery>>

RevokeEverySession(c) ==
  /\ Stands(c, {"recover"}, "checked")
  /\ session' = RevokeAll({asking[c].account})
  /\ Reach(c, "revoked")
  /\ UNCHANGED <<accountVars, recovery>>

ProveAgain(c) ==
  /\ Stands(c, {"recover"}, "revoked")
  /\ Reach(c, IF asking[c].account \in linked \cap active THEN "verified" ELSE "done")
  /\ UNCHANGED <<accountVars, session, recovery>>

\* The first insert of a key stands.
RecordRecovery(c) ==
  LET k == asking[c].key IN
  /\ Stands(c, {"recover"}, "verified")
  /\ recovery' = [recovery EXCEPT ![k] = IF @ = NoOne THEN asking[c].account ELSE @]
  /\ Reach(c, "done")
  /\ UNCHANGED <<accountVars, session>>

\* Recovery events are purged after their retention.
PurgeRecovery(k) ==
  /\ recovery[k] # NoOne
  /\ recovery' = [recovery EXCEPT ![k] = NoOne]
  /\ UNCHANGED <<accountVars, session, asking>>

-----------------------------------------------------------------------------
(* Authorization: nothing of it is kept between requests.                  *)

\* The organization is the one the session's row named when it was read.
\* An owner's errand ends at its context; one on a scope resolves that next.
Present(c, s, errand) ==
  /\ IsLive(s)
  /\ Begin(c, [NoErrand EXCEPT !.errand = errand, !.stage = "found", !.session = s,
                               !.account = session[s].of, !.org = session[s].org])
  /\ UNCHANGED <<accountVars, session, recovery>>

ResolveActor(c) ==
  /\ Stands(c, {"act", "resolve"}, "found")
  /\ IF asking[c].account \in active THEN Reach(c, "verified") ELSE Give(c)
  /\ UNCHANGED <<accountVars, session, recovery>>

\* A bug: the organization the session points at is taken for a membership.
MakeContextFromSession(c) ==
  LET ask == asking[c] IN
  /\ Stands(c, {"act", "resolve"}, "verified")
  /\ IF ask.org = NoOne THEN Give(c)
     ELSE asking' = [asking EXCEPT ![c] = [@ EXCEPT !.role = "member", !.stage = "context"]]
  /\ UNCHANGED <<accountVars, session, recovery>>

\* Without a membership the context names no organization.
MakeContext(c) ==
  LET ask == asking[c]
      held == IF ask.org = NoOne THEN NoOne ELSE role[ask.org, ask.account]
  IN
  /\ Stands(c, {"act", "resolve"}, "verified")
  /\ IF held = NoOne \/ (ask.errand = "act" /\ held # "owner")
       THEN Give(c)
       ELSE asking' = [asking EXCEPT ![c] = [@ EXCEPT !.role = held, !.stage = "context"]]
  /\ UNCHANGED <<accountVars, session, recovery>>

\* The scope is resolved from the account and the membership as they are now.
ResolveScope(c) ==
  LET ask == asking[c] IN
  /\ Stands(c, {"resolve"}, "context")
  /\ IF ask.account \in active /\ IsMember(ask.org, ask.account)
       THEN Reach(c, "scoped") ELSE Give(c)
  /\ UNCHANGED <<accountVars, session, recovery>>

-----------------------------------------------------------------------------
(* What others do meanwhile, and crashes.                                  *)

\* Sessions are not ended with the account; they wait for it.
SetActive(a) ==
  /\ active' = IF a \in active THEN active \ {a} ELSE active \cup {a}
  /\ UNCHANGED <<linked, role, session, recovery, asking>>

SetLinked(a) ==
  /\ linked' = IF a \in linked THEN linked \ {a} ELSE linked \cup {a}
  /\ UNCHANGED <<active, role, session, recovery, asking>>

SetRole(o, a, r) ==
  /\ role' = [role EXCEPT ![<<o, a>>] = r]
  /\ UNCHANGED <<active, linked, session, recovery, asking>>

\* The process of a request that writes more than once dies between two writes.
Drop(c) ==
  /\ asking[c].errand \in {"sign in", "recover"} /\ asking[c].stage \notin {"done", "rejected"}
  /\ asking' = [asking EXCEPT ![c] = [@ EXCEPT !.errand = "none", !.stage = "done",
                                               !.session = NoOne, !.org = NoOne]]
  /\ UNCHANGED <<accountVars, session, recovery>>

-----------------------------------------------------------------------------

\* Some sessions were issued before.
SessionInit ==
  /\ active = Accounts /\ linked = Accounts
  /\ role = [m \in Orgs \X Accounts |-> "owner"]
  /\ session \in [Sessions -> {NoSession} \cup {Standing(m[1], m[2]) : m \in Accounts \X Orgs}]
  /\ recovery = [k \in Keys |-> NoOne]
  /\ asking = [c \in Clients |-> NoErrand]
  /\ seen = [c \in Clients |-> Unseen]

SessionRequest(c) ==
  \/ \E a \in Accounts : NameAccount(c, a)
  \/ AssertActive(c)
  \/ \E s \in Sessions, o \in Orgs : IssueSession(c, s, o) \/ AskToSwitch(c, s, o)
  \/ ResolveToSwitch(c) \/ CheckMembership(c) \/ PointAtOrganization(c) \/ Refuse(c)
  \/ \E a \in Accounts, k \in Keys : AskToRecover(c, a, k)
  \/ FindRecovery(c) \/ RevokeEverySession(c) \/ ProveAgain(c) \/ RecordRecovery(c)
  \/ \E s \in Sessions, e \in {"act", "resolve"} : Present(c, s, e)
  \/ ResolveActor(c) \/ MakeContext(c) \/ ResolveScope(c)
  \/ Drop(c)

SessionAction ==
  \/ \E c \in Clients : SessionRequest(c)
  \/ \E s \in Sessions : Logout(s) \/ Expire(s) \/ SweepSession(s)
  \/ HardStop
  \/ \E k \in Keys : PurgeRecovery(k)
  \/ \E a \in Accounts : SetActive(a) \/ SetLinked(a)
  \/ \E o \in Orgs, a \in Accounts, r \in Roles \cup {NoOne} : SetRole(o, a, r)

\* What an authorized request has seen grows with every step while it runs.
Observe ==
  seen' = [c \in Clients |->
    LET now == Witness(asking[c])' IN
    IF asking'[c].errand \notin {"act", "resolve"} THEN Unseen ELSE
    [org |-> seen[c].org \cup now.org, owned |-> seen[c].owned \cup now.owned,
     acted |-> seen[c].acted \/ now.acted, live |-> seen[c].live \/ now.live]]

SessionNext == SessionAction /\ Observe

SessionSpec == SessionInit /\ [][SessionNext]_svars

-----------------------------------------------------------------------------

\* Whatever races it, the end of a session is final: a revoked, expired or
\* purged session is never live again, and the organization of a revoked one is
\* never moved (a switch under way when it was revoked is refused).
SessionEndIsFinal ==
  [][\A s \in Sessions :
       session[s].of # NoOne =>
         /\ session'[s].of = session[s].of
         /\ IsLive(s)' => IsLive(s)
         /\ session[s].revoked /\ session'[s].row => session'[s].org = session[s].org]_svars

\* A recovery that is recorded, or that was answered, has ended every session
\* its account had when it was asked for, whichever request recorded it, however
\* many crashed before; and a sign-in that was refused leaves no live session.
EndedAsPromised ==
  \A c \in Clients :
    /\ asking[c].errand = "recover" /\ asking[c].stage \in {"revoked", "verified"} =>
         \A s \in asking[c].known : ~IsLive(s)
    /\ asking[c].errand = "recover" /\ recovery[asking[c].key] = asking[c].account =>
         \A s \in asking[c].known : ~IsLive(s)
    /\ Stands(c, {"sign in"}, "rejected") => ~IsLive(asking[c].session)

\* Nobody is served on what an earlier request knew: whoever is given an
\* organization's scope or an owner's errand was, at some moment of this request, a
\* member or an owner of it with an active account and a live session.
ServedWhileMember ==
  \A c \in Clients :
    LET ask == asking[c] IN
    ask.stage \in {"context", "scoped"} =>
      /\ ask.org \in seen[c].org
      /\ ask.role = "owner" => ask.org \in seen[c].owned
      /\ seen[c].acted /\ seen[c].live
=============================================================================
