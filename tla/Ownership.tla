------------------------------ MODULE Ownership ------------------------------
(***************************************************************************)
(* Accounts, external identities, organizations, memberships, their audit  *)
(* events and the open invitations, as the concurrent transactions of      *)
(* khepri.rca use them.  The rule everything serves is FR-013: an          *)
(* organization never loses its last owner who can still log in.           *)
(*                                                                         *)
(* Each client runs one request.  A request is split where PostgreSQL at   *)
(* READ COMMITTED lets others in: a service's own read, the snapshot a     *)
(* locking SELECT chooses its rows from, the moment those rows are locked  *)
(* (each re-tested against its committed version) and the guard counted,   *)
(* and the commit.  Rows a snapshot did not choose are not locked.         *)
(* Owner rows are locked together: taking them one by one only delays      *)
(* others further.  An invitation is kept while it can be redeemed; what   *)
(* is left of it afterwards (its redeemed row, its verifier) is not here.  *)
(***************************************************************************)
EXTENDS Naturals, Sequences, FiniteSets

CONSTANTS
    Account, Org, Link, Invite, Client,
    None      \* no account, organization or link

ASSUME OwnershipAssumption == None \notin Account \cup Org \cup Link

VARIABLES
    account,  \* rca_accounts: disabled_at, whether a verifier is stored, purged or not
    link,     \* rca_external_identities: the account of each provider subject
    orgs,     \* rca_organizations
    member,   \* rca_memberships: the role each account holds in each organization
    events,   \* rca_membership_events of each membership, oldest first
    unused,   \* the invitation identifiers no invitation has had
    open,     \* rca_invitations that are open: neither redeemed nor expired
    expired,  \* those that expired unredeemed
    request,  \* the request each client is running
    \* What the rows no longer show: history no statement reads.
    overtaken,\* the memberships that became an owner's during a reduction of them
    relinked, \* the owners given a subject while its unlinking for another goes on
    late      \* the invitations made after their maker's revocation chose its cascade

identities == <<account, link>>
teams == <<orgs, member, events>>
offers == <<unused, open, expired>>
history == <<overtaken, relinked, late>>
vars == <<account, link, orgs, member, events, unused, open, expired, request,
          overtaken, relinked, late>>

Role == {"member", "owner"}
Held == Role \cup {"none"}
Row == Org \X Account

\* disabled_at, as far as the account horizon tells instants apart.
DisabledAt == {"enabled", "recent", "lapsed"}
AccountRow == [disabledAt : DisabledAt, verifier : BOOLEAN, purged : BOOLEAN]

Event == [prior : Held, next : Held]
Offer == [id : Invite, org : Org, to : Account, by : Account, role : Role]

Reducing == {"disable", "unlink", "revoke", "demote"}
Request ==
    [op     : Reducing \cup {"idle", "enable", "purge", "promote", "other"},
     step   : {"idle", "read", "snapshot", "decided", "done"},
     acct   : Account \cup {None},
     org    : Org \cup {None},
     link   : Link \cup {None},
     rows   : SUBSET Row,        \* the rows the locking SELECT chose, then holds
     prior  : Held,              \* the role read from the membership row
     doomed : SUBSET Offer]      \* the invitations the cascade deletes

Idle ==
    [op |-> "idle", step |-> "idle", acct |-> None, org |-> None, link |-> None,
     rows |-> {}, prior |-> "none", doomed |-> {}]

Done(r) == [Idle EXCEPT !.op = r.op, !.step = "done"]

-----------------------------------------------------------------------------
(* The rules the statements share. *)

\* Account.can_act: enabled and not a tombstone.
CanAct(a) == account[a].disabledAt = "enabled" /\ ~account[a].purged

\* Account.can_authenticate: a live account with a verifier or a linked subject.
CanAuthenticate(a) ==
    /\ CanAct(a)
    /\ account[a].verifier \/ \E l \in Link : link[l] = a

\* _effective_owner_conditions, over one organization.
EffectiveOwners(o) == {b \in Account : member[o][b] = "owner" /\ CanAuthenticate(b)}

OwnerRows(os) == {r \in Row : r[1] \in os /\ member[r[1]][r[2]] = "owner"}

\* A bug: the lock covers the account's own rows only.
OwnRowsLocked(a) == {r \in OwnerRows(Org) : r[2] = a}

\* What owner_memberships_for_update chooses: the owner rows of every
\* organization the account owns.
owner_memberships(a) == OwnerRows({o \in Org : member[o][a] = "owner"})

\* What organization_owners_for_update chooses.
organization_owners(o) == OwnerRows({o})

\* No other transaction holds one of the rows.
Free(c, rows) ==
    \A d \in Client \ {c} : request[d].step = "decided" => request[d].rows \cap rows = {}

\* The chosen rows that still satisfy the predicate when they are locked.
StillOwners(rows) == {r \in rows : member[r[1]][r[2]] = "owner"}

\* Losing the account would leave one of these organizations without an owner.
Strands(a, os) == \E o \in os : EffectiveOwners(o) \ {a} = {}

\* owner_reduction_outcome on the rows it locked.
FinalOwner(a, rows) == Strands(a, {r[1] : r \in {q \in rows : q[2] = a}})

\* A bug: the cascade forgets the offers the revoked member made.
CascadeToRecipientOnly(o, a) == {f \in open : f.org = o /\ f.to = a /\ ~account[a].purged}

\* _cascade_invitations for a membership: offers of the organization made to
\* the account's address, if it still has one, or by the account.
CascadeOf(o, a) ==
    {f \in open : f.org = o /\ ((f.to = a /\ ~account[a].purged) \/ f.by = a)}

\* An invitation some transaction is deleting; a redemption waits for it.
Doomed(f) == \E c \in Client : request[c].step = "decided" /\ f \in request[c].doomed

\* The transaction of a reduction is open: from its first read for an unlinking,
\* from its locking SELECT otherwise.
UnderWay(r) ==
    r.op \in Reducing /\ (r.step \in {"snapshot", "decided"} \/ (r.op = "unlink" /\ r.step = "read"))

\* A reduction of the membership has chosen the rows it locks.
BeingReduced(o, a) ==
    \E c \in Client : /\ UnderWay(request[c]) /\ request[c].step # "read"
                      /\ request[c].acct = a
                      /\ request[c].op \in {"revoke", "demote"} => request[c].org = o

\* The subject is being unlinked by a request that read it as another account's.
StaleUnlinking(l, a) ==
    \E c \in Client : /\ UnderWay(request[c]) /\ request[c].op = "unlink"
                      /\ request[c].link = l /\ request[c].acct # a

\* The membership has become an owner's: what overtook it is noted.
NoteOwner(o, a) ==
    /\ overtaken' = IF BeingReduced(o, a) THEN overtaken \cup {<<o, a>>} ELSE overtaken
    /\ relinked' = IF \E l \in Link : link[l] = a /\ StaleUnlinking(l, a)
                     THEN relinked \cup {<<o, a>>} ELSE relinked
    /\ UNCHANGED late

Start(c, r) ==
    /\ request[c] = Idle
    /\ request' = [request EXCEPT ![c] = r]

At(c, ops, step) == request[c].op \in ops /\ request[c].step = step

Finish(c) == request' = [request EXCEPT ![c] = Done(@)]

Recorded(es, o, a, prior, next) ==
    [es EXCEPT ![o][a] = Append(@, [prior |-> prior, next |-> next])]

-----------------------------------------------------------------------------
\* Accounts are enabled.  One that was re-enabled after a disablement has neither
\* verifier nor link until it recovers, so an account may start with neither.
Init ==
    /\ account \in [Account -> {[disabledAt |-> "enabled", verifier |-> v, purged |-> FALSE] :
                                  v \in BOOLEAN}]
    /\ link \in [Link -> Account \cup {None}]
    /\ orgs \in SUBSET Org
    /\ member \in [Org -> [Account -> Held]]
    /\ \A o \in Org : IF o \in orgs THEN EffectiveOwners(o) # {}
                                    ELSE \A a \in Account : member[o][a] = "none"
    /\ events = [o \in Org |-> [a \in Account |->
                    IF member[o][a] = "none" THEN <<>>
                    ELSE <<[prior |-> "none", next |-> member[o][a]]>>]]
    /\ unused = Invite
    /\ open = {} /\ expired = {}
    /\ request = [c \in Client |-> Idle]
    /\ overtaken = {} /\ relinked = {} /\ late = {}

-----------------------------------------------------------------------------
(* Accounts: LifecycleService and AccountRetentionSweeper. *)

\* disable_account reads the account first and builds the disabled record.
DisableRead(c, a) ==
    /\ CanAct(a)
    /\ Start(c, [Idle EXCEPT !.op = "disable", !.step = "read", !.acct = a])
    /\ UNCHANGED <<identities, teams, offers, history>>

\* A bug: the write has no predicate, so a late one restores a tombstone.
ApplyAccountUnconditionally(a, disabledAt) ==
    account' = [account EXCEPT ![a] = [disabledAt |-> disabledAt, verifier |-> FALSE,
                                       purged |-> FALSE]]

\* _apply_account: one UPDATE, predicated on the row not being a tombstone.
ApplyAccount(a, disabledAt) ==
    account' = IF account[a].purged THEN account
               ELSE [account EXCEPT ![a] = [disabledAt |-> disabledAt, verifier |-> FALSE,
                                            purged |-> FALSE]]

\* apply_owner_reducing_change commits.
DisableCommit(c) ==
    /\ At(c, {"disable"}, "decided")
    /\ ApplyAccount(request[c].acct, "recent")
    /\ Finish(c)
    /\ UNCHANGED <<link, teams, offers, history>>

\* enable_account reads a disabled account, and later writes the whole row; the
\* verifier it writes back is the one it read, which the disablement destroyed.
EnableRead(c, a) ==
    /\ account[a].disabledAt # "enabled" /\ ~account[a].purged
    /\ Start(c, [Idle EXCEPT !.op = "enable", !.step = "read", !.acct = a])
    /\ UNCHANGED <<identities, teams, offers, history>>

EnableWrite(c) ==
    /\ At(c, {"enable"}, "read")
    /\ ApplyAccount(request[c].acct, "enabled")
    /\ Finish(c)
    /\ UNCHANGED <<link, teams, offers, history>>

\* The account horizon passes for a disabled account.
Lapse(a) ==
    /\ account[a].disabledAt = "recent"
    /\ account' = [account EXCEPT ![a].disabledAt = "lapsed"]
    /\ UNCHANGED <<link, teams, offers, request, history>>

\* The sweep selects an account whose horizon has passed.
SweepSelect(c, a) ==
    /\ account[a].disabledAt = "lapsed" /\ ~account[a].purged
    /\ Start(c, [Idle EXCEPT !.op = "purge", !.step = "read", !.acct = a])
    /\ UNCHANGED <<identities, teams, offers, history>>

\* purge_if_still_eligible: lock the row, test it again, delete every
\* invitation to its address, the expired too, leave a tombstone.
Purge(c) ==
    /\ At(c, {"purge"}, "read")
    /\ LET a == request[c].acct
       IN  IF account[a].disabledAt = "lapsed" /\ ~account[a].purged
           THEN /\ account' = [account EXCEPT ![a].purged = TRUE, ![a].verifier = FALSE]
                /\ open' = {f \in open : f.to # a}
                /\ expired' = {f \in expired : f.to # a}
           ELSE UNCHANGED <<account, open, expired>>
    /\ Finish(c)
    /\ UNCHANGED <<link, teams, unused, history>>

-----------------------------------------------------------------------------
(* External identities: link_external_identity and its removal. *)

LinkIdentity(c, l, a) ==
    /\ link[l] = None
    /\ Start(c, [Idle EXCEPT !.op = "other", !.step = "done"])
    /\ link' = [link EXCEPT ![l] = a]
    /\ relinked' = IF StaleUnlinking(l, a)
                     THEN relinked \cup {<<o, a>> : o \in {p \in Org : member[p][a] = "owner"}}
                     ELSE relinked
    /\ UNCHANGED <<account, teams, offers, overtaken, late>>

\* unlink_external_identity_outcome reads the link.
UnlinkRead(c, l) ==
    /\ link[l] # None
    /\ Start(c, [Idle EXCEPT !.op = "unlink", !.step = "read", !.acct = link[l], !.link = l])
    /\ UNCHANGED <<identities, teams, offers, history>>

\* The account cannot log in any more once this link has gone.
LosesCapability(a, l) ==
    ~account[a].verifier /\ \A k \in Link \ {l} : link[k] # a

UnlinkCommit(c) ==
    /\ At(c, {"unlink"}, "decided")
    /\ link' = [link EXCEPT ![request[c].link] = None]
    /\ Finish(c)
    /\ UNCHANGED <<account, teams, offers, history>>

\* owner_reduction_outcome: the statement's snapshot chooses the rows to lock.
ReductionSnapshot(c) ==
    /\ At(c, {"disable", "unlink"}, "read")
    /\ request' = [request EXCEPT ![c].step = "snapshot",
                                  ![c].rows = owner_memberships(request[c].acct)]
    /\ UNCHANGED <<identities, teams, offers, history>>

\* ... and once they are locked the guard is counted.
ReductionDecide(c) ==
    /\ At(c, {"disable", "unlink"}, "snapshot")
    /\ Free(c, request[c].rows)
    /\ LET a == request[c].acct
           held == StillOwners(request[c].rows)
           refused == /\ FinalOwner(a, held)
                      /\ request[c].op = "unlink" => LosesCapability(a, request[c].link)
       IN  IF refused THEN Finish(c)
           ELSE request' = [request EXCEPT ![c].step = "decided", ![c].rows = held]
    /\ UNCHANGED <<identities, teams, offers, history>>

-----------------------------------------------------------------------------
(* Memberships: OrganizationService and SqlOrganizationStore. *)

\* create_organization, for an account that can log in: the organization, its
\* owner and the creation event are one transaction.
CreateOrganization(c, o, a) ==
    /\ o \notin orgs /\ CanAuthenticate(a)
    /\ Start(c, [Idle EXCEPT !.op = "other", !.step = "done"])
    /\ orgs' = orgs \cup {o}
    /\ member' = [member EXCEPT ![o][a] = "owner"]
    /\ events' = Recorded(events, o, a, "none", "owner")
    /\ NoteOwner(o, a)
    /\ UNCHANGED <<identities, offers>>

\* promote_to_owner reads the membership and builds the event ...
PromoteRead(c, o, a) ==
    /\ member[o][a] = "member"
    /\ Start(c, [Idle EXCEPT !.op = "promote", !.step = "read", !.org = o, !.acct = a])
    /\ UNCHANGED <<identities, teams, offers, history>>

\* A bug: the write trusts the service's read of the role.
PromoteOnRead(c) ==
    /\ At(c, {"promote"}, "read")
    /\ LET o == request[c].org
           a == request[c].acct
       IN  /\ Free(c, {<<o, a>>})
           /\ member' = [member EXCEPT ![o][a] = "owner"]
           /\ events' = Recorded(events, o, a, "member", "owner")
           /\ NoteOwner(o, a)
    /\ Finish(c)
    /\ UNCHANGED <<identities, orgs, offers>>

\* ... and promote_membership is one UPDATE predicated on the role it leaves.
PromoteWrite(c) ==
    /\ At(c, {"promote"}, "read")
    /\ LET o == request[c].org
           a == request[c].acct
       IN  /\ Free(c, {<<o, a>>})
           /\ IF member[o][a] = "member"
              THEN /\ member' = [member EXCEPT ![o][a] = "owner"]
                   /\ events' = Recorded(events, o, a, "member", "owner")
                   /\ NoteOwner(o, a)
              ELSE UNCHANGED <<member, events, history>>
    /\ Finish(c)
    /\ UNCHANGED <<identities, orgs, offers>>

\* _apply_membership_change: the snapshot of the organization's owner rows.
ChangeSnapshot(c, op, o, a) ==
    /\ o \in orgs /\ op \in {"revoke", "demote"}
    /\ Start(c, [Idle EXCEPT !.op = op, !.step = "snapshot", !.org = o, !.acct = a,
                             !.rows = organization_owners(o)])
    /\ UNCHANGED <<identities, teams, offers, history>>

\* The rows are locked, the membership row is read, and the guard is counted
\* if that row is among the locked ones.  A revocation deletes the open
\* invitations here, though others see that only when it commits.
ChangeDecide(c) ==
    /\ At(c, {"revoke", "demote"}, "snapshot")
    /\ Free(c, request[c].rows)
    /\ LET o == request[c].org
           a == request[c].acct
           held == StillOwners(request[c].rows)
       IN  IF member[o][a] = "none" \/ FinalOwner(a, held) THEN Finish(c)
           ELSE request' = [request EXCEPT
                    ![c].step = "decided", ![c].rows = held, ![c].prior = member[o][a],
                    ![c].doomed = IF request[c].op = "revoke" THEN CascadeOf(o, a) ELSE {}]
    /\ UNCHANGED <<identities, teams, offers, history>>

\* revoke_membership commits the deletion, the cascade and the event.
RevokeCommit(c) ==
    /\ At(c, {"revoke"}, "decided")
    /\ LET o == request[c].org
           a == request[c].acct
       IN  /\ Free(c, {<<o, a>>})
           /\ member' = [member EXCEPT ![o][a] = "none"]
           /\ events' = Recorded(events, o, a, request[c].prior, "none")
    /\ open' = open \ request[c].doomed /\ expired' = expired \ request[c].doomed
    /\ Finish(c)
    /\ UNCHANGED <<identities, orgs, unused, history>>

\* demote_membership commits.  The row is written only if it was read as an
\* owner's, and a write that finds no row rolls the event back with it.
DemoteCommit(c) ==
    /\ At(c, {"demote"}, "decided")
    /\ LET o == request[c].org
           a == request[c].acct
           prior == request[c].prior
       IN  /\ Free(c, {<<o, a>>})
           /\ IF prior = "owner" /\ member[o][a] = "none" THEN UNCHANGED <<member, events>>
              ELSE /\ member' = IF prior = "owner" THEN [member EXCEPT ![o][a] = "member"]
                                                   ELSE member
                   /\ events' = Recorded(events, o, a, prior, "member")
    /\ Finish(c)
    /\ UNCHANGED <<identities, orgs, offers, history>>

-----------------------------------------------------------------------------
(* Invitations: InvitationService and SqlInvitationStore. *)

\* issue: an owner of the organization offers a role to an address.
Issue(c, i, o, by, to, role) ==
    /\ i \in unused /\ member[o][by] = "owner" /\ CanAct(by) /\ ~account[to].purged
    /\ Start(c, [Idle EXCEPT !.op = "other", !.step = "done"])
    /\ unused' = unused \ {i}
    /\ open' = open \cup {[id |-> i, org |-> o, to |-> to, by |-> by, role |-> role]}
    /\ late' = IF \E d \in Client : /\ At(d, {"revoke"}, "decided")
                                   /\ request[d].org = o /\ request[d].acct = by
                 THEN late \cup {i} ELSE late
    /\ UNCHANGED <<identities, teams, expired, overtaken, relinked>>

\* redeem_into_membership: under the account's lock, a live account that is
\* not a member consumes the invitation and becomes one.  Its expiry was judged
\* at the instant the request began, so it may have expired since.
Redeem(c, f) ==
    /\ f \in open \cup expired /\ ~Doomed(f)
    /\ CanAct(f.to) /\ member[f.org][f.to] = "none"
    /\ Start(c, [Idle EXCEPT !.op = "other", !.step = "done"])
    /\ open' = open \ {f} /\ expired' = expired \ {f}
    /\ member' = [member EXCEPT ![f.org][f.to] = f.role]
    /\ events' = Recorded(events, f.org, f.to, "none", f.role)
    /\ IF f.role = "owner" THEN NoteOwner(f.org, f.to) ELSE UNCHANGED history
    /\ UNCHANGED <<identities, orgs, unused>>

OfferExpires(f) ==
    /\ f \in open
    /\ open' = open \ {f} /\ expired' = expired \cup {f}
    /\ UNCHANGED <<identities, teams, unused, request, history>>

\* delete_open_invitation, or the retention sweep of an expired one.
OfferEnds(f) ==
    /\ f \in open \cup expired
    /\ open' = open \ {f} /\ expired' = expired \ {f}
    /\ UNCHANGED <<identities, teams, unused, request, history>>

\* Every request has ended; nothing else has to happen.
Settled ==
    /\ \A c \in Client : request[c].step \in {"idle", "done"}
    /\ UNCHANGED vars

Next ==
    \/ \E c \in Client, a \in Account :
          DisableRead(c, a) \/ EnableRead(c, a) \/ SweepSelect(c, a)
    \/ \E c \in Client : \/ DisableCommit(c) \/ EnableWrite(c) \/ Purge(c)
                         \/ ReductionSnapshot(c) \/ ReductionDecide(c) \/ UnlinkCommit(c)
                         \/ PromoteWrite(c) \/ ChangeDecide(c)
                         \/ RevokeCommit(c) \/ DemoteCommit(c)
    \/ \E c \in Client, l \in Link :
          UnlinkRead(c, l) \/ \E a \in Account : LinkIdentity(c, l, a)
    \/ \E c \in Client, o \in Org, a \in Account :
          \/ CreateOrganization(c, o, a) \/ PromoteRead(c, o, a)
          \/ \E op \in {"revoke", "demote"} : ChangeSnapshot(c, op, o, a)
          \/ \E i \in Invite, to \in Account, role \in Role : Issue(c, i, o, a, to, role)
    \/ \E c \in Client, f \in open \cup expired : Redeem(c, f)
    \/ \E f \in open : OfferExpires(f)
    \/ \E f \in open \cup expired : OfferEnds(f)
    \/ \E a \in Account : Lapse(a)
    \/ Settled

Spec == Init /\ [][Next]_vars

-----------------------------------------------------------------------------
\* A request under way names what its operation is about, and only a reduction
\* goes on to lock rows.
Named(r) ==
    r.step \in {"read", "snapshot", "decided"} =>
        /\ r.acct \in Account
        /\ r.op = "unlink" => r.link \in Link
        /\ r.op \in {"promote", "revoke", "demote"} => r.org \in Org
        /\ r.step \in {"snapshot", "decided"} => r.op \in Reducing

Requests == request \in [Client -> Request] /\ \A c \in Client : Named(request[c])

\* The store's rows and the requests have the shapes the schema gives them.
TypeOK ==
    /\ account \in [Account -> AccountRow]
    /\ link \in [Link -> Account \cup {None}]
    /\ orgs \subseteq Org
    /\ member \in [Org -> [Account -> Held]]
    /\ events \in [Org -> [Account -> Seq(Event)]]
    /\ unused \subseteq Invite
    /\ open \subseteq Offer /\ expired \subseteq Offer
    /\ Requests
    /\ overtaken \subseteq Row /\ relinked \subseteq Row /\ late \subseteq Invite

\* FR-013: every organization keeps an owner who can log in.
OwnerKept == \A o \in orgs : EffectiveOwners(o) # {}

\* FR-013 as far as the code keeps it: whatever disablements, unlinkings,
\* revocations, demotions, purges, re-enablements, promotions, creations and
\* redemptions run at once, an organization loses its last owner who can log
\* in only if one of its memberships became an owner's while a reduction of
\* that very membership had already chosen its rows, or through a subject that
\* was linked again while its unlinking for another account went on.
OwnerKeptUnlessOvertaken ==
    \A o \in orgs :
        \/ EffectiveOwners(o) # {}
        \/ \E a \in Account : <<o, a>> \in overtaken \cup relinked

\* FR-014 as far as the code keeps it: the events of a membership that give or
\* take the owner role form a chain, each leaving the role the event before it
\* gave, unless the membership became an owner's while a reduction of it had
\* already chosen its rows.
OwnerEventsChain ==
    \A o \in Org, a \in Account :
        LET es == events[o][a]
        IN  \/ <<o, a>> \in overtaken
            \/ \A k \in 2..Len(es) :
                  (es[k].prior = "owner" \/ es[k - 1].next = "owner") => es[k].prior = es[k - 1].next

\* A tombstone is terminal: no request that read the account earlier writes
\* its identity, its state or its verifier back, and only an account disabled
\* past the horizon becomes one.
TombstoneTerminal ==
    [][\A a \in Account :
          /\ account[a].purged => account'[a] = account[a]
          /\ (account'[a].purged /\ ~account[a].purged) => account[a].disabledAt = "lapsed"]_vars

\* FR-020 and the purge cascade: an open invitation was made by someone who is
\* still a member, to an address that still belongs to an account.  Only an
\* invitation made after the revocation of its maker chose its cascade may
\* outlive its maker's membership, and none, expired or not, the account.
OffersStand ==
    /\ \A f \in open : member[f.org][f.by] # "none" \/ f.id \in late
    /\ \A f \in open \cup expired : ~account[f.to].purged
=============================================================================
