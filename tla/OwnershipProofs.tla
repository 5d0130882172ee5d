--------------------------- MODULE OwnershipProofs ---------------------------
(***************************************************************************)
(* Proofs about Ownership, for any number of accounts, organizations,      *)
(* links, invitations and concurrent requests.                             *)
(***************************************************************************)
EXTENDS Ownership, TLAPS

-----------------------------------------------------------------------------
(* Types. *)

\* The first request of every client.
LEMMA IdleType == Idle \in Request /\ Idle.step = "idle"
BY DEF Idle, Request, Held, Role

\* A request that has ended is a request.
LEMMA DoneType == \A r \in Request : Done(r) \in Request /\ Done(r).step = "done"
BY IdleType DEF Done, Idle, Request, Held, Role

\* Appending an event keeps the audit trail's type.
LEMMA RecordedType ==
    ASSUME NEW es \in [Org -> [Account -> Seq(Event)]], NEW o \in Org, NEW a \in Account,
           NEW p \in Held, NEW n \in Held
    PROVE  Recorded(es, o, a, p, n) \in [Org -> [Account -> Seq(Event)]]
<1>1. [prior |-> p, next |-> n] \in Event
  BY DEF Event
<1>2. Append(es[o][a], [prior |-> p, next |-> n]) \in Seq(Event)
  BY <1>1
<1> QED  BY <1>2 DEF Recorded

\* A client's request may be replaced by any other well-named one.
LEMMA Advance ==
    ASSUME Requests, NEW c \in Client
    PROVE  /\ request[c] \in Request /\ Named(request[c])
           /\ \A r \in Request : Named(r) /\ request' = [request EXCEPT ![c] = r] => Requests'
           /\ \A r \in Request : Named(r) /\ Start(c, r) => Requests'
           /\ Finish(c) => Requests'
<1>1. request \in [Client -> Request] /\ request[c] \in Request /\ Named(request[c])
  BY DEF Requests
<1>2. ASSUME NEW r \in Request, Named(r), request' = [request EXCEPT ![c] = r]
      PROVE  Requests'
  <2>1. request' \in [Client -> Request]
    BY <1>1, <1>2
  <2>2. ASSUME NEW d \in Client PROVE Named(request'[d])
    BY <1>1, <1>2 DEF Requests
  <2> QED  BY <2>1, <2>2 DEF Requests
<1>3. Done(request[c]) \in Request /\ Named(Done(request[c]))
  BY <1>1, DoneType DEF Named
<1>4. Finish(c) => Requests'
  BY <1>2, <1>3, <1>1 DEF Finish
<1> QED  BY <1>1, <1>2, <1>4 DEF Start

\* Noting how a membership became an owner's adds at most that membership.
LEMMA Noted ==
    ASSUME TypeOK, NEW o \in Org, NEW a \in Account, NoteOwner(o, a)
    PROVE  /\ overtaken' \subseteq Row /\ relinked' \subseteq Row /\ late' = late
           /\ overtaken \subseteq overtaken' /\ relinked \subseteq relinked'
           /\ BeingReduced(o, a) => <<o, a>> \in overtaken'
           /\ \A l \in Link : link[l] = a /\ StaleUnlinking(l, a) => <<o, a>> \in relinked'
<1>1. <<o, a>> \in Row /\ overtaken \subseteq Row /\ relinked \subseteq Row
  BY DEF Row, TypeOK
<1>2. overtaken' \in {overtaken, overtaken \cup {<<o, a>>}} /\ relinked' \in {relinked, relinked \cup {<<o, a>>}}
  BY DEF NoteOwner
<1>3. late' = late
  BY DEF NoteOwner
<1>4. BeingReduced(o, a) => <<o, a>> \in overtaken'
  BY DEF NoteOwner
<1>5. \A l \in Link : link[l] = a /\ StaleUnlinking(l, a) => <<o, a>> \in relinked'
  BY DEF NoteOwner
<1> QED  BY <1>1, <1>2, <1>3, <1>4, <1>5

\* A link made is noted for its account's memberships if it was being unlinked from
\* another.
LEMMA NotedLink ==
    ASSUME TypeOK, NEW c \in Client, NEW l \in Link, NEW a \in Account, LinkIdentity(c, l, a)
    PROVE  /\ relinked' \subseteq Row /\ relinked \subseteq relinked'
           /\ overtaken' = overtaken /\ late' = late
           /\ StaleUnlinking(l, a) => \A o \in Org : member[o][a] = "owner" => <<o, a>> \in relinked'
<1> DEFINE owned == {<<o, a>> : o \in {p \in Org : member[p][a] = "owner"}}
<1>1. owned \subseteq Row /\ relinked \subseteq Row
  BY DEF Row, TypeOK
<1>2. relinked' = IF StaleUnlinking(l, a) THEN relinked \cup owned ELSE relinked
  BY DEF LinkIdentity
<1>3. overtaken' = overtaken /\ late' = late
  BY DEF LinkIdentity
<1>4. \A o \in Org : member[o][a] = "owner" => <<o, a>> \in owned
  OBVIOUS
<1> HIDE DEF owned
<1> QED  BY <1>1, <1>2, <1>3, <1>4

\* Every step keeps the types.
LEMMA TypeStep == TypeOK /\ [Next]_vars => TypeOK'
<1> SUFFICES ASSUME TypeOK, [Next]_vars PROVE TypeOK'
  OBVIOUS
<1> USE DEF identities, teams, offers, history
<1>R. Requests
  BY DEF TypeOK
<1>O. /\ [Idle EXCEPT !.op = "other", !.step = "done"] \in Request
      /\ Named([Idle EXCEPT !.op = "other", !.step = "done"])
  BY IdleType DEF Request, Idle, Held, Role, Named
<1>1. ASSUME NEW c \in Client, NEW a \in Account,
             DisableRead(c, a) \/ EnableRead(c, a) \/ SweepSelect(c, a)
      PROVE  TypeOK'
  <2>1. \A op \in {"disable", "enable", "purge"} :
           LET r == [Idle EXCEPT !.op = op, !.step = "read", !.acct = a]
           IN  r \in Request /\ Named(r)
    BY IdleType DEF Request, Idle, Held, Role, Reducing, Named
  <2>2. Requests'
    BY <1>1, <1>R, <2>1, Advance DEF DisableRead, EnableRead, SweepSelect
  <2> QED  BY <1>1, <2>2 DEF DisableRead, EnableRead, SweepSelect, TypeOK
<1>2. ASSUME NEW c \in Client, DisableCommit(c) \/ EnableWrite(c) PROVE TypeOK'
  <2>1. Requests'
    BY <1>2, <1>R, Advance DEF DisableCommit, EnableWrite
  <2>2. \A d \in DisabledAt : [disabledAt |-> d, verifier |-> FALSE, purged |-> FALSE] \in AccountRow
    BY DEF AccountRow
  <2>3. "recent" \in DisabledAt /\ "enabled" \in DisabledAt
    BY DEF DisabledAt
  <2>4. account' \in [Account -> AccountRow]
    <3>1. account \in [Account -> AccountRow]
      BY DEF TypeOK
    <3>2. CASE DisableCommit(c)
      BY <3>1, <3>2, <2>2, <2>3 DEF DisableCommit, ApplyAccount
    <3>3. CASE EnableWrite(c)
      BY <3>1, <3>3, <2>2, <2>3 DEF EnableWrite, ApplyAccount
    <3> QED  BY <1>2, <3>2, <3>3
  <2> QED  BY <1>2, <2>1, <2>4 DEF DisableCommit, EnableWrite, TypeOK
<1>3. ASSUME NEW c \in Client, Purge(c) PROVE TypeOK'
  <2>1. Requests'
    BY <1>3, <1>R, Advance DEF Purge
  <2>2. account' \in [Account -> AccountRow]
    <3> DEFINE a == request[c].acct
    <3>1. a \in Account /\ account \in [Account -> AccountRow]
      BY <1>3, <1>R, Advance DEF Purge, At, Named, TypeOK
    <3>2. [account[a] EXCEPT !.purged = TRUE, !.verifier = FALSE] \in AccountRow
      BY <3>1 DEF AccountRow
    <3>3. \/ account' = account
          \/ account' = [account EXCEPT ![a] = [account[a] EXCEPT !.purged = TRUE, !.verifier = FALSE]]
      BY <1>3, <3>1 DEF Purge
    <3> QED  BY <3>1, <3>2, <3>3
  <2>3. open' \subseteq Offer /\ expired' \subseteq Offer
    BY <1>3 DEF Purge, TypeOK
  <2> QED  BY <1>3, <2>1, <2>2, <2>3 DEF Purge, TypeOK
<1>4. ASSUME NEW a \in Account, Lapse(a) PROVE TypeOK'
  <2>1. account' \in [Account -> AccountRow]
    BY <1>4 DEF Lapse, TypeOK, AccountRow, DisabledAt
  <2>2. Requests'
    BY <1>4, <1>R DEF Lapse, Requests
  <2> QED  BY <1>4, <2>1, <2>2 DEF Lapse, TypeOK
<1>5. ASSUME NEW c \in Client, NEW l \in Link, UnlinkRead(c, l) PROVE TypeOK'
  <2>1. link[l] \in Account
    BY <1>5 DEF UnlinkRead, TypeOK
  <2>2. LET r == [Idle EXCEPT !.op = "unlink", !.step = "read", !.acct = link[l], !.link = l]
        IN  r \in Request /\ Named(r)
    BY <2>1, IdleType DEF Request, Idle, Held, Role, Reducing, Named
  <2>3. Requests'
    BY <1>5, <1>R, <2>2, Advance DEF UnlinkRead
  <2> QED  BY <1>5, <2>3 DEF UnlinkRead, TypeOK
<1>6. ASSUME NEW c \in Client, NEW l \in Link, NEW a \in Account, LinkIdentity(c, l, a)
      PROVE  TypeOK'
  <2>1. Requests'
    BY <1>6, <1>R, <1>O, Advance DEF LinkIdentity
  <2>2. overtaken' \subseteq Row /\ relinked' \subseteq Row /\ late' \subseteq Invite
    BY <1>6, NotedLink DEF TypeOK
  <2>3. link' \in [Link -> Account \cup {None}] /\ UNCHANGED <<account, teams, offers>>
    BY <1>6 DEF LinkIdentity, TypeOK
  <2> QED  BY <2>1, <2>2, <2>3 DEF TypeOK
<1>7. ASSUME NEW c \in Client, UnlinkCommit(c) PROVE TypeOK'
  <2>1. Requests'
    BY <1>7, <1>R, Advance DEF UnlinkCommit
  <2>2. link' \in [Link -> Account \cup {None}]
    BY <1>7 DEF UnlinkCommit, TypeOK
  <2> QED  BY <1>7, <2>1, <2>2 DEF UnlinkCommit, TypeOK
<1>8. ASSUME NEW c \in Client, ReductionSnapshot(c) PROVE TypeOK'
  <2>1. request[c] \in Request /\ Named(request[c])
    BY <1>R, Advance
  <2>2. owner_memberships(request[c].acct) \subseteq Row
    BY DEF owner_memberships, OwnerRows
  <2> DEFINE r == [request[c] EXCEPT !.step = "snapshot",
                                     !.rows = owner_memberships(request[c].acct)]
  <2>3. r \in Request /\ Named(r)
    BY <1>8, <2>1, <2>2 DEF ReductionSnapshot, At, Request, Named, Reducing
  <2>4. request' = [request EXCEPT ![c] = r]
    BY <1>8, <1>R DEF ReductionSnapshot, Requests
  <2>5. Requests'
    BY <1>R, <2>3, <2>4, Advance
  <2> QED  BY <1>8, <2>5 DEF ReductionSnapshot, TypeOK
<1>9. ASSUME NEW c \in Client, ReductionDecide(c) PROVE TypeOK'
  <2>1. request[c] \in Request /\ Named(request[c])
    BY <1>R, Advance
  <2>2. StillOwners(request[c].rows) \subseteq Row
    BY <2>1 DEF StillOwners, Request
  <2> DEFINE r == [request[c] EXCEPT !.step = "decided", !.rows = StillOwners(request[c].rows)]
  <2>3. r \in Request /\ Named(r)
    BY <1>9, <2>1, <2>2 DEF ReductionDecide, At, Request, Named, Reducing
  <2>4. Finish(c) \/ request' = [request EXCEPT ![c] = r]
    BY <1>9, <1>R DEF ReductionDecide, Requests
  <2>5. Requests'
    BY <1>R, <2>3, <2>4, Advance
  <2> QED  BY <1>9, <2>5 DEF ReductionDecide, TypeOK
<1>10. ASSUME NEW c \in Client, NEW o \in Org, NEW a \in Account, CreateOrganization(c, o, a)
       PROVE  TypeOK'
  <2>1. Requests'
    BY <1>10, <1>R, <1>O, Advance DEF CreateOrganization
  <2>2. events' \in [Org -> [Account -> Seq(Event)]]
    BY <1>10, RecordedType DEF CreateOrganization, TypeOK, Held, Role
  <2>3. member' \in [Org -> [Account -> Held]]
    BY <1>10 DEF CreateOrganization, TypeOK, Held, Role
  <2>4. overtaken' \subseteq Row /\ relinked' \subseteq Row /\ late' \subseteq Invite
    BY <1>10, Noted DEF CreateOrganization, TypeOK
  <2> QED  BY <1>10, <2>1, <2>2, <2>3, <2>4 DEF CreateOrganization, TypeOK
<1>11. ASSUME NEW c \in Client, NEW o \in Org, NEW a \in Account, PromoteRead(c, o, a)
       PROVE  TypeOK'
  <2>1. LET r == [Idle EXCEPT !.op = "promote", !.step = "read", !.org = o, !.acct = a]
        IN  r \in Request /\ Named(r)
    BY IdleType DEF Request, Idle, Held, Role, Reducing, Named
  <2>2. Requests'
    BY <1>11, <1>R, <2>1, Advance DEF PromoteRead
  <2> QED  BY <1>11, <2>2 DEF PromoteRead, TypeOK
<1>12. ASSUME NEW c \in Client, NEW o \in Org, NEW a \in Account, NEW op \in {"revoke", "demote"},
              ChangeSnapshot(c, op, o, a)
       PROVE  TypeOK'
  <2>1. organization_owners(o) \subseteq Row
    BY DEF organization_owners, OwnerRows
  <2>2. LET r == [Idle EXCEPT !.op = op, !.step = "snapshot", !.org = o, !.acct = a,
                              !.rows = organization_owners(o)]
        IN  r \in Request /\ Named(r)
    BY <2>1, IdleType DEF Request, Idle, Held, Role, Reducing, Named
  <2>3. Requests'
    BY <1>12, <1>R, <2>2, Advance DEF ChangeSnapshot
  <2> QED  BY <1>12, <2>3 DEF ChangeSnapshot, TypeOK
<1>13. ASSUME NEW c \in Client, ChangeDecide(c) PROVE TypeOK'
  <2> DEFINE o == request[c].org
             a == request[c].acct
             dead == IF request[c].op = "revoke" THEN CascadeOf(o, a) ELSE {}
             r == [request[c] EXCEPT !.step = "decided", !.rows = StillOwners(request[c].rows),
                                     !.prior = member[o][a], !.doomed = dead]
  <2>1. request[c] \in Request /\ Named(request[c])
    BY <1>R, Advance
  <2>2. o \in Org /\ a \in Account /\ member[o][a] \in Held
    BY <1>13, <2>1 DEF ChangeDecide, At, Named, TypeOK
  <2>3. StillOwners(request[c].rows) \subseteq Row /\ dead \subseteq Offer
    BY <2>1 DEF StillOwners, Request, CascadeOf, TypeOK
  <2>4. r \in Request /\ Named(r)
    <3>1. r \in Request
      BY <2>1, <2>2, <2>3 DEF Request
    <3>2. Named(r)
      BY <1>13, <2>1 DEF ChangeDecide, At, Request, Named, Reducing
    <3> QED  BY <3>1, <3>2
  <2>5. Finish(c) \/ request' = [request EXCEPT ![c] = r]
    BY <1>13, <1>R DEF ChangeDecide, Requests
  <2>6. Requests'
    BY <1>R, <2>4, <2>5, Advance
  <2> QED  BY <1>13, <2>6 DEF ChangeDecide, TypeOK
<1>14. ASSUME NEW c \in Client, PromoteWrite(c) \/ RevokeCommit(c) \/ DemoteCommit(c)
       PROVE  TypeOK'
  <2> DEFINE o == request[c].org
             a == request[c].acct
  <2>1. o \in Org /\ a \in Account /\ request[c].prior \in Held
    BY <1>14, <1>R, Advance DEF PromoteWrite, RevokeCommit, DemoteCommit, At, Named, Request
  <2>2. Requests'
    BY <1>14, <1>R, Advance DEF PromoteWrite, RevokeCommit, DemoteCommit
  <2>3. "none" \in Held /\ "member" \in Held /\ "owner" \in Held
    BY DEF Held, Role
  <2>4. member' \in [Org -> [Account -> Held]]
    <3>1. \/ member' = member
          \/ \E h \in Held : member' = [member EXCEPT ![o][a] = h]
      BY <1>14, <2>3 DEF PromoteWrite, RevokeCommit, DemoteCommit
    <3>2. \A h \in Held : [member EXCEPT ![o][a] = h] \in [Org -> [Account -> Held]]
      <4> HIDE DEF o, a
      <4> QED  BY <2>1 DEF TypeOK
    <3> QED  BY <3>1, <3>2 DEF TypeOK
  <2>5. events' \in [Org -> [Account -> Seq(Event)]]
    <3>1. \/ events' = events
          \/ \E p, n \in Held : events' = Recorded(events, o, a, p, n)
      <4>1. CASE PromoteWrite(c)  BY <4>1, <2>3 DEF PromoteWrite
      <4>2. CASE RevokeCommit(c)  BY <4>2, <2>1, <2>3 DEF RevokeCommit
      <4>3. CASE DemoteCommit(c)  BY <4>3, <2>1, <2>3 DEF DemoteCommit
      <4> QED  BY <1>14, <4>1, <4>2, <4>3
    <3>2. \A p, n \in Held : Recorded(events, o, a, p, n) \in [Org -> [Account -> Seq(Event)]]
      BY <2>1, RecordedType DEF TypeOK
    <3> QED  BY <3>1, <3>2 DEF TypeOK
  <2>6. open' \subseteq Offer /\ expired' \subseteq Offer
    BY <1>14 DEF PromoteWrite, RevokeCommit, DemoteCommit, TypeOK
  <2>7. overtaken' \subseteq Row /\ relinked' \subseteq Row /\ late' \subseteq Invite
    <3>1. NoteOwner(o, a) \/ UNCHANGED history
      BY <1>14 DEF PromoteWrite, RevokeCommit, DemoteCommit
    <3> QED  BY <2>1, <3>1, Noted DEF TypeOK
  <2> QED  BY <1>14, <2>2, <2>4, <2>5, <2>6, <2>7 DEF PromoteWrite, RevokeCommit, DemoteCommit, TypeOK
<1>15. ASSUME NEW c \in Client, NEW i \in Invite, NEW o \in Org, NEW by \in Account,
              NEW to \in Account, NEW role \in Role, Issue(c, i, o, by, to, role)
       PROVE  TypeOK'
  <2>1. Requests'
    BY <1>15, <1>R, <1>O, Advance DEF Issue
  <2>2. [id |-> i, org |-> o, to |-> to, by |-> by, role |-> role] \in Offer
    BY DEF Offer
  <2>3. overtaken' \subseteq Row /\ relinked' \subseteq Row /\ late' \subseteq Invite
    BY <1>15 DEF Issue, TypeOK
  <2> QED  BY <1>15, <2>1, <2>2, <2>3 DEF Issue, TypeOK
<1>16. ASSUME NEW c \in Client, NEW f \in open \cup expired, Redeem(c, f) PROVE TypeOK'
  <2>1. Requests'
    BY <1>16, <1>R, <1>O, Advance DEF Redeem
  <2>2. f.org \in Org /\ f.to \in Account /\ f.role \in Held /\ "none" \in Held
    BY DEF TypeOK, Offer, Held
  <2>3. events' \in [Org -> [Account -> Seq(Event)]]
    BY <1>16, <2>2, RecordedType DEF Redeem, TypeOK
  <2>4. member' \in [Org -> [Account -> Held]]
    BY <1>16, <2>2 DEF Redeem, TypeOK
  <2>5. overtaken' \subseteq Row /\ relinked' \subseteq Row /\ late' \subseteq Invite
    <3>1. NoteOwner(f.org, f.to) \/ UNCHANGED history
      BY <1>16 DEF Redeem
    <3> QED  BY <2>2, <3>1, Noted DEF TypeOK
  <2> QED  BY <1>16, <2>1, <2>3, <2>4, <2>5 DEF Redeem, TypeOK
<1>17. ASSUME NEW f \in open \cup expired, OfferEnds(f) \/ OfferExpires(f) PROVE TypeOK'
  BY <1>17, <1>R DEF OfferEnds, OfferExpires, TypeOK, Requests
<1>18. ASSUME UNCHANGED vars PROVE TypeOK'
  BY <1>18, <1>R DEF vars, TypeOK, Requests
<1> QED
  BY <1>1, <1>2, <1>3, <1>4, <1>5, <1>6, <1>7, <1>8, <1>9, <1>10, <1>11, <1>12, <1>13, <1>14,
     <1>15, <1>16, <1>17, <1>18 DEF Next, Settled

\* The initial rows and requests have their types.
LEMMA TypeInit == Init => TypeOK
<1> SUFFICES ASSUME Init PROVE TypeOK
  OBVIOUS
<1>1. account \in [Account -> AccountRow]
  <2>1. \A v \in BOOLEAN : [disabledAt |-> "enabled", verifier |-> v, purged |-> FALSE] \in AccountRow
    BY DEF AccountRow, DisabledAt
  <2> QED  BY <2>1 DEF Init
<1>2. events \in [Org -> [Account -> Seq(Event)]]
  <2>1. ASSUME NEW o \in Org, NEW a \in Account PROVE events[o][a] \in Seq(Event)
    <3>1. member[o][a] \in Held
      BY DEF Init
    <3>2. [prior |-> "none", next |-> member[o][a]] \in Event
      BY <3>1 DEF Event, Held
    <3> QED  BY <3>2 DEF Init
  <2> QED  BY <2>1 DEF Init
<1>3. Requests
  BY IdleType DEF Init, Requests, Named
<1> QED  BY <1>1, <1>2, <1>3 DEF Init, TypeOK

\* Every row, event, invitation and request keeps its type.
THEOREM OwnershipTypes == Spec => []TypeOK
BY TypeInit, TypeStep, PTL DEF Spec

-----------------------------------------------------------------------------
(* The invariant behind OwnerKeptUnlessOvertaken. *)

\* The organizations whose owners a reduction has to guard.
Reach(r) ==
    IF r.op \in {"disable", "unlink"} THEN {o \in Org : member[o][r.acct] = "owner"} ELSE {r.org}

\* The locking SELECT chose the row of the account itself in every organization
\* the request reaches and the account owns, unless it became an owner later.
OwnRowChosen ==
    \A c \in Client : request[c].step \in {"snapshot", "decided"} =>
        /\ \A o \in Reach(request[c]) :
              member[o][request[c].acct] = "owner" =>
                  <<o, request[c].acct>> \in request[c].rows \cup overtaken
        /\ request[c].op \in {"revoke", "demote"} => \A q \in request[c].rows : q[1] = request[c].org

\* Of two reductions that reach an organization both their accounts own, the one
\* whose snapshot came later chose the row of the other's account.
Meet(c, d, o) ==
    /\ {request[c].step, request[d].step} \subseteq {"snapshot", "decided"}
    /\ o \in Reach(request[c]) \cap Reach(request[d])
    /\ member[o][request[c].acct] = "owner" /\ member[o][request[d].acct] = "owner"
    /\ <<o, request[c].acct>> \notin overtaken /\ <<o, request[d].acct>> \notin overtaken

LaterChoseEarlier ==
    \A c, d \in Client : \A o \in Org :
        Meet(c, d, o) => \/ <<o, request[d].acct>> \in request[c].rows
                         \/ <<o, request[c].acct>> \in request[d].rows

\* A locked row stays an owner's, and has one holder.
LocksHold ==
    \A c \in Client : request[c].step = "decided" =>
        /\ \A q \in request[c].rows : q \in Row /\ member[q[1]][q[2]] = "owner"
        /\ \A d \in Client \ {c} : request[d].step = "decided" =>
                                       request[c].rows \cap request[d].rows = {}

\* The history holds something against the organization.
Excused(o) == \E a \in Account : <<o, a>> \in overtaken \cup relinked

\* What a decided request counted is still so when it commits.
Guarded ==
    \A c \in Client : request[c].step = "decided" =>
        \/ \A o \in Org : <<o, request[c].acct>> \in request[c].rows =>
                              EffectiveOwners(o) \ {request[c].acct} # {} \/ Excused(o)
        \/ request[c].op = "unlink" /\ ~LosesCapability(request[c].acct, request[c].link)

\* Wherever the account is an owner, a subject of its was linked to it while it was
\* being unlinked from another.
Relinked(b) == \A o \in Org : member[o][b] = "owner" => <<o, b>> \in relinked

\* A disablement destroys the verifier for good, and an unlinking request's
\* link is its account's until it is gone, or another's who is noted for it.
Remembered ==
    /\ \A a \in Account : account[a].disabledAt # "enabled" => ~account[a].verifier
    /\ \A c \in Client : (request[c].op = "enable" /\ request[c].step = "read") =>
                             ~account[request[c].acct].verifier
    /\ \A c \in Client : (request[c].op = "unlink" /\ UnderWay(request[c])) =>
                             \/ link[request[c].link] \in {request[c].acct, None}
                             \/ Relinked(link[request[c].link])

IInv ==
    /\ TypeOK /\ OwnRowChosen /\ LaterChoseEarlier /\ LocksHold /\ Guarded /\ Remembered
    /\ OwnerKeptUnlessOvertaken

-----------------------------------------------------------------------------
(* What a step can do to the requests. *)

StoreSame == UNCHANGED <<account, link, member>>

Opened(c) ==
    /\ StoreSame /\ request'[c].step = "read"
    /\ request'[c].op = "enable" => account[request'[c].acct].disabledAt # "enabled"
    /\ request'[c].op = "unlink" => link[request'[c].link] = request'[c].acct

Snapped(c) ==
    /\ StoreSame /\ request'[c].step = "snapshot"
    /\ request'[c].op \in Reducing
    /\ request'[c].op = "unlink" => /\ request[c].op = "unlink" /\ request[c].step = "read"
                                    /\ request'[c].acct = request[c].acct
                                    /\ request'[c].link = request[c].link
    /\ request'[c].rows = OwnerRows(Reach(request'[c]))

Decided(c) ==
    /\ StoreSame /\ request[c].step = "snapshot"
    /\ request' = [request EXCEPT ![c] = request'[c]]
    /\ request'[c].step = "decided"
    /\ request'[c].op = request[c].op /\ request'[c].acct = request[c].acct
    /\ request'[c].org = request[c].org /\ request'[c].link = request[c].link
    /\ request'[c].rows = StillOwners(request[c].rows)
    /\ Free(c, request[c].rows)
    /\ \/ ~FinalOwner(request[c].acct, request'[c].rows)
       \/ request[c].op = "unlink" /\ ~LosesCapability(request[c].acct, request[c].link)

Commit(c) == DisableCommit(c) \/ UnlinkCommit(c) \/ RevokeCommit(c) \/ DemoteCommit(c)

\* A client's request stays, ends, opens, takes its snapshot or decides.
LEMMA RequestFrame ==
    ASSUME TypeOK, Next, NEW d \in Client
    PROVE  \/ request'[d] = request[d]
           \/ request'[d].step = "done"
           \/ Opened(d) \/ Snapped(d) \/ Decided(d)
<1> DEFINE Goal == \/ request'[d] = request[d]
                   \/ request'[d].step = "done"
                   \/ Opened(d) \/ Snapped(d) \/ Decided(d)
<1> USE DEF identities, teams, offers, history
<1>R. Requests /\ request \in [Client -> Request] /\ request[d] \in Request
  BY DEF TypeOK, Requests
<1>F. ASSUME NEW c \in Client, Finish(c) PROVE Goal
  BY <1>F, <1>R, DoneType DEF Finish
<1>S. ASSUME NEW c \in Client, Start(c, [Idle EXCEPT !.op = "other", !.step = "done"]) PROVE Goal
  BY <1>S, <1>R DEF Start, Idle
<1>1. ASSUME NEW c \in Client, NEW a \in Account,
             DisableRead(c, a) \/ EnableRead(c, a) \/ SweepSelect(c, a)
      PROVE  Goal
  <2>1. StoreSame
    BY <1>1 DEF DisableRead, EnableRead, SweepSelect, StoreSame
  <2>2. CASE d # c
    BY <1>1, <1>R, <2>2 DEF DisableRead, EnableRead, SweepSelect, Start
  <2>3. CASE d = c
    <3>1. request'[c].step = "read" /\ request'[c].acct = a /\ request'[c].op # "unlink"
      BY <1>1, <1>R DEF DisableRead, EnableRead, SweepSelect, Start, Idle
    <3>2. request'[c].op = "enable" => account[a].disabledAt # "enabled"
      BY <1>1, <1>R DEF DisableRead, EnableRead, SweepSelect, Start, Idle
    <3> QED  BY <2>1, <2>3, <3>1, <3>2 DEF Opened
  <2> QED  BY <2>2, <2>3
<1>2. ASSUME NEW c \in Client,
             \/ DisableCommit(c) \/ EnableWrite(c) \/ Purge(c) \/ UnlinkCommit(c)
             \/ PromoteWrite(c) \/ RevokeCommit(c) \/ DemoteCommit(c)
      PROVE  Goal
  BY <1>2, <1>F DEF DisableCommit, EnableWrite, Purge, UnlinkCommit, PromoteWrite,
                    RevokeCommit, DemoteCommit
<1>3. ASSUME NEW c \in Client, NEW l \in Link, UnlinkRead(c, l) PROVE Goal
  BY <1>3, <1>R DEF UnlinkRead, Start, Idle, Opened, StoreSame
<1>4. ASSUME NEW c \in Client, NEW o \in Org, NEW a \in Account, PromoteRead(c, o, a) PROVE Goal
  BY <1>4, <1>R DEF PromoteRead, Start, Idle, Opened, StoreSame
<1>5. ASSUME NEW c \in Client, NEW o \in Org, NEW a \in Account, NEW op \in {"revoke", "demote"},
             ChangeSnapshot(c, op, o, a)
      PROVE  Goal
  <2>1. CASE d # c
    BY <1>5, <1>R, <2>1 DEF ChangeSnapshot, Start
  <2>2. CASE d = c
    <3>1. /\ request'[d].op = op /\ request'[d].step = "snapshot" /\ request'[d].org = o
          /\ request'[d].rows = OwnerRows({o})
      BY <1>5, <1>R, <2>2 DEF ChangeSnapshot, Start, Idle, organization_owners
    <3>2. Reach(request'[d]) = {o}
      BY <3>1 DEF Reach
    <3>3. StoreSame
      BY <1>5 DEF ChangeSnapshot, StoreSame
    <3> QED  BY <3>1, <3>2, <3>3 DEF Snapped, Reducing
  <2> QED  BY <2>1, <2>2
<1>6. ASSUME NEW c \in Client, ReductionSnapshot(c) PROVE Goal
  <2>1. CASE d # c
    BY <1>6, <1>R, <2>1 DEF ReductionSnapshot
  <2>2. CASE d = c
    BY <1>6, <1>R, <2>2 DEF ReductionSnapshot, At, Snapped, StoreSame, Reducing, Reach,
                            owner_memberships, Request
  <2> QED  BY <2>1, <2>2
<1>7. ASSUME NEW c \in Client, ReductionDecide(c) PROVE Goal
  <2>1. CASE d # c
    BY <1>7, <1>R, <2>1 DEF ReductionDecide, Finish
  <2>2. CASE Finish(c)
    BY <1>F, <2>2
  <2>3. CASE d = c /\ ~Finish(c)
    BY <1>7, <1>R, <2>3 DEF ReductionDecide, At, Decided, StoreSame, Request
  <2> QED  BY <2>1, <2>2, <2>3
<1>8. ASSUME NEW c \in Client, ChangeDecide(c) PROVE Goal
  <2>1. CASE d # c
    BY <1>8, <1>R, <2>1 DEF ChangeDecide, Finish
  <2>2. CASE Finish(c)
    BY <1>F, <2>2
  <2>3. CASE d = c /\ ~Finish(c)
    BY <1>8, <1>R, <2>3 DEF ChangeDecide, At, Decided, StoreSame, Request
  <2> QED  BY <2>1, <2>2, <2>3
<1>9. ASSUME NEW c \in Client, NEW l \in Link, NEW a \in Account, LinkIdentity(c, l, a) PROVE Goal
  BY <1>9, <1>S DEF LinkIdentity
<1>10. ASSUME NEW c \in Client, NEW o \in Org, NEW a \in Account,
              \/ CreateOrganization(c, o, a)
              \/ \E i \in Invite, to \in Account, role \in Role : Issue(c, i, o, a, to, role)
       PROVE  Goal
  BY <1>10, <1>S DEF CreateOrganization, Issue
<1>11. ASSUME NEW c \in Client, NEW f \in open \cup expired, Redeem(c, f) PROVE Goal
  BY <1>11, <1>S DEF Redeem
<1>12. ASSUME request' = request PROVE Goal
  BY <1>12
<1>13. ASSUME \/ \E f \in open \cup expired : OfferEnds(f) \/ OfferExpires(f)
              \/ \E a \in Account : Lapse(a)
              \/ Settled
       PROVE  Goal
  BY <1>12, <1>13 DEF OfferEnds, OfferExpires, Lapse, Settled, vars
<1> QED
  <2> HIDE DEF Goal
  <2>1. Goal
    BY <1>1, <1>2, <1>3, <1>4, <1>5, <1>6, <1>7, <1>8, <1>9, <1>10, <1>11, <1>13 DEF Next
  <2> QED  BY <2>1 DEF Goal

-----------------------------------------------------------------------------
(* What a step can do to the store. *)

\* The steps that write an account, a link, an organization or a membership.
LEMMA StepKinds ==
    ASSUME Next
    PROVE  \/ UNCHANGED <<account, link, orgs, member>>
           \/ \E c \in Client : Commit(c) \/ EnableWrite(c) \/ Purge(c) \/ PromoteWrite(c)
           \/ \E a \in Account : Lapse(a)
           \/ \E c \in Client, l \in Link, a \in Account : LinkIdentity(c, l, a)
           \/ \E c \in Client, o \in Org, a \in Account : CreateOrganization(c, o, a)
           \/ \E c \in Client, f \in open \cup expired : Redeem(c, f)
<1> DEFINE Same == UNCHANGED <<account, link, orgs, member>>
<1> USE DEF identities, teams, offers, history
<1>1. ASSUME NEW c \in Client, NEW a \in Account,
             DisableRead(c, a) \/ EnableRead(c, a) \/ SweepSelect(c, a)
      PROVE  Same
  BY <1>1 DEF DisableRead, EnableRead, SweepSelect
<1>2. ASSUME NEW c \in Client, ReductionSnapshot(c) \/ ReductionDecide(c) \/ ChangeDecide(c)
      PROVE  Same
  BY <1>2 DEF ReductionSnapshot, ReductionDecide, ChangeDecide
<1>3. ASSUME NEW c \in Client, NEW l \in Link, UnlinkRead(c, l) PROVE Same
  BY <1>3 DEF UnlinkRead
<1>4. ASSUME NEW c \in Client, NEW o \in Org, NEW a \in Account,
             \/ PromoteRead(c, o, a)
             \/ \E op \in {"revoke", "demote"} : ChangeSnapshot(c, op, o, a)
             \/ \E i \in Invite, to \in Account, role \in Role : Issue(c, i, o, a, to, role)
      PROVE  Same
  BY <1>4 DEF PromoteRead, ChangeSnapshot, Issue
<1>5. ASSUME (\E f \in open \cup expired : OfferEnds(f) \/ OfferExpires(f)) \/ Settled PROVE Same
  BY <1>5 DEF OfferEnds, OfferExpires, Settled, vars
<1> HIDE DEF Same
<1>6. \/ Same
      \/ \E c \in Client : Commit(c) \/ EnableWrite(c) \/ Purge(c) \/ PromoteWrite(c)
      \/ \E a \in Account : Lapse(a)
      \/ \E c \in Client, l \in Link, a \in Account : LinkIdentity(c, l, a)
      \/ \E c \in Client, o \in Org, a \in Account : CreateOrganization(c, o, a)
      \/ \E c \in Client, f \in open \cup expired : Redeem(c, f)
  BY <1>1, <1>2, <1>3, <1>4, <1>5 DEF Next, Commit
<1> QED  BY <1>6 DEF Same

\* What is noted stays noted.
LEMMA HistoryGrows ==
    ASSUME TypeOK, Next
    PROVE  overtaken \subseteq overtaken' /\ relinked \subseteq relinked' /\ late \subseteq late'
<1> DEFINE Goal == overtaken \subseteq overtaken' /\ relinked \subseteq relinked' /\ late \subseteq late'
<1> USE DEF identities, teams, offers
<1>T. open \subseteq Offer /\ expired \subseteq Offer /\ Requests
  BY DEF TypeOK
<1>0. ASSUME UNCHANGED history PROVE Goal
  BY <1>0 DEF history
<1>N. ASSUME NEW o \in Org, NEW a \in Account, NoteOwner(o, a) PROVE Goal
  BY <1>N, Noted
<1>1. ASSUME NEW c \in Client, NEW a \in Account,
             DisableRead(c, a) \/ EnableRead(c, a) \/ SweepSelect(c, a)
      PROVE  UNCHANGED history
  BY <1>1 DEF DisableRead, EnableRead, SweepSelect, history
<1>2. ASSUME NEW c \in Client,
             \/ DisableCommit(c) \/ EnableWrite(c) \/ Purge(c) \/ UnlinkCommit(c)
             \/ ReductionSnapshot(c) \/ ReductionDecide(c) \/ ChangeDecide(c)
             \/ RevokeCommit(c) \/ DemoteCommit(c)
      PROVE  UNCHANGED history
  BY <1>2 DEF DisableCommit, EnableWrite, Purge, UnlinkCommit, ReductionSnapshot,
              ReductionDecide, ChangeDecide, RevokeCommit, DemoteCommit, history
<1>3. ASSUME NEW c \in Client, NEW l \in Link, UnlinkRead(c, l) PROVE UNCHANGED history
  BY <1>3 DEF UnlinkRead, history
<1>4. ASSUME NEW c \in Client, NEW l \in Link, NEW a \in Account, LinkIdentity(c, l, a) PROVE Goal
  BY <1>4, NotedLink
<1>5. ASSUME NEW c \in Client, NEW o \in Org, NEW a \in Account,
             \/ PromoteRead(c, o, a)
             \/ \E op \in {"revoke", "demote"} : ChangeSnapshot(c, op, o, a)
      PROVE  UNCHANGED history
  BY <1>5 DEF PromoteRead, ChangeSnapshot, history
<1>6. ASSUME NEW c \in Client, NEW o \in Org, NEW a \in Account, CreateOrganization(c, o, a)
      PROVE  Goal
  BY <1>6, <1>N DEF CreateOrganization
<1>7. ASSUME NEW c \in Client, PromoteWrite(c) PROVE Goal
  <2>1. request[c].org \in Org /\ request[c].acct \in Account
    BY <1>T, <1>7, Advance DEF PromoteWrite, At, Named
  <2>2. NoteOwner(request[c].org, request[c].acct) \/ UNCHANGED history
    BY <1>7 DEF PromoteWrite, history
  <2> QED  BY <1>0, <1>N, <2>1, <2>2
<1>8. ASSUME NEW c \in Client, NEW i \in Invite, NEW o \in Org, NEW by \in Account,
             NEW to \in Account, NEW role \in Role, Issue(c, i, o, by, to, role)
      PROVE  Goal
  BY <1>8 DEF Issue
<1>9. ASSUME NEW c \in Client, NEW f \in open \cup expired, Redeem(c, f) PROVE Goal
  <2>1. f.org \in Org /\ f.to \in Account
    BY <1>T DEF Offer
  <2>2. NoteOwner(f.org, f.to) \/ UNCHANGED history
    BY <1>9 DEF Redeem
  <2> QED  BY <1>0, <1>N, <2>1, <2>2
<1>10. ASSUME (\E f \in open \cup expired : OfferEnds(f) \/ OfferExpires(f)) \/ (\E a \in Account : Lapse(a)) \/ Settled
       PROVE  UNCHANGED history
  BY <1>10 DEF OfferEnds, OfferExpires, Lapse, Settled, vars, history
<1> HIDE DEF Goal
<1>11. Goal
  BY <1>0, <1>1, <1>2, <1>3, <1>4, <1>5, <1>6, <1>7, <1>8, <1>9, <1>10 DEF Next
<1> QED  BY <1>11 DEF Goal

\* A membership that becomes an owner's is noted as the step makes it so.
LEMMA OwnersMade ==
    ASSUME TypeOK, Next, NEW o \in Org, NEW a \in Account,
           member'[o][a] = "owner", member[o][a] # "owner"
    PROVE  NoteOwner(o, a) /\ UNCHANGED <<account, link>>
<1> DEFINE Goal == NoteOwner(o, a) /\ UNCHANGED <<account, link>>
<1> USE DEF identities, teams, offers
<1>T. /\ member \in [Org -> [Account -> Held]] /\ open \subseteq Offer /\ expired \subseteq Offer /\ Requests
      /\ request \in [Client -> Request]
  BY DEF TypeOK, Requests
<1>M. ASSUME NEW q \in Org, NEW b \in Account, NEW h, member' = [member EXCEPT ![q][b] = h]
      PROVE  q = o /\ b = a /\ h = "owner"
  <2>1. \A p \in Org, x \in Account : member'[p][x] = IF p = q /\ x = b THEN h ELSE member[p][x]
    BY <1>T, <1>M
  <2> QED  BY <2>1
<1>1. ASSUME member' = member PROVE FALSE
  BY <1>1
<1>2. ASSUME NEW c \in Client, RevokeCommit(c) \/ DemoteCommit(c) PROVE FALSE
  <2>1. request[c].org \in Org /\ request[c].acct \in Account
    BY <1>T, <1>2, Advance DEF RevokeCommit, DemoteCommit, At, Named
  <2>2. \/ member' = member
        \/ \E h \in {"none", "member"} :
              member' = [member EXCEPT ![request[c].org][request[c].acct] = h]
    BY <1>2 DEF RevokeCommit, DemoteCommit
  <2> QED  BY <1>1, <1>M, <2>1, <2>2
<1>3. ASSUME NEW c \in Client, PromoteWrite(c) PROVE Goal
  <2>1. request[c].org \in Org /\ request[c].acct \in Account
    BY <1>T, <1>3, Advance DEF PromoteWrite, At, Named
  <2>2. \/ member' = member
        \/ /\ member' = [member EXCEPT ![request[c].org][request[c].acct] = "owner"]
           /\ NoteOwner(request[c].org, request[c].acct)
    BY <1>3 DEF PromoteWrite
  <2>3. UNCHANGED <<account, link>>
    BY <1>3 DEF PromoteWrite
  <2> QED  BY <1>1, <1>M, <2>1, <2>2, <2>3
<1>4. ASSUME NEW c \in Client, NEW q \in Org, NEW b \in Account, CreateOrganization(c, q, b)
      PROVE  Goal
  <2>1. /\ member' = [member EXCEPT ![q][b] = "owner"] /\ NoteOwner(q, b)
        /\ UNCHANGED <<account, link>>
    BY <1>4 DEF CreateOrganization
  <2> QED  BY <1>M, <2>1
<1>5. ASSUME NEW c \in Client, NEW f \in open \cup expired, Redeem(c, f) PROVE Goal
  <2>1. f.org \in Org /\ f.to \in Account
    BY <1>T DEF Offer
  <2>2. /\ member' = [member EXCEPT ![f.org][f.to] = f.role]
        /\ f.role = "owner" => NoteOwner(f.org, f.to)
        /\ UNCHANGED <<account, link>>
    BY <1>5 DEF Redeem
  <2> QED  BY <1>M, <2>1, <2>2
<1>6. ASSUME NEW c \in Client, DisableCommit(c) \/ UnlinkCommit(c) \/ EnableWrite(c) \/ Purge(c)
      PROVE  FALSE
  BY <1>1, <1>6 DEF DisableCommit, UnlinkCommit, EnableWrite, Purge
<1>7. ASSUME \/ \E b \in Account : Lapse(b)
             \/ \E c \in Client, l \in Link, b \in Account : LinkIdentity(c, l, b)
      PROVE  FALSE
  BY <1>1, <1>7 DEF Lapse, LinkIdentity
<1> HIDE DEF Goal
<1>8. Goal
  BY <1>1, <1>2, <1>3, <1>4, <1>5, <1>6, <1>7, StepKinds DEF Commit
<1> QED  BY <1>8 DEF Goal

\* A subject that comes to be an account's is noted for that account if it was being
\* unlinked from another.
LEMMA LinksMade ==
    ASSUME TypeOK, Next, NEW l \in Link, link'[l] \notin {link[l], None}
    PROVE  /\ link'[l] \in Account /\ member' = member
           /\ StaleUnlinking(l, link'[l]) =>
                 \A o \in Org : member[o][link'[l]] = "owner" => <<o, link'[l]>> \in relinked'
<1> DEFINE Goal == /\ link'[l] \in Account /\ member' = member
                   /\ StaleUnlinking(l, link'[l]) =>
                       \A o \in Org : member[o][link'[l]] = "owner" => <<o, link'[l]>> \in relinked'
<1> USE DEF identities, teams, offers
<1>T. link \in [Link -> Account \cup {None}]
  BY DEF TypeOK
<1>1. ASSUME link' = link PROVE FALSE
  BY <1>1
<1>2. ASSUME NEW c \in Client, UnlinkCommit(c) PROVE FALSE
  BY <1>T, <1>2 DEF UnlinkCommit
<1>3. ASSUME NEW c \in Client, NEW k \in Link, NEW a \in Account, LinkIdentity(c, k, a) PROVE Goal
  <2>1. link' = [link EXCEPT ![k] = a] /\ member' = member
    BY <1>3 DEF LinkIdentity
  <2>2. k = l /\ link'[l] = a
    BY <1>T, <2>1
  <2> QED  BY <1>3, <2>1, <2>2, NotedLink
<1>4. ASSUME NEW c \in Client, \/ DisableCommit(c) \/ RevokeCommit(c) \/ DemoteCommit(c)
                               \/ EnableWrite(c) \/ Purge(c) \/ PromoteWrite(c)
      PROVE  FALSE
  BY <1>1, <1>4 DEF DisableCommit, RevokeCommit, DemoteCommit, EnableWrite, Purge, PromoteWrite
<1>5. ASSUME \/ \E a \in Account : Lapse(a)
             \/ \E c \in Client, o \in Org, a \in Account : CreateOrganization(c, o, a)
             \/ \E c \in Client, f \in open \cup expired : Redeem(c, f)
      PROVE  FALSE
  BY <1>1, <1>5 DEF Lapse, CreateOrganization, Redeem
<1> HIDE DEF Goal
<1>6. Goal
  BY <1>1, <1>2, <1>3, <1>4, <1>5, StepKinds DEF Commit
<1> QED  BY <1>6 DEF Goal

\* A locked row stays an owner's until its holder's request ends.
LEMMA LockedRowsStay ==
    ASSUME TypeOK, Next, NEW c \in Client, request[c].step = "decided", request'[c] = request[c],
           NEW o \in Org, NEW a \in Account, <<o, a>> \in request[c].rows, member[o][a] = "owner"
    PROVE  member'[o][a] = "owner"
<1> USE DEF identities, teams, offers, history
<1>T. /\ member \in [Org -> [Account -> Held]] /\ request \in [Client -> Request]
      /\ open \subseteq Offer /\ expired \subseteq Offer
  BY DEF TypeOK, Requests
<1>1. ASSUME member' = member PROVE member'[o][a] = "owner"
  BY <1>1
<1>2. ASSUME NEW d \in Client, RevokeCommit(d) \/ DemoteCommit(d) PROVE member'[o][a] = "owner"
  <2>1. Finish(d)
    BY <1>2 DEF RevokeCommit, DemoteCommit
  <2>2. request'[d].step = "done"
    BY <2>1, <1>T, DoneType DEF Finish
  <2>3. d # c
    BY <2>2
  <2>4. Free(d, {<<request[d].org, request[d].acct>>})
    BY <1>2 DEF RevokeCommit, DemoteCommit
  <2>5. <<request[d].org, request[d].acct>> # <<o, a>>
    BY <2>3, <2>4 DEF Free
  <2> QED  BY <1>2, <1>T, <2>5 DEF RevokeCommit, DemoteCommit
<1>3. ASSUME NEW d \in Client, PromoteWrite(d) PROVE member'[o][a] = "owner"
  BY <1>3, <1>T DEF PromoteWrite
<1>4. ASSUME NEW d \in Client, NEW q \in Org, NEW b \in Account, CreateOrganization(d, q, b)
      PROVE  member'[o][a] = "owner"
  BY <1>4, <1>T DEF CreateOrganization
<1>5. ASSUME NEW d \in Client, NEW f \in open \cup expired, Redeem(d, f) PROVE member'[o][a] = "owner"
  BY <1>5, <1>T DEF Redeem
<1>6. ASSUME NEW d \in Client, DisableCommit(d) \/ UnlinkCommit(d) \/ EnableWrite(d) \/ Purge(d)
      PROVE  member'[o][a] = "owner"
  BY <1>1, <1>6 DEF DisableCommit, UnlinkCommit, EnableWrite, Purge
<1>7. ASSUME \/ \E b \in Account : Lapse(b)
             \/ \E d \in Client, l \in Link, b \in Account : LinkIdentity(d, l, b)
      PROVE  member'[o][a] = "owner"
  BY <1>1, <1>7 DEF Lapse, LinkIdentity
<1> QED  BY <1>1, <1>2, <1>3, <1>4, <1>5, <1>6, <1>7, StepKinds DEF Commit

\* The step leaves the account everything that lets it log in.
Kept(b) ==
    /\ CanAct(b) => CanAct(b)'
    /\ account[b].verifier => account'[b].verifier
    /\ \A l \in Link : link[l] = b => link'[l] = b

\* Whoever could log in can, if nothing of what lets it do so has gone.
LEMMA KeptAuthenticates ==
    ASSUME NEW b \in Account, Kept(b), CanAuthenticate(b)
    PROVE  CanAuthenticate(b)'
BY DEF Kept, CanAuthenticate

\* A step that is no reduction's commit takes nothing from any account.
LEMMA OtherSteps ==
    ASSUME TypeOK, Remembered, Next, \A c \in Client : ~Commit(c), NEW b \in Account
    PROVE  /\ Kept(b)
           /\ \A o \in Org : member[o][b] = "owner" => member'[o][b] = "owner"
<1> DEFINE Goal == /\ Kept(b)
                   /\ \A o \in Org : member[o][b] = "owner" => member'[o][b] = "owner"
<1> USE DEF identities, teams, offers, history
<1>T. /\ member \in [Org -> [Account -> Held]] /\ link \in [Link -> Account \cup {None}]
      /\ account \in [Account -> AccountRow] /\ open \subseteq Offer /\ expired \subseteq Offer
  BY DEF TypeOK
<1>1. ASSUME UNCHANGED <<account, link, member>> PROVE Goal
  BY <1>1 DEF Kept, CanAct
<1>2. ASSUME NEW c \in Client, EnableWrite(c) PROVE Goal
  <2>1. UNCHANGED <<link, member>> /\ ApplyAccount(request[c].acct, "enabled")
    BY <1>2 DEF EnableWrite
  <2>2. ~account[request[c].acct].verifier
    BY <1>2 DEF EnableWrite, At, Remembered
  <2>3. CASE b = request[c].acct
    BY <2>1, <2>2, <2>3, <1>T DEF ApplyAccount, Kept, CanAct, AccountRow
  <2>4. CASE b # request[c].acct
    BY <2>1, <2>4, <1>T DEF ApplyAccount, Kept, CanAct
  <2> QED  BY <2>3, <2>4
<1>3. ASSUME NEW c \in Client, Purge(c) PROVE Goal
  <2>1. UNCHANGED <<link, member>>
    BY <1>3 DEF Purge
  <2>2. CASE account' = account
    BY <1>1, <2>1, <2>2
  <2>3. CASE account' # account
    <3> DEFINE a == request[c].acct
    <3>1. /\ account[a].disabledAt = "lapsed"
          /\ account' = [account EXCEPT ![a].purged = TRUE, ![a].verifier = FALSE]
      BY <1>3, <2>3 DEF Purge
    <3>2. CASE b = a
      <4>1. ~account[b].verifier /\ ~CanAct(b)
        BY <3>1, <3>2 DEF Remembered, CanAct
      <4> QED  BY <4>1, <2>1 DEF Kept
    <3>3. CASE b # a
      BY <3>1, <3>3, <2>1, <1>T DEF Kept, CanAct
    <3> QED  BY <3>2, <3>3
  <2> QED  BY <2>2, <2>3
<1>4. ASSUME NEW a \in Account, Lapse(a) PROVE Goal
  <2>1. CASE b = a
    <3>1. ~account[b].verifier /\ ~CanAct(b)
      BY <1>4, <2>1 DEF Remembered, CanAct, Lapse
    <3> QED  BY <1>4, <3>1 DEF Kept, Lapse
  <2>2. CASE b # a
    BY <1>4, <2>2, <1>T DEF Lapse, Kept, CanAct
  <2> QED  BY <2>1, <2>2
<1>5. ASSUME NEW c \in Client, PromoteWrite(c) PROVE Goal
  BY <1>5, <1>T DEF PromoteWrite, Kept, CanAct
<1>6. ASSUME NEW c \in Client, NEW l \in Link, NEW a \in Account, LinkIdentity(c, l, a) PROVE Goal
  BY <1>6, <1>T, OwnershipAssumption DEF LinkIdentity, Kept, CanAct
<1>7. ASSUME NEW c \in Client, NEW o \in Org, NEW a \in Account, CreateOrganization(c, o, a)
      PROVE  Goal
  BY <1>7, <1>T DEF CreateOrganization, Kept, CanAct
<1>8. ASSUME NEW c \in Client, NEW f \in open \cup expired, Redeem(c, f) PROVE Goal
  BY <1>8, <1>T DEF Redeem, Kept, CanAct
<1> HIDE DEF Goal
<1>9. Goal
  BY <1>1, <1>2, <1>3, <1>4, <1>5, <1>6, <1>7, <1>8, StepKinds
<1> QED  BY <1>9 DEF Goal

\* A commit touches one account, and among the owners at most that account.
LEMMA CommitEffect ==
    ASSUME TypeOK, Remembered, NEW c \in Client, Commit(c)
    PROVE  /\ request[c].step = "decided" /\ request'[c].step = "done" /\ orgs' = orgs
           /\ \A b \in Account \ {request[c].acct} :
                 /\ Kept(b) \/ Relinked(b)
                 /\ \A o \in Org : member[o][b] = "owner" => member'[o][b] = "owner"
           /\ request[c].op \in {"disable", "unlink"} => member' = member
           /\ request[c].op \in {"revoke", "demote"} =>
                 /\ UNCHANGED <<account, link>>
                 /\ \A o \in Org, b \in Account : o # request[c].org => member'[o][b] = member[o][b]
<1> USE DEF identities, teams, offers, history
<1>T. /\ member \in [Org -> [Account -> Held]] /\ link \in [Link -> Account \cup {None}]
      /\ account \in [Account -> AccountRow] /\ request \in [Client -> Request]
  BY DEF TypeOK, Requests
<1>0. request[c].step = "decided" /\ Finish(c) /\ orgs' = orgs
  BY DEF Commit, DisableCommit, UnlinkCommit, RevokeCommit, DemoteCommit, At
<1>1. request'[c].step = "done"
  BY <1>0, <1>T, DoneType DEF Finish
<1>2. CASE DisableCommit(c)
  <2>1. /\ request[c].op = "disable" /\ UNCHANGED <<link, member>>
        /\ ApplyAccount(request[c].acct, "recent")
    BY <1>2 DEF DisableCommit, At
  <2>2. \A b \in Account \ {request[c].acct} : Kept(b)
    BY <2>1, <1>T DEF ApplyAccount, Kept, CanAct
  <2> QED  BY <1>0, <1>1, <2>1, <2>2
<1>3. CASE UnlinkCommit(c)
  <2>1. /\ request[c].op = "unlink" /\ UNCHANGED <<account, member>>
        /\ link' = [link EXCEPT ![request[c].link] = None]
    BY <1>3 DEF UnlinkCommit, At
  <2>2. \/ link[request[c].link] \in {request[c].acct, None}
        \/ Relinked(link[request[c].link])
    BY <1>0, <2>1 DEF Remembered, UnderWay, Reducing
  <2>3. \A b \in Account \ {request[c].acct} : link[request[c].link] # b => Kept(b)
    BY <2>1, <1>T DEF Kept, CanAct
  <2>4. \A b \in Account \ {request[c].acct} : link[request[c].link] = b => Relinked(b)
    BY <2>2, OwnershipAssumption
  <2> QED  BY <1>0, <1>1, <2>1, <2>3, <2>4
<1>4. CASE RevokeCommit(c) \/ DemoteCommit(c)
  <2>1. request[c].op \in {"revoke", "demote"} /\ UNCHANGED <<account, link>>
    BY <1>4 DEF RevokeCommit, DemoteCommit, At
  <2>2. \/ member' = member
        \/ \E h \in {"none", "member"} :
              member' = [member EXCEPT ![request[c].org][request[c].acct] = h]
    BY <1>4 DEF RevokeCommit, DemoteCommit
  <2>3. \A b \in Account : Kept(b)
    BY <2>1 DEF Kept, CanAct
  <2>4. \A o \in Org, b \in Account \ {request[c].acct} : member'[o][b] = member[o][b]
    BY <2>2, <1>T
  <2>5. \A o \in Org, b \in Account : o # request[c].org => member'[o][b] = member[o][b]
    BY <2>2, <1>T
  <2> QED  BY <1>0, <1>1, <2>1, <2>3, <2>4, <2>5
<1> QED  BY <1>2, <1>3, <1>4 DEF Commit

\* The owner a commit takes from an organization nothing is noted of held a locked
\* row there, and leaves another effective owner.
LEMMA OwnerLoss ==
    ASSUME TypeOK, Remembered, OwnRowChosen, Guarded, NEW c \in Client, Commit(c),
           NEW o \in Org, ~Excused(o), NEW b \in EffectiveOwners(o), b \notin EffectiveOwners(o)'
    PROVE  /\ b = request[c].acct
           /\ o \in Reach(request[c]) /\ <<o, b>> \in request[c].rows
           /\ EffectiveOwners(o) \ {b} # {}
<1>1. b \in Account /\ member[o][b] = "owner" /\ CanAuthenticate(b)
  BY DEF EffectiveOwners
<1>2. ~(member'[o][b] = "owner" /\ CanAuthenticate(b)')
  BY <1>1 DEF EffectiveOwners
<1>N. <<o, b>> \notin overtaken /\ <<o, b>> \notin relinked
  BY <1>1 DEF Excused
<1>3. b = request[c].acct
  <2>1. ~Relinked(b)
    BY <1>1, <1>N DEF Relinked
  <2> QED  BY <1>1, <1>2, <2>1, CommitEffect, KeptAuthenticates
<1>4. request[c].step = "decided" /\ request[c].op \in Reducing
  BY DEF Commit, DisableCommit, UnlinkCommit, RevokeCommit, DemoteCommit, At, Reducing
<1>5. o \in Reach(request[c])
  <2>1. CASE request[c].op \in {"disable", "unlink"}
    BY <1>1, <1>3, <2>1 DEF Reach
  <2>2. CASE request[c].op \in {"revoke", "demote"}
    <3>1. UNCHANGED <<account, link>>
      BY <2>2, CommitEffect
    <3>2. CanAuthenticate(b)'
      BY <1>1, <3>1 DEF CanAuthenticate, CanAct
    <3>3. o = request[c].org
      BY <1>1, <1>2, <2>2, <3>2, CommitEffect
    <3> QED  BY <2>2, <3>3 DEF Reach
  <2> QED  BY <1>4, <2>1, <2>2 DEF Reducing
<1>7. <<o, b>> \in request[c].rows
  BY <1>1, <1>3, <1>4, <1>5, <1>N DEF OwnRowChosen
<1>8. ASSUME request[c].op = "unlink", ~LosesCapability(b, request[c].link) PROVE FALSE
  <2>1. UnlinkCommit(c)
    BY <1>8 DEF Commit, DisableCommit, RevokeCommit, DemoteCommit, At
  <2>2. UNCHANGED <<account, member>> /\ link' = [link EXCEPT ![request[c].link] = None]
    BY <2>1 DEF UnlinkCommit, teams
  <2>3. account[b].verifier \/ \E k \in Link \ {request[c].link} : link[k] = b
    BY <1>8 DEF LosesCapability
  <2>4. account'[b].verifier \/ \E k \in Link : link'[k] = b
    BY <2>2, <2>3 DEF TypeOK
  <2>5. CanAuthenticate(b)'
    BY <1>1, <2>2, <2>4 DEF CanAuthenticate, CanAct
  <2> QED  BY <1>1, <1>2, <2>2, <2>5
<1>9. EffectiveOwners(o) \ {b} # {}
  BY <1>3, <1>4, <1>7, <1>8 DEF Guarded, Excused
<1> QED  BY <1>3, <1>5, <1>7, <1>9

\* A step that is no commit takes no effective owner away.
LEMMA OwnersGrow ==
    ASSUME TypeOK, Remembered, Next, \A c \in Client : ~Commit(c), NEW o \in Org
    PROVE  EffectiveOwners(o) \subseteq EffectiveOwners(o)'
BY OtherSteps, KeptAuthenticates DEF EffectiveOwners

-----------------------------------------------------------------------------
(* Each part of the invariant is preserved. *)

\* What is noted of an organization stays noted.
LEMMA ExcusedStays ==
    ASSUME TypeOK, Next, NEW o \in Org, Excused(o)
    PROVE  Excused(o)'
BY HistoryGrows DEF Excused

\* Every organization nothing is noted of keeps an owner who can log in.
LEMMA OwnerKeptStep == IInv /\ Next => OwnerKeptUnlessOvertaken'
<1> SUFFICES ASSUME IInv, Next, NEW o \in orgs', ~Excused(o)' PROVE EffectiveOwners(o)' # {}
  BY DEF OwnerKeptUnlessOvertaken, Excused
<1> USE DEF IInv
<1>0. TypeOK /\ TypeOK' /\ orgs \subseteq Org /\ o \in Org
  BY TypeStep DEF TypeOK
<1>N. ~Excused(o)
  BY <1>0, ExcusedStays
<1>1. CASE o \in orgs
  <2>1. PICK b \in EffectiveOwners(o) : TRUE
    BY <1>1, <1>N DEF OwnerKeptUnlessOvertaken, Excused
  <2>2. ASSUME NEW c \in Client, Commit(c) PROVE EffectiveOwners(o)' # {}
    <3>1. CASE b \notin EffectiveOwners(o)'
      <4>1. PICK x \in EffectiveOwners(o) \ {b} : TRUE
        BY <1>0, <1>N, <2>2, <3>1, OwnerLoss
      <4>2. x \in EffectiveOwners(o)'
        BY <1>0, <1>N, <2>2, <3>1, <4>1, OwnerLoss
      <4> QED  BY <4>2
    <3> QED  BY <3>1
  <2>3. CASE \A c \in Client : ~Commit(c)
    BY <1>0, <2>1, <2>3, OwnersGrow
  <2> QED  BY <2>2, <2>3
<1>2. CASE o \notin orgs
  <2>1. PICK c \in Client, q \in Org, a \in Account : CreateOrganization(c, q, a)
    <3>1. orgs' # orgs
      BY <1>2
    <3> QED  BY <3>1, StepKinds DEF Commit, DisableCommit, UnlinkCommit, RevokeCommit, DemoteCommit,
                EnableWrite, Purge, PromoteWrite, Lapse, LinkIdentity, Redeem, teams
  <2>2. o = q /\ member' = [member EXCEPT ![q][a] = "owner"] /\ UNCHANGED <<account, link>>
    BY <1>2, <2>1 DEF CreateOrganization, identities
  <2>3. CanAuthenticate(a)'
    BY <2>1, <2>2 DEF CreateOrganization, CanAuthenticate, CanAct
  <2>4. member'[o][a] = "owner"
    BY <2>2 DEF TypeOK
  <2> QED  BY <2>3, <2>4 DEF EffectiveOwners
<1> QED  BY <1>1, <1>2

\* While a reduction that has chosen its rows goes on, a membership it reaches that
\* is an owner's and not noted was one already.
LEMMA StillTheirs ==
    ASSUME TypeOK, Next, NEW c \in Client, request[c].step \in {"snapshot", "decided"},
           request'[c].op = request[c].op, request'[c].acct = request[c].acct,
           request'[c].org = request[c].org,
           NEW o \in Reach(request[c])', member'[o][request[c].acct] = "owner",
           <<o, request[c].acct>> \notin overtaken'
    PROVE  member[o][request[c].acct] = "owner" /\ o \in Reach(request[c])
<1> DEFINE a == request[c].acct
<1>1. a \in Account /\ request[c].op \in Reducing
      /\ (request[c].op \in {"revoke", "demote"} => request[c].org \in Org)
  BY DEF TypeOK, Requests, Named
<1>2. o \in Org /\ (request[c].op \in {"revoke", "demote"} => request[c].org = o)
  BY <1>1 DEF Reach, Reducing
<1>3. member[o][a] = "owner"
  <2> SUFFICES ASSUME member[o][a] # "owner" PROVE FALSE
    OBVIOUS
  <2>1. NoteOwner(o, a)
    BY <1>1, <1>2, OwnersMade
  <2>2. BeingReduced(o, a)
    BY <1>1, <1>2 DEF BeingReduced, UnderWay
  <2> QED  BY <1>1, <1>2, <2>1, <2>2, Noted
<1> QED  BY <1>1, <1>2, <1>3 DEF Reach, Reducing

\* A reduction goes on holding the row of its account.
LEMMA OwnRowChosenStep == IInv /\ Next => OwnRowChosen'
<1> SUFFICES ASSUME IInv, Next, NEW c \in Client, request'[c].step \in {"snapshot", "decided"}
             PROVE  /\ \A o \in Reach(request[c])' :
                         member'[o][request'[c].acct] = "owner" =>
                             <<o, request'[c].acct>> \in request'[c].rows \cup overtaken'
                    /\ request'[c].op \in {"revoke", "demote"} =>
                          \A q \in request'[c].rows : q[1] = request'[c].org
  BY DEF OwnRowChosen
<1>0. TypeOK /\ TypeOK' /\ OwnRowChosen
  BY TypeStep DEF IInv
<1>A. request'[c].acct \in Account
  BY <1>0 DEF TypeOK, Requests, Named
<1>1. CASE request'[c] = request[c]
  <2>1. ASSUME NEW o \in Reach(request[c])', member'[o][request[c].acct] = "owner",
               <<o, request[c].acct>> \notin overtaken'
        PROVE  <<o, request[c].acct>> \in request[c].rows
    <3>1. member[o][request[c].acct] = "owner" /\ o \in Reach(request[c])
      BY <1>0, <1>1, <2>1, StillTheirs
    <3>2. overtaken \subseteq overtaken'
      BY <1>0, HistoryGrows
    <3> QED  BY <1>0, <1>1, <2>1, <3>1, <3>2 DEF OwnRowChosen
  <2>2. request[c].op \in {"revoke", "demote"} => \A q \in request[c].rows : q[1] = request[c].org
    BY <1>0, <1>1 DEF OwnRowChosen
  <2> QED  BY <1>1, <2>1, <2>2
<1>2. CASE Snapped(c)
  <2>1. member' = member /\ request'[c].rows = OwnerRows(Reach(request'[c]))
    BY <1>2 DEF Snapped, StoreSame
  <2>2. Reach(request[c])' = Reach(request'[c]) /\ Reach(request'[c]) \subseteq Org
    BY <1>0, <2>1 DEF Reach, TypeOK, Requests, Named, Reducing
  <2>3. request'[c].op \in {"revoke", "demote"} =>
            \A q \in OwnerRows(Reach(request'[c])) : q[1] = request'[c].org
    BY DEF OwnerRows, Reach
  <2>4. ASSUME NEW o \in Reach(request'[c]), member[o][request'[c].acct] = "owner"
        PROVE  <<o, request'[c].acct>> \in OwnerRows(Reach(request'[c]))
    BY <1>A, <2>2, <2>4 DEF OwnerRows, Row
  <2> QED  BY <2>1, <2>2, <2>3, <2>4
<1>3. CASE Decided(c)
  <2>1. /\ member' = member /\ request'[c].op = request[c].op /\ request'[c].acct = request[c].acct
        /\ request'[c].org = request[c].org /\ request[c].step = "snapshot"
        /\ request'[c].rows = StillOwners(request[c].rows)
    BY <1>3 DEF Decided, StoreSame
  <2>2. Reach(request[c])' = Reach(request[c])
    BY <2>1 DEF Reach
  <2>3. ASSUME NEW o \in Reach(request[c]), member[o][request[c].acct] = "owner"
        PROVE  <<o, request[c].acct>> \in StillOwners(request[c].rows) \cup overtaken'
    <3>1. <<o, request[c].acct>> \in request[c].rows \cup overtaken
      BY <1>0, <2>1, <2>3 DEF OwnRowChosen
    <3>2. overtaken \subseteq overtaken'
      BY <1>0, HistoryGrows
    <3> QED  BY <2>3, <3>1, <3>2 DEF StillOwners
  <2>4. StillOwners(request[c].rows) \subseteq request[c].rows
    BY DEF StillOwners
  <2> QED  BY <1>0, <2>1, <2>2, <2>3, <2>4 DEF OwnRowChosen
<1>4. request'[c].step # "done" /\ ~Opened(c)
  BY DEF Opened
<1> QED  BY <1>0, <1>1, <1>2, <1>3, <1>4, RequestFrame

\* Of two reductions the later goes on holding the row of the earlier's account.
LEMMA LaterChoseEarlierStep == IInv /\ Next => LaterChoseEarlier'
<1> SUFFICES ASSUME IInv, Next, NEW c \in Client, NEW d \in Client, NEW o \in Org, Meet(c, d, o)'
             PROVE  \/ <<o, request'[d].acct>> \in request'[c].rows
                    \/ <<o, request'[c].acct>> \in request'[d].rows
  BY DEF LaterChoseEarlier
<1>0. TypeOK /\ TypeOK' /\ LaterChoseEarlier
  BY TypeStep DEF IInv
<1>1. /\ request'[c].step \in {"snapshot", "decided"} /\ request'[d].step \in {"snapshot", "decided"}
      /\ o \in Reach(request[c])' /\ o \in Reach(request[d])'
      /\ member'[o][request'[c].acct] = "owner" /\ member'[o][request'[d].acct] = "owner"
      /\ <<o, request'[c].acct>> \notin overtaken' /\ <<o, request'[d].acct>> \notin overtaken'
  BY DEF Meet
<1>A. request'[c].acct \in Account /\ request'[d].acct \in Account
  BY <1>0, <1>1 DEF TypeOK, Requests, Named
\* A snapshot sees every owner of the organization.
<1>2. ASSUME NEW x \in {c, d}, Snapped(x), NEW b \in Account, member'[o][b] = "owner"
      PROVE  <<o, b>> \in request'[x].rows
  <2>1. member' = member /\ request'[x].rows = OwnerRows(Reach(request'[x]))
    BY <1>2 DEF Snapped, StoreSame
  <2>2. o \in Reach(request'[x])
    BY <1>1, <1>2, <2>1 DEF Reach
  <2> QED  BY <1>2, <2>1, <2>2 DEF OwnerRows, Row
\* What was chosen earlier is still there.
<1>3. ASSUME NEW x \in {c, d}, request'[x] = request[x] \/ Decided(x)
      PROVE  /\ request[x].step \in {"snapshot", "decided"}
             /\ request'[x].op = request[x].op /\ request'[x].acct = request[x].acct
             /\ request'[x].org = request[x].org
             /\ \A b \in Account : member'[o][b] = "owner" /\ <<o, b>> \in request[x].rows
                                      => <<o, b>> \in request'[x].rows
  <2>1. CASE request'[x] = request[x]
    BY <1>1, <1>3, <2>1
  <2>2. CASE Decided(x)
    <3>1. /\ member' = member /\ request'[x].op = request[x].op /\ request'[x].acct = request[x].acct
          /\ request'[x].org = request[x].org /\ request[x].step = "snapshot"
          /\ request'[x].rows = StillOwners(request[x].rows)
      BY <2>2 DEF Decided, StoreSame
    <3> QED  BY <3>1 DEF StillOwners
  <2> QED  BY <1>3, <2>1, <2>2
<1>4. \A x \in {c, d} : request'[x] = request[x] \/ Snapped(x) \/ Decided(x)
  BY <1>0, <1>1, RequestFrame DEF Opened
<1>5. ASSUME \A x \in {c, d} : request'[x] = request[x] \/ Decided(x)
      PROVE  \/ <<o, request'[d].acct>> \in request'[c].rows
             \/ <<o, request'[c].acct>> \in request'[d].rows
  <2>1. \A x \in {c, d} : /\ request[x].step \in {"snapshot", "decided"}
                          /\ request'[x].op = request[x].op /\ request'[x].acct = request[x].acct
                          /\ request'[x].org = request[x].org
    BY <1>3, <1>5
  <2>2. /\ member[o][request[c].acct] = "owner" /\ o \in Reach(request[c])
        /\ member[o][request[d].acct] = "owner" /\ o \in Reach(request[d])
    BY <1>0, <1>1, <2>1, StillTheirs
  <2>3. <<o, request[c].acct>> \notin overtaken /\ <<o, request[d].acct>> \notin overtaken
    BY <1>0, <1>1, <2>1, HistoryGrows
  <2>4. Meet(c, d, o)
    BY <2>1, <2>2, <2>3 DEF Meet
  <2>5. \/ <<o, request[d].acct>> \in request[c].rows
        \/ <<o, request[c].acct>> \in request[d].rows
    BY <1>0, <2>4 DEF LaterChoseEarlier
  <2> QED  BY <1>1, <1>3, <1>5, <1>A, <2>1, <2>5
<1> QED  BY <1>1, <1>2, <1>4, <1>5, <1>A

\* A locked row stays an owner's and has one holder.
LEMMA LocksHoldStep == IInv /\ Next => LocksHold'
<1> SUFFICES ASSUME IInv, Next PROVE LocksHold'
  OBVIOUS
<1>0. TypeOK /\ LocksHold /\ request \in [Client -> Request]
  BY DEF IInv, TypeOK, Requests
<1>F. \A c \in Client : request'[c].step = "decided" =>
          \/ request'[c] = request[c]
          \/ Decided(c)
  BY <1>0, RequestFrame DEF Opened, Snapped
<1>1. ASSUME NEW c \in Client, request'[c].step = "decided", NEW q \in request'[c].rows
      PROVE  q \in Row /\ member'[q[1]][q[2]] = "owner"
  <2>1. CASE request'[c] = request[c]
    <3>1. q \in Row /\ member[q[1]][q[2]] = "owner"
      BY <1>0, <1>1, <2>1 DEF LocksHold
    <3>2. PICK o \in Org, a \in Account : q = <<o, a>>
      BY <3>1 DEF Row
    <3>3. q[1] = o /\ q[2] = a
      BY <3>2
    <3> QED  BY <1>0, <1>1, <2>1, <3>1, <3>2, <3>3, LockedRowsStay
  <2>2. CASE Decided(c)
    <3>1. member' = member /\ q \in StillOwners(request[c].rows)
      BY <1>1, <2>2 DEF Decided, StoreSame
    <3>2. request[c].rows \subseteq Row
      BY <1>0 DEF Request
    <3> QED  BY <3>1, <3>2 DEF StillOwners
  <2> QED  BY <1>1, <1>F, <2>1, <2>2
<1>2. ASSUME NEW c \in Client, NEW d \in Client \ {c},
             request'[c].step = "decided", request'[d].step = "decided"
      PROVE  request'[c].rows \cap request'[d].rows = {}
  <2>1. ASSUME NEW x \in Client, NEW y \in Client, x # y, Decided(x), request'[y].step = "decided"
        PROVE  request'[x].rows \cap request'[y].rows = {}
    <3>1. request' = [request EXCEPT ![x] = request'[x]]
      BY <2>1 DEF Decided
    <3>2. request'[y] = request[y]
      BY <1>0, <2>1, <3>1
    <3>3. request[x].rows \cap request[y].rows = {}
      BY <2>1, <3>2 DEF Decided, Free
    <3>4. request'[x].rows \subseteq request[x].rows
      BY <2>1 DEF Decided, StillOwners
    <3> QED  BY <3>2, <3>3, <3>4
  <2>2. CASE request'[c] = request[c] /\ request'[d] = request[d]
    BY <1>0, <1>2, <2>2 DEF LocksHold
  <2> QED  BY <1>2, <1>F, <2>1, <2>2
<1> QED  BY <1>1, <1>2 DEF LocksHold

\* What a decided request counted is not undone by the others.
LEMMA GuardedStep == IInv /\ Next => Guarded'
<1> DEFINE Spare(c) == \A o \in Org : <<o, request[c].acct>> \in request[c].rows =>
                                  EffectiveOwners(o) \ {request[c].acct} # {} \/ Excused(o)
           Able(c) == request[c].op = "unlink" /\ ~LosesCapability(request[c].acct, request[c].link)
<1> SUFFICES ASSUME IInv, Next, NEW d \in Client, request'[d].step = "decided"
             PROVE  Spare(d)' \/ Able(d)'
  BY DEF Guarded
<1>0. /\ TypeOK /\ OwnRowChosen /\ LaterChoseEarlier /\ LocksHold /\ Guarded /\ Remembered
      /\ request[d] \in Request
  BY DEF IInv, TypeOK, Requests
<1>E. \A o \in Org : Excused(o) => Excused(o)'
  BY <1>0, ExcusedStays
<1>1. CASE Decided(d)
  <2>1. /\ UNCHANGED <<account, link, member>>
        /\ request'[d].op = request[d].op /\ request'[d].acct = request[d].acct
        /\ request'[d].link = request[d].link
    BY <1>1 DEF Decided, StoreSame
  <2>2. \A o \in Org : EffectiveOwners(o)' = EffectiveOwners(o)
    BY <2>1 DEF EffectiveOwners, CanAuthenticate, CanAct
  <2>3. CASE ~FinalOwner(request[d].acct, request'[d].rows)
    <3>1. \A o \in Org : <<o, request[d].acct>> \in request'[d].rows =>
                             EffectiveOwners(o) \ {request[d].acct} # {}
      BY <2>3 DEF FinalOwner, Strands
    <3> QED  BY <2>1, <2>2, <3>1
  <2>4. CASE Able(d)
    BY <2>1, <2>4 DEF LosesCapability
  <2> QED  BY <1>1, <2>3, <2>4 DEF Decided
<1>2. CASE request'[d] = request[d]
  <2> DEFINE b == request[d].acct
  <2>0. b \in Account /\ request[d].step = "decided" /\ request[d].op \in Reducing
    BY <1>0, <1>2 DEF TypeOK, Requests, Named
  <2>1. Spare(d) \/ Able(d)
    BY <1>0, <2>0 DEF Guarded
  \* An unlinking that leaves its account able to log in still does.
  <2>2. ASSUME Kept(b), Able(d) PROVE Able(d)'
    BY <1>2, <2>0, <2>2 DEF Kept, LosesCapability
  <2>3. CASE \A c \in Client : ~Commit(c)
    <3>1. Kept(b)
      BY <1>0, <2>0, <2>3, OtherSteps
    <3>2. ASSUME Spare(d) PROVE Spare(d)'
      BY <1>0, <1>2, <1>E, <2>3, <3>2, OwnersGrow
    <3> QED  BY <2>1, <2>2, <3>1, <3>2
  <2>4. ASSUME NEW c \in Client, Commit(c) PROVE Spare(d)' \/ Able(d)'
    <3>1. /\ c # d /\ request[c].step = "decided"
          /\ request[c].rows \cap request[d].rows = {}
      BY <1>0, <1>2, <2>0, <2>4, CommitEffect DEF LocksHold
    \* Another owner who is lost has a row the commit holds, and one of the two chose
    \* the other's.
    <3>2. ASSUME Spare(d) PROVE Spare(d)'
      <4> SUFFICES ASSUME NEW o \in Org, <<o, b>> \in request[d].rows
                   PROVE  EffectiveOwners(o)' \ {b} # {} \/ Excused(o)'
        BY <1>2
      <4>1. CASE Excused(o)
        BY <1>E, <4>1
      <4>2. CASE ~Excused(o)
        <5>1. PICK x \in EffectiveOwners(o) : x # b
          BY <3>2, <4>2
        <5>2. member[o][b] = "owner"
          BY <1>0, <2>0 DEF LocksHold
        <5>3. o \in Reach(request[d])
          <6>1. CASE request[d].op \in {"disable", "unlink"}
            BY <5>2, <6>1 DEF Reach
          <6>2. CASE request[d].op \in {"revoke", "demote"}
            <7>1. <<o, b>>[1] = request[d].org
              BY <1>0, <2>0, <6>2 DEF OwnRowChosen
            <7> QED  BY <6>2, <7>1 DEF Reach
          <6> QED  BY <2>0, <6>1, <6>2 DEF Reducing
        <5>4. ASSUME x \notin EffectiveOwners(o)' PROVE FALSE
          <6>1. x = request[c].acct /\ o \in Reach(request[c]) /\ <<o, x>> \in request[c].rows
            BY <1>0, <2>4, <4>2, <5>4, OwnerLoss
          <6>2. x \in Account /\ member[o][x] = "owner"
            BY DEF EffectiveOwners
          <6>3. Meet(c, d, o)
            BY <2>0, <3>1, <4>2, <5>2, <5>3, <6>1, <6>2 DEF Meet, Excused
          <6>4. <<o, b>> \in request[c].rows \/ <<o, x>> \in request[d].rows
            BY <1>0, <6>1, <6>3 DEF LaterChoseEarlier
          <6> QED  BY <3>1, <6>1, <6>4
        <5> QED  BY <5>1, <5>4
      <4> QED  BY <4>1, <4>2
    <3>3. CASE Able(d) /\ request[c].acct # b
      <4>1. CASE Kept(b)
        BY <2>2, <3>3, <4>1
      <4>2. CASE Relinked(b)
        <5>1. ASSUME NEW o \in Org, <<o, b>> \in request[d].rows PROVE Excused(o)
          <6>1. member[o][b] = "owner"
            BY <1>0, <2>0, <5>1 DEF LocksHold
          <6> QED  BY <2>0, <4>2, <6>1 DEF Relinked, Excused
        <5> QED  BY <1>2, <1>E, <5>1
      <4> QED  BY <1>0, <2>0, <2>4, <3>3, <4>1, <4>2, CommitEffect
    <3>4. CASE Able(d) /\ request[c].acct = b /\ request[c].op \in {"revoke", "demote"}
      <4>1. UNCHANGED <<account, link>>
        BY <1>0, <2>4, <3>4, CommitEffect
      <4> QED  BY <1>2, <3>4, <4>1 DEF LosesCapability
    \* Two requests over one account hold disjoint rows only where one was overtaken.
    <3>5. CASE request[c].acct = b /\ request[c].op \in {"disable", "unlink"}
      <4>1. ASSUME NEW o \in Org, <<o, b>> \in request[d].rows PROVE Excused(o)
        <5>1. member[o][b] = "owner"
          BY <1>0, <2>0, <4>1 DEF LocksHold
        <5>2. o \in Reach(request[c])
          BY <3>5, <5>1 DEF Reach
        <5>3. <<o, b>> \in request[c].rows \cup overtaken
          BY <1>0, <3>1, <3>5, <5>1, <5>2 DEF OwnRowChosen
        <5> QED  BY <2>0, <3>1, <4>1, <5>3 DEF Excused
      <4> QED  BY <1>2, <1>E, <4>1
    <3>6. request[c].op \in {"revoke", "demote", "disable", "unlink"}
      BY <2>4 DEF Commit, DisableCommit, UnlinkCommit, RevokeCommit, DemoteCommit, At
    <3> HIDE DEF Spare, Able, b
    <3> QED  BY <2>1, <3>2, <3>3, <3>4, <3>5, <3>6
  <2> QED  BY <2>3, <2>4
<1> QED  BY <1>0, <1>1, <1>2, RequestFrame DEF Opened, Snapped

\* No step gives an account a verifier, or leaves one with a disabled account.
LEMMA VerifiersGo ==
    ASSUME TypeOK, Remembered, Next, NEW a \in Account
    PROVE  /\ account'[a].verifier => account[a].verifier
           /\ account'[a].disabledAt # "enabled" => ~account'[a].verifier
<1> DEFINE Goal == /\ account'[a].verifier => account[a].verifier
                   /\ account'[a].disabledAt # "enabled" => ~account'[a].verifier
<1>T. account \in [Account -> AccountRow]
  BY DEF TypeOK
<1>0. account[a].disabledAt # "enabled" => ~account[a].verifier
  BY DEF Remembered
<1>1. ASSUME account' = account PROVE Goal
  BY <1>0, <1>1
<1>2. ASSUME NEW c \in Client, DisableCommit(c) \/ EnableWrite(c) PROVE Goal
  BY <1>0, <1>2, <1>T DEF DisableCommit, EnableWrite, ApplyAccount, AccountRow
<1>3. ASSUME NEW c \in Client, Purge(c) PROVE Goal
  BY <1>0, <1>3, <1>T DEF Purge, AccountRow
<1>4. ASSUME NEW b \in Account, Lapse(b) PROVE Goal
  BY <1>0, <1>4, <1>T DEF Lapse, AccountRow, Remembered
<1>5. ASSUME NEW c \in Client,
             UnlinkCommit(c) \/ RevokeCommit(c) \/ DemoteCommit(c) \/ PromoteWrite(c)
      PROVE  Goal
  BY <1>1, <1>5 DEF UnlinkCommit, RevokeCommit, DemoteCommit, PromoteWrite, identities
<1>6. ASSUME \/ \E c \in Client, l \in Link, b \in Account : LinkIdentity(c, l, b)
             \/ \E c \in Client, o \in Org, b \in Account : CreateOrganization(c, o, b)
             \/ \E c \in Client, f \in open \cup expired : Redeem(c, f)
      PROVE  Goal
  BY <1>1, <1>6 DEF LinkIdentity, CreateOrganization, Redeem, identities
<1> HIDE DEF Goal
<1>7. Goal
  BY <1>1, <1>2, <1>3, <1>4, <1>5, <1>6, StepKinds DEF Commit
<1> QED  BY <1>7 DEF Goal

\* What the requests remember of accounts and links stays true.
LEMMA RememberedStep == IInv /\ Next => Remembered'
<1> SUFFICES ASSUME IInv, Next PROVE Remembered'
  OBVIOUS
<1>0. TypeOK /\ Remembered
  BY DEF IInv
<1>1. \A a \in Account : account'[a].disabledAt # "enabled" => ~account'[a].verifier
  BY <1>0, VerifiersGo
<1>2. ASSUME NEW c \in Client, request'[c].op = "enable", request'[c].step = "read"
      PROVE  ~account'[request'[c].acct].verifier
  <2>1. request'[c].acct \in Account
    BY <1>0, <1>2, TypeStep DEF TypeOK, Requests, Named
  <2>2. CASE request'[c] = request[c]
    BY <1>0, <1>2, <2>1, <2>2, VerifiersGo DEF Remembered
  <2>3. CASE Opened(c)
    BY <1>0, <1>2, <2>1, <2>3 DEF Opened, StoreSame, Remembered
  <2> QED  BY <1>0, <1>2, <2>2, <2>3, RequestFrame DEF Snapped, Decided
\* An account that is noted wherever it is an owner goes on being so, while the
\* unlinking of its subject for another goes on.
<1>G. overtaken \subseteq overtaken' /\ relinked \subseteq relinked'
  BY <1>0, HistoryGrows
<1>T. link \in [Link -> Account \cup {None}]
  BY <1>0 DEF TypeOK
<1>3. ASSUME NEW c \in Client, request'[c].op = "unlink", UnderWay(request'[c])
      PROVE  \/ link'[request'[c].link] \in {request'[c].acct, None}
             \/ Relinked(link[request[c].link])'
  <2>0. request'[c].link \in Link /\ request'[c].step \in {"read", "snapshot", "decided"}
    BY <1>0, <1>3, TypeStep DEF TypeOK, Requests, Named, UnderWay
  <2>1. CASE request'[c] = request[c]
    <3> DEFINE l == request[c].link
               x == link[l]
               y == link'[l]
    <3>1. x \in {request[c].acct, None} \/ Relinked(x)
      BY <1>0, <1>3, <2>1 DEF Remembered
    <3>2. \A z : z # request[c].acct => StaleUnlinking(l, z)
      BY <1>3, <2>1 DEF StaleUnlinking
    <3>3. CASE y \in {request[c].acct, None}
      BY <2>1, <3>3
    <3>4. CASE y = x /\ y \notin {request[c].acct, None}
      <4>1. x \in Account
        BY <1>T, <2>0, <2>1, <3>4
      <4>2. ASSUME NEW o \in Org, member'[o][x] = "owner" PROVE <<o, x>> \in relinked'
        <5>1. CASE member[o][x] = "owner"
          BY <1>G, <3>1, <3>4, <5>1 DEF Relinked
        <5>2. CASE member[o][x] # "owner"
          <6>1. NoteOwner(o, x)
            BY <1>0, <4>1, <4>2, <5>2, OwnersMade
          <6>2. StaleUnlinking(l, x)
            BY <3>2, <3>4
          <6> QED  BY <1>0, <2>0, <2>1, <4>1, <6>1, <6>2, Noted
        <5> QED  BY <5>1, <5>2
      <4>3. link'[request'[c].link] = x
        BY <2>1, <3>4
      <4> QED  BY <4>2, <4>3 DEF Relinked
    <3>5. CASE y \notin {x, None} /\ y # request[c].acct
      <4>1. /\ member' = member
            /\ StaleUnlinking(l, y) => \A o \in Org : member[o][y] = "owner" => <<o, y>> \in relinked'
        BY <1>0, <2>0, <2>1, <3>5, LinksMade
      <4>2. StaleUnlinking(l, y)
        BY <3>2, <3>5
      <4>3. \A o \in Org : member'[o][y] = "owner" => <<o, y>> \in relinked'
        BY <4>1, <4>2
      <4>4. link'[request'[c].link] = y
        BY <2>1
      <4> QED  BY <4>3, <4>4 DEF Relinked
    <3> QED  BY <3>3, <3>4, <3>5
  <2>2. CASE Opened(c)
    BY <1>3, <2>2 DEF Opened, StoreSame
  <2>3. CASE Snapped(c) \/ Decided(c)
    <3>1. /\ request[c].op = "unlink" /\ request[c].step \in {"read", "snapshot"}
          /\ link' = link /\ member' = member
          /\ request'[c].acct = request[c].acct /\ request'[c].link = request[c].link
      BY <1>3, <2>3 DEF Snapped, Decided, StoreSame
    <3>2. UnderWay(request[c])
      BY <3>1 DEF UnderWay, Reducing
    <3>3. \/ link[request[c].link] \in {request[c].acct, None}
          \/ Relinked(link[request[c].link])
      BY <1>0, <3>1, <3>2 DEF Remembered
    <3>4. Relinked(link[request[c].link]) => Relinked(link[request[c].link])'
      BY <1>G, <3>1 DEF Relinked
    <3> QED  BY <3>1, <3>3, <3>4
  <2> QED  BY <1>0, <2>0, <2>1, <2>2, <2>3, RequestFrame
<1> QED  BY <1>1, <1>2, <1>3 DEF Remembered

\* The whole invariant holds of the initial states ...
LEMMA OwnerInit == Init => IInv
<1> SUFFICES ASSUME Init PROVE IInv
  OBVIOUS
<1>1. TypeOK
  BY TypeInit
<1>2. \A c \in Client : request[c].step = "idle"
  BY IdleType DEF Init
<1>3. Remembered
  <2>1. \A a \in Account : account[a].disabledAt = "enabled"
    BY DEF Init
  <2> QED  BY <1>2, <2>1 DEF Remembered, UnderWay
<1>4. OwnRowChosen /\ LaterChoseEarlier /\ LocksHold /\ Guarded
  BY <1>2 DEF OwnRowChosen, LaterChoseEarlier, Meet, LocksHold, Guarded
<1>5. OwnerKeptUnlessOvertaken
  BY DEF Init, OwnerKeptUnlessOvertaken
<1> QED  BY <1>1, <1>3, <1>4, <1>5 DEF IInv

\* ... and survives every step.
LEMMA OwnerStep == IInv /\ [Next]_vars => IInv'
<1>1. IInv /\ Next => IInv'
  BY TypeStep, OwnRowChosenStep, LaterChoseEarlierStep, LocksHoldStep, GuardedStep, RememberedStep,
     OwnerKeptStep DEF IInv
<1>2. ASSUME IInv, UNCHANGED vars PROVE IInv'
  <2>0. UNCHANGED <<account, link, orgs, member, request, overtaken, relinked>>
    BY <1>2 DEF vars
  <2>1. TypeOK'
    BY <1>2, TypeStep DEF IInv
  <2>2. OwnRowChosen' /\ LocksHold'
    BY <1>2, <2>0 DEF IInv, OwnRowChosen, LocksHold, Reach
  <2>7. LaterChoseEarlier'
    BY <1>2, <2>0 DEF IInv, LaterChoseEarlier, Meet, Reach
  <2>3. \A o \in Org : EffectiveOwners(o)' = EffectiveOwners(o) /\ Excused(o)' = Excused(o)
    BY <2>0 DEF EffectiveOwners, CanAuthenticate, CanAct, Excused
  <2>4. Guarded'
    BY <1>2, <2>0, <2>3 DEF IInv, Guarded, LosesCapability
  <2>5. Remembered'
    BY <1>2, <2>0 DEF IInv, Remembered, Relinked
  <2>6. OwnerKeptUnlessOvertaken'
    BY <1>2, <2>0, <2>3 DEF IInv, OwnerKeptUnlessOvertaken, TypeOK
  <2> QED  BY <2>1, <2>2, <2>4, <2>5, <2>6, <2>7 DEF IInv
<1> QED  BY <1>1, <1>2

\* FR-013, for any number of accounts, organizations and requests and every
\* interleaving of disablements, unlinkings, revocations, demotions, purges,
\* re-enablements, promotions, creations and redemptions: an organization that has
\* no owner left who can log in has a membership that became an owner's after a
\* reduction of it chose its rows, or one whose subject was linked again while its
\* unlinking for another account went on.
THEOREM OwnersLostOnlyWhenOvertaken == Spec => []OwnerKeptUnlessOvertaken
<1>1. IInv => OwnerKeptUnlessOvertaken
  BY DEF IInv
<1> QED  BY <1>1, OwnerInit, OwnerStep, PTL DEF Spec

-----------------------------------------------------------------------------
(* Tombstones. *)

\* A tombstone keeps the instant its horizon was counted from.
Buried == \A a \in Account : account[a].purged => account[a].disabledAt = "lapsed"

\* One step neither writes a tombstone nor makes one of an account whose
\* horizon has not passed.
LEMMA TombstoneStep ==
    ASSUME TypeOK, Buried, [Next]_vars, NEW a \in Account
    PROVE  /\ account[a].purged => account'[a] = account[a]
           /\ (account'[a].purged /\ ~account[a].purged) =>
                  account[a].disabledAt = "lapsed" /\ account'[a].disabledAt = "lapsed"
<1> DEFINE Goal == /\ account[a].purged => account'[a] = account[a]
                   /\ (account'[a].purged /\ ~account[a].purged) =>
                          account[a].disabledAt = "lapsed" /\ account'[a].disabledAt = "lapsed"
<1>T. account \in [Account -> AccountRow]
  BY DEF TypeOK
<1>1. ASSUME account' = account PROVE Goal
  BY <1>1
<1>2. ASSUME NEW c \in Client, DisableCommit(c) \/ EnableWrite(c) PROVE Goal
  BY <1>2, <1>T DEF DisableCommit, EnableWrite, ApplyAccount
<1>3. ASSUME NEW c \in Client, Purge(c) PROVE Goal
  BY <1>3, <1>T DEF Purge, AccountRow
<1>4. ASSUME NEW b \in Account, Lapse(b) PROVE Goal
  BY <1>4, <1>T DEF Lapse, AccountRow, Buried
<1>5. ASSUME NEW c \in Client,
             UnlinkCommit(c) \/ RevokeCommit(c) \/ DemoteCommit(c) \/ PromoteWrite(c)
      PROVE  Goal
  BY <1>1, <1>5 DEF UnlinkCommit, RevokeCommit, DemoteCommit, PromoteWrite, identities
<1>6. ASSUME \/ \E c \in Client, l \in Link, b \in Account : LinkIdentity(c, l, b)
             \/ \E c \in Client, o \in Org, b \in Account : CreateOrganization(c, o, b)
             \/ \E c \in Client, f \in open \cup expired : Redeem(c, f)
      PROVE  Goal
  BY <1>1, <1>6 DEF LinkIdentity, CreateOrganization, Redeem, identities
<1> HIDE DEF Goal
<1>7. Goal
  BY <1>1, <1>2, <1>3, <1>4, <1>5, <1>6, StepKinds DEF Commit, vars
<1> QED  BY <1>7 DEF Goal

\* A purged account is never written again, and only one whose horizon has
\* passed is purged.
THEOREM TombstonesTerminal == Spec => TombstoneTerminal
<1>1. TypeOK /\ Buried /\ [Next]_vars =>
        [\A a \in Account :
          /\ account[a].purged => account'[a] = account[a]
          /\ (account'[a].purged /\ ~account[a].purged) => account[a].disabledAt = "lapsed"]_vars
  BY TombstoneStep
<1>2. Init => Buried
  BY DEF Init, Buried
<1>3. TypeOK /\ Buried /\ [Next]_vars => Buried'
  <2> SUFFICES ASSUME TypeOK, Buried, [Next]_vars, NEW a \in Account, account'[a].purged
               PROVE  account'[a].disabledAt = "lapsed"
    BY DEF Buried
  <2>1. CASE account[a].purged
    BY <2>1, TombstoneStep DEF Buried
  <2>2. CASE ~account[a].purged
    BY <2>2, TombstoneStep
  <2> QED  BY <2>1, <2>2
<1> QED  BY <1>1, <1>2, <1>3, OwnershipTypes, PTL DEF Spec, TombstoneTerminal

-----------------------------------------------------------------------------
(* The audit trail and the open offers. *)

\* The role the last event of a membership gave.
LastGiven(o, a) ==
    IF events[o][a] = <<>> THEN "none" ELSE events[o][a][Len(events[o][a])].next

\* A membership is an owner's when its last event says so.
TrailFollows ==
    \A o \in Org, a \in Account :
        <<o, a>> \in overtaken \/ (member[o][a] = "owner" <=> LastGiven(o, a) = "owner")

\* Whether a decided change read the row of an owner is still so.
ReadStands ==
    \A c \in Client : (request[c].op \in {"revoke", "demote"} /\ request[c].step = "decided") =>
        /\ request[c].prior # "none"
        /\ \/ <<request[c].org, request[c].acct>> \in overtaken
           \/ request[c].prior = "owner" <=> member[request[c].org][request[c].acct] = "owner"

\* An offer of an account made after its revocation chose what to delete is noted.
CascadeStands ==
    \A c \in Client : (request[c].op = "revoke" /\ request[c].step = "decided") =>
        \A f \in open : f.org = request[c].org /\ f.by = request[c].acct =>
            f \in request[c].doomed \/ f.id \in late

\* Only an organization that exists has members and offers.
TeamsExist ==
    /\ \A o \in Org \ orgs, a \in Account : member[o][a] = "none"
    /\ \A f \in open \cup expired : f.org \in orgs

TrailIInv ==
    /\ IInv
    /\ TeamsExist
    /\ TrailFollows
    /\ OwnerEventsChain
    /\ ReadStands
    /\ CascadeStands
    /\ OffersStand

\* A change comes to be decided by reading the membership and choosing the offers
\* its cascade deletes; then it stays as decided until it commits.
LEMMA ChangeDecided ==
    ASSUME TypeOK, Next, NEW c \in Client, request'[c].op \in {"revoke", "demote"},
           request'[c].step = "decided"
    PROVE  \/ request'[c] = request[c]
           \/ /\ UNCHANGED <<account, link, orgs, member, events, unused, open>>
              /\ request'[c].prior = member[request'[c].org][request'[c].acct]
              /\ request'[c].prior # "none"
              /\ request'[c].op = "revoke" =>
                    request'[c].doomed = CascadeOf(request'[c].org, request'[c].acct)
<1> DEFINE Chosen == /\ UNCHANGED <<account, link, orgs, member, events, unused, open>>
                     /\ request'[c].prior = member[request'[c].org][request'[c].acct]
                     /\ request'[c].prior # "none"
                     /\ request'[c].op = "revoke" =>
                           request'[c].doomed = CascadeOf(request'[c].org, request'[c].acct)
           Goal == request'[c] = request[c] \/ Chosen
<1> USE DEF identities, teams, offers, history
<1>T. request \in [Client -> Request] /\ request[c] \in Request
  BY DEF TypeOK, Requests
<1>F. ASSUME NEW d \in Client, Finish(d) PROVE Goal
  BY <1>F, <1>T, DoneType DEF Finish
<1>S. ASSUME NEW d \in Client, NEW r, Start(d, r), r.step # "decided" PROVE Goal
  BY <1>S, <1>T DEF Start
<1>1. ASSUME NEW d \in Client, NEW a \in Account,
             DisableRead(d, a) \/ EnableRead(d, a) \/ SweepSelect(d, a)
      PROVE  Goal
  BY <1>1, <1>S DEF DisableRead, EnableRead, SweepSelect, Idle
<1>2. ASSUME NEW d \in Client,
             \/ DisableCommit(d) \/ EnableWrite(d) \/ Purge(d) \/ UnlinkCommit(d)
             \/ PromoteWrite(d) \/ RevokeCommit(d) \/ DemoteCommit(d)
      PROVE  Goal
  BY <1>2, <1>F DEF DisableCommit, EnableWrite, Purge, UnlinkCommit, PromoteWrite,
                    RevokeCommit, DemoteCommit
<1>3. ASSUME NEW d \in Client, NEW l \in Link,
             UnlinkRead(d, l) \/ \E a \in Account : LinkIdentity(d, l, a)
      PROVE  Goal
  BY <1>3, <1>S DEF UnlinkRead, LinkIdentity, Idle
<1>4. ASSUME NEW d \in Client, NEW o \in Org, NEW a \in Account,
             \/ CreateOrganization(d, o, a) \/ PromoteRead(d, o, a)
             \/ \E i \in Invite, to \in Account, role \in Role : Issue(d, i, o, a, to, role)
      PROVE  Goal
  BY <1>4, <1>S DEF CreateOrganization, PromoteRead, Issue, Idle
<1>5. ASSUME NEW d \in Client, NEW o \in Org, NEW a \in Account, NEW op \in {"revoke", "demote"},
             ChangeSnapshot(d, op, o, a)
      PROVE  Goal
  BY <1>5, <1>S DEF ChangeSnapshot, Idle
<1>6. ASSUME NEW d \in Client, ReductionSnapshot(d) PROVE Goal
  BY <1>6, <1>T DEF ReductionSnapshot, Request
<1>7. ASSUME NEW d \in Client, ReductionDecide(d) PROVE Goal
  <2>1. CASE Finish(d)
    BY <1>F, <2>1
  <2>2. CASE ~Finish(d)
    BY <1>7, <1>T, <2>2 DEF ReductionDecide, At, Request
  <2> QED  BY <2>1, <2>2
<1>8. ASSUME NEW d \in Client, ChangeDecide(d) PROVE Goal
  <2>1. CASE Finish(d)
    BY <1>F, <2>1
  <2>2. CASE ~Finish(d) /\ d # c
    BY <1>8, <1>T, <2>2 DEF ChangeDecide
  <2>3. CASE ~Finish(d) /\ d = c
    <3>1. /\ UNCHANGED <<account, link, orgs, member, events, unused, open>>
          /\ member[request[c].org][request[c].acct] # "none"
          /\ request' = [request EXCEPT
                 ![c].step = "decided", ![c].rows = StillOwners(request[c].rows),
                 ![c].prior = member[request[c].org][request[c].acct],
                 ![c].doomed = IF request[c].op = "revoke"
                                 THEN CascadeOf(request[c].org, request[c].acct) ELSE {}]
      BY <1>8, <2>3 DEF ChangeDecide
    <3>2. /\ request'[c].prior = member[request[c].org][request[c].acct]
          /\ request'[c].org = request[c].org /\ request'[c].acct = request[c].acct
          /\ request'[c].op = request[c].op
      BY <1>T, <3>1 DEF Request
    <3>3. request'[c].op = "revoke" => request'[c].doomed = CascadeOf(request[c].org, request[c].acct)
      BY <1>T, <3>1, <3>2 DEF Request
    <3> QED  BY <3>1, <3>2, <3>3
  <2> QED  BY <2>1, <2>2, <2>3
<1>9. ASSUME NEW d \in Client, NEW f \in open \cup expired, Redeem(d, f) PROVE Goal
  BY <1>9, <1>S DEF Redeem, Idle
<1>10. ASSUME \/ \E f \in open \cup expired : OfferEnds(f) \/ OfferExpires(f)
              \/ \E a \in Account : Lapse(a)
              \/ Settled
       PROVE  Goal
  BY <1>10 DEF OfferEnds, OfferExpires, Lapse, Settled, vars
<1> HIDE DEF Goal
<1>11. Goal
  BY <1>1, <1>2, <1>3, <1>4, <1>5, <1>6, <1>7, <1>8, <1>9, <1>10 DEF Next
<1> QED  BY <1>11 DEF Goal

\* While a change is decided, its row stops being an owner's only when the change
\* itself commits, and becomes one only as a noted one.
LEMMA ReadStandsStep == TrailIInv /\ Next => ReadStands'
<1> SUFFICES ASSUME TrailIInv, Next, NEW c \in Client,
                    request'[c].op \in {"revoke", "demote"}, request'[c].step = "decided"
             PROVE  /\ request'[c].prior # "none"
                    /\ \/ <<request'[c].org, request'[c].acct>> \in overtaken'
                       \/ request'[c].prior = "owner" <=>
                            member'[request'[c].org][request'[c].acct] = "owner"
  BY DEF ReadStands
<1>T. TypeOK /\ request[c] \in Request /\ Named(request[c])
  BY DEF TrailIInv, IInv, TypeOK, Requests
<1>1. CASE request'[c] = request[c]
  <2> DEFINE o == request[c].org
             a == request[c].acct
  <2>0. overtaken \subseteq overtaken'
    BY <1>T, HistoryGrows
  <2>1. /\ request[c].prior # "none"
        /\ <<o, a>> \in overtaken \/ (request[c].prior = "owner" <=> member[o][a] = "owner")
    BY <1>1 DEF TrailIInv, ReadStands
  <2>2. o \in Org /\ a \in Account
    BY <1>T, <1>1 DEF Named
  <2>3. ASSUME member'[o][a] = "owner", <<o, a>> \notin overtaken' PROVE member[o][a] = "owner"
    <3>1. o \in Reach(request[c])'
      BY <1>1 DEF Reach
    <3> QED  BY <1>T, <1>1, <2>3, <3>1, StillTheirs
  <2>4. ASSUME member[o][a] = "owner", <<o, a>> \notin overtaken PROVE member'[o][a] = "owner"
    <3>1. o \in Reach(request[c])
      BY <1>1 DEF Reach
    <3>2. <<o, a>> \in request[c].rows
      BY <1>1, <2>4, <3>1 DEF TrailIInv, IInv, OwnRowChosen
    <3> QED  BY <1>T, <1>1, <2>2, <2>4, <3>2, LockedRowsStay
  <2> QED  BY <1>1, <2>0, <2>1, <2>3, <2>4
<1>2. CASE request'[c] # request[c]
  BY <1>T, <1>2, ChangeDecided
<1> QED  BY <1>1, <1>2

\* An offer is made by an owner, and noted if the owner's revocation has chosen its
\* cascade.
LEMMA OffersMove ==
    ASSUME TypeOK, Next
    PROVE  \A f \in open' :
             \/ f \in open
             \/ /\ UNCHANGED <<account, member>>
                /\ member[f.org][f.by] = "owner" /\ ~account[f.to].purged
                /\ \A c \in Client :
                      (/\ At(c, {"revoke"}, "decided")
                       /\ request[c].org = f.org /\ request[c].acct = f.by) => f.id \in late'
<1> USE DEF identities, teams, offers, history
<1>1. ASSUME NEW c \in Client, NEW a \in Account,
             DisableRead(c, a) \/ EnableRead(c, a) \/ SweepSelect(c, a)
      PROVE  open' = open
  BY <1>1 DEF DisableRead, EnableRead, SweepSelect
<1>2. ASSUME NEW c \in Client,
             \/ DisableCommit(c) \/ EnableWrite(c) \/ ReductionSnapshot(c) \/ ReductionDecide(c)
             \/ UnlinkCommit(c) \/ PromoteWrite(c) \/ ChangeDecide(c) \/ DemoteCommit(c)
      PROVE  open' = open
  BY <1>2 DEF DisableCommit, EnableWrite, ReductionSnapshot, ReductionDecide, UnlinkCommit,
              PromoteWrite, ChangeDecide, DemoteCommit
<1>3. ASSUME NEW c \in Client, Purge(c) \/ RevokeCommit(c) PROVE open' \subseteq open
  BY <1>3 DEF Purge, RevokeCommit
<1>4. ASSUME NEW c \in Client, NEW l \in Link,
             UnlinkRead(c, l) \/ \E a \in Account : LinkIdentity(c, l, a)
      PROVE  open' = open
  BY <1>4 DEF UnlinkRead, LinkIdentity
<1>5. ASSUME NEW c \in Client, NEW o \in Org, NEW a \in Account,
             \/ CreateOrganization(c, o, a) \/ PromoteRead(c, o, a)
             \/ \E op \in {"revoke", "demote"} : ChangeSnapshot(c, op, o, a)
      PROVE  open' = open
  BY <1>5 DEF CreateOrganization, PromoteRead, ChangeSnapshot
<1>6. ASSUME NEW c \in Client, NEW o \in Org, NEW a \in Account, NEW i \in Invite,
             NEW to \in Account, NEW role \in Role, Issue(c, i, o, a, to, role)
      PROVE  /\ UNCHANGED <<account, member>>
             /\ \A f \in open' \ open :
                  /\ member[f.org][f.by] = "owner" /\ ~account[f.to].purged
                  /\ \A d \in Client :
                        (/\ At(d, {"revoke"}, "decided")
                         /\ request[d].org = f.org /\ request[d].acct = f.by) => f.id \in late'
  <2> DEFINE f == [id |-> i, org |-> o, to |-> to, by |-> a, role |-> role]
  <2>1. /\ open' = open \cup {f} /\ UNCHANGED <<account, member>>
        /\ member[o][a] = "owner" /\ ~account[to].purged
        /\ (\E d \in Client : /\ At(d, {"revoke"}, "decided")
                              /\ request[d].org = o /\ request[d].acct = a) => i \in late'
    BY <1>6 DEF Issue
  <2>2. f.id = i /\ f.org = o /\ f.to = to /\ f.by = a
    OBVIOUS
  <2> HIDE DEF f
  <2> QED  BY <2>1, <2>2
<1>7. ASSUME NEW c \in Client, NEW f \in open \cup expired, Redeem(c, f) PROVE open' \subseteq open
  BY <1>7 DEF Redeem
<1>8. ASSUME NEW f \in open \cup expired, OfferEnds(f) \/ OfferExpires(f) PROVE open' \subseteq open
  BY <1>8 DEF OfferEnds, OfferExpires
<1>9. ASSUME (\E a \in Account : Lapse(a)) \/ Settled PROVE open' = open
  BY <1>9 DEF Lapse, Settled, vars
<1> QED  BY <1>1, <1>2, <1>3, <1>4, <1>5, <1>6, <1>7, <1>8, <1>9 DEF Next

\* Only an open invitation expires.
LEMMA ExpiredMove == ASSUME TypeOK, Next PROVE expired' \subseteq open \cup expired
<1> USE DEF identities, teams, offers, history
<1>1. ASSUME NEW c \in Client, NEW a \in Account,
             DisableRead(c, a) \/ EnableRead(c, a) \/ SweepSelect(c, a)
      PROVE  expired' = expired
  BY <1>1 DEF DisableRead, EnableRead, SweepSelect
<1>2. ASSUME NEW c \in Client,
             \/ DisableCommit(c) \/ EnableWrite(c) \/ ReductionSnapshot(c) \/ ReductionDecide(c)
             \/ UnlinkCommit(c) \/ PromoteWrite(c) \/ ChangeDecide(c) \/ DemoteCommit(c)
      PROVE  expired' = expired
  BY <1>2 DEF DisableCommit, EnableWrite, ReductionSnapshot, ReductionDecide, UnlinkCommit,
              PromoteWrite, ChangeDecide, DemoteCommit
<1>3. ASSUME NEW c \in Client, Purge(c) \/ RevokeCommit(c) PROVE expired' \subseteq expired
  BY <1>3 DEF Purge, RevokeCommit
<1>4. ASSUME NEW c \in Client, NEW l \in Link,
             UnlinkRead(c, l) \/ \E a \in Account : LinkIdentity(c, l, a)
      PROVE  expired' = expired
  BY <1>4 DEF UnlinkRead, LinkIdentity
<1>5. ASSUME NEW c \in Client, NEW o \in Org, NEW a \in Account,
             \/ CreateOrganization(c, o, a) \/ PromoteRead(c, o, a)
             \/ \E op \in {"revoke", "demote"} : ChangeSnapshot(c, op, o, a)
             \/ \E i \in Invite, to \in Account, role \in Role : Issue(c, i, o, a, to, role)
      PROVE  expired' = expired
  BY <1>5 DEF CreateOrganization, PromoteRead, ChangeSnapshot, Issue
<1>6. ASSUME NEW c \in Client, NEW f \in open \cup expired, Redeem(c, f)
      PROVE  expired' \subseteq expired
  BY <1>6 DEF Redeem
<1>7. ASSUME NEW f \in open \cup expired, OfferEnds(f) PROVE expired' \subseteq expired
  BY <1>7 DEF OfferEnds
<1>8. ASSUME NEW f \in open \cup expired, OfferExpires(f)
      PROVE  expired' \subseteq open \cup expired
  BY <1>8 DEF OfferExpires
<1>9. ASSUME (\E a \in Account : Lapse(a)) \/ Settled PROVE expired' = expired
  BY <1>9 DEF Lapse, Settled, vars
<1> QED  BY <1>1, <1>2, <1>3, <1>4, <1>5, <1>6, <1>7, <1>8, <1>9 DEF Next

LEMMA CascadeStandsStep == TrailIInv /\ Next => CascadeStands'
<1> SUFFICES ASSUME TrailIInv, Next, NEW c \in Client,
                    request'[c].op = "revoke", request'[c].step = "decided", NEW f \in open',
                    f.org = request'[c].org, f.by = request'[c].acct
             PROVE  f \in request'[c].doomed \/ f.id \in late'
  BY DEF CascadeStands
<1>T. TypeOK
  BY DEF TrailIInv, IInv
<1>1. CASE request'[c] = request[c]
  <2>1. CASE f \in open
    <3>1. f \in request[c].doomed \/ f.id \in late
      BY <1>1, <2>1 DEF TrailIInv, CascadeStands
    <3> QED  BY <1>T, <1>1, <3>1, HistoryGrows
  <2>2. CASE f \notin open
    <3>1. At(c, {"revoke"}, "decided")
      BY <1>1 DEF At
    <3> QED  BY <1>T, <1>1, <2>2, <3>1, OffersMove
  <2> QED  BY <2>1, <2>2
<1>2. CASE request'[c] # request[c]
  BY <1>T, <1>2, ChangeDecided DEF CascadeOf
<1> QED  BY <1>1, <1>2

\* A step leaves the events of a membership alone and takes no owner from it or to
\* it, or it appends one event that says truly whether an owner's role was left.
EventMove(o, a) ==
    \/ /\ events'[o][a] = events[o][a]
       /\ member'[o][a] = "owner" <=> member[o][a] = "owner"
    \/ \E p, n \in Held :
          /\ events'[o][a] = Append(events[o][a], [prior |-> p, next |-> n])
          /\ p = "owner" <=> member[o][a] = "owner"
          /\ n = "owner" <=> member'[o][a] = "owner"

\* One event is appended to one membership's.
LEMMA RecordedEffect ==
    ASSUME TypeOK, NEW o \in Org, NEW a \in Account, NEW p, NEW n,
           events' = Recorded(events, o, a, p, n)
    PROVE  \A q \in Org, b \in Account :
             events'[q][b] = IF q = o /\ b = a THEN Append(events[q][b], [prior |-> p, next |-> n])
                             ELSE events[q][b]
<1>T. events \in [Org -> [Account -> Seq(Event)]]
  BY DEF TypeOK
<1> QED  BY <1>T DEF Recorded

LEMMA MemberEffect ==
    ASSUME TypeOK, NEW o \in Org, NEW a \in Account, NEW h, member' = [member EXCEPT ![o][a] = h]
    PROVE  \A q \in Org, b \in Account : member'[q][b] = IF q = o /\ b = a THEN h ELSE member[q][b]
<1>T. member \in [Org -> [Account -> Held]]
  BY DEF TypeOK
<1> QED  BY <1>T

LEMMA EventMoves ==
    ASSUME TrailIInv, Next, NEW o \in Org, NEW a \in Account, <<o, a>> \notin overtaken
    PROVE  EventMove(o, a)
<1> USE DEF identities, teams, offers, history
<1>T. /\ TypeOK /\ member \in [Org -> [Account -> Held]] /\ open \subseteq Offer /\ expired \subseteq Offer /\ Requests
      /\ request \in [Client -> Request]
  BY DEF TrailIInv, IInv, TypeOK, Requests
<1>0. ASSUME UNCHANGED <<member, events>> PROVE EventMove(o, a)
  BY <1>0 DEF EventMove
\* One event about one membership.
<1>A. ASSUME NEW q \in Org, NEW b \in Account, NEW p \in Held, NEW n \in Held, NEW h \in Held,
             events' = Recorded(events, q, b, p, n), member' = [member EXCEPT ![q][b] = h],
             <<q, b>> \in overtaken \/ (p = "owner" <=> member[q][b] = "owner"),
             n = "owner" <=> h = "owner"
      PROVE  EventMove(o, a)
  <2>1. /\ events'[o][a] = IF o = q /\ a = b THEN Append(events[o][a], [prior |-> p, next |-> n])
                           ELSE events[o][a]
        /\ member'[o][a] = IF o = q /\ a = b THEN h ELSE member[o][a]
    BY <1>T, <1>A, RecordedEffect, MemberEffect
  <2>2. CASE o = q /\ a = b
    <3>1. p = "owner" <=> member[o][a] = "owner"
      BY <1>A, <2>2
    <3> QED  BY <1>A, <2>1, <2>2, <3>1 DEF EventMove
  <2>3. CASE ~(o = q /\ a = b)
    BY <2>1, <2>3 DEF EventMove
  <2> QED  BY <2>2, <2>3
<1>B. ASSUME NEW q \in Org, NEW b \in Account, NEW p, NEW n, events' = Recorded(events, q, b, p, n)
      PROVE  events'[o][a] = IF o = q /\ a = b THEN Append(events[o][a], [prior |-> p, next |-> n])
                             ELSE events[o][a]
  BY <1>T, <1>B, RecordedEffect
<1>1. ASSUME NEW c \in Client, PromoteWrite(c) PROVE EventMove(o, a)
  <2> DEFINE q == request[c].org
             b == request[c].acct
  <2>1. q \in Org /\ b \in Account
    BY <1>T, <1>1, Advance DEF PromoteWrite, At, Named
  <2>2. CASE member[q][b] = "member"
    <3>1. /\ member' = [member EXCEPT ![q][b] = "owner"]
          /\ events' = Recorded(events, q, b, "member", "owner")
      BY <1>1, <2>2 DEF PromoteWrite
    <3> QED  BY <1>A, <2>1, <2>2, <3>1 DEF Held, Role
  <2>3. CASE member[q][b] # "member"
    BY <1>0, <1>1, <2>3 DEF PromoteWrite
  <2> QED  BY <2>2, <2>3
<1>2. ASSUME NEW c \in Client, NEW q \in Org, NEW b \in Account, CreateOrganization(c, q, b)
      PROVE  EventMove(o, a)
  <2>1. /\ member' = [member EXCEPT ![q][b] = "owner"]
        /\ events' = Recorded(events, q, b, "none", "owner")
        /\ member[q][b] = "none"
    BY <1>2 DEF CreateOrganization, TrailIInv, TeamsExist
  <2> QED  BY <1>A, <2>1 DEF Held, Role
<1>3. ASSUME NEW c \in Client, NEW f \in open \cup expired, Redeem(c, f) PROVE EventMove(o, a)
  <2>1. /\ member' = [member EXCEPT ![f.org][f.to] = f.role]
        /\ events' = Recorded(events, f.org, f.to, "none", f.role)
        /\ member[f.org][f.to] = "none"
    BY <1>3 DEF Redeem
  <2>2. f.org \in Org /\ f.to \in Account /\ f.role \in Held
    BY <1>T DEF Offer, Held
  <2> QED  BY <1>A, <2>1, <2>2 DEF Held
<1>4. ASSUME NEW c \in Client, RevokeCommit(c) \/ DemoteCommit(c) PROVE EventMove(o, a)
  <2> DEFINE q == request[c].org
             b == request[c].acct
             prior == request[c].prior
  <2>1. q \in Org /\ b \in Account /\ prior \in Held
    BY <1>T, <1>4, Advance DEF RevokeCommit, DemoteCommit, At, Named, Request
  <2>2. <<q, b>> \in overtaken \/ (prior = "owner" <=> member[q][b] = "owner")
    BY <1>4 DEF RevokeCommit, DemoteCommit, At, TrailIInv, ReadStands
  <2>3. CASE RevokeCommit(c)
    <3>1. /\ member' = [member EXCEPT ![q][b] = "none"]
          /\ events' = Recorded(events, q, b, prior, "none")
      BY <2>3 DEF RevokeCommit
    <3> QED  BY <1>A, <2>1, <2>2, <3>1 DEF Held
  <2>4. CASE DemoteCommit(c) /\ prior = "owner" /\ member[q][b] = "none"
    BY <1>0, <2>4 DEF DemoteCommit
  <2>5. CASE DemoteCommit(c) /\ prior = "owner" /\ member[q][b] # "none"
    <3>1. /\ member' = [member EXCEPT ![q][b] = "member"]
          /\ events' = Recorded(events, q, b, prior, "member")
      BY <2>5 DEF DemoteCommit
    <3> QED  BY <1>A, <2>1, <2>2, <3>1 DEF Held, Role
  <2>6. CASE DemoteCommit(c) /\ prior # "owner"
    <3>1. member' = member /\ events' = Recorded(events, q, b, prior, "member")
      BY <2>6 DEF DemoteCommit
    <3>2. CASE o = q /\ a = b
      <4>1. member[o][a] # "owner" /\ member'[o][a] # "owner"
        BY <2>2, <2>6, <3>1, <3>2
      <4>2. events'[o][a] = Append(events[o][a], [prior |-> prior, next |-> "member"])
        BY <1>B, <2>1, <3>1, <3>2
      <4>3. "member" \in Held
        BY DEF Held, Role
      <4> QED  BY <2>1, <2>6, <4>1, <4>2, <4>3 DEF EventMove
    <3>3. CASE ~(o = q /\ a = b)
      <4>1. events'[o][a] = events[o][a]
        BY <1>B, <2>1, <3>1, <3>3
      <4> QED  BY <3>1, <4>1 DEF EventMove
    <3> QED  BY <3>2, <3>3
  <2> QED  BY <1>4, <2>3, <2>4, <2>5, <2>6
<1>5. ASSUME NEW c \in Client, NEW b \in Account,
             DisableRead(c, b) \/ EnableRead(c, b) \/ SweepSelect(c, b)
      PROVE  UNCHANGED <<member, events>>
  BY <1>5 DEF DisableRead, EnableRead, SweepSelect
<1>6. ASSUME NEW c \in Client,
             \/ DisableCommit(c) \/ EnableWrite(c) \/ ReductionSnapshot(c) \/ ReductionDecide(c)
             \/ UnlinkCommit(c) \/ Purge(c) \/ ChangeDecide(c)
      PROVE  UNCHANGED <<member, events>>
  BY <1>6 DEF DisableCommit, EnableWrite, ReductionSnapshot, ReductionDecide, UnlinkCommit,
              Purge, ChangeDecide
<1>7. ASSUME NEW c \in Client, NEW l \in Link,
             UnlinkRead(c, l) \/ \E b \in Account : LinkIdentity(c, l, b)
      PROVE  UNCHANGED <<member, events>>
  BY <1>7 DEF UnlinkRead, LinkIdentity
<1>8. ASSUME NEW c \in Client, NEW q \in Org, NEW b \in Account,
             \/ PromoteRead(c, q, b)
             \/ \E op \in {"revoke", "demote"} : ChangeSnapshot(c, op, q, b)
             \/ \E i \in Invite, to \in Account, role \in Role : Issue(c, i, q, b, to, role)
      PROVE  UNCHANGED <<member, events>>
  BY <1>8 DEF PromoteRead, ChangeSnapshot, Issue
<1>9. ASSUME (\E f \in open \cup expired : OfferEnds(f) \/ OfferExpires(f)) \/ (\E b \in Account : Lapse(b)) \/ Settled
      PROVE  UNCHANGED <<member, events>>
  BY <1>9 DEF OfferEnds, OfferExpires, Lapse, Settled, vars
<1> QED  BY <1>0, <1>1, <1>2, <1>3, <1>4, <1>5, <1>6, <1>7, <1>8, <1>9 DEF Next

\* An appended event leaves the role its predecessor gave, where owners are
\* concerned.
LEMMA TrailStep == TrailIInv /\ Next => TrailFollows' /\ OwnerEventsChain'
<1> SUFFICES ASSUME TrailIInv, Next, NEW o \in Org, NEW a \in Account, <<o, a>> \notin overtaken'
             PROVE  /\ member'[o][a] = "owner" <=> LastGiven(o, a)' = "owner"
                    /\ \A k \in 2..Len(events'[o][a]) :
                         (events'[o][a][k].prior = "owner" \/ events'[o][a][k - 1].next = "owner")
                           => events'[o][a][k].prior = events'[o][a][k - 1].next
  BY DEF TrailFollows, OwnerEventsChain
<1>0. TypeOK /\ <<o, a>> \notin overtaken
  BY HistoryGrows DEF TrailIInv, IInv
<1> DEFINE es == events[o][a]
           fs == events'[o][a]
<1>1. es \in Seq(Event)
  BY DEF TrailIInv, IInv, TypeOK
<1>2. /\ member[o][a] = "owner" <=> LastGiven(o, a) = "owner"
      /\ \A k \in 2..Len(es) : (es[k].prior = "owner" \/ es[k - 1].next = "owner")
                                 => es[k].prior = es[k - 1].next
  BY <1>0 DEF TrailIInv, TrailFollows, OwnerEventsChain
<1>3. CASE fs = es /\ (member'[o][a] = "owner" <=> member[o][a] = "owner")
  BY <1>2, <1>3 DEF LastGiven
<1>4. ASSUME NEW p \in Held, NEW n \in Held, fs = Append(es, [prior |-> p, next |-> n]),
             p = "owner" <=> member[o][a] = "owner", n = "owner" <=> member'[o][a] = "owner"
      PROVE  /\ member'[o][a] = "owner" <=> LastGiven(o, a)' = "owner"
             /\ \A k \in 2..Len(fs) : (fs[k].prior = "owner" \/ fs[k - 1].next = "owner")
                                        => fs[k].prior = fs[k - 1].next
  <2>1. /\ Len(fs) = Len(es) + 1 /\ Len(es) \in Nat
        /\ fs[Len(es) + 1] = [prior |-> p, next |-> n]
        /\ \A k \in 1..Len(es) : fs[k] = es[k]
    BY <1>1, <1>4
  <2>2. fs # <<>>
    BY <2>1
  <2>3. LastGiven(o, a)' = n
    BY <2>1, <2>2 DEF LastGiven
  <2>4. ASSUME NEW k \in 2..Len(fs), fs[k].prior = "owner" \/ fs[k - 1].next = "owner"
        PROVE  fs[k].prior = fs[k - 1].next
    <3>1. CASE k \in 2..Len(es)
      <4>1. k \in 1..Len(es) /\ k - 1 \in 1..Len(es)
        BY <2>1, <3>1
      <4> QED  BY <1>2, <2>1, <2>4, <3>1, <4>1
    <3>2. CASE k = Len(es) + 1
      <4>1. k - 1 = Len(es) /\ Len(es) \in 1..Len(es) /\ es # <<>>
        BY <1>1, <2>1, <3>2
      <4>2. fs[k] = [prior |-> p, next |-> n] /\ fs[k - 1] = es[Len(es)]
        BY <2>1, <3>2, <4>1
      <4>3. LastGiven(o, a) = es[Len(es)].next
        BY <4>1 DEF LastGiven
      <4>4. fs[k].prior = p /\ fs[k - 1].next = LastGiven(o, a)
        BY <4>2, <4>3
      <4>5. fs[k].prior = "owner" <=> fs[k - 1].next = "owner"
        BY <1>2, <1>4, <4>4
      <4> QED  BY <2>4, <4>5
    <3> QED  BY <2>1, <3>1, <3>2
  <2> QED  BY <1>4, <2>3, <2>4
<1> QED  BY <1>0, <1>3, <1>4, EventMoves DEF EventMove

\* Members are found, and are lost by a revocation, only where they are.
LEMMA MembersMove ==
    ASSUME TrailIInv, Next, NEW o \in Org, NEW a \in Account
    PROVE  /\ member'[o][a] # "none" => member[o][a] # "none" \/ o \in orgs'
           /\ member'[o][a] = "none" =>
                 \/ member[o][a] = "none"
                 \/ \E c \in Client : RevokeCommit(c) /\ request[c].org = o /\ request[c].acct = a
           /\ orgs \subseteq orgs'
<1> DEFINE Goal ==
           /\ member'[o][a] # "none" => member[o][a] # "none" \/ o \in orgs'
           /\ member'[o][a] = "none" =>
                 \/ member[o][a] = "none"
                 \/ \E c \in Client : RevokeCommit(c) /\ request[c].org = o /\ request[c].acct = a
           /\ orgs \subseteq orgs'
<1> USE DEF identities, teams, offers, history
<1>T. /\ TypeOK /\ member \in [Org -> [Account -> Held]] /\ open \subseteq Offer /\ expired \subseteq Offer /\ Requests
      /\ request \in [Client -> Request]
  BY DEF TrailIInv, IInv, TypeOK, Requests
<1>0. ASSUME UNCHANGED <<orgs, member>> PROVE Goal
  BY <1>0
<1>1. ASSUME NEW c \in Client, RevokeCommit(c) \/ DemoteCommit(c) PROVE Goal
  <2>1. request[c].org \in Org /\ request[c].acct \in Account /\ orgs' = orgs
    BY <1>T, <1>1, Advance DEF RevokeCommit, DemoteCommit, At, Named
  <2>2. CASE RevokeCommit(c)
    <3>1. member' = [member EXCEPT ![request[c].org][request[c].acct] = "none"]
      BY <2>2 DEF RevokeCommit
    <3> QED  BY <1>T, <2>1, <2>2, <3>1, MemberEffect
  <2>3. CASE DemoteCommit(c)
    <3>1. \/ member' = member
          \/ /\ member' = [member EXCEPT ![request[c].org][request[c].acct] = "member"]
             /\ member[request[c].org][request[c].acct] # "none"
      BY <2>3 DEF DemoteCommit
    <3>2. CASE member' = member
      BY <1>0, <2>1, <3>2
    <3>3. CASE member' # member
      BY <1>T, <2>1, <3>1, <3>3, MemberEffect
    <3> QED  BY <3>2, <3>3
  <2> QED  BY <1>1, <2>2, <2>3
<1>2. ASSUME NEW c \in Client, PromoteWrite(c) PROVE Goal
  <2>1. request[c].org \in Org /\ request[c].acct \in Account /\ orgs' = orgs
    BY <1>T, <1>2, Advance DEF PromoteWrite, At, Named
  <2>2. \/ member' = member
        \/ /\ member' = [member EXCEPT ![request[c].org][request[c].acct] = "owner"]
           /\ member[request[c].org][request[c].acct] = "member"
    BY <1>2 DEF PromoteWrite
  <2>3. CASE member' = member
    BY <1>0, <2>1, <2>3
  <2>4. CASE member' # member
    BY <1>T, <2>1, <2>2, <2>4, MemberEffect
  <2> QED  BY <2>3, <2>4
<1>3. ASSUME NEW c \in Client, NEW q \in Org, NEW b \in Account, CreateOrganization(c, q, b)
      PROVE  Goal
  <2>1. member' = [member EXCEPT ![q][b] = "owner"] /\ orgs' = orgs \cup {q}
    BY <1>3 DEF CreateOrganization
  <2> QED  BY <1>T, <2>1, MemberEffect
<1>4. ASSUME NEW c \in Client, NEW f \in open \cup expired, Redeem(c, f) PROVE Goal
  <2>1. /\ f.org \in Org /\ f.to \in Account /\ f.by \in Account /\ f.role \in Role
        /\ member' = [member EXCEPT ![f.org][f.to] = f.role] /\ orgs' = orgs
    BY <1>T, <1>4 DEF Redeem, Offer
  <2>2. f.org \in orgs
    BY <1>4 DEF TrailIInv, TeamsExist
  <2>3. f.role # "none"
    BY <2>1 DEF Role
  <2> QED  BY <1>T, <2>1, <2>2, <2>3, MemberEffect
<1>5. ASSUME NEW c \in Client, DisableCommit(c) \/ UnlinkCommit(c) \/ EnableWrite(c) \/ Purge(c)
      PROVE  Goal
  BY <1>0, <1>5 DEF DisableCommit, UnlinkCommit, EnableWrite, Purge
<1>6. ASSUME \/ \E b \in Account : Lapse(b)
             \/ \E d \in Client, l \in Link, b \in Account : LinkIdentity(d, l, b)
      PROVE  Goal
  BY <1>0, <1>6 DEF Lapse, LinkIdentity
<1> HIDE DEF Goal
<1>7. Goal
  BY <1>0, <1>1, <1>2, <1>3, <1>4, <1>5, <1>6, StepKinds DEF Commit
<1> QED  BY <1>7 DEF Goal

LEMMA TeamsExistStep == TrailIInv /\ Next => TeamsExist'
<1> SUFFICES ASSUME TrailIInv, Next PROVE TeamsExist'
  OBVIOUS
<1>T. TypeOK
  BY DEF TrailIInv, IInv
<1>1. ASSUME NEW o \in Org \ orgs', NEW a \in Account PROVE member'[o][a] = "none"
  <2>1. o \notin orgs
    BY MembersMove
  <2> QED  BY <1>1, <2>1, MembersMove DEF TrailIInv, TeamsExist
<1>2. ASSUME NEW f \in open' \cup expired' PROVE f.org \in orgs'
  <2>1. f.org \in Org /\ f.by \in Account
    BY <1>T, TypeStep DEF TypeOK, Offer
  <2>2. orgs \subseteq orgs'
    BY <2>1, MembersMove
  <2>3. CASE f \in open \cup expired
    BY <2>2, <2>3 DEF TrailIInv, TeamsExist
  <2>4. CASE f \notin open \cup expired
    <3>1. member[f.org][f.by] = "owner"
      BY <1>T, <1>2, <2>4, OffersMove, ExpiredMove
    <3>2. f.org \in orgs
      BY <2>1, <3>1 DEF TrailIInv, TeamsExist
    <3> QED  BY <2>2, <3>2
  <2> QED  BY <2>3, <2>4
<1> QED  BY <1>1, <1>2 DEF TeamsExist

\* An offer is deleted with the membership of who made it, unless it is a late one,
\* and with the account it was made to.
LEMMA OffersStandStep == TrailIInv /\ Next => OffersStand'
<1> SUFFICES ASSUME TrailIInv, Next PROVE OffersStand'
  OBVIOUS
<1> USE DEF identities, teams, offers, history
<1>T. /\ TypeOK /\ account \in [Account -> AccountRow]
      /\ \A f \in open' \cup expired' : f.org \in Org /\ f.by \in Account /\ f.to \in Account
  BY TypeStep DEF TrailIInv, IInv, TypeOK, Offer
<1>1. ASSUME NEW f \in open' PROVE member'[f.org][f.by] # "none" \/ f.id \in late'
  <2>1. CASE f \notin open
    BY <1>T, <1>1, <2>1, OffersMove
  <2>2. CASE f \in open /\ f.id \in late
    BY <1>T, <2>2, HistoryGrows
  <2>3. CASE f \in open /\ f.id \notin late
    <3>1. member[f.org][f.by] # "none"
      BY <2>3 DEF TrailIInv, OffersStand
    <3>2. ASSUME NEW c \in Client, RevokeCommit(c), request[c].org = f.org, request[c].acct = f.by
          PROVE  FALSE
      <4>1. f \in request[c].doomed
        BY <2>3, <3>2 DEF RevokeCommit, At, TrailIInv, CascadeStands
      <4> QED  BY <1>1, <3>2, <4>1 DEF RevokeCommit
    <3> QED  BY <1>1, <1>T, <3>1, <3>2, MembersMove
  <2> QED  BY <2>1, <2>2, <2>3
<1>2. ASSUME NEW f \in open' \cup expired' PROVE ~account'[f.to].purged
  <2>0. f.to \in Account
    BY <1>2, <1>T
  <2>1. CASE f \notin open \cup expired
    BY <1>T, <1>2, <2>1, OffersMove, ExpiredMove
  <2>2. CASE f \in open \cup expired
    <3>1. ~account[f.to].purged
      BY <2>2 DEF TrailIInv, OffersStand
    <3>4. ASSUME account' = account PROVE ~account'[f.to].purged
      BY <3>1, <3>4
    <3>5. ASSUME NEW c \in Client, DisableCommit(c) \/ EnableWrite(c) PROVE ~account'[f.to].purged
      BY <1>T, <2>0, <3>1, <3>5 DEF DisableCommit, EnableWrite, ApplyAccount
    <3>6. ASSUME NEW c \in Client, Purge(c) PROVE ~account'[f.to].purged
      <4>1. CASE account' = account
        BY <3>4, <4>1
      <4>2. CASE account' # account
        <5>1. f.to # request[c].acct
          BY <1>2, <3>6, <4>2 DEF Purge
        <5> QED  BY <1>T, <2>0, <3>1, <3>6, <4>2, <5>1 DEF Purge
      <4> QED  BY <4>1, <4>2
    <3>7. ASSUME NEW a \in Account, Lapse(a) PROVE ~account'[f.to].purged
      BY <1>T, <2>0, <3>1, <3>7 DEF Lapse, AccountRow
    <3>8. ASSUME \/ \E c \in Client : UnlinkCommit(c) \/ RevokeCommit(c) \/ DemoteCommit(c)
                                      \/ PromoteWrite(c)
                 \/ \E c \in Client, l \in Link, a \in Account : LinkIdentity(c, l, a)
                 \/ \E c \in Client, o \in Org, a \in Account : CreateOrganization(c, o, a)
                 \/ \E c \in Client, g \in open \cup expired : Redeem(c, g)
          PROVE  ~account'[f.to].purged
      BY <3>4, <3>8 DEF UnlinkCommit, RevokeCommit, DemoteCommit, PromoteWrite, LinkIdentity,
                        CreateOrganization, Redeem
    <3> QED  BY <3>4, <3>5, <3>6, <3>7, <3>8, StepKinds DEF Commit
  <2> QED  BY <2>1, <2>2
<1> QED  BY <1>1, <1>2 DEF OffersStand

\* The trail and the offers hold of the initial states ...
LEMMA TrailBegins == Init => TrailIInv
<1> SUFFICES ASSUME Init PROVE TrailIInv
  OBVIOUS
<1>T. IInv /\ TypeOK
  BY OwnerInit, TypeInit
<1>1. \A c \in Client : request[c].step = "idle"
  BY IdleType DEF Init
<1>2. TeamsExist
  BY DEF Init, TeamsExist
<1>3. \A o \in Org, a \in Account :
        events[o][a] = IF member[o][a] = "none" THEN <<>>
                       ELSE <<[prior |-> "none", next |-> member[o][a]]>>
  BY DEF Init
<1>4. TrailFollows
  <2> SUFFICES ASSUME NEW o \in Org, NEW a \in Account
               PROVE  member[o][a] = "owner" <=> LastGiven(o, a) = "owner"
    BY DEF TrailFollows
  <2>1. CASE member[o][a] = "none"
    BY <1>3, <2>1 DEF LastGiven
  <2>2. CASE member[o][a] # "none"
    <3>1. events[o][a] = <<[prior |-> "none", next |-> member[o][a]]>>
      BY <1>3, <2>2
    <3>2. Len(events[o][a]) = 1 /\ events[o][a] # <<>> /\ events[o][a][1].next = member[o][a]
      BY <3>1
    <3> QED  BY <3>2 DEF LastGiven
  <2> QED  BY <2>1, <2>2
<1>5. OwnerEventsChain
  <2>1. ASSUME NEW o \in Org, NEW a \in Account PROVE Len(events[o][a]) \in {0, 1}
    <3>1. events[o][a] = <<>> \/ events[o][a] = <<[prior |-> "none", next |-> member[o][a]]>>
      BY <1>3
    <3>2. CASE events[o][a] = <<>>
      BY <3>2
    <3>3. CASE events[o][a] = <<[prior |-> "none", next |-> member[o][a]]>>
      <4>1. Len(events[o][a]) = 1
        BY <3>3
      <4> QED  BY <4>1
    <3> QED  BY <3>1, <3>2, <3>3
  <2> QED  BY <2>1 DEF OwnerEventsChain
<1>6. ReadStands /\ CascadeStands /\ OffersStand
  BY <1>1 DEF Init, ReadStands, CascadeStands, OffersStand
<1> QED  BY <1>T, <1>2, <1>4, <1>5, <1>6 DEF TrailIInv

\* ... and survive every step.
LEMMA TrailSurvives == TrailIInv /\ [Next]_vars => TrailIInv'
<1>1. TrailIInv /\ Next => TrailIInv'
  BY OwnerStep, TeamsExistStep, TrailStep, ReadStandsStep, CascadeStandsStep, OffersStandStep
     DEF TrailIInv
<1>2. ASSUME TrailIInv, UNCHANGED vars PROVE TrailIInv'
  <2>0. UNCHANGED <<account, orgs, member, events, open, expired, request, overtaken, late>>
    BY <1>2 DEF vars
  <2>1. IInv'
    BY <1>2, OwnerStep DEF TrailIInv
  <2>2. TeamsExist' /\ TrailFollows'
    BY <1>2, <2>0 DEF TrailIInv, TeamsExist, TrailFollows, LastGiven
  <2>3. OwnerEventsChain'
    BY <1>2, <2>0 DEF TrailIInv, OwnerEventsChain
  <2>4. ReadStands' /\ CascadeStands' /\ OffersStand'
    BY <1>2, <2>0 DEF TrailIInv, ReadStands, CascadeStands, OffersStand
  <2> QED  BY <2>1, <2>2, <2>3, <2>4 DEF TrailIInv
<1> QED  BY <1>1, <1>2

\* FR-014, for any number of accounts, organizations and requests and every
\* interleaving of them: the events that give or take the owner role of a membership
\* form a chain, unless the membership became an owner's after a reduction of it
\* chose its rows.
THEOREM OwnerTrailChains == Spec => []OwnerEventsChain
<1>1. TrailIInv => OwnerEventsChain
  BY DEF TrailIInv
<1> QED  BY <1>1, TrailBegins, TrailSurvives, PTL DEF Spec

\* FR-020 and the purge cascade, for every interleaving: no purge leaves behind an
\* invitation to the account, and no revocation an open invitation of the former
\* member, but for one made after the revocation chose what to delete.
THEOREM OffersStayFounded == Spec => []OffersStand
<1>1. TrailIInv => OffersStand
  BY DEF TrailIInv
<1> QED  BY <1>1, TrailBegins, TrailSurvives, PTL DEF Spec
=============================================================================
