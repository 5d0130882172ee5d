--------------------------- MODULE InvitationLife ---------------------------
(***************************************************************************)
(* The life of a commercial invitation: issued, read, redeemed into a      *)
(* membership by the actor it names, withdrawn by an owner or by the       *)
(* cascade of a revoked membership, expired, swept.  A redemption reads    *)
(* and verifies first, then locks the account and decides in a second      *)
(* transaction; everything else may happen in between.  Every operation    *)
(* judges expiry at the instant its request began, a redemption in both    *)
(* its transactions, so what it takes for open may have expired since.     *)
(* What open offers mean for an organization's owners is in Ownership;     *)
(* this module keeps what is left of a closed one: its row, its verifier,  *)
(* the membership it made.                                                 *)
(***************************************************************************)
EXTENDS Naturals, Sequences, FiniteSets

CONSTANTS Guests, Houses, Invites, Redeemers, Unnamed

ASSUME InvitationAssumption == Unnamed \notin Guests \cup Houses \cup Invites

VARIABLES
  invite,     \* rca_invitations
  enrolled,   \* rca_memberships: who belongs to which house
  able,       \* the accounts that can act
  signedIn,   \* the accounts whose presented session is not revoked
  redeeming,  \* the redemption each request runs
  admitted,   \* the memberships each invitation made, in order
  withdrawn   \* the invitations withdrawn while open

ivars == <<invite, enrolled, able, signedIn, redeeming, admitted, withdrawn>>

InviteState == {"unissued", "stored", "deleted"}
Redemption == {"idle", "verified", "locked", "done"}

InvitationTypeOK ==
  /\ invite \in [Invites -> [state : InviteState, house : Houses \cup {Unnamed},
                             to : Guests \cup {Unnamed}, verifier : BOOLEAN,
                             expired : BOOLEAN, redeemed : BOOLEAN]]
  /\ enrolled \subseteq Houses \X Guests
  /\ able \subseteq Guests /\ signedIn \subseteq Guests
  /\ redeeming \in [Redeemers -> [at : Redemption, invite : Invites \cup {Unnamed},
                                   guest : Guests \cup {Unnamed}]]
  /\ admitted \in [Invites -> Seq(Houses \X Guests)]
  /\ withdrawn \subseteq Invites

-----------------------------------------------------------------------------

Stored(i) == invite[i].state = "stored"

\* revoked_at is written by no path: an open invitation is deleted instead.
Unspent(i) == Stored(i) /\ ~invite[i].redeemed
IsOpen(i) == Unspent(i) /\ ~invite[i].expired

\* What a request's own instant makes of the expiry: one that began before it does
\* not see it.
ExpiredAtStart(i) == {FALSE, invite[i].expired}

AccountLocked(g) == \E q \in Redeemers : redeeming[q].at = "locked" /\ redeeming[q].guest = g

EndRedemption(q) == redeeming' = [redeeming EXCEPT ![q].at = "done"]

\* Reading an expired invitation destroys its verifier.
ReadDestroyingExpired(i, expired) == [invite EXCEPT ![i].verifier = @ /\ ~expired]

-----------------------------------------------------------------------------
(* An owner's operations.                                                  *)

\* The offer is refused for an identifier that is taken.
IssueInvitation(i, h, g) ==
  /\ invite[i].state = "unissued"
  /\ invite' = [invite EXCEPT ![i] = [state |-> "stored", house |-> h, to |-> g,
                    verifier |-> TRUE, expired |-> FALSE, redeemed |-> FALSE]]
  /\ UNCHANGED <<enrolled, able, signedIn, redeeming, admitted, withdrawn>>

ListInvitations(h) ==
  /\ \E i \in Invites : Stored(i) /\ invite[i].house = h
  /\ invite' = [i \in Invites |-> IF Stored(i) /\ invite[i].house = h
                                    THEN ReadDestroyingExpired(i, invite[i].expired)[i] ELSE invite[i]]
  /\ UNCHANGED <<enrolled, able, signedIn, redeeming, admitted, withdrawn>>

Deleted(invites) ==
  [i \in Invites |-> IF i \in invites THEN [invite[i] EXCEPT !.state = "deleted"] ELSE invite[i]]

\* One DELETE that matches an open row of this house, or nothing.
DeleteOpenInvitation(h, i) ==
  /\ Unspent(i) /\ invite[i].house = h
  /\ invite' = Deleted({i})
  /\ withdrawn' = withdrawn \cup {i}
  /\ UNCHANGED <<enrolled, able, signedIn, redeeming, admitted>>

\* A membership ends together with the open offers to its account and those the
\* account made.  Who made an offer is not kept here: any other of the house may
\* have been made by the account.
RevokeMembership(h, g, offers) ==
  /\ <<h, g>> \in enrolled
  /\ \A i \in offers : Unspent(i) /\ invite[i].house = h
  /\ \A i \in Invites : IsOpen(i) /\ invite[i].house = h /\ invite[i].to = g => i \in offers
  /\ enrolled' = enrolled \ {<<h, g>>}
  /\ invite' = Deleted(offers)
  /\ withdrawn' = withdrawn \cup offers
  /\ UNCHANGED <<able, signedIn, redeeming, admitted>>

-----------------------------------------------------------------------------
(* Redemption.                                                             *)

\* Found, its secret verified, addressed to the actor, and open.
FindForRedemption(q, i, g) ==
  /\ redeeming[q].at = "idle"
  /\ Stored(i) /\ g \in able /\ g \in signedIn
  /\ \E expired \in ExpiredAtStart(i) :
       LET accepted == invite[i].verifier /\ ~expired /\ invite[i].to = g /\ Unspent(i) IN
       /\ invite' = ReadDestroyingExpired(i, expired)
       /\ redeeming' = [redeeming EXCEPT ![q] =
            [at |-> IF accepted THEN "verified" ELSE "done", invite |-> i, guest |-> g]]
  /\ UNCHANGED <<enrolled, able, signedIn, admitted, withdrawn>>

\* The account's row is locked; it must still be live and its session not revoked.
\* The session's own expiry is judged at the request's instant again.
LockAccount(q) ==
  LET g == redeeming[q].guest IN
  /\ redeeming[q].at = "verified" /\ ~AccountLocked(g)
  /\ IF g \in able /\ g \in signedIn
       THEN redeeming' = [redeeming EXCEPT ![q].at = "locked"]
       ELSE EndRedemption(q)
  /\ UNCHANGED <<invite, enrolled, able, signedIn, admitted, withdrawn>>

\* A bug: the statement does not ask whether the invitation was redeemed meanwhile.
ConsumeRead(i) == Stored(i)

\* The UPDATE that consumes: its row must stand and be unredeemed.  `expires_at > now`
\* takes the instant the invitation was verified at, so it holds as it did then, even
\* of an invitation that has expired and lost its verifier to another read.
Consume(i) == Unspent(i)

\* Refused for a member and for an invitation the UPDATE did not match;
\* otherwise the mark, the membership and its event commit together.
RedeemIntoMembership(q) ==
  LET i == redeeming[q].invite
      row == <<invite[i].house, redeeming[q].guest>>
  IN
  /\ redeeming[q].at = "locked"
  /\ EndRedemption(q)
  /\ IF row \notin enrolled /\ Consume(i)
       THEN /\ invite' = [invite EXCEPT ![i] = [@ EXCEPT !.redeemed = TRUE, !.verifier = FALSE]]
            /\ enrolled' = enrolled \cup {row}
            /\ admitted' = [admitted EXCEPT ![i] = Append(@, row)]
       ELSE UNCHANGED <<invite, enrolled, admitted>>
  /\ UNCHANGED <<able, signedIn, withdrawn>>

RollBack(q) ==
  /\ redeeming[q].at \in {"verified", "locked"}
  /\ EndRedemption(q)
  /\ UNCHANGED <<invite, enrolled, able, signedIn, admitted, withdrawn>>

-----------------------------------------------------------------------------
(* Time, the sweep, and the accounts.                                      *)

ExpireInvitation(i) ==
  /\ Stored(i) /\ ~invite[i].expired
  /\ invite' = [invite EXCEPT ![i].expired = TRUE]
  /\ UNCHANGED <<enrolled, able, signedIn, redeeming, admitted, withdrawn>>

\* Expired and never redeemed, or redeemed longer ago than the horizon.
PurgeSpentInvitation(i) ==
  /\ Stored(i) /\ (invite[i].redeemed \/ invite[i].expired)
  /\ invite' = Deleted({i})
  /\ UNCHANGED <<enrolled, able, signedIn, redeeming, admitted, withdrawn>>

\* Disabling waits for the lock of the account's row; a logout does not.
ChangeAccount(g) ==
  /\ \/ ~AccountLocked(g) /\ UNCHANGED signedIn
        /\ able' = IF g \in able THEN able \ {g} ELSE able \cup {g}
     \/ UNCHANGED able
        /\ signedIn' = IF g \in signedIn THEN signedIn \ {g} ELSE signedIn \cup {g}
  /\ UNCHANGED <<invite, enrolled, redeeming, admitted, withdrawn>>

-----------------------------------------------------------------------------

InvitationInit ==
  /\ invite = [i \in Invites |-> [state |-> "unissued", house |-> Unnamed, to |-> Unnamed,
                   verifier |-> FALSE, expired |-> FALSE, redeemed |-> FALSE]]
  /\ redeeming = [q \in Redeemers |-> [at |-> "idle", invite |-> Unnamed, guest |-> Unnamed]]
  /\ enrolled = {}
  /\ able = Guests /\ signedIn = Guests
  /\ admitted = [i \in Invites |-> <<>>]
  /\ withdrawn = {}

InvitationNext ==
  \/ \E i \in Invites, h \in Houses, g \in Guests : IssueInvitation(i, h, g)
  \/ \E h \in Houses : ListInvitations(h) \/ \E i \in Invites : DeleteOpenInvitation(h, i)
  \/ \E h \in Houses, g \in Guests, offers \in SUBSET Invites : RevokeMembership(h, g, offers)
  \/ \E q \in Redeemers :
       \/ \E i \in Invites, g \in Guests : FindForRedemption(q, i, g)
       \/ LockAccount(q) \/ RedeemIntoMembership(q) \/ RollBack(q)
  \/ \E i \in Invites : ExpireInvitation(i) \/ PurgeSpentInvitation(i)
  \/ \E g \in Guests : ChangeAccount(g)

InvitationSpec == InvitationInit /\ [][InvitationNext]_ivars

-----------------------------------------------------------------------------

\* An invitation makes at most one membership, and only that of the account it is
\* addressed to in the house it is from; one that an owner or a revoked membership
\* withdrew makes none, whoever had verified it before.  While its row stands it
\* says which it did, a redeemed one keeps no verifier, and an unredeemed one loses
\* its verifier only once it has expired.
InvitationSpentOnce ==
  \A i \in Invites :
    /\ admitted[i] \in {<<>>, <<<<invite[i].house, invite[i].to>>>>}
    /\ i \in withdrawn => admitted[i] = <<>> /\ invite[i].state = "deleted"
    /\ Stored(i) =>
         /\ invite[i].redeemed <=> admitted[i] # <<>>
         /\ invite[i].redeemed => ~invite[i].verifier
         /\ ~invite[i].verifier => invite[i].redeemed \/ invite[i].expired
=============================================================================
