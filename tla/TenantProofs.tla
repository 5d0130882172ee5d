------------------------------ MODULE TenantProofs ------------------------------
(***************************************************************************)
(* Proofs about the services beside the report pipeline, each on its own:  *)
(* InvitationLife for any number of guests, houses, invitations and        *)
(* concurrent redemptions; RetailJourney for any number of callers,        *)
(* questions and releases; SessionAccess for any number of accounts,       *)
(* organizations, sessions, recovery keys and concurrent requests;         *)
(* WorkspaceRecords for any number of versions, runs and requests; and     *)
(* EnvelopeMigration for any number of files, sessions and passes, and any *)
(* bounds on seals and on writes given up.                                 *)
(***************************************************************************)
EXTENDS InvitationLife, RetailJourney, SessionAccess, WorkspaceRecords, EnvelopeMigration, TLAPS

-----------------------------------------------------------------------------
(* Commercial invitations: InvitationLife.                                 *)

InvitationRow == [state : InviteState, house : Houses \cup {Unnamed}, to : Guests \cup {Unnamed},
        verifier : BOOLEAN, expired : BOOLEAN, redeemed : BOOLEAN]

\* A redemption under way names an issued invitation and the guest it is addressed to.
Engaged ==
  \A q \in Redeemers : redeeming[q].at \in {"verified", "locked"} =>
    /\ redeeming[q].invite \in Invites /\ redeeming[q].guest \in Guests
    /\ invite[redeeming[q].invite].state # "unissued"
    /\ invite[redeeming[q].invite].to = redeeming[q].guest

\* An invitation not yet issued has made nothing and was withdrawn by nobody; an
\* issued one is to a house.
Issued ==
  \A i \in Invites :
    /\ invite[i].state = "unissued" => admitted[i] = <<>> /\ i \notin withdrawn
    /\ Stored(i) => invite[i].house \in Houses

\* The inductive invariant: what a row says is what its invitation did.
InvitationIInv == InvitationTypeOK /\ Engaged /\ Issued /\ InvitationSpentOnce

\* The properties of one invitation, to be restored one row at a time.
Honest(i) ==
  /\ invite[i].state = "unissued" => admitted[i] = <<>> /\ i \notin withdrawn
  /\ Stored(i) => invite[i].house \in Houses
  /\ admitted[i] \in {<<>>, <<<<invite[i].house, invite[i].to>>>>}
  /\ i \in withdrawn => admitted[i] = <<>> /\ invite[i].state = "deleted"
  /\ Stored(i) =>
       /\ invite[i].redeemed <=> admitted[i] # <<>>
       /\ invite[i].redeemed => ~invite[i].verifier
       /\ ~invite[i].verifier => invite[i].redeemed \/ invite[i].expired

LEMMA RowByRow == (\A i \in Invites : Honest(i)) <=> Issued /\ InvitationSpentOnce
  BY DEF Honest, Issued, InvitationSpentOnce

LEMMA RowByRowNext == (\A i \in Invites : Honest(i)') <=> (Issued /\ InvitationSpentOnce)'
  BY DEF Honest, Issued, InvitationSpentOnce, Stored

\* What a step that neither issues nor consumes does to a row: nothing, or it
\* deletes it, or expires it, or destroys the verifier of an expired one.
Narrows(old, new) ==
  /\ new \in InvitationRow
  /\ new.redeemed = old.redeemed /\ new.house = old.house /\ new.to = old.to
  /\ new.state \in {old.state, "deleted"}
  /\ old.expired => new.expired
  /\ new.verifier => old.verifier
  /\ old.verifier /\ ~new.verifier => new.expired

LEMMA RowNarrows ==
  ASSUME NEW r \in InvitationRow
  PROVE  /\ Narrows(r, r)
         /\ Narrows(r, [r EXCEPT !.state = "deleted"]) /\ [r EXCEPT !.state = "deleted"].state = "deleted"
         /\ Narrows(r, [r EXCEPT !.expired = TRUE])
         /\ Narrows(r, [r EXCEPT !.verifier = r.verifier /\ ~r.expired])
<1>1. Narrows(r, r)
  BY DEF Narrows, InvitationRow
<1>2. Narrows(r, [r EXCEPT !.state = "deleted"]) /\ [r EXCEPT !.state = "deleted"].state = "deleted"
  BY DEF Narrows, InvitationRow, InviteState
<1>3. Narrows(r, [r EXCEPT !.expired = TRUE])
  BY DEF Narrows, InvitationRow
<1>4. Narrows(r, [r EXCEPT !.verifier = r.verifier /\ ~r.expired])
  <2>1. r.verifier \in BOOLEAN /\ r.expired \in BOOLEAN
    BY DEF InvitationRow
  <2>2. CASE r.expired
    <3>1. (r.verifier /\ ~r.expired) = FALSE
      BY <2>1, <2>2
    <3>2. Narrows(r, [r EXCEPT !.verifier = FALSE])
      BY <2>2 DEF Narrows, InvitationRow
    <3> QED BY <3>1, <3>2
  <2>3. CASE ~r.expired
    <3>1. (r.verifier /\ ~r.expired) = r.verifier
      BY <2>1, <2>3
    <3>2. Narrows(r, [r EXCEPT !.verifier = r.verifier])
      BY <2>1 DEF Narrows, InvitationRow
    <3> QED BY <3>1, <3>2
  <2> QED BY <2>1, <2>2, <2>3
<1> QED BY <1>1, <1>2, <1>3, <1>4

\* A step that only narrows rows, and withdraws only what it found open and
\* deletes, keeps every invitation honest.
LEMMA NarrowingKeeps ==
  ASSUME NEW i \in Invites, Honest(i), invite[i] \in InvitationRow,
         admitted' = admitted, Narrows(invite[i], invite'[i]),
         i \in withdrawn' => i \in withdrawn \/ (Unspent(i) /\ invite'[i].state = "deleted")
  PROVE  Honest(i)'
<1>1. /\ invite[i].redeemed \in BOOLEAN /\ invite[i].verifier \in BOOLEAN /\ invite[i].expired \in BOOLEAN
      /\ invite[i].state \in InviteState
  BY DEF InvitationRow
<1>2. invite'[i].redeemed \in BOOLEAN /\ invite'[i].verifier \in BOOLEAN /\ invite'[i].expired \in BOOLEAN
  BY DEF Narrows, InvitationRow
<1>3. Unspent(i) => admitted[i] = <<>>
  BY <1>1 DEF Honest, Unspent, Stored
<1>4. i \in withdrawn' => admitted[i] = <<>> /\ invite'[i].state = "deleted"
  BY <1>3 DEF Honest, Narrows
<1>5. invite'[i].state = "unissued" => admitted[i] = <<>> /\ i \notin withdrawn'
  BY <1>4 DEF Honest, Narrows
<1>6. ASSUME invite'[i].state = "stored"
      PROVE  /\ invite'[i].redeemed <=> admitted[i] # <<>>
             /\ invite'[i].redeemed => ~invite'[i].verifier
             /\ ~invite'[i].verifier => invite'[i].redeemed \/ invite'[i].expired
             /\ invite'[i].house \in Houses
  <2>1. Stored(i)
    BY <1>6 DEF Narrows, Stored
  <2> QED BY <1>1, <1>2, <2>1 DEF Honest, Narrows
<1>7. admitted'[i] \in {<<>>, <<<<invite'[i].house, invite'[i].to>>>>}
  BY DEF Honest, Narrows
<1> QED BY <1>4, <1>5, <1>6, <1>7 DEF Honest, Stored

\* The types of everything but the rows.
OthersTyped ==
  /\ enrolled \subseteq Houses \X Guests
  /\ able \subseteq Guests /\ signedIn \subseteq Guests
  /\ redeeming \in [Redeemers -> [at : Redemption, invite : Invites \cup {Unnamed},
                                   guest : Guests \cup {Unnamed}]]
  /\ admitted \in [Invites -> Seq(Houses \X Guests)]
  /\ withdrawn \subseteq Invites

LEMMA TypesApart == InvitationTypeOK <=> invite \in [Invites -> InvitationRow] /\ OthersTyped
  BY DEF InvitationTypeOK, OthersTyped, InvitationRow

LEMMA TypesApartNext == InvitationTypeOK' <=> invite' \in [Invites -> InvitationRow] /\ OthersTyped'
  BY DEF InvitationTypeOK, OthersTyped, InvitationRow

\* A redemption under way after the step names what Engaged says of the rows before it.
StillEngaged ==
  \A q \in Redeemers : redeeming'[q].at \in {"verified", "locked"} =>
    /\ redeeming'[q].invite \in Invites /\ redeeming'[q].guest \in Guests
    /\ invite[redeeming'[q].invite].state # "unissued"
    /\ invite[redeeming'[q].invite].to = redeeming'[q].guest

LEMMA NarrowingSteps ==
  ASSUME InvitationIInv, invite' \in [Invites -> InvitationRow], OthersTyped', StillEngaged,
         admitted' = admitted,
         \A i \in Invites : Narrows(invite[i], invite'[i]),
         \A i \in withdrawn' : i \in withdrawn \/ (Unspent(i) /\ invite'[i].state = "deleted")
  PROVE  InvitationIInv'
<1>1. InvitationTypeOK'
  BY TypesApartNext
<1>2. ASSUME NEW i \in Invites PROVE Honest(i)'
  <2>1. Honest(i) /\ invite[i] \in InvitationRow
    BY RowByRow, TypesApart DEF InvitationIInv, OthersTyped
  <2> QED BY <2>1, NarrowingKeeps
<1>3. Issued' /\ InvitationSpentOnce'
  BY <1>2, RowByRowNext
<1>4. Engaged'
  <2>1. \A i \in Invites : /\ invite'[i].to = invite[i].to
                           /\ invite[i].state # "unissued" => invite'[i].state # "unissued"
    BY DEF Narrows
  <2> QED BY <2>1 DEF Engaged, StillEngaged
<1> QED BY <1>1, <1>3, <1>4 DEF InvitationIInv

LEMMA InvitationStart == InvitationInit => InvitationIInv
<1> SUFFICES ASSUME InvitationInit PROVE InvitationIInv
  OBVIOUS
<1> USE DEF InvitationInit
<1>1. InvitationTypeOK
  BY DEF InvitationTypeOK, InviteState, Redemption
<1>2. Engaged
  BY DEF Engaged
<1>3. Issued
  BY DEF Issued, Stored
<1>4. InvitationSpentOnce
  BY DEF InvitationSpentOnce, Stored
<1> QED BY <1>1, <1>2, <1>3, <1>4 DEF InvitationIInv

----------------------------------------------------------------------------
(* An owner's operations, time and the accounts.                           *)

LEMMA IssueStep ==
  ASSUME InvitationIInv, NEW i \in Invites, NEW h \in Houses, NEW g \in Guests, IssueInvitation(i, h, g)
  PROVE  InvitationIInv'
<1> DEFINE issued == [state |-> "stored", house |-> h, to |-> g, verifier |-> TRUE, expired |-> FALSE, redeemed |-> FALSE]
<1>1. invite \in [Invites -> InvitationRow] /\ OthersTyped
  BY TypesApart DEF InvitationIInv
<1>2. /\ invite' = [invite EXCEPT ![i] = issued] /\ invite[i].state = "unissued"
      /\ UNCHANGED <<enrolled, able, signedIn, redeeming, admitted, withdrawn>>
  BY DEF IssueInvitation
<1>3. issued \in InvitationRow
  BY DEF InvitationRow, InviteState
<1>4. issued.state = "stored" /\ issued.house \in Houses /\ issued.verifier /\ ~issued.redeemed
  OBVIOUS
<1>5. InvitationTypeOK'
  <2>1. invite' \in [Invites -> InvitationRow] /\ OthersTyped'
    BY <1>1, <1>2, <1>3 DEF OthersTyped
  <2> QED BY <2>1, TypesApartNext
<1>6. Engaged'
  <2>1. \A j \in Invites : j # i => invite'[j] = invite[j]
    BY <1>1, <1>2
  <2>2. \A q \in Redeemers : redeeming[q].at \in {"verified", "locked"} => redeeming[q].invite # i
    BY <1>2 DEF Engaged, InvitationIInv
  <2> QED BY <1>2, <2>1, <2>2 DEF Engaged, InvitationIInv
<1>7. ASSUME NEW j \in Invites PROVE Honest(j)'
  <2>1. Honest(j) /\ Honest(i)
    BY <1>1, RowByRow DEF InvitationIInv, OthersTyped
  <2>2. CASE j = i
    <3>1. invite'[j] = issued
      BY <1>1, <1>2, <2>2
    <3>2. admitted[j] = <<>> /\ j \notin withdrawn
      BY <1>2, <2>1, <2>2 DEF Honest
    <3> QED BY <1>2, <1>4, <3>1, <3>2 DEF Honest, Stored
  <2>3. CASE j # i
    <3>1. invite'[j] = invite[j]
      BY <1>1, <1>2, <2>3
    <3> QED BY <1>2, <2>1, <3>1 DEF Honest, Stored
  <2> QED BY <2>2, <2>3
<1>8. Issued' /\ InvitationSpentOnce'
  BY <1>7, RowByRowNext
<1> QED BY <1>5, <1>6, <1>8 DEF InvitationIInv

\* Reading one expired invitation, or the invitations of a house, narrows them.
LEMMA ReadingNarrows ==
  ASSUME NEW i \in Invites, NEW j \in Invites, invite \in [Invites -> InvitationRow],
         NEW expired \in ExpiredAtStart(i)
  PROVE  Narrows(invite[j], ReadDestroyingExpired(i, expired)[j])
<1>1. ReadDestroyingExpired(i, expired)[j] =
        IF j = i THEN [invite[j] EXCEPT !.verifier = invite[j].verifier /\ ~expired] ELSE invite[j]
  BY DEF ReadDestroyingExpired
<1>2. invite[j] \in InvitationRow /\ invite[j].verifier \in BOOLEAN
  BY DEF InvitationRow
<1>3. CASE expired = FALSE
  <2>1. (invite[j].verifier /\ ~expired) = invite[j].verifier
    BY <1>2, <1>3
  <2>2. ReadDestroyingExpired(i, expired)[j] = invite[j]
    BY <1>1, <1>2, <2>1 DEF InvitationRow
  <2> QED BY <1>2, <2>2, RowNarrows
<1>4. CASE expired = invite[i].expired
  BY <1>1, <1>2, <1>4, RowNarrows
<1> QED BY <1>3, <1>4 DEF ExpiredAtStart

LEMMA DeletingNarrows ==
  ASSUME NEW invites, NEW j \in Invites, invite \in [Invites -> InvitationRow]
  PROVE  /\ Narrows(invite[j], Deleted(invites)[j])
         /\ j \in invites => Deleted(invites)[j].state = "deleted"
<1>1. Deleted(invites)[j] = IF j \in invites THEN [invite[j] EXCEPT !.state = "deleted"] ELSE invite[j]
  BY DEF Deleted
<1>2. invite[j] \in InvitationRow
  OBVIOUS
<1> QED BY <1>1, <1>2, RowNarrows

LEMMA OwnerSteps ==
  ASSUME InvitationIInv, NEW h \in Houses,
         \/ ListInvitations(h)
         \/ \E i \in Invites : DeleteOpenInvitation(h, i)
         \/ \E g \in Guests, offers \in SUBSET Invites : RevokeMembership(h, g, offers)
  PROVE  InvitationIInv'
<1>1. invite \in [Invites -> InvitationRow] /\ OthersTyped /\ Engaged
  BY TypesApart DEF InvitationIInv
<1>2. CASE ListInvitations(h)
  <2>1. /\ invite' = [i \in Invites |-> IF Stored(i) /\ invite[i].house = h
                                          THEN ReadDestroyingExpired(i, invite[i].expired)[i] ELSE invite[i]]
        /\ UNCHANGED <<enrolled, able, signedIn, redeeming, admitted, withdrawn>>
    BY <1>2 DEF ListInvitations
  <2>2. \A j \in Invites : Narrows(invite[j], invite'[j])
    BY <1>1, <2>1, ReadingNarrows, RowNarrows DEF ExpiredAtStart
  <2>3. invite' \in [Invites -> InvitationRow]
    BY <2>1, <2>2 DEF Narrows
  <2>4. OthersTyped' /\ StillEngaged
    BY <1>1, <2>1 DEF OthersTyped, Engaged, StillEngaged
  <2> QED BY <2>1, <2>2, <2>3, <2>4, NarrowingSteps
<1>3. ASSUME NEW i \in Invites, DeleteOpenInvitation(h, i) PROVE InvitationIInv'
  <2>1. /\ invite' = Deleted({i}) /\ Unspent(i) /\ withdrawn' = withdrawn \cup {i}
        /\ UNCHANGED <<enrolled, able, signedIn, redeeming, admitted>>
    BY <1>3 DEF DeleteOpenInvitation
  <2>2. \A j \in Invites : Narrows(invite[j], invite'[j]) /\ (j = i => invite'[j].state = "deleted")
    BY <1>1, <2>1, DeletingNarrows
  <2>3. invite' \in [Invites -> InvitationRow]
    BY <2>1, <2>2 DEF Narrows, Deleted
  <2>4. OthersTyped' /\ StillEngaged
    BY <1>1, <2>1 DEF OthersTyped, Engaged, StillEngaged
  <2> QED BY <2>1, <2>2, <2>3, <2>4, NarrowingSteps
<1>4. ASSUME NEW g \in Guests, NEW offers \in SUBSET Invites, RevokeMembership(h, g, offers)
      PROVE  InvitationIInv'
  <2>1. /\ invite' = Deleted(offers) /\ withdrawn' = withdrawn \cup offers
        /\ enrolled' = enrolled \ {<<h, g>>}
        /\ UNCHANGED <<able, signedIn, redeeming, admitted>>
    BY <1>4 DEF RevokeMembership
  <2>2. \A i \in offers : i \in Invites /\ Unspent(i)
    BY <1>4 DEF RevokeMembership
  <2>3. \A j \in Invites : Narrows(invite[j], invite'[j]) /\ (j \in offers => invite'[j].state = "deleted")
    BY <1>1, <2>1, DeletingNarrows
  <2>4. invite' \in [Invites -> InvitationRow]
    BY <2>1, <2>3 DEF Narrows, Deleted
  <2>5. OthersTyped' /\ StillEngaged
    BY <1>1, <2>1, <2>2 DEF OthersTyped, Engaged, StillEngaged
  <2> QED BY <2>1, <2>2, <2>3, <2>4, <2>5, NarrowingSteps
<1> QED BY <1>2, <1>3, <1>4

LEMMA TimeSteps ==
  ASSUME InvitationIInv, NEW i \in Invites, ExpireInvitation(i) \/ PurgeSpentInvitation(i)
  PROVE  InvitationIInv'
<1>1. invite \in [Invites -> InvitationRow] /\ OthersTyped /\ Engaged
  BY TypesApart DEF InvitationIInv
<1>2. UNCHANGED <<enrolled, able, signedIn, redeeming, admitted, withdrawn>>
  BY DEF ExpireInvitation, PurgeSpentInvitation
<1>3. CASE ExpireInvitation(i)
  <2>1. \A j \in Invites : invite'[j] = IF j = i THEN [invite[j] EXCEPT !.expired = TRUE] ELSE invite[j]
    BY <1>1, <1>3 DEF ExpireInvitation
  <2>2. \A j \in Invites : Narrows(invite[j], invite'[j])
    BY <1>1, <2>1, RowNarrows
  <2>3. invite' \in [Invites -> InvitationRow]
    BY <1>1, <1>3, <2>2 DEF Narrows, ExpireInvitation
  <2> QED BY <1>1, <1>2, <2>2, <2>3, NarrowingSteps DEF OthersTyped, Engaged, StillEngaged
<1>4. CASE PurgeSpentInvitation(i)
  <2>1. invite' = Deleted({i})
    BY <1>4 DEF PurgeSpentInvitation
  <2>2. \A j \in Invites : Narrows(invite[j], invite'[j])
    BY <1>1, <2>1, DeletingNarrows
  <2>3. invite' \in [Invites -> InvitationRow]
    BY <2>1, <2>2 DEF Narrows, Deleted
  <2> QED BY <1>1, <1>2, <2>2, <2>3, NarrowingSteps DEF OthersTyped, Engaged, StillEngaged
<1> QED BY <1>3, <1>4

LEMMA AccountSteps ==
  ASSUME InvitationIInv, NEW g \in Guests, ChangeAccount(g)
  PROVE  InvitationIInv'
<1>1. invite \in [Invites -> InvitationRow] /\ OthersTyped /\ Engaged
  BY TypesApart DEF InvitationIInv
<1>2. UNCHANGED <<invite, enrolled, redeeming, admitted, withdrawn>>
  BY DEF ChangeAccount
<1>3. able' \subseteq Guests /\ signedIn' \subseteq Guests
  BY <1>1 DEF ChangeAccount, OthersTyped
<1>4. \A i \in Invites : Narrows(invite[i], invite'[i])
  BY <1>1, <1>2, RowNarrows
<1> QED BY <1>1, <1>2, <1>3, <1>4, NarrowingSteps DEF OthersTyped, Engaged, StillEngaged

----------------------------------------------------------------------------
(* Redemption.                                                             *)

\* A redemption that ends leaves the others as they were.
LEMMA EndingStep ==
  ASSUME NEW q \in Redeemers, OthersTyped, Engaged, EndRedemption(q)
  PROVE  /\ redeeming' \in [Redeemers -> [at : Redemption, invite : Invites \cup {Unnamed}, guest : Guests \cup {Unnamed}]]
         /\ StillEngaged
<1>1. redeeming' = [redeeming EXCEPT ![q].at = "done"]
  BY DEF EndRedemption
<1>2. redeeming' \in [Redeemers -> [at : Redemption, invite : Invites \cup {Unnamed}, guest : Guests \cup {Unnamed}]]
  BY <1>1 DEF OthersTyped, Redemption
<1>3. ASSUME NEW p \in Redeemers, redeeming'[p].at \in {"verified", "locked"}
      PROVE  redeeming'[p] = redeeming[p]
  BY <1>1, <1>3 DEF OthersTyped
<1>4. StillEngaged
  BY <1>3 DEF Engaged, StillEngaged
<1> QED BY <1>2, <1>4

LEMMA RedeemerReads ==
  ASSUME InvitationIInv, NEW q \in Redeemers,
         \/ \E i \in Invites, g \in Guests : FindForRedemption(q, i, g)
         \/ LockAccount(q) \/ RollBack(q)
  PROVE  InvitationIInv'
<1>1. invite \in [Invites -> InvitationRow] /\ OthersTyped /\ Engaged
  BY TypesApart DEF InvitationIInv
<1>2. ASSUME NEW i \in Invites, NEW g \in Guests, FindForRedemption(q, i, g) PROVE InvitationIInv'
  <2>1. PICK expired \in ExpiredAtStart(i) :
          /\ invite' = ReadDestroyingExpired(i, expired)
          /\ redeeming' = [redeeming EXCEPT ![q] =
               [at |-> IF invite[i].verifier /\ ~expired /\ invite[i].to = g /\ Unspent(i)
                         THEN "verified" ELSE "done", invite |-> i, guest |-> g]]
    BY <1>2 DEF FindForRedemption
  <2>2. UNCHANGED <<enrolled, able, signedIn, admitted, withdrawn>>
    BY <1>2 DEF FindForRedemption
  <2>3. \A j \in Invites : Narrows(invite[j], invite'[j])
    BY <1>1, <2>1, ReadingNarrows
  <2>4. invite' \in [Invites -> InvitationRow]
    BY <1>1, <2>1, <2>3 DEF Narrows, ReadDestroyingExpired
  <2>5. PICK at \in Redemption :
          /\ redeeming' = [redeeming EXCEPT ![q] = [at |-> at, invite |-> i, guest |-> g]]
          /\ at = "verified" => invite[i].to = g /\ invite[i].state = "stored"
          /\ at # "locked"
    BY <2>1 DEF Redemption, Unspent, Stored
  <2>6. OthersTyped'
    BY <1>1, <2>2, <2>5 DEF OthersTyped
  <2>7. StillEngaged
    BY <1>1, <2>5 DEF Engaged, StillEngaged, OthersTyped
  <2> QED BY <2>2, <2>1, <2>3, <2>4, <2>6, <2>7, NarrowingSteps
<1>3. CASE LockAccount(q) \/ RollBack(q)
  <2>1. UNCHANGED <<invite, enrolled, able, signedIn, admitted, withdrawn>>
    BY <1>3 DEF LockAccount, RollBack
  <2>2. \A i \in Invites : Narrows(invite[i], invite'[i])
    BY <1>1, <2>1, RowNarrows
  <2>3. \/ EndRedemption(q)
        \/ redeeming[q].at = "verified" /\ redeeming' = [redeeming EXCEPT ![q].at = "locked"]
    BY <1>3 DEF LockAccount, RollBack
  <2>4. redeeming' \in [Redeemers -> [at : Redemption, invite : Invites \cup {Unnamed}, guest : Guests \cup {Unnamed}]]
        /\ StillEngaged
    <3>1. CASE EndRedemption(q)
      BY <1>1, <3>1, EndingStep
    <3>2. CASE redeeming[q].at = "verified" /\ redeeming' = [redeeming EXCEPT ![q].at = "locked"]
      BY <1>1, <3>2 DEF OthersTyped, Engaged, StillEngaged, Redemption
    <3> QED BY <2>3, <3>1, <3>2
  <2> QED BY <1>1, <2>1, <2>2, <2>4, NarrowingSteps DEF OthersTyped
<1> QED BY <1>2, <1>3

\* The consuming UPDATE finds an unredeemed row, which has made no membership.
LEMMA RedeemStep ==
  ASSUME InvitationIInv, NEW q \in Redeemers, RedeemIntoMembership(q)
  PROVE  InvitationIInv'
<1> DEFINE i == redeeming[q].invite
           row == <<invite[i].house, redeeming[q].guest>>
           consumed == [invite[i] EXCEPT !.redeemed = TRUE, !.verifier = FALSE]
<1>1. invite \in [Invites -> InvitationRow] /\ OthersTyped /\ Engaged /\ InvitationTypeOK
  BY TypesApart DEF InvitationIInv
<1>2. redeeming[q].at = "locked" /\ EndRedemption(q) /\ UNCHANGED <<able, signedIn, withdrawn>>
  BY DEF RedeemIntoMembership
<1>3. i \in Invites /\ redeeming[q].guest \in Guests
  BY <1>1, <1>2 DEF Engaged
<1>4. /\ redeeming' \in [Redeemers -> [at : Redemption, invite : Invites \cup {Unnamed}, guest : Guests \cup {Unnamed}]]
      /\ StillEngaged
  BY <1>1, <1>2, EndingStep
<1>5. CASE UNCHANGED <<invite, enrolled, admitted>>
  <2>1. \A j \in Invites : Narrows(invite[j], invite'[j])
    BY <1>1, <1>5, RowNarrows
  <2> QED BY <1>1, <1>2, <1>4, <1>5, <2>1, NarrowingSteps DEF OthersTyped
<1>6. CASE /\ Unspent(i)
           /\ invite' = [invite EXCEPT ![i] = consumed]
           /\ enrolled' = enrolled \cup {row}
           /\ admitted' = [admitted EXCEPT ![i] = Append(@, row)]
  <2>1. invite[i] \in InvitationRow /\ Honest(i)
    BY <1>1, <1>3, RowByRow DEF OthersTyped, InvitationIInv
  <2>2. /\ consumed \in InvitationRow /\ consumed.state = "stored" /\ consumed.house = invite[i].house
        /\ consumed.to = invite[i].to
        /\ consumed.redeemed /\ ~consumed.verifier
    <3> DEFINE r == invite[i]
    <3>1. r \in InvitationRow /\ r.state = "stored"
      BY <1>6, <2>1 DEF Unspent, Stored
    <3> HIDE DEF r
    <3>2. /\ [r EXCEPT !.redeemed = TRUE, !.verifier = FALSE] \in InvitationRow
          /\ [r EXCEPT !.redeemed = TRUE, !.verifier = FALSE].state = "stored"
          /\ [r EXCEPT !.redeemed = TRUE, !.verifier = FALSE].house = r.house
          /\ [r EXCEPT !.redeemed = TRUE, !.verifier = FALSE].to = r.to
          /\ [r EXCEPT !.redeemed = TRUE, !.verifier = FALSE].redeemed
          /\ ~[r EXCEPT !.redeemed = TRUE, !.verifier = FALSE].verifier
      BY <3>1 DEF InvitationRow
    <3> QED BY <3>2 DEF r
  <2>3. admitted[i] = <<>> /\ i \notin withdrawn /\ invite[i].house \in Houses
    <3>1. invite[i].state = "stored" /\ ~invite[i].redeemed
      BY <1>6 DEF Unspent, Stored
    <3> QED BY <2>1, <3>1 DEF Honest, Stored
  <2> HIDE DEF consumed
  <2>r. row = <<invite[i].house, invite[i].to>> /\ row \in Houses \X Guests
    BY <1>1, <1>2, <1>3, <2>3 DEF Engaged
  <2>a. /\ admitted' = [admitted EXCEPT ![i] = <<row>>]
        /\ <<row>> \in Seq(Houses \X Guests)
    BY <1>6, <2>3, <2>r
  <2> HIDE DEF row
  <2>4. OthersTyped' /\ invite' \in [Invites -> InvitationRow]
    BY <1>1, <1>2, <1>3, <1>4, <1>6, <2>2, <2>r, <2>a DEF OthersTyped
  <2>e. Engaged'
    <3>1. \A j \in Invites : /\ invite'[j].to = invite[j].to
                             /\ invite[j].state # "unissued" => invite'[j].state # "unissued"
      BY <1>1, <1>3, <1>6, <2>2
    <3> QED BY <1>4, <3>1 DEF Engaged, StillEngaged
  <2>5. ASSUME NEW j \in Invites PROVE Honest(j)'
    <3>1. CASE j = i
      <4>1. invite'[j] = consumed /\ admitted'[j] = <<row>> /\ j \notin withdrawn'
        BY <1>1, <1>2, <1>3, <1>6, <2>a, <2>3, <3>1 DEF OthersTyped
      <4>2. admitted'[j] = <<<<invite'[j].house, invite'[j].to>>>> /\ admitted'[j] # <<>>
        BY <2>2, <2>r, <4>1
      <4> QED BY <2>2, <2>3, <4>1, <4>2 DEF Honest, Stored
    <3>2. CASE j # i
      <4>1. invite'[j] = invite[j] /\ admitted'[j] = admitted[j] /\ Honest(j)
        BY <1>1, <1>3, <1>6, <2>a, <3>2, RowByRow DEF OthersTyped, InvitationIInv
      <4> QED BY <1>2, <4>1 DEF Honest, Stored
    <3> QED BY <3>1, <3>2
  <2> QED BY <2>4, <2>5, <2>e, TypesApartNext, RowByRowNext DEF InvitationIInv
<1> QED BY <1>5, <1>6 DEF RedeemIntoMembership, Consume

----------------------------------------------------------------------------

LEMMA InvitationSteps == InvitationIInv /\ [InvitationNext]_ivars => InvitationIInv'
<1> SUFFICES ASSUME InvitationIInv, [InvitationNext]_ivars PROVE InvitationIInv'
  OBVIOUS
<1>1. CASE UNCHANGED ivars
  <2>1. invite \in [Invites -> InvitationRow] /\ OthersTyped /\ Engaged
    BY TypesApart DEF InvitationIInv
  <2>2. \A i \in Invites : Narrows(invite[i], invite'[i])
    BY <1>1, <2>1, RowNarrows DEF ivars
  <2> QED BY <1>1, <2>1, <2>2, NarrowingSteps DEF ivars, OthersTyped, Engaged, StillEngaged
<1>2. ASSUME NEW i \in Invites, NEW h \in Houses, NEW g \in Guests, IssueInvitation(i, h, g)
      PROVE  InvitationIInv'
  BY <1>2, IssueStep
<1>3. ASSUME NEW h \in Houses,
             \/ ListInvitations(h)
             \/ \E i \in Invites : DeleteOpenInvitation(h, i)
             \/ \E g \in Guests, offers \in SUBSET Invites : RevokeMembership(h, g, offers)
      PROVE  InvitationIInv'
  BY <1>3, OwnerSteps
<1>4. ASSUME NEW q \in Redeemers,
             \/ \E i \in Invites, g \in Guests : FindForRedemption(q, i, g)
             \/ LockAccount(q) \/ RollBack(q)
      PROVE  InvitationIInv'
  BY <1>4, RedeemerReads
<1>5. ASSUME NEW q \in Redeemers, RedeemIntoMembership(q) PROVE InvitationIInv'
  BY <1>5, RedeemStep
<1>6. ASSUME NEW i \in Invites, ExpireInvitation(i) \/ PurgeSpentInvitation(i) PROVE InvitationIInv'
  BY <1>6, TimeSteps
<1>7. ASSUME NEW g \in Guests, ChangeAccount(g) PROVE InvitationIInv'
  BY <1>7, AccountSteps
<1> QED BY <1>1, <1>2, <1>3, <1>4, <1>5, <1>6, <1>7 DEF InvitationNext

LEMMA InvitationInvariant == InvitationSpec => []InvitationIInv
<1> QED BY InvitationStart, InvitationSteps, PTL DEF InvitationSpec

\* Rows, requests and counts keep their types.
THEOREM InvitationTypes == InvitationSpec => []InvitationTypeOK
<1>1. InvitationIInv => InvitationTypeOK
  BY DEF InvitationIInv
<1> QED BY <1>1, InvitationInvariant, PTL

\* However many requests redeem it at once, and whatever else closes it meanwhile,
\* an invitation makes at most one membership, of the account it is addressed to in
\* the house it is from, and none once it is withdrawn; its row says whether it made
\* one, and holds no verifier then.
THEOREM SpentOnce == InvitationSpec => []InvitationSpentOnce
<1>1. InvitationIInv => InvitationSpentOnce
  BY DEF InvitationIInv
<1> QED BY <1>1, InvitationInvariant, PTL

-----------------------------------------------------------------------------
(* The beta invitation and the journey it opens: RetailJourney.            *)

JourneyRow == [consented : BOOLEAN, lapsed : BOOLEAN, requested : BOOLEAN, deleted : BOOLEAN]
ProfileRow == [question : Questions \cup {NoQuestion}, release : Releases \cup {NoQuestion}, upload : Nat]

Types ==
  /\ sessionRow \in JourneyRow
  /\ upload \in Nat /\ uploads \in Nat
  /\ profile \in ProfileRow
  /\ packages \subseteq Releases
  /\ call \in [Callers -> Call]

\* A profile has both its question and its release, or there is none; a call
\* that asks of the profile names a question.
WholeProfile ==
  /\ profile = NoProfile \/ (profile.question \in Questions /\ profile.release \in Releases)
  /\ \A q \in Callers :
       /\ call[q].doing = "profile" => call[q].question \in Questions /\ call[q].release \in Releases
       /\ call[q].doing = "facts" => call[q].release \in Releases

\* The invitation opened one session exactly when it reads redeemed.
RedeemedOnce == opened \in {0, 1} /\ (opened = 1 <=> token = "redeemed")

DeletedWasRequested == sessionRow.deleted => sessionRow.requested

\* The profile names the upload there is, or none; an upload that went took its
\* name out of the profile, so the next one cannot be mistaken for it.
UploadNamed == profile.upload \in {0, upload}

\* What a call may carry of the profile while the content is there.
Agrees(c) ==
  /\ c.doing \in {"profile", "facts"} /\ c.where = "answered" =>
       profile # NoProfile /\ c.question = profile.question
  /\ c.doing = "facts" /\ c.where \in {"built", "answered"} =>
       /\ profile # NoProfile
       /\ c.question = profile.question /\ c.release = profile.release

\* What calls carry and packages there are, while the content is there.
Agreement ==
  ~sessionRow.deleted =>
    /\ \A q \in Callers : Agrees(call[q])
    /\ packages \subseteq {profile.release}

\* The inductive invariant.
JourneyIInv ==
  Types /\ WholeProfile /\ RedeemedOnce /\ DeletedWasRequested /\ UploadNamed /\ Agreement

LEMMA InvariantImpliesOneReading == JourneyIInv => OneReading
  BY DEF JourneyIInv, OneReading, RedeemedOnce, Agreement, Agrees, UploadNamed, HasProfile, Types

LEMMA JourneyBegins == JourneyInit => JourneyIInv
  BY JourneyAssumption DEF JourneyInit, JourneyIInv, Types, JourneyRow, ProfileRow, Call, Doing, Where, WholeProfile,
     RedeemedOnce, DeletedWasRequested, UploadNamed, Agreement, Agrees, NoProfile, NoCall

-----------------------------------------------------------------------------
(* What a caller's step does to its call.                                  *)

\* One call changes; the others stay.
LEMMA OneCall ==
  ASSUME call \in [Callers -> Call], NEW q \in Callers, NEW c \in Call,
         call' = [call EXCEPT ![q] = c]
  PROVE  /\ call' \in [Callers -> Call]
         /\ call'[q] = c
         /\ \A r \in Callers : r # q => call'[r] = call[r]
  OBVIOUS

\* A call with a new place keeps what it carries.
LEMMA CallMoves ==
  ASSUME NEW c \in Call, NEW w \in Where
  PROVE  LET d == [c EXCEPT !.where = w] IN
         /\ d \in Call /\ d.where = w /\ d.doing = c.doing
         /\ d.question = c.question /\ d.release = c.release /\ d.upload = c.upload
  BY DEF Call

LEMMA EndedCall == NoCall \in Call /\ NoCall.doing = "nothing"
  BY DEF NoCall, Call, Doing, Where

\* What a step may leave a caller with: a call that is typed and whole and agrees
\* with the profile unless the content is deleted.
Proper(c) ==
  /\ c \in Call
  /\ c.doing = "profile" => c.question \in Questions /\ c.release \in Releases
  /\ c.doing = "facts" => c.release \in Releases
  /\ ~sessionRow.deleted => Agrees(c)

LEMMA EndedIsProper == Proper(NoCall)
  BY EndedCall DEF Proper, Agrees, NoCall

\* A step that changes one call to a proper one and no row keeps the calls.
LEMMA CallerSteps ==
  ASSUME JourneyIInv, NEW q \in Callers, NEW c, Proper(c),
         call' = [call EXCEPT ![q] = c],
         UNCHANGED <<sessionRow, profile>>
  PROVE  /\ call' \in [Callers -> Call]
         /\ WholeProfile'
         /\ ~sessionRow'.deleted => \A r \in Callers : Agrees(call[r])'
<1>1. call \in [Callers -> Call] /\ c \in Call
  BY DEF JourneyIInv, Types, Proper
<1>2. /\ call' \in [Callers -> Call]
      /\ call'[q] = c
      /\ \A r \in Callers : r # q => call'[r] = call[r]
  BY <1>1, OneCall
<1>3. WholeProfile'
  BY <1>2 DEF JourneyIInv, WholeProfile, Proper
<1>4. ASSUME ~sessionRow'.deleted, NEW r \in Callers
      PROVE  Agrees(call[r])'
  <2>1. Agrees(call'[r])
    BY <1>2, <1>4 DEF JourneyIInv, Agreement, Proper
  <2> QED BY <2>1 DEF Agrees
<1> QED BY <1>2, <1>3, <1>4

-----------------------------------------------------------------------------
(* The steps.                                                              *)

LEMMA NewCallIsProper ==
  ASSUME NEW q \in Callers, NEW d \in Doing, NEW x \in Questions \cup {NoQuestion},
         NEW r \in Releases \cup {NoQuestion},
         d = "profile" => x \in Questions /\ r \in Releases, d = "facts" => r \in Releases,
         Start(q, d, x, r)
  PROVE  \E c : Proper(c) /\ call' = [call EXCEPT ![q] = c]
<1> DEFINE c == [doing |-> d, where |-> "admitted", question |-> x, release |-> r, upload |-> 0]
<1>1. Proper(c)
  BY DEF Proper, Agrees, Call, Where
<1> QED BY <1>1 DEF Start

\* Steps of a caller that write no row.
LEMMA CallerReads ==
  ASSUME JourneyIInv, NEW q \in Callers,
         \/ PresentToken(q) \/ AskConsent(q) \/ BeginUpload(q) \/ AskProfile(q)
         \/ FindUpload(q) \/ FindProfile(q) \/ AskFacts(q) \/ FindPackage(q) \/ CallFails(q)
  PROVE  \E c : Proper(c) /\ call' = [call EXCEPT ![q] = c]
<1> USE JourneyAssumption
<1>t. call[q] \in Call /\ upload \in Nat /\ profile \in ProfileRow /\ packages \subseteq Releases
  BY DEF JourneyIInv, Types
<1>p. call[q] \in Call /\ Proper(call[q])
  BY <1>t DEF JourneyIInv, WholeProfile, Agreement, Proper
<1>e. Return(q) => \E c : Proper(c) /\ call' = [call EXCEPT ![q] = c]
  BY EndedIsProper DEF Return
<1>1. CASE PresentToken(q)
  <2>1. Start(q, "redeem", NoQuestion, NoQuestion)
    BY <1>1 DEF PresentToken
  <2> QED BY <2>1, NewCallIsProper DEF Doing
<1>2. CASE AskConsent(q)
  <2>1. Start(q, "consent", NoQuestion, NoQuestion)
    BY <1>2 DEF AskConsent
  <2> QED BY <2>1, NewCallIsProper DEF Doing
<1>3. CASE BeginUpload(q)
  <2>1. Start(q, "upload", NoQuestion, NoQuestion)
    BY <1>3 DEF BeginUpload
  <2> QED BY <2>1, NewCallIsProper DEF Doing
<1>4. CASE AskProfile(q)
  <2>1. PICK x \in Questions, r \in Releases : Start(q, "profile", x, r)
    BY <1>4 DEF AskProfile
  <2> QED BY <2>1, NewCallIsProper DEF Doing
<1>5. CASE AskFacts(q)
  <2>1. PICK r \in Releases : Start(q, "facts", NoQuestion, r)
    BY <1>5 DEF AskFacts
  <2> QED BY <2>1, NewCallIsProper DEF Doing
<1>6. CASE FindUpload(q)
  <2>1. CASE upload = 0
    BY <1>e, <1>6, <2>1 DEF FindUpload
  <2>2. CASE upload # 0
    <3> DEFINE c == [call[q] EXCEPT !.where = "found", !.upload = upload]
    <3>1. call' = [call EXCEPT ![q] = c]
      BY <1>6, <2>2, <1>t DEF FindUpload, JourneyIInv, Types, Call
    <3>2. Proper(c)
      BY <1>p, <1>t, <1>6 DEF Proper, Agrees, Call, Where, FindUpload, Calls
    <3> QED BY <3>1, <3>2
  <2> QED BY <2>1, <2>2
<1>m. ASSUME NEW w \in Where, Proceed(q, w), Proper([call[q] EXCEPT !.where = w])
      PROVE  \E c : Proper(c) /\ call' = [call EXCEPT ![q] = c]
  <2>1. call' = [call EXCEPT ![q] = [call[q] EXCEPT !.where = w]]
    BY <1>m, <1>t DEF Proceed, JourneyIInv, Types, Call
  <2> QED BY <2>1, <1>m
<1>7. CASE FindProfile(q)
  <2>1. call[q].doing = "profile" /\ call[q].where = "found"
    BY <1>7 DEF FindProfile, Calls
  <2>2. Proper([call[q] EXCEPT !.where = "built"])
    BY <1>p, <2>1 DEF Proper, Agrees, Call, Where
  <2>3. CASE ~ProfileOf(call[q].upload)
    <3>1. Proceed(q, "built")
      BY <1>7, <2>3 DEF FindProfile
    <3> QED BY <3>1, <2>2, <1>m DEF Where
  <2>4. CASE ProfileOf(call[q].upload)
    <3>1. Answering(q)
      BY <1>7, <2>4 DEF FindProfile
    <3>2. CASE profile.question = call[q].question
      <4>1. Proper([call[q] EXCEPT !.where = "answered"])
        BY <1>p, <2>1, <2>4, <3>2 DEF Proper, Agrees, Call, Where, ProfileOf, HasProfile
      <4>2. Proceed(q, "answered")
        BY <3>1, <3>2 DEF Answering
      <4> QED BY <4>1, <4>2, <1>m DEF Where
    <3>3. CASE profile.question # call[q].question
      BY <3>1, <3>3, <1>e DEF Answering
    <3> QED BY <3>2, <3>3
  <2> QED BY <2>3, <2>4
<1>8. CASE FindPackage(q)
  <2> DEFINE mine == call[q].release
  <2>1. call[q].doing = "facts" /\ mine \in Releases
    BY <1>8, <1>p DEF FindPackage, Calls, Proper
  <2>2. CASE profile.release # mine \/ (mine \notin packages /\ upload = 0)
    BY <1>8, <2>2, <1>e DEF FindPackage
  <2>3. CASE ~(profile.release # mine \/ (mine \notin packages /\ upload = 0))
    <3> DEFINE w == IF mine \in packages THEN "answered" ELSE "built"
               c == [call[q] EXCEPT !.question = profile.question, !.where = w]
    <3>1. call' = [call EXCEPT ![q] = c]
      BY <1>8, <2>3, <1>t DEF FindPackage, JourneyIInv, Types, Call
    <3>2. profile # NoProfile
      BY <2>1, <2>3 DEF NoProfile
    <3>3. /\ c \in Call /\ c.doing = "facts" /\ c.release = mine
          /\ c.question = profile.question
      BY <1>t, <2>1 DEF Call, Where, ProfileRow
    <3>4. Proper(c)
      BY <2>1, <2>3, <3>2, <3>3 DEF Proper, Agrees
    <3> QED BY <3>1, <3>4
  <2> QED BY <2>2, <2>3
<1>9. CASE CallFails(q)
  BY <1>9, <1>e DEF CallFails
<1> QED BY <1>1, <1>2, <1>3, <1>4, <1>5, <1>6, <1>7, <1>8, <1>9

LEMMA ReadingPreserves ==
  ASSUME JourneyIInv, NEW q \in Callers,
         \/ PresentToken(q) \/ AskConsent(q) \/ BeginUpload(q) \/ AskProfile(q)
         \/ FindUpload(q) \/ FindProfile(q) \/ AskFacts(q) \/ FindPackage(q) \/ CallFails(q)
  PROVE  JourneyIInv'
<1>1. UNCHANGED <<token, opened, sessionRow, upload, uploads, profile, packages>>
  BY DEF PresentToken, AskConsent, BeginUpload, AskProfile, FindUpload, FindProfile, AskFacts,
     FindPackage, CallFails, rowVars
<1>2. PICK c : Proper(c) /\ call' = [call EXCEPT ![q] = c]
  BY CallerReads
<1>3. /\ call' \in [Callers -> Call]
      /\ WholeProfile'
      /\ ~sessionRow'.deleted => \A r \in Callers : Agrees(call[r])'
  BY <1>1, <1>2, CallerSteps
<1> QED BY <1>1, <1>3 DEF JourneyIInv, Types, RedeemedOnce, DeletedWasRequested, UploadNamed,
     Agreement

\* The steps of a caller that write something else than the profile and end the
\* call: redemption, consent and the upload.
LEMMA WritingPreserves ==
  ASSUME JourneyIInv, NEW q \in Callers, RedeemInvitation(q) \/ SaveConsent(q) \/ AddUpload(q)
  PROVE  JourneyIInv'
<1>1. call' = [call EXCEPT ![q] = NoCall] /\ UNCHANGED <<profile, packages>>
  BY DEF RedeemInvitation, SaveConsent, AddUpload, Return, rowVars
<1>2. /\ sessionRow' \in JourneyRow
      /\ sessionRow'.deleted = sessionRow.deleted /\ sessionRow'.requested = sessionRow.requested
  BY DEF RedeemInvitation, SaveConsent, AddUpload, rowVars, JourneyIInv, Types, JourneyRow
<1>3. NoCall \in Call /\ \A r \in Callers : r # q => call'[r] = call[r]
  BY <1>1, EndedCall
<1>4. call' \in [Callers -> Call] /\ call'[q] = NoCall
  BY <1>1, <1>3, OneCall DEF JourneyIInv, Types
<1>5. WholeProfile'
  BY <1>1, <1>3, <1>4, EndedCall DEF JourneyIInv, WholeProfile
<1>6. Agreement'
  <2>1. ASSUME ~sessionRow.deleted, NEW r \in Callers
        PROVE  Agrees(call'[r])
    BY <1>3, <1>4, <2>1, EndedCall DEF JourneyIInv, Agreement, Agrees
  <2> QED BY <1>1, <1>2, <2>1 DEF JourneyIInv, Agreement, Agrees
<1>7. RedeemedOnce' /\ upload' \in Nat /\ uploads' \in Nat /\ UploadNamed'
  BY <1>1 DEF RedeemInvitation, SaveConsent, AddUpload, rowVars, JourneyIInv, Types, RedeemedOnce,
     UploadNamed, ProfileRow
<1> QED BY <1>1, <1>2, <1>4, <1>5, <1>6, <1>7 DEF JourneyIInv, Types, DeletedWasRequested

\* The insert of a profile: nobody was answered of another one.
LEMMA ProfilePreserves ==
  ASSUME JourneyIInv, NEW q \in Callers, AddProfileRow(q)
  PROVE  JourneyIInv'
<1> USE JourneyAssumption
<1>t. /\ call \in [Callers -> Call] /\ call[q] \in Call /\ upload \in Nat /\ profile \in ProfileRow
      /\ packages \subseteq Releases
  BY DEF JourneyIInv, Types
<1>u. UNCHANGED <<token, opened, sessionRow, upload, uploads, packages>>
  BY DEF AddProfileRow
<1>c. /\ call[q].doing = "profile" /\ call[q].where = "built"
      /\ call[q].question \in Questions /\ call[q].release \in Releases
  BY DEF AddProfileRow, Calls, JourneyIInv, WholeProfile
<1>m. \A w \in Where : Proceed(q, w) => call' = [call EXCEPT ![q] = [call[q] EXCEPT !.where = w]]
  BY <1>t DEF Proceed, Call
<1>1. CASE ~HasProfile /\ upload = call[q].upload
  <2> DEFINE d == [call[q] EXCEPT !.where = "answered"]
             p == [question |-> call[q].question, release |-> call[q].release, upload |-> upload]
  <2>1. profile' = p /\ call' = [call EXCEPT ![q] = d]
    BY <1>1, <1>m DEF AddProfileRow, Where
  <2>2. /\ d \in Call /\ d.doing = "profile" /\ d.where = "answered"
        /\ d.question = call[q].question /\ d.release = call[q].release
    BY <1>t, <1>c, CallMoves DEF Where
  <2>3. p \in ProfileRow /\ p # NoProfile
    BY <1>t, <1>c DEF ProfileRow, NoProfile
  <2>4. /\ call' \in [Callers -> Call] /\ call'[q] = d
        /\ \A r \in Callers : r # q => call'[r] = call[r]
    BY <1>t, <2>1, <2>2, OneCall
  <2>5. WholeProfile'
    BY <1>c, <2>1, <2>2, <2>4 DEF JourneyIInv, WholeProfile
  <2>6. Agreement'
    <3> SUFFICES ASSUME ~sessionRow.deleted
                 PROVE  (\A r \in Callers : Agrees(call[r]))' /\ packages \subseteq {profile'.release}
      BY <1>u DEF Agreement
    <3>1. profile = NoProfile /\ packages \subseteq {NoQuestion}
      BY <1>1 DEF HasProfile, JourneyIInv, Agreement, NoProfile
    <3>2. packages = {}
      BY <3>1, <1>t
    <3>3. ASSUME NEW r \in Callers
          PROVE  Agrees(call[r])'
      <4>1. CASE r = q
        BY <4>1, <2>1, <2>2, <2>3, <2>4 DEF Agrees
      <4>2. CASE r # q
        <5>1. /\ ~(call[r].doing \in {"profile", "facts"} /\ call[r].where = "answered")
              /\ ~(call[r].doing = "facts" /\ call[r].where \in {"built", "answered"})
          BY <3>1 DEF JourneyIInv, Agreement, Agrees
        <5>2. call'[r] = call[r]
          BY <4>2, <2>4
        <5> QED BY <5>1, <5>2 DEF Agrees
      <4> QED BY <4>1, <4>2
    <3> QED BY <3>2, <3>3
  <2>7. UploadNamed'
    BY <1>u, <2>1 DEF UploadNamed
  <2> QED BY <1>u, <2>1, <2>3, <2>4, <2>5, <2>6, <2>7 DEF JourneyIInv, Types, RedeemedOnce,
       DeletedWasRequested
<1>2. CASE ~(~HasProfile /\ upload = call[q].upload)
  <2>1. /\ profile' = profile
        /\ IF ProfileOf(call[q].upload) THEN Answering(q) ELSE Return(q)
    BY <1>2 DEF AddProfileRow
  <2>2. PICK c : Proper(c) /\ call' = [call EXCEPT ![q] = c]
    <3>1. CASE ProfileOf(call[q].upload) /\ profile.question = call[q].question
      <4> DEFINE d == [call[q] EXCEPT !.where = "answered"]
      <4>1. call' = [call EXCEPT ![q] = d]
        BY <2>1, <3>1, <1>m DEF Answering, Where
      <4>2. /\ d \in Call /\ d.doing = "profile" /\ d.where = "answered"
            /\ d.question = call[q].question /\ d.release = call[q].release
        BY <1>t, <1>c, CallMoves DEF Where
      <4>3. Proper(d)
        BY <1>c, <3>1, <4>2 DEF Proper, Agrees, ProfileOf, HasProfile
      <4> QED BY <4>1, <4>3
    <3>2. CASE ~(ProfileOf(call[q].upload) /\ profile.question = call[q].question)
      <4>1. Return(q)
        BY <2>1, <3>2 DEF Answering
      <4> QED BY <4>1, EndedIsProper DEF Return
    <3> QED BY <3>1, <3>2
  <2>3. /\ call' \in [Callers -> Call]
        /\ WholeProfile'
        /\ ~sessionRow'.deleted => \A r \in Callers : Agrees(call[r])'
    BY <1>u, <2>1, <2>2, CallerSteps
  <2> QED BY <1>u, <2>1, <2>3 DEF JourneyIInv, Types, RedeemedOnce, DeletedWasRequested,
       UploadNamed, Agreement
<1> QED BY <1>1, <1>2

\* The insert of a package: the profile its caller read is still the profile.
LEMMA PackagePreserves ==
  ASSUME JourneyIInv, NEW q \in Callers, AddPackage(q)
  PROVE  JourneyIInv'
<1>t. /\ call \in [Callers -> Call] /\ call[q] \in Call /\ packages \subseteq Releases
  BY DEF JourneyIInv, Types
<1>u. UNCHANGED <<token, opened, sessionRow, upload, uploads, profile>>
  BY DEF AddPackage
<1>c. /\ call[q].doing = "facts" /\ call[q].where = "built" /\ call[q].release \in Releases
  BY DEF AddPackage, Calls, JourneyIInv, WholeProfile
<1>a. ~sessionRow.deleted =>
        /\ profile # NoProfile
        /\ call[q].question = profile.question /\ call[q].release = profile.release
        /\ packages \subseteq {profile.release}
  BY <1>c DEF JourneyIInv, Agreement, Agrees
<1>1. PICK c : Proper(c) /\ call' = [call EXCEPT ![q] = c]
  <2>1. CASE HasProfile
    <3> DEFINE d == [call[q] EXCEPT !.where = "answered"]
    <3>1. call' = [call EXCEPT ![q] = d]
      BY <2>1, <1>t DEF AddPackage, Proceed, Call
    <3>2. /\ d \in Call /\ d.doing = "facts" /\ d.where = "answered"
          /\ d.question = call[q].question /\ d.release = call[q].release
      BY <1>t, <1>c, CallMoves DEF Where
    <3>3. Proper(d)
      BY <1>a, <1>c, <3>2 DEF Proper, Agrees
    <3> QED BY <3>1, <3>3
  <2>2. CASE ~HasProfile
    BY <2>2, EndedIsProper DEF AddPackage, Return
  <2> QED BY <2>1, <2>2
<1>2. /\ packages' \subseteq Releases
      /\ ~sessionRow.deleted => packages' \subseteq {profile.release}
  BY <1>t, <1>c, <1>a DEF AddPackage
<1>3. /\ call' \in [Callers -> Call]
      /\ WholeProfile'
      /\ ~sessionRow'.deleted => \A r \in Callers : Agrees(call[r])'
  BY <1>u, <1>1, CallerSteps
<1> QED BY <1>u, <1>2, <1>3 DEF JourneyIInv, Types, RedeemedOnce, DeletedWasRequested,
     UploadNamed, Agreement

\* The completion of a deletion: nothing need agree any more.
LEMMA CompletionPreserves ==
  ASSUME JourneyIInv, CompleteDeletion
  PROVE  JourneyIInv'
<1> USE JourneyAssumption
<1>t. /\ call \in [Callers -> Call] /\ sessionRow \in JourneyRow /\ uploads \in Nat
  BY DEF JourneyIInv, Types
<1>1. /\ UNCHANGED <<token, opened, uploads>>
      /\ upload' = 0 /\ packages' = {} /\ sessionRow' = [sessionRow EXCEPT !.deleted = TRUE]
      /\ sessionRow.requested
  BY DEF CompleteDeletion
<1>2. sessionRow' \in JourneyRow /\ sessionRow'.deleted /\ sessionRow'.requested
  BY <1>t, <1>1 DEF JourneyRow
<1>3. profile' \in ProfileRow /\ profile'.upload = 0 /\ call' \in [Callers -> Call] /\ WholeProfile'
  <2>1. CASE profile' = NoProfile /\ UNCHANGED call
    BY <1>t, <2>1 DEF NoProfile, ProfileRow, JourneyIInv, WholeProfile
  <2>2. ASSUME NEW q \in Callers, Calls(q, "profile", "built"), Proceed(q, "answered"),
               profile' = [question |-> call[q].question, release |-> call[q].release,
                           upload |-> 0]
        PROVE  profile' \in ProfileRow /\ profile'.upload = 0 /\ call' \in [Callers -> Call] /\ WholeProfile'
    <3> DEFINE d == [call[q] EXCEPT !.where = "answered"]
    <3>1. call' = [call EXCEPT ![q] = d] /\ call[q] \in Call
      BY <1>t, <2>2 DEF Proceed, Call
    <3>2. /\ d \in Call /\ d.doing = call[q].doing
          /\ d.question = call[q].question /\ d.release = call[q].release
      BY <3>1, CallMoves DEF Where
    <3>3. /\ call' \in [Callers -> Call] /\ call'[q] = d
          /\ \A r \in Callers : r # q => call'[r] = call[r]
      BY <1>t, <3>1, <3>2, OneCall
    <3>4. call[q].question \in Questions /\ call[q].release \in Releases
      BY <2>2 DEF Calls, JourneyIInv, WholeProfile
    <3>5. WholeProfile'
      BY <2>2, <3>2, <3>3, <3>4 DEF JourneyIInv, WholeProfile
    <3> QED BY <2>2, <3>3, <3>4, <3>5 DEF ProfileRow
  <2> QED BY <2>1, <2>2 DEF CompleteDeletion
<1> QED BY <1>t, <1>1, <1>2, <1>3 DEF JourneyIInv, Types, RedeemedOnce, DeletedWasRequested,
     UploadNamed, Agreement

\* The purge of the raw upload: the profile keeps its question and release.
LEMMA PurgePreserves ==
  ASSUME JourneyIInv, PurgeRawUpload
  PROVE  JourneyIInv'
<1> USE JourneyAssumption
<1>t. profile \in ProfileRow
  BY DEF JourneyIInv, Types
<1>1. /\ UNCHANGED <<token, opened, sessionRow, uploads, packages, call>>
      /\ upload' = 0 /\ profile' = [profile EXCEPT !.upload = 0]
  BY DEF PurgeRawUpload
<1>2. /\ profile' \in ProfileRow /\ profile'.upload = 0
      /\ profile'.question = profile.question /\ profile'.release = profile.release
  BY <1>t, <1>1 DEF ProfileRow
<1>3. profile = NoProfile => profile' = NoProfile
  BY <1>1 DEF NoProfile
<1>4. profile # NoProfile => profile' # NoProfile
  BY <1>2 DEF JourneyIInv, WholeProfile, NoProfile
<1>5. WholeProfile'
  BY <1>1, <1>2, <1>3 DEF JourneyIInv, WholeProfile
<1>6. Agreement'
  <2>1. ASSUME ~sessionRow.deleted, NEW r \in Callers
        PROVE  Agrees(call[r])'
    <3>1. Agrees(call[r])
      BY <2>1 DEF JourneyIInv, Agreement
    <3> QED BY <1>1, <1>2, <1>4, <3>1 DEF Agrees
  <2> QED BY <1>1, <1>2, <2>1 DEF JourneyIInv, Agreement
<1> QED BY <1>1, <1>2, <1>5, <1>6 DEF JourneyIInv, Types, RedeemedOnce, DeletedWasRequested,
     UploadNamed

\* Clocks and the request of a deletion write the session's row or the token.
LEMMA ClockPreserves ==
  ASSUME JourneyIInv, TokenExpires \/ WindowLapses \/ RequestDeletion
  PROVE  JourneyIInv'
<1>1. /\ UNCHANGED <<opened, upload, uploads, profile, packages, call>>
      /\ token' = token \/ (token = "open" /\ token' = "expired")
  BY DEF TokenExpires, WindowLapses, RequestDeletion, rowVars
<1>2. /\ sessionRow' \in JourneyRow /\ sessionRow'.deleted = sessionRow.deleted
      /\ sessionRow.requested => sessionRow'.requested
  BY DEF TokenExpires, WindowLapses, RequestDeletion, JourneyIInv, Types, JourneyRow
<1>3. WholeProfile'
  BY <1>1 DEF JourneyIInv, WholeProfile
<1>4. Agreement'
  BY <1>1, <1>2 DEF JourneyIInv, Agreement, Agrees
<1> QED BY <1>1, <1>2, <1>3, <1>4 DEF JourneyIInv, Types, RedeemedOnce, DeletedWasRequested,
     UploadNamed

LEMMA JourneyStep == JourneyIInv /\ [JourneyNext]_jvars => JourneyIInv'
<1> SUFFICES ASSUME JourneyIInv, [JourneyNext]_jvars
             PROVE  JourneyIInv'
  OBVIOUS
<1>1. ASSUME NEW q \in Callers, JourneyCall(q)
      PROVE  JourneyIInv'
  BY <1>1, ReadingPreserves, WritingPreserves, ProfilePreserves, PackagePreserves DEF JourneyCall
<1>2. CASE UNCHANGED jvars
  BY <1>2 DEF jvars, JourneyIInv, Types, WholeProfile, RedeemedOnce, DeletedWasRequested, UploadNamed,
     Agreement, Agrees
<1> QED BY <1>1, <1>2, ClockPreserves, CompletionPreserves, PurgePreserves DEF JourneyNext

-----------------------------------------------------------------------------
(* The theorems.                                                           *)

LEMMA JourneyInductive == JourneySpec => []JourneyIInv
  BY JourneyBegins, JourneyStep, PTL DEF JourneySpec

\* What the types say of the token and of the upload's number.
Bounds == token \in {"open", "expired", "redeemed"} /\ upload \in 0..uploads

LEMMA JourneyBounds == JourneyIInv /\ Bounds /\ [JourneyNext]_jvars => Bounds'
<1> SUFFICES ASSUME JourneyIInv, Bounds, [JourneyNext]_jvars PROVE Bounds'
  OBVIOUS
<1>T. upload \in Nat /\ uploads \in Nat /\ token \in {"open", "expired", "redeemed"} /\ upload <= uploads
  BY DEF JourneyIInv, Types, Bounds
<1>1. CASE UNCHANGED <<token, upload, uploads>>
  BY <1>1 DEF Bounds
<1>2. ASSUME NEW q \in Callers, RedeemInvitation(q) PROVE Bounds'
  BY <1>T, <1>2 DEF RedeemInvitation, Bounds, rowVars
<1>3. ASSUME NEW q \in Callers, AddUpload(q) PROVE Bounds'
  BY <1>T, <1>3 DEF AddUpload, Bounds
<1>4. ASSUME NEW q \in Callers,
             \/ PresentToken(q) \/ AskConsent(q) \/ SaveConsent(q) \/ BeginUpload(q)
             \/ AskProfile(q) \/ FindUpload(q) \/ FindProfile(q) \/ AddProfileRow(q)
             \/ AskFacts(q) \/ FindPackage(q) \/ AddPackage(q) \/ CallFails(q)
      PROVE  UNCHANGED <<token, upload, uploads>>
  BY <1>4 DEF PresentToken, AskConsent, SaveConsent, BeginUpload, AskProfile, FindUpload,
              FindProfile, AddProfileRow, AskFacts, FindPackage, AddPackage, CallFails, rowVars
<1>5. CASE TokenExpires \/ WindowLapses \/ RequestDeletion
  BY <1>T, <1>5 DEF TokenExpires, WindowLapses, RequestDeletion, Bounds, rowVars
<1>6. CASE CompleteDeletion \/ PurgeRawUpload
  BY <1>T, <1>6 DEF CompleteDeletion, PurgeRawUpload, Bounds
<1> QED BY <1>1, <1>2, <1>3, <1>4, <1>5, <1>6 DEF JourneyNext, JourneyCall, jvars, rowVars

\* Every behaviour keeps the state well typed.
THEOREM JourneyTypes == JourneySpec => []JourneyTypeOK
<1>1. JourneyInit => Bounds
  BY DEF JourneyInit, Bounds
<1>2. JourneyIInv /\ Bounds => JourneyTypeOK
  BY DEF JourneyIInv, Types, JourneyRow, ProfileRow, RedeemedOnce, Bounds, JourneyTypeOK
<1> QED BY <1>1, <1>2, JourneyBounds, JourneyInductive, PTL DEF JourneySpec

\* Until its content is deleted a session has one reading of one upload, for any
\* number of callers, servers' releases and racing inserts, and one invitation
\* opens one session (redeem, create_or_get of the profile and of the package).
THEOREM OneReadingHolds == JourneySpec => []OneReading
  BY JourneyInductive, InvariantImpliesOneReading, PTL

\* A deletion requested or completed stays so whatever was read before it, and the
\* profile is not replaced while content lives (update_session, the unique profile).
THEOREM DeletionIsFinal == JourneySpec => DeletionStands
<1> DEFINE Final ==
      /\ sessionRow.requested => sessionRow'.requested
      /\ sessionRow.deleted => sessionRow'.deleted
      /\ sessionRow'.deleted => sessionRow'.requested
      /\ HasProfile /\ ~sessionRow'.deleted =>
           profile'.question = profile.question /\ profile'.release = profile.release
<1>1. ASSUME JourneyIInv, JourneyIInv', [JourneyNext]_jvars
      PROVE  Final
  <2>t. sessionRow \in JourneyRow /\ profile \in ProfileRow
    BY <1>1 DEF JourneyIInv, Types
  <2>d. sessionRow'.deleted => sessionRow'.requested
    BY <1>1 DEF JourneyIInv, DeletedWasRequested
  <2>1. ASSUME UNCHANGED <<sessionRow, profile>>
        PROVE  Final
    BY <2>1, <2>d
  <2>2. ASSUME NEW q \in Callers, JourneyCall(q)
        PROVE  Final
    <3>1. CASE SaveConsent(q)
      BY <3>1, <2>t, <2>d DEF SaveConsent, rowVars, JourneyRow
    <3>2. CASE AddProfileRow(q)
      BY <3>2, <2>d DEF AddProfileRow
    <3> QED BY <2>1, <2>2, <3>1, <3>2 DEF JourneyCall, PresentToken, RedeemInvitation, AskConsent,
         BeginUpload, AddUpload, AskProfile, FindUpload, FindProfile, AskFacts, FindPackage,
         AddPackage, CallFails, rowVars
  <2>3. CASE TokenExpires
    BY <2>1, <2>3 DEF TokenExpires, rowVars
  <2>4. CASE WindowLapses \/ RequestDeletion
    BY <2>4, <2>t, <2>d DEF WindowLapses, RequestDeletion, rowVars, JourneyRow
  <2>5. CASE CompleteDeletion
    BY <2>5, <2>t, <2>d DEF CompleteDeletion, JourneyRow
  <2>6. CASE PurgeRawUpload
    BY <2>6, <2>t, <2>d DEF PurgeRawUpload, ProfileRow
  <2>7. CASE UNCHANGED jvars
    BY <2>1, <2>7 DEF jvars
  <2> QED BY <1>1, <2>2, <2>3, <2>4, <2>5, <2>6, <2>7 DEF JourneyNext
<1> HIDE DEF Final
<1>2. JourneyIInv /\ JourneyIInv' /\ [JourneyNext]_jvars => [Final]_jvars
  BY <1>1
<1>3. JourneySpec => [][Final]_jvars
  BY <1>2, JourneyInductive, PTL DEF JourneySpec
<1> QED BY <1>3 DEF Final, DeletionStands

-----------------------------------------------------------------------------
(* Commercial sessions: SessionAccess.                                     *)

AllEnded(sessions) == \A s \in sessions : ~IsLive(s)

\* A row is somebody's.
RowsOwned == \A s \in Sessions : session[s].row => session[s].of # NoOne

\* What a request names stays what it was named for.
Founded(c) ==
  /\ asking[c].errand # "none" => asking[c].account \in Accounts
  /\ asking[c].errand \in {"sign in", "switch"} /\ asking[c].stage \notin {"named", "cleared"} =>
       asking[c].session \in Sessions /\ session[asking[c].session].of # NoOne
  /\ asking[c].errand = "recover" => asking[c].key \in Keys
  /\ \A s \in asking[c].known : asking[c].account # NoOne /\ session[s].of = asking[c].account
  /\ asking[c].errand = "recover" /\ asking[c].stage \in {"revoked", "verified"} =>
       AllEnded(asking[c].known)
  /\ Stands(c, {"sign in"}, "rejected") => ~IsLive(asking[c].session)
RequestsSound == \A c \in Clients : Founded(c)

\* The inductive invariant of the requests and of the rows they write.
SessionIInv == SessionTypeOK /\ RowsOwned /\ RequestsSound

\* Who asked with a key for an account asked to end the same sessions, and a
\* recorded key was recorded by a request that is still remembered.
OneMeaning ==
  \A c, d \in Clients :
    asking[c].key \in Keys /\ asking[c].key = asking[d].key /\ asking[c].account = asking[d].account =>
      asking[c].known = asking[d].known
RecordedBySomeone ==
  \A k \in Keys : recovery[k] # NoOne =>
    \E d \in Clients : /\ Stands(d, {"recover"}, "done")
                       /\ asking[d].key = k /\ asking[d].account = recovery[k]
RecordedIsEnded ==
  \A c \in Clients :
    asking[c].errand = "recover" /\ recovery[asking[c].key] = asking[c].account => AllEnded(asking[c].known)
RecoveryIInv == OneMeaning /\ RecordedBySomeone /\ RecordedIsEnded

\* A served request has seen what it was served on.
Served(c) ==
  /\ asking[c].stage \in {"context", "scoped"} => asking[c].errand \in {"act", "resolve"}
  /\ asking[c].errand \in {"act", "resolve"} =>
       /\ seen[c].live
       /\ asking[c].stage \in {"verified", "context", "scoped"} => seen[c].acted
       /\ asking[c].stage \in {"context", "scoped"} =>
            /\ asking[c].org \in seen[c].org
            /\ asking[c].role = "owner" => asking[c].org \in seen[c].owned
ServedIInv == \A c \in Clients : Served(c)

----------------------------------------------------------------------------
(* Rows.                                                                   *)

\* What a step may make of a row: nothing; another organization, a revocation, an
\* expiry or a purge of a row that stands; or its issue.
Later(old, new) ==
  \/ new = old
  \/ old.row /\ ~old.revoked /\ \E o \in Orgs \cup {NoOne} : new = [old EXCEPT !.org = o]
  \/ new = [old EXCEPT !.revoked = TRUE]
  \/ new = [old EXCEPT !.expired = TRUE]
  \/ new = [NoSession EXCEPT !.of = old.of]
  \/ old.of = NoOne /\ \E a \in Accounts : new = [old EXCEPT !.of = a, !.row = TRUE]

LEMMA LaterKeeps ==
  ASSUME NEW old \in SessionState, NEW new, Later(old, new), old.row => old.of # NoOne
  PROVE  /\ new \in SessionState
         /\ new.row => new.of # NoOne
         /\ old.of # NoOne =>
              /\ new.of = old.of
              /\ new.row /\ ~new.revoked /\ ~new.expired => old.row /\ ~old.revoked /\ ~old.expired
              /\ old.revoked /\ new.row => new.org = old.org
<1>1. CASE new = old
  BY <1>1
<1>2. CASE old.row /\ ~old.revoked /\ \E o \in Orgs \cup {NoOne} : new = [old EXCEPT !.org = o]
  BY <1>2 DEF SessionState
<1>3. CASE new = [old EXCEPT !.revoked = TRUE]
  BY <1>3 DEF SessionState
<1>4. CASE new = [old EXCEPT !.expired = TRUE]
  BY <1>4 DEF SessionState
<1>5. CASE new = [NoSession EXCEPT !.of = old.of]
  BY <1>5 DEF SessionState, NoSession
<1>6. CASE old.of = NoOne /\ \E a \in Accounts : new = [old EXCEPT !.of = a, !.row = TRUE]
  BY <1>6, SessionAssumption DEF SessionState
<1> QED BY <1>1, <1>2, <1>3, <1>4, <1>5, <1>6 DEF Later

LEMMA RevokedAreLater ==
  ASSUME SessionTypeOK, NEW A, session' = RevokeAll(A), NEW s \in Sessions
  PROVE  /\ Later(session[s], session'[s])
         /\ session[s].of \in A => ~IsLive(s)'
<1>1. session'[s] = IF session[s].of \in A /\ UpdateLive(s)
                      THEN [session[s] EXCEPT !.revoked = TRUE] ELSE session[s]
  BY DEF RevokeAll
<1>2. session[s] \in SessionState
  BY DEF SessionTypeOK
<1> QED BY <1>1, <1>2 DEF Later, IsLive, UpdateLive, SessionState

LEMMA RowSteps ==
  ASSUME SessionIInv, SessionAction
  PROVE  session' \in [Sessions -> SessionState] /\ \A s \in Sessions : Later(session[s], session'[s])
<1>0. /\ session \in [Sessions -> SessionState] /\ asking \in [Clients -> Asking]
      /\ SessionTypeOK /\ RowsOwned /\ RequestsSound
  BY DEF SessionIInv, SessionTypeOK
<1> DEFINE Moved == /\ session' = [t \in Sessions |-> session'[t]]
                    /\ \A s \in Sessions : Later(session[s], session'[s])
<1>1. ASSUME UNCHANGED session PROVE Moved
  BY <1>0, <1>1 DEF Later
<1>2. ASSUME NEW c \in Clients, NEW t \in Sessions, NEW o \in Orgs, IssueSession(c, t, o)
      PROVE  Moved
  <2>1. asking[c].account \in Accounts
    BY <1>0, <1>2 DEF IssueSession, Stands, RequestsSound, Founded
  <2> QED BY <1>0, <1>2, <2>1 DEF IssueSession, Later
<1>3. ASSUME NEW c \in Clients, PointAtOrganization(c)
      PROVE  Moved
  <2>1. asking[c].org \in Orgs \cup {NoOne} /\ asking[c].session \in Sessions
    BY <1>0, <1>3 DEF PointAtOrganization, Stands, RequestsSound, Founded, Asking
  <2> QED BY <1>0, <1>3, <2>1 DEF PointAtOrganization, UpdateLive, Later
<1>4. ASSUME NEW c \in Clients, Refuse(c)
      PROVE  Moved
  BY <1>0, <1>4 DEF Refuse, UpdateLive, Later
<1>5. ASSUME NEW A, session' = RevokeAll(A)
      PROVE  Moved
  BY <1>0, <1>5, RevokedAreLater DEF RevokeAll
<1>6. ASSUME NEW t \in Sessions, Logout(t) \/ Expire(t) \/ SweepSession(t)
      PROVE  Moved
  BY <1>0, <1>6 DEF Logout, Expire, SweepSession, Later
<1>7. ASSUME NEW c \in Clients, SessionRequest(c)
      PROVE  \/ UNCHANGED session \/ \E t \in Sessions, o \in Orgs : IssueSession(c, t, o)
             \/ PointAtOrganization(c) \/ Refuse(c) \/ \E A : session' = RevokeAll(A)
  BY <1>7 DEF SessionRequest, NameAccount, AssertActive, AskToSwitch, ResolveToSwitch, CheckMembership,
       AskToRecover, FindRecovery, RevokeEverySession, ProveAgain, RecordRecovery, Present, ResolveActor,
       MakeContext, ResolveScope, Drop
<1>8. Moved
  BY <1>1, <1>2, <1>3, <1>4, <1>5, <1>6, <1>7
     DEF SessionAction, HardStop, PurgeRecovery, SetActive, SetLinked, SetRole
<1>9. \A s \in Sessions : session'[s] \in SessionState
  BY <1>0, <1>8, LaterKeeps DEF RowsOwned
<1> QED BY <1>8, <1>9

\* What the rows a request knows may become.
LEMMA RowsStand ==
  ASSUME SessionIInv, SessionAction, NEW s \in Sessions
  PROVE  /\ session[s] \in SessionState /\ session'[s] \in SessionState
         /\ session'[s].row => session'[s].of # NoOne
         /\ session[s].of # NoOne =>
              /\ session'[s].of = session[s].of
              /\ IsLive(s)' => IsLive(s)
              /\ session[s].revoked /\ session'[s].row => session'[s].org = session[s].org
<1>1. session[s] \in SessionState /\ (session[s].row => session[s].of # NoOne)
  BY DEF SessionIInv, SessionTypeOK, RowsOwned
<1>2. Later(session[s], session'[s])
  BY RowSteps
<1> QED BY <1>1, <1>2, LaterKeeps DEF IsLive

----------------------------------------------------------------------------
(* Requests.                                                               *)

\* A request that is at rest stays sound whatever the others do.
LEMMA RestingStaysSound ==
  ASSUME SessionIInv, SessionAction, NEW d \in Clients, asking'[d] = asking[d]
  PROVE  Founded(d)'
<1>1. Founded(d) /\ asking[d] \in Asking
  BY DEF SessionIInv, RequestsSound, SessionTypeOK
<1>2. \A s \in asking[d].known : s \in Sessions
  BY <1>1 DEF Asking
<1>3. \A s \in Sessions : session[s].of # NoOne => session'[s].of = session[s].of /\ (IsLive(s)' => IsLive(s))
  BY RowsStand
<1>4. \A s \in asking[d].known : session[s].of # NoOne
  BY <1>1 DEF Founded
<1> QED BY <1>1, <1>2, <1>3, <1>4 DEF Founded, Stands, AllEnded

\* What a step makes of its own request.
Advances(c) ==
  /\ asking' = [asking EXCEPT ![c] = asking'[c]]
  /\ asking'[c] \in Asking
  /\ Founded(c)'

LEMMA EndingAdvances ==
  ASSUME SessionIInv, NEW c \in Clients, Give(c)
  PROVE  Advances(c)
<1>1. asking \in [Clients -> Asking]
  BY DEF SessionIInv, SessionTypeOK
<1> QED BY <1>1 DEF Give, Advances, Asking, Founded, Stands, NoErrand, AllEnded, Errand, Stage

LEMMA ReachingAdvances ==
  ASSUME SessionIInv, SessionAction, NEW c \in Clients, NEW stage \in Stage, Reach(c, stage),
         asking[c].errand \in {"sign in", "switch"} /\ stage \notin {"named", "cleared"} =>
           asking[c].session \in Sessions /\ session[asking[c].session].of # NoOne,
         asking[c].errand = "recover" /\ stage \in {"revoked", "verified"} =>
           \A s \in asking[c].known : ~IsLive(s)',
         asking[c].errand = "sign in" /\ stage = "rejected" =>
           \A s \in Sessions : s = asking[c].session => ~IsLive(s)'
  PROVE  Advances(c)
<1>1. asking \in [Clients -> Asking] /\ Founded(c)
  BY DEF SessionIInv, SessionTypeOK, RequestsSound
<1>2. asking' = [asking EXCEPT ![c] = [asking[c] EXCEPT !.stage = stage]]
  BY <1>1 DEF Reach
<1>3. asking'[c] = [asking[c] EXCEPT !.stage = stage]
  BY <1>1, <1>2
<1>4. asking'[c] \in Asking
  BY <1>1, <1>3 DEF Asking
<1>5. \A s \in Sessions : session[s].of # NoOne => session'[s].of = session[s].of
  BY RowsStand
<1>6. /\ asking'[c].errand = asking[c].errand /\ asking'[c].stage = stage /\ asking'[c].account = asking[c].account
      /\ asking'[c].session = asking[c].session /\ asking'[c].key = asking[c].key /\ asking'[c].known = asking[c].known
  BY <1>1, <1>3 DEF Asking
<1>7. \A s \in asking[c].known : s \in Sessions
  BY <1>1 DEF Asking
<1>8. Founded(c)'
  <2>1. asking[c].errand = "recover" /\ stage \in {"revoked", "verified"} => \A s \in asking'[c].known : ~IsLive(s)'
    BY <1>6
  <2>2. asking[c].errand = "sign in" /\ stage = "rejected" =>
          \A s \in Sessions : s = asking'[c].session => ~IsLive(s)'
    BY <1>6
  <2> QED BY <1>1, <1>5, <1>6, <1>7, <2>1, <2>2 DEF Founded, Stands, AllEnded
<1> QED BY <1>2, <1>3, <1>4, <1>8 DEF Advances

LEMMA BeginningAdvances ==
  ASSUME SessionIInv, SessionAction, NEW c \in Clients, NEW ask \in Asking, Begin(c, ask), UNCHANGED session,
         ask.account \in Accounts,
         ask.errand = "sign in" => ask.stage = "named",
         ask.errand = "switch" => ask.session \in Sessions /\ session[ask.session].of # NoOne,
         ask.errand = "recover" => ask.key \in Keys /\ ask.stage = "named",
         \A s \in ask.known : session[s].of = ask.account
  PROVE  Advances(c)
<1>1. asking \in [Clients -> Asking]
  BY DEF SessionIInv, SessionTypeOK
<1>2. asking' = [asking EXCEPT ![c] = ask]
  BY DEF Begin
<1>3. asking'[c] = ask
  BY <1>1, <1>2
<1> QED BY <1>1, <1>2, <1>3, SessionAssumption DEF Advances, Founded, Stands, AllEnded

LEMMA SignInAdvances ==
  ASSUME SessionIInv, SessionAction, NEW c \in Clients,
         \/ \E a \in Accounts : NameAccount(c, a)
         \/ AssertActive(c) \/ ResolveToSwitch(c) \/ CheckMembership(c)
         \/ \E s \in Sessions, o \in Orgs : IssueSession(c, s, o) \/ AskToSwitch(c, s, o)
  PROVE  Advances(c)
<1>0. /\ asking \in [Clients -> Asking] /\ session \in [Sessions -> SessionState] /\ Founded(c)
      /\ RowsOwned
  BY DEF SessionIInv, SessionTypeOK, RequestsSound
<1>1. ASSUME NEW a \in Accounts, NameAccount(c, a) PROVE Advances(c)
  <2> DEFINE ask == [NoErrand EXCEPT !.errand = "sign in", !.stage = "named", !.account = a]
  <2>1. ask \in Asking /\ ask.account \in Accounts /\ ask.errand = "sign in" /\ ask.stage = "named" /\ ask.known = {}
    BY DEF NoErrand, Asking, Errand, Stage
  <2>2. Begin(c, ask) /\ UNCHANGED session
    BY <1>1 DEF NameAccount
  <2> HIDE DEF ask
  <2> QED BY <2>1, <2>2, BeginningAdvances
<1>2. CASE AssertActive(c)
  <2>1. Reach(c, "cleared") \/ Give(c)
    BY <1>2 DEF AssertActive
  <2>2. asking[c].errand = "sign in"
    BY <1>2 DEF AssertActive, Stands
  <2>3. "cleared" \in Stage
    BY DEF Stage
  <2> QED BY <2>1, <2>2, <2>3, EndingAdvances, ReachingAdvances
<1>3. ASSUME NEW stage \in {"found", "member", "refused"}, Reach(c, stage),
             asking[c].errand \in {"sign in", "switch"}, asking[c].stage \notin {"named", "cleared"}
      PROVE  Advances(c)
  <2>1. asking[c].session \in Sessions /\ session[asking[c].session].of # NoOne
    BY <1>0, <1>3 DEF Founded
  <2>2. stage \in Stage
    BY DEF Stage
  <2> QED BY <1>3, <2>1, <2>2, ReachingAdvances
<1>4. CASE ResolveToSwitch(c) \/ CheckMembership(c)
  BY <1>3, <1>4 DEF ResolveToSwitch, CheckMembership, Stands
<1>5. ASSUME NEW s \in Sessions, NEW o \in Orgs, IssueSession(c, s, o) PROVE Advances(c)
  <2>1. asking' = [asking EXCEPT ![c] = [asking[c] EXCEPT !.stage = "issued", !.session = s, !.org = o]]
    BY <1>0, <1>5 DEF IssueSession
  <2>2. asking'[c] = [asking[c] EXCEPT !.stage = "issued", !.session = s, !.org = o]
    BY <1>0, <2>1
  <2>3. asking[c] \in Asking /\ asking[c].errand = "sign in" /\ session[s].of = NoOne
    BY <1>0, <1>5 DEF IssueSession, Stands
  <2>4. /\ asking'[c].errand = "sign in" /\ asking'[c].stage = "issued" /\ asking'[c].session = s
        /\ asking'[c].account = asking[c].account /\ asking'[c].known = asking[c].known
        /\ asking'[c] \in Asking
    BY <2>2, <2>3 DEF Asking, Stage
  <2>5. session' = [session EXCEPT ![s] = [session[s] EXCEPT !.of = asking[c].account, !.row = TRUE]]
    BY <1>0, <1>5 DEF IssueSession
  <2>6. asking[c].account \in Accounts /\ session'[s].of = asking[c].account
    BY <1>0, <2>3, <2>5 DEF Founded, SessionState
  <2>7. \A t \in asking[c].known : t \in Sessions /\ session'[t].of = asking[c].account
    BY <1>0, <2>3, <2>5, <2>6, RowsStand, SessionAssumption DEF Founded, Asking
  <2>8. Founded(c)'
    BY <2>4, <2>6, <2>7, SessionAssumption DEF Founded, Stands
  <2> QED BY <2>1, <2>2, <2>4, <2>8 DEF Advances
<1>6. ASSUME NEW s \in Sessions, NEW o \in Orgs, AskToSwitch(c, s, o) PROVE Advances(c)
  <2> DEFINE ask == [NoErrand EXCEPT !.errand = "switch", !.stage = "issued", !.session = s,
                                     !.account = session[s].of, !.org = o]
  <2>1. session[s].of \in Accounts
    BY <1>0, <1>6 DEF AskToSwitch, RowsOwned, SessionState
  <2>2. /\ ask \in Asking /\ ask.account \in Accounts /\ ask.errand = "switch" /\ ask.session = s /\ ask.known = {}
    BY <2>1 DEF NoErrand, Asking, Errand, Stage
  <2>3. Begin(c, ask) /\ UNCHANGED session
    BY <1>6 DEF AskToSwitch
  <2>4. session[s].of # NoOne
    BY <2>1, SessionAssumption
  <2> HIDE DEF ask
  <2> QED BY <2>2, <2>3, <2>4, BeginningAdvances
<1> QED BY <1>1, <1>2, <1>4, <1>5, <1>6

\* A session its request found live or not is refused, moved or revoked; whether
\* the UPDATE found it or not, a sign-in that was refused leaves it dead.
LEMMA SwitchAdvances ==
  ASSUME SessionIInv, SessionAction, NEW c \in Clients, PointAtOrganization(c) \/ Refuse(c)
  PROVE  Advances(c)
<1>0. /\ asking \in [Clients -> Asking] /\ session \in [Sessions -> SessionState] /\ Founded(c)
  BY DEF SessionIInv, SessionTypeOK, RequestsSound
<1>1. asking[c].session \in Sessions /\ session[asking[c].session].of # NoOne
  BY <1>0 DEF PointAtOrganization, Refuse, Stands, Founded
<1>2. "refused" \in Stage /\ "rejected" \in Stage
  BY DEF Stage
<1>3. CASE PointAtOrganization(c)
  <2>1. Give(c) \/ Reach(c, "refused")
    BY <1>3 DEF PointAtOrganization
  <2>2. asking[c].errand # "recover"
    BY <1>3 DEF PointAtOrganization, Stands
  <2> QED BY <1>1, <1>2, <2>1, <2>2, EndingAdvances, ReachingAdvances
<1>4. CASE Refuse(c) /\ asking[c].errand # "sign in"
  BY <1>4, EndingAdvances DEF Refuse
<1>5. CASE Refuse(c) /\ asking[c].errand = "sign in"
  <2>1. Reach(c, "rejected")
    BY <1>5 DEF Refuse
  <2>2. \A s \in Sessions : s = asking[c].session => ~IsLive(s)'
    BY <1>0, <1>1, <1>5 DEF Refuse, UpdateLive, IsLive, SessionState
  <2> QED BY <1>1, <1>2, <1>5, <2>1, <2>2, ReachingAdvances
<1> QED BY <1>3, <1>4, <1>5

\* Whoever asks with a key ends the sessions the first of them knew.
LEMMA RecoveryAdvances ==
  ASSUME SessionIInv, SessionAction, NEW c \in Clients,
         \/ \E a \in Accounts, k \in Keys : AskToRecover(c, a, k)
         \/ FindRecovery(c) \/ RevokeEverySession(c) \/ ProveAgain(c) \/ RecordRecovery(c)
  PROVE  Advances(c)
<1>0. /\ asking \in [Clients -> Asking] /\ session \in [Sessions -> SessionState] /\ RequestsSound /\ Founded(c)
      /\ SessionTypeOK
  BY DEF SessionIInv, SessionTypeOK, RequestsSound
<1>1. ASSUME NEW a \in Accounts, NEW k \in Keys, AskToRecover(c, a, k) PROVE Advances(c)
  <2> DEFINE ask == [NoErrand EXCEPT !.errand = "recover", !.stage = "named", !.account = a,
                                     !.key = k, !.known = Known(a, k)]
  <2>1. Known(a, k) \subseteq Sessions /\ \A s \in Known(a, k) : session[s].of = a
    <3> DEFINE askers == {d \in Clients : asking[d].key = k /\ asking[d].account = a}
    <3>1. CASE askers = {}
      BY <3>1 DEF Known, SessionsOf
    <3>2. CASE askers # {}
      <4> DEFINE d == CHOOSE d \in askers : TRUE
      <4>1. d \in askers
        BY <3>2
      <4>2. d \in Clients /\ asking[d].account = a /\ Known(a, k) = asking[d].known
        BY <3>2, <4>1 DEF Known
      <4>3. asking[d] \in Asking /\ Founded(d)
        BY <1>0, <4>2 DEF RequestsSound
      <4> HIDE DEF d
      <4> QED BY <4>2, <4>3 DEF Founded, Asking
    <3> QED BY <3>1, <3>2
  <2>2. /\ ask \in Asking /\ ask.account = a /\ ask.errand = "recover" /\ ask.stage = "named" /\ ask.key = k
        /\ ask.known = Known(a, k)
    BY <2>1 DEF NoErrand, Asking, Errand, Stage
  <2>3. Begin(c, ask) /\ UNCHANGED session
    BY <1>1 DEF AskToRecover
  <2> HIDE DEF ask
  <2> QED BY <2>1, <2>2, <2>3, BeginningAdvances
<1>2. ASSUME NEW stage \in {"checked", "done", "revoked", "verified"}, Reach(c, stage), asking[c].errand = "recover",
             stage \in {"revoked", "verified"} => \A s \in asking[c].known : ~IsLive(s)'
      PROVE  Advances(c)
  <2>1. stage \in Stage
    BY DEF Stage
  <2> QED BY <1>2, <2>1, ReachingAdvances
<1>3. CASE FindRecovery(c) \/ RecordRecovery(c)
  <2>1. asking[c].errand = "recover" /\ (Reach(c, "checked") \/ Reach(c, "done"))
    BY <1>3 DEF FindRecovery, RecordRecovery, Reach, Stands
  <2> QED BY <1>2, <2>1
<1>4. CASE RevokeEverySession(c)
  <2>1. asking[c].errand = "recover" /\ Reach(c, "revoked") /\ session' = RevokeAll({asking[c].account})
    BY <1>4 DEF RevokeEverySession, Stands
  <2>2. \A s \in asking[c].known : s \in Sessions /\ session[s].of \in {asking[c].account}
    BY <1>0 DEF Founded, Asking
  <2>3. \A s \in asking[c].known : ~IsLive(s)'
    BY <1>0, <2>1, <2>2, RevokedAreLater
  <2> QED BY <1>2, <2>1, <2>3
<1>5. CASE ProveAgain(c)
  <2>1. asking[c].errand = "recover" /\ (Reach(c, "verified") \/ Reach(c, "done")) /\ UNCHANGED session
    BY <1>5 DEF ProveAgain, Stands
  <2>2. \A s \in asking[c].known : ~IsLive(s)'
    BY <1>0, <1>5, <2>1 DEF Founded, ProveAgain, Stands, IsLive, AllEnded
  <2> QED BY <1>2, <2>1, <2>2
<1> QED BY <1>1, <1>3, <1>4, <1>5

LEMMA AuthorizationAdvances ==
  ASSUME SessionIInv, SessionAction, NEW c \in Clients,
         \/ \E s \in Sessions, e \in {"act", "resolve"} : Present(c, s, e)
         \/ ResolveActor(c) \/ MakeContext(c) \/ ResolveScope(c) \/ Drop(c)
  PROVE  Advances(c)
<1>0. /\ asking \in [Clients -> Asking] /\ session \in [Sessions -> SessionState] /\ Founded(c) /\ RowsOwned
      /\ asking[c] \in Asking /\ role \in [Orgs \X Accounts -> Roles \cup {NoOne}]
  BY DEF SessionIInv, SessionTypeOK, RequestsSound
<1>1. ASSUME NEW s \in Sessions, NEW e \in {"act", "resolve"}, Present(c, s, e) PROVE Advances(c)
  <2> DEFINE ask == [NoErrand EXCEPT !.errand = e, !.stage = "found", !.session = s,
                                     !.account = session[s].of, !.org = session[s].org]
  <2>1. session[s].of \in Accounts /\ session[s].org \in Orgs \cup {NoOne}
    BY <1>0, <1>1 DEF Present, IsLive, RowsOwned, SessionState
  <2>2. /\ ask \in Asking /\ ask.account \in Accounts /\ ask.errand = e /\ ask.known = {}
    BY <2>1 DEF NoErrand, Asking, Errand, Stage
  <2>3. Begin(c, ask) /\ UNCHANGED session
    BY <1>1 DEF Present
  <2> HIDE DEF ask
  <2> QED BY <2>2, <2>3, BeginningAdvances
<1>2. CASE ResolveActor(c) \/ ResolveScope(c)
  <2>1. asking[c].errand \in {"act", "resolve"} /\ (Give(c) \/ Reach(c, "verified") \/ Reach(c, "scoped"))
    BY <1>2 DEF ResolveActor, ResolveScope, Stands
  <2>2. "verified" \in Stage /\ "scoped" \in Stage
    BY DEF Stage
  <2> QED BY <2>1, <2>2, EndingAdvances, ReachingAdvances
<1>3. CASE MakeContext(c) /\ ~Give(c)
  <2> DEFINE held == role[asking[c].org, asking[c].account]
  <2>1. /\ asking' = [asking EXCEPT ![c] = [asking[c] EXCEPT !.role = held, !.stage = "context"]]
        /\ asking[c].errand \in {"act", "resolve"} /\ asking[c].org # NoOne /\ UNCHANGED session
    BY <1>0, <1>3 DEF MakeContext, Stands
  <2>2. asking[c].account \in Accounts /\ asking[c].org \in Orgs
    BY <1>0, <2>1 DEF Founded, Asking
  <2>3. held \in Roles \cup {NoOne}
    BY <1>0, <2>2
  <2> HIDE DEF held
  <2>4. /\ asking'[c] = [asking[c] EXCEPT !.role = held, !.stage = "context"]
        /\ asking' = [asking EXCEPT ![c] = asking'[c]]
    BY <1>0, <2>1
  <2>5. /\ asking'[c] \in Asking /\ asking'[c].errand = asking[c].errand /\ asking'[c].account = asking[c].account
        /\ asking'[c].known = asking[c].known
    BY <1>0, <2>3, <2>4 DEF Asking, Stage
  <2>6. Founded(c)'
    BY <1>0, <2>1, <2>2, <2>5 DEF Founded, Stands
  <2> QED BY <2>4, <2>5, <2>6 DEF Advances
<1>4. CASE Drop(c)
  <2>1. /\ asking' = [asking EXCEPT ![c] = [asking[c] EXCEPT !.errand = "none", !.stage = "done",
                                                             !.session = NoOne, !.org = NoOne]]
        /\ UNCHANGED session
    BY <1>0, <1>4 DEF Drop
  <2>2. /\ asking'[c] = [asking[c] EXCEPT !.errand = "none", !.stage = "done", !.session = NoOne, !.org = NoOne]
        /\ asking' = [asking EXCEPT ![c] = asking'[c]]
    BY <1>0, <2>1
  <2>3. /\ asking'[c] \in Asking /\ asking'[c].errand = "none" /\ asking'[c].account = asking[c].account
        /\ asking'[c].known = asking[c].known
    BY <1>0, <2>2 DEF Asking, Stage, Errand
  <2>4. Founded(c)'
    BY <1>0, <2>1, <2>3 DEF Founded, Stands
  <2> QED BY <2>2, <2>3, <2>4 DEF Advances
<1> QED BY <1>1, <1>2, <1>3, <1>4, EndingAdvances

LEMMA RequestAdvances ==
  ASSUME SessionIInv, SessionAction, NEW c \in Clients, SessionRequest(c)
  PROVE  Advances(c)
BY SignInAdvances, SwitchAdvances, RecoveryAdvances, AuthorizationAdvances DEF SessionRequest

\* One request moves at a time, and may rest as well.
LEMMA OneAdvances ==
  ASSUME SessionIInv, SessionAction
  PROVE  \/ UNCHANGED asking
         \/ \E c \in Clients : Advances(c) /\ SessionRequest(c)
BY RequestAdvances
   DEF SessionAction, Logout, Expire, SweepSession, HardStop, PurgeRecovery, SetActive, SetLinked, SetRole

LEMMA RequestsTyped ==
  ASSUME SessionIInv, SessionAction
  PROVE  asking' \in [Clients -> Asking] /\ RequestsSound'
<1>1. asking \in [Clients -> Asking]
  BY DEF SessionIInv, SessionTypeOK
<1>2. CASE UNCHANGED asking
  BY <1>1, <1>2, RestingStaysSound DEF RequestsSound
<1>3. ASSUME NEW c \in Clients, Advances(c) PROVE asking' \in [Clients -> Asking] /\ RequestsSound'
  <2>1. \A d \in Clients : d # c => asking'[d] = asking[d]
    BY <1>1, <1>3 DEF Advances
  <2> QED BY <1>1, <1>3, <2>1, RestingStaysSound DEF Advances, RequestsSound
<1> QED BY <1>2, <1>3, OneAdvances

LEMMA ObservedTyped ==
  ASSUME seen \in [Clients -> Seen], asking' \in [Clients -> Asking], Observe
  PROVE  seen' \in [Clients -> Seen]
<1> SUFFICES ASSUME NEW c \in Clients PROVE seen'[c] \in Seen
  BY DEF Observe
<1>1. seen[c] \in Seen
  OBVIOUS
<1> QED BY <1>1 DEF Observe, Witness, Unseen, Seen, IsLive

LEMMA WorldTyped ==
  ASSUME SessionIInv, SessionAction
  PROVE  /\ active' \subseteq Accounts /\ linked' \subseteq Accounts
         /\ role' \in [Orgs \X Accounts -> Roles \cup {NoOne}]
         /\ recovery' \in [Keys -> Accounts \cup {NoOne}]
<1>0. SessionTypeOK /\ RequestsSound
  BY DEF SessionIInv
<1>1. ASSUME NEW c \in Clients, SessionRequest(c)
      PROVE  /\ UNCHANGED <<active, linked, role>>
             /\ UNCHANGED recovery \/ RecordRecovery(c)
  BY <1>1 DEF SessionRequest, accountVars, NameAccount, AssertActive, AskToSwitch, IssueSession, ResolveToSwitch,
       CheckMembership, PointAtOrganization, Refuse, AskToRecover, FindRecovery, RevokeEverySession, ProveAgain,
       RecordRecovery, Present, ResolveActor, MakeContext, ResolveScope, Drop
<1>2. ASSUME NEW c \in Clients, RecordRecovery(c) PROVE recovery' \in [Keys -> Accounts \cup {NoOne}]
  BY <1>0, <1>2 DEF RecordRecovery, SessionTypeOK, Asking, Stands, RequestsSound, Founded
<1>3. ASSUME NEW k \in Keys, PurgeRecovery(k)
      PROVE  recovery' \in [Keys -> Accounts \cup {NoOne}] /\ UNCHANGED <<active, linked, role>>
  BY <1>0, <1>3 DEF PurgeRecovery, SessionTypeOK, accountVars
<1>4. ASSUME NEW a \in Accounts, SetActive(a) \/ SetLinked(a)
      PROVE  active' \subseteq Accounts /\ linked' \subseteq Accounts /\ UNCHANGED <<role, recovery>>
  BY <1>0, <1>4 DEF SetActive, SetLinked, SessionTypeOK
<1>5. ASSUME NEW o \in Orgs, NEW a \in Accounts, NEW r \in Roles \cup {NoOne}, SetRole(o, a, r)
      PROVE  role' \in [Orgs \X Accounts -> Roles \cup {NoOne}] /\ UNCHANGED <<active, linked, recovery>>
  <2>1. role' = [role EXCEPT ![<<o, a>>] = r]
    BY <1>5 DEF SetRole
  <2> QED BY <1>0, <1>5, <2>1 DEF SetRole, SessionTypeOK
<1>6. ASSUME NEW s \in Sessions, Logout(s) \/ Expire(s) \/ SweepSession(s)
      PROVE  UNCHANGED <<active, linked, role, recovery>>
  BY <1>6 DEF Logout, Expire, SweepSession, accountVars
<1>7. HardStop => UNCHANGED <<active, linked, role, recovery>>
  BY DEF HardStop, accountVars
<1>8. /\ active \subseteq Accounts /\ linked \subseteq Accounts
      /\ role \in [Orgs \X Accounts -> Roles \cup {NoOne}]
      /\ recovery \in [Keys -> Accounts \cup {NoOne}]
  BY <1>0 DEF SessionTypeOK
<1>9. CASE \E c \in Clients : SessionRequest(c)
  BY <1>1, <1>2, <1>8, <1>9
<1>10. CASE HardStop \/ \E s \in Sessions : Logout(s) \/ Expire(s) \/ SweepSession(s)
  BY <1>6, <1>7, <1>8, <1>10
<1> QED BY <1>3, <1>4, <1>5, <1>8, <1>9, <1>10 DEF SessionAction

LEMMA SessionStart == SessionInit => SessionIInv
<1> SUFFICES ASSUME SessionInit PROVE SessionIInv
  OBVIOUS
<1>1. session \in [Sessions -> SessionState] /\ RowsOwned
  <2>1. session \in [Sessions -> {NoSession} \cup {Standing(m[1], m[2]) : m \in Accounts \X Orgs}]
    BY DEF SessionInit
  <2>2. NoSession \in SessionState /\ ~NoSession.row
    BY DEF NoSession, SessionState
  <2>3. \A m \in Accounts \X Orgs : Standing(m[1], m[2]) \in SessionState /\ Standing(m[1], m[2]).of \in Accounts
    BY DEF NoSession, SessionState, Standing
  <2>4. \A s \in Sessions : session[s] = NoSession \/ \E m \in Accounts \X Orgs : session[s] = Standing(m[1], m[2])
    BY <2>1
  <2>5. session = [s \in Sessions |-> session[s]]
    BY <2>1
  <2> QED BY <2>2, <2>3, <2>4, <2>5, SessionAssumption DEF RowsOwned
<1>2. asking \in [Clients -> Asking] /\ RequestsSound
  BY DEF SessionInit, NoErrand, Asking, Errand, Stage, RequestsSound, Founded, Stands
<1>3. seen \in [Clients -> Seen]
  BY DEF SessionInit, Unseen, Seen
<1>4. role \in [Orgs \X Accounts -> Roles \cup {NoOne}] /\ recovery \in [Keys -> Accounts \cup {NoOne}]
  BY DEF SessionInit, Roles
<1>5. active \subseteq Accounts /\ linked \subseteq Accounts
  BY DEF SessionInit
<1> QED BY <1>1, <1>2, <1>3, <1>4, <1>5 DEF SessionIInv, SessionTypeOK

LEMMA SessionSteps == SessionIInv /\ [SessionNext]_svars => SessionIInv'
<1> SUFFICES ASSUME SessionIInv, [SessionNext]_svars PROVE SessionIInv'
  OBVIOUS
<1>1. CASE SessionNext
  <2>1. SessionAction /\ Observe
    BY <1>1 DEF SessionNext
  <2>2. session' \in [Sessions -> SessionState] /\ RowsOwned'
    BY <2>1, RowSteps, RowsStand DEF RowsOwned
  <2>3. asking' \in [Clients -> Asking] /\ RequestsSound'
    BY <2>1, RequestsTyped
  <2>4. seen' \in [Clients -> Seen]
    BY <2>1, <2>3, ObservedTyped DEF SessionIInv, SessionTypeOK
  <2> QED BY <2>1, <2>2, <2>3, <2>4, WorldTyped DEF SessionIInv, SessionTypeOK
<1>2. CASE UNCHANGED svars
  BY <1>2 DEF svars, SessionIInv, SessionTypeOK, RowsOwned, RequestsSound, Founded, Stands, AllEnded, IsLive
<1> QED BY <1>1, <1>2

LEMMA SessionInvariant == SessionSpec => []SessionIInv
BY SessionStart, SessionSteps, PTL DEF SessionSpec

\* Sessions, recoveries and requests keep their types.
THEOREM SessionTypes == SessionSpec => []SessionTypeOK
<1>1. SessionIInv => SessionTypeOK
  BY DEF SessionIInv
<1> QED BY <1>1, SessionInvariant, PTL

\* The end of a session is final for any number of sessions and requests, whichever
\* UPDATE of a switch, a logout, a recovery, the stop or the sweep comes when.
THEOREM EndIsFinal == SessionSpec => SessionEndIsFinal
<1>1. SessionIInv /\ [SessionNext]_svars =>
        [\A s \in Sessions :
           session[s].of # NoOne =>
             /\ session'[s].of = session[s].of
             /\ IsLive(s)' => IsLive(s)
             /\ session[s].revoked /\ session'[s].row => session'[s].org = session[s].org]_svars
  BY RowsStand DEF SessionNext
<1> QED BY <1>1, SessionInvariant, PTL DEF SessionSpec, SessionEndIsFinal

----------------------------------------------------------------------------
(* Recoveries.                                                             *)

\* No step but the question itself changes what a request asks a recovery for.
LEMMA KeptOrAsked ==
  ASSUME SessionIInv, NEW c \in Clients, SessionRequest(c)
  PROVE  \/ asking'[c].key = NoOne /\ asking'[c].errand # "recover"
         \/ /\ asking'[c].key = asking[c].key /\ asking'[c].account = asking[c].account
            /\ asking'[c].known = asking[c].known
            /\ asking'[c].errand \in {asking[c].errand, "none"}
         \/ \E a \in Accounts, k \in Keys : AskToRecover(c, a, k)
<1> DEFINE Kept == /\ asking'[c].key = asking[c].key /\ asking'[c].account = asking[c].account
                   /\ asking'[c].known = asking[c].known
                   /\ asking'[c].errand \in {asking[c].errand, "none"}
           Left == asking'[c].key = NoOne /\ asking'[c].errand # "recover"
<1>0. asking \in [Clients -> Asking] /\ asking[c] \in Asking
  BY DEF SessionIInv, SessionTypeOK
<1>1. ASSUME NEW ask, Begin(c, ask), ask.key = NoOne, ask.errand # "recover" PROVE Left
  BY <1>0, <1>1 DEF Begin
<1>2. ASSUME Give(c) PROVE Left
  BY <1>0, <1>2 DEF Give, NoErrand
<1>3. ASSUME NEW stage, Reach(c, stage) PROVE Kept
  BY <1>0, <1>3 DEF Reach, Asking
<1>4. ASSUME NEW a \in Accounts, NameAccount(c, a) PROVE Left
  <2> DEFINE ask == [NoErrand EXCEPT !.errand = "sign in", !.stage = "named", !.account = a]
  <2>1. ask.key = NoOne /\ ask.errand # "recover"
    BY DEF NoErrand
  <2>2. Begin(c, ask)
    BY <1>4 DEF NameAccount
  <2> HIDE DEF ask
  <2> QED BY <1>1, <2>1, <2>2
<1>5. ASSUME NEW s \in Sessions, NEW o \in Orgs, AskToSwitch(c, s, o) PROVE Left
  <2> DEFINE ask == [NoErrand EXCEPT !.errand = "switch", !.stage = "issued", !.session = s,
                                     !.account = session[s].of, !.org = o]
  <2>1. ask.key = NoOne /\ ask.errand # "recover"
    BY DEF NoErrand
  <2>2. Begin(c, ask)
    BY <1>5 DEF AskToSwitch
  <2> HIDE DEF ask
  <2> QED BY <1>1, <2>1, <2>2
<1>6. ASSUME NEW s \in Sessions, NEW e \in {"act", "resolve"}, Present(c, s, e) PROVE Left
  <2> DEFINE ask == [NoErrand EXCEPT !.errand = e, !.stage = "found", !.session = s,
                                     !.account = session[s].of, !.org = session[s].org]
  <2>1. ask.key = NoOne /\ ask.errand # "recover"
    BY DEF NoErrand
  <2>2. Begin(c, ask)
    BY <1>6 DEF Present
  <2> HIDE DEF ask
  <2> QED BY <1>1, <2>1, <2>2
<1>7. ASSUME NEW s \in Sessions, NEW o \in Orgs, IssueSession(c, s, o) PROVE Kept
  BY <1>0, <1>7 DEF IssueSession, Asking
<1>8. CASE Drop(c)
  BY <1>0, <1>8 DEF Drop, Asking
<1>9. CASE MakeContext(c)
  BY <1>0, <1>2, <1>9 DEF MakeContext, Asking
<1>10. CASE AssertActive(c) \/ ResolveToSwitch(c) \/ CheckMembership(c) \/ PointAtOrganization(c) \/ Refuse(c)
            \/ RevokeEverySession(c) \/ ProveAgain(c) \/ RecordRecovery(c) \/ ResolveActor(c) \/ ResolveScope(c)
  BY <1>2, <1>3, <1>10 DEF AssertActive, ResolveToSwitch, CheckMembership, PointAtOrganization, Refuse,
     RevokeEverySession, ProveAgain, RecordRecovery, ResolveActor, ResolveScope
<1>11. CASE FindRecovery(c)
  BY <1>0, <1>11 DEF FindRecovery, Asking
<1> QED BY <1>4, <1>5, <1>6, <1>7, <1>8, <1>9, <1>10, <1>11 DEF SessionRequest

LEMMA AnsweredStays ==
  ASSUME SessionIInv, NEW d \in Clients, Stands(d, {"recover"}, "done"), SessionAction
  PROVE  asking'[d] = asking[d]
<1>0. asking \in [Clients -> Asking]
  BY DEF SessionIInv, SessionTypeOK
<1>1. asking[d].errand = "recover" /\ asking[d].stage = "done"
  BY DEF Stands
<1>2. \A ask : ~Begin(d, ask)
  BY <1>1 DEF Begin, NoErrand
<1>3. ~(\E a \in Accounts : NameAccount(d, a)) /\ ~(\E s \in Sessions, o \in Orgs : AskToSwitch(d, s, o))
  BY <1>2 DEF NameAccount, AskToSwitch
<1>4. /\ ~(\E a \in Accounts, k \in Keys : AskToRecover(d, a, k))
      /\ ~(\E s \in Sessions, e \in {"act", "resolve"} : Present(d, s, e))
  BY <1>2 DEF AskToRecover, Present
<1>5. /\ ~AssertActive(d) /\ ~ResolveToSwitch(d) /\ ~CheckMembership(d) /\ ~PointAtOrganization(d) /\ ~Refuse(d)
      /\ ~FindRecovery(d) /\ ~RevokeEverySession(d) /\ ~ProveAgain(d) /\ ~RecordRecovery(d)
      /\ ~ResolveActor(d) /\ ~MakeContext(d) /\ ~ResolveScope(d) /\ ~Drop(d)
      /\ \A s \in Sessions, o \in Orgs : ~IssueSession(d, s, o)
  BY <1>1 DEF Stands, AssertActive, IssueSession, ResolveToSwitch, CheckMembership, PointAtOrganization, Refuse,
     FindRecovery, RevokeEverySession, ProveAgain, RecordRecovery, ResolveActor, MakeContext, ResolveScope, Drop
<1>6. ~SessionRequest(d)
  BY <1>3, <1>4, <1>5 DEF SessionRequest
<1> QED BY <1>0, <1>6, OneAdvances DEF Advances

LEMMA FirstAsked ==
  ASSUME NEW a, NEW k, NEW d \in Clients, asking[d].key = k, asking[d].account = a
  PROVE  \E x \in Clients : asking[x].key = k /\ asking[x].account = a /\ Known(a, k) = asking[x].known
<1> DEFINE askers == {x \in Clients : asking[x].key = k /\ asking[x].account = a}
           x == CHOOSE y \in askers : TRUE
<1>1. askers # {}
  OBVIOUS
<1>2. x \in askers
  BY <1>1
<1>3. Known(a, k) = asking[x].known
  BY <1>1 DEF Known
<1> HIDE DEF x
<1> QED BY <1>2, <1>3

LEMMA MeaningStays ==
  ASSUME SessionIInv, OneMeaning, SessionAction
  PROVE  OneMeaning'
<1>0. asking \in [Clients -> Asking] /\ NoOne \notin Keys
  BY SessionAssumption DEF SessionIInv, SessionTypeOK
<1>1. CASE UNCHANGED asking
  BY <1>1 DEF OneMeaning
<1>2. ASSUME NEW c \in Clients, Advances(c), SessionRequest(c) PROVE OneMeaning'
  <2>1. \A d \in Clients : d # c => asking'[d] = asking[d]
    BY <1>0, <1>2 DEF Advances
  <2>2. CASE asking'[c].key = NoOne
    BY <1>0, <2>1, <2>2 DEF OneMeaning
  <2>3. CASE asking'[c].key = asking[c].key /\ asking'[c].account = asking[c].account /\ asking'[c].known = asking[c].known
    <3>1. \A d \in Clients : /\ asking'[d].key = asking[d].key /\ asking'[d].account = asking[d].account
                             /\ asking'[d].known = asking[d].known
      BY <2>1, <2>3
    <3> QED BY <3>1 DEF OneMeaning
  <2>4. ASSUME NEW a \in Accounts, NEW k \in Keys, AskToRecover(c, a, k) PROVE OneMeaning'
    <3> DEFINE ask == [NoErrand EXCEPT !.errand = "recover", !.stage = "named", !.account = a,
                                       !.key = k, !.known = Known(a, k)]
    <3>1. asking'[c] = ask
      BY <1>0, <2>4 DEF AskToRecover, Begin
    <3>2. ask.key = k /\ ask.account = a /\ ask.known = Known(a, k)
      BY DEF NoErrand
    <3>3. asking[c].key = NoOne
      BY <2>4 DEF AskToRecover, Begin, NoErrand
    <3>4. asking'[c].key = k /\ asking'[c].account = a /\ asking'[c].known = Known(a, k)
      BY <3>1, <3>2
    <3>5. \A d \in Clients : d # c /\ asking[d].key = k /\ asking[d].account = a => asking[d].known = Known(a, k)
      BY FirstAsked DEF OneMeaning
    <3> HIDE DEF ask
    <3> QED BY <2>1, <3>4, <3>5 DEF OneMeaning
  <2> QED BY <1>2, <2>2, <2>3, <2>4, KeptOrAsked
<1> QED BY <1>1, <1>2, OneAdvances

\* What becomes of the recorded keys.
LEMMA RecordSteps ==
  ASSUME SessionIInv, SessionAction
  PROVE  \/ UNCHANGED recovery
         \/ UNCHANGED asking /\ \A k \in Keys : recovery'[k] \in {recovery[k], NoOne}
         \/ \E c \in Clients : RecordRecovery(c)
<1>0. recovery \in [Keys -> Accounts \cup {NoOne}]
  BY DEF SessionIInv, SessionTypeOK
<1>1. ASSUME NEW c \in Clients, SessionRequest(c) PROVE UNCHANGED recovery \/ RecordRecovery(c)
  BY <1>1 DEF SessionRequest, NameAccount, AssertActive, AskToSwitch, IssueSession, ResolveToSwitch,
       CheckMembership, PointAtOrganization, Refuse, AskToRecover, FindRecovery, RevokeEverySession, ProveAgain,
       RecordRecovery, Present, ResolveActor, MakeContext, ResolveScope, Drop
<1>2. ASSUME NEW k \in Keys, PurgeRecovery(k)
      PROVE  UNCHANGED asking /\ \A j \in Keys : recovery'[j] \in {recovery[j], NoOne}
  BY <1>0, <1>2 DEF PurgeRecovery
<1> QED BY <1>1, <1>2 DEF SessionAction, Logout, Expire, SweepSession, HardStop, SetActive, SetLinked, SetRole

LEMMA Recording ==
  ASSUME SessionIInv, NEW c \in Clients, RecordRecovery(c)
  PROVE  /\ asking[c].key \in Keys /\ asking[c].account \in Accounts /\ UNCHANGED session
         /\ \A k \in Keys : k # asking[c].key \/ recovery[k] # NoOne => recovery'[k] = recovery[k]
         /\ recovery[asking[c].key] = NoOne => recovery'[asking[c].key] = asking[c].account
         /\ Stands(c, {"recover"}, "done")' /\ asking'[c].key = asking[c].key
         /\ asking'[c].account = asking[c].account /\ asking'[c].known = asking[c].known
         /\ \A d \in Clients : d # c => asking'[d] = asking[d]
         /\ AllEnded(asking[c].known)
<1>1. /\ asking \in [Clients -> Asking] /\ asking[c] \in Asking /\ Founded(c)
      /\ recovery \in [Keys -> Accounts \cup {NoOne}]
  BY DEF SessionIInv, SessionTypeOK, RequestsSound
<1>2. asking[c].errand = "recover" /\ asking[c].stage = "verified"
  BY DEF RecordRecovery, Stands
<1>3. asking' = [asking EXCEPT ![c] = [asking[c] EXCEPT !.stage = "done"]]
  BY <1>1 DEF RecordRecovery, Reach
<1> QED BY <1>1, <1>2, <1>3 DEF RecordRecovery, Founded, Stands, Asking

LEMMA RecordersStay ==
  ASSUME SessionIInv, RecordedBySomeone, SessionAction
  PROVE  RecordedBySomeone'
<1>1. \A d \in Clients : Stands(d, {"recover"}, "done") => asking'[d] = asking[d] /\ Stands(d, {"recover"}, "done")'
  BY AnsweredStays DEF Stands
<1>2. ASSUME NEW k \in Keys, recovery'[k] = recovery[k], recovery'[k] # NoOne
      PROVE  \E d \in Clients : Stands(d, {"recover"}, "done")' /\ asking'[d].key = k /\ asking'[d].account = recovery'[k]
  <2>1. PICK d \in Clients : Stands(d, {"recover"}, "done") /\ asking[d].key = k /\ asking[d].account = recovery[k]
    BY <1>2 DEF RecordedBySomeone
  <2> QED BY <1>1, <1>2, <2>1
<1>3. ASSUME NEW c \in Clients, RecordRecovery(c), NEW k \in Keys
      PROVE  \/ recovery'[k] = recovery[k]
             \/ Stands(c, {"recover"}, "done")' /\ asking'[c].key = k /\ asking'[c].account = recovery'[k]
  BY <1>3, Recording
<1> QED BY <1>2, <1>3, RecordSteps DEF RecordedBySomeone

LEMMA RecordedStaysEnded ==
  ASSUME SessionIInv, RecoveryIInv, SessionAction
  PROVE  RecordedIsEnded'
<1> SUFFICES ASSUME NEW e \in Clients, asking'[e].errand = "recover",
                    recovery'[asking'[e].key] = asking'[e].account,
                    NEW s \in asking'[e].known
             PROVE  ~IsLive(s)'
  BY DEF RecordedIsEnded, AllEnded
<1>0. /\ asking \in [Clients -> Asking] /\ asking' \in [Clients -> Asking] /\ RequestsSound /\ RequestsSound'
      /\ recovery \in [Keys -> Accounts \cup {NoOne}]
  BY RequestsTyped DEF SessionIInv, SessionTypeOK
<1>1. asking'[e].key \in Keys /\ asking'[e].account \in Accounts /\ s \in Sessions
  BY <1>0 DEF RequestsSound, Founded, Asking
<1>2. ASSUME asking[e].errand = "recover", asking'[e].key = asking[e].key, asking'[e].account = asking[e].account,
             asking'[e].known = asking[e].known
      PROVE  ~IsLive(s)'
  <2>1. session[s].of # NoOne /\ (~IsLive(s) => ~IsLive(s)')
    BY <1>0, <1>1, <1>2, RowsStand DEF RequestsSound, Founded
  <2>2. CASE recovery'[asking[e].key] = recovery[asking[e].key]
    BY <1>2, <2>1, <2>2 DEF RecoveryIInv, RecordedIsEnded, AllEnded
  <2>3. CASE \E c \in Clients : RecordRecovery(c)
    <3>1. PICK c \in Clients : RecordRecovery(c)
      BY <2>3
    <3>2. CASE asking[e].key = asking[c].key /\ recovery[asking[c].key] = NoOne
      <4>1. asking[e].account = asking[c].account /\ asking[e].key \in Keys
        BY <1>1, <1>2, <3>1, <3>2, Recording
      <4>2. asking[e].known = asking[c].known
        BY <3>2, <4>1 DEF RecoveryIInv, OneMeaning
      <4> QED BY <1>2, <2>1, <3>1, <4>2, Recording DEF AllEnded
    <3>3. CASE ~(asking[e].key = asking[c].key /\ recovery[asking[c].key] = NoOne)
      BY <1>1, <1>2, <2>2, <3>1, <3>3, Recording
    <3> QED BY <3>2, <3>3
  <2>4. CASE \A k \in Keys : recovery'[k] \in {recovery[k], NoOne}
    BY <1>1, <1>2, <2>2, <2>4, SessionAssumption
  <2> QED BY <2>2, <2>3, <2>4, RecordSteps
<1>3. ASSUME NEW a \in Accounts, NEW k \in Keys, AskToRecover(e, a, k) PROVE ~IsLive(s)'
  <2> DEFINE ask == [NoErrand EXCEPT !.errand = "recover", !.stage = "named", !.account = a,
                                     !.key = k, !.known = Known(a, k)]
  <2>1. asking'[e] = ask /\ UNCHANGED <<session, recovery>>
    BY <1>0, <1>3 DEF AskToRecover, Begin
  <2>2. ask.key = k /\ ask.account = a /\ ask.known = Known(a, k)
    BY DEF NoErrand
  <2> HIDE DEF ask
  <2>3. recovery[k] = a /\ s \in Known(a, k) /\ a # NoOne
    BY <2>1, <2>2, SessionAssumption
  <2>4. PICK d \in Clients : Stands(d, {"recover"}, "done") /\ asking[d].key = k /\ asking[d].account = a
    BY <2>3 DEF RecoveryIInv, RecordedBySomeone
  <2>5. PICK x \in Clients : asking[x].key = k /\ asking[x].account = a /\ Known(a, k) = asking[x].known
    BY <2>4, FirstAsked
  <2>6. asking[x].known = asking[d].known
    BY <2>4, <2>5 DEF RecoveryIInv, OneMeaning
  <2>7. AllEnded(asking[d].known)
    BY <2>3, <2>4 DEF RecoveryIInv, RecordedIsEnded, Stands
  <2> QED BY <2>1, <2>3, <2>5, <2>6, <2>7 DEF AllEnded, IsLive
<1>4. CASE asking'[e] = asking[e]
  BY <1>2, <1>4
<1>5. CASE SessionRequest(e)
  <2>1. CASE asking'[e].errand \in {asking[e].errand, "none"} /\ asking'[e].key = asking[e].key
             /\ asking'[e].account = asking[e].account /\ asking'[e].known = asking[e].known
    BY <1>2, <2>1
  <2> QED BY <1>3, <1>5, <2>1, KeptOrAsked
<1> QED BY <1>0, <1>4, <1>5, OneAdvances DEF Advances

LEMMA RecoveryInvariant == SessionSpec => []RecoveryIInv
<1>1. SessionInit => RecoveryIInv
  BY SessionAssumption DEF SessionInit, RecoveryIInv, OneMeaning, RecordedBySomeone, RecordedIsEnded, NoErrand
<1>2. SessionIInv /\ RecoveryIInv /\ [SessionNext]_svars => RecoveryIInv'
  <2>1. SessionIInv /\ RecoveryIInv /\ SessionNext => RecoveryIInv'
    BY MeaningStays, RecordersStay, RecordedStaysEnded DEF SessionNext, RecoveryIInv
  <2>2. RecoveryIInv /\ UNCHANGED svars => RecoveryIInv'
    BY DEF svars, RecoveryIInv, OneMeaning, RecordedBySomeone, RecordedIsEnded, Stands, AllEnded, IsLive
  <2> QED BY <2>1, <2>2
<1> QED BY <1>1, <1>2, SessionInvariant, PTL DEF SessionSpec

\* An answered recovery has ended every session there was, whoever recorded it and
\* however many requests asked with its key or died of it.
THEOREM RecoveryEnds == SessionSpec => []EndedAsPromised
<1>1. SessionIInv /\ RecoveryIInv => EndedAsPromised
  BY DEF SessionIInv, RequestsSound, Founded, RecoveryIInv, RecordedIsEnded, EndedAsPromised, AllEnded
<1> QED BY <1>1, SessionInvariant, RecoveryInvariant, PTL
----------------------------------------------------------------------------
(* Authorization.                                                          *)

Authorizing(c) == asking[c].errand \in {"act", "resolve"}

\* What a request has seen while it authorizes: what it saw before, and what is so now.
LEMMA Sees ==
  ASSUME NEW c \in Clients, Observe, Authorizing(c)'
  PROVE  /\ seen'[c].acted <=> seen[c].acted \/ asking'[c].account \in active'
         /\ seen'[c].live <=> seen[c].live \/ (asking'[c].session # NoOne /\ IsLive(asking[c].session)')
         /\ seen[c].org \subseteq seen'[c].org /\ seen[c].owned \subseteq seen'[c].owned
         /\ \A o \in Orgs : asking'[c].account # NoOne /\ role'[o, asking'[c].account] # NoOne => o \in seen'[c].org
         /\ \A o \in Orgs : asking'[c].account # NoOne /\ role'[o, asking'[c].account] = "owner" => o \in seen'[c].owned
<1>1. seen'[c] =
        [org |-> seen[c].org \cup Witness(asking[c])'.org, owned |-> seen[c].owned \cup Witness(asking[c])'.owned,
         acted |-> seen[c].acted \/ Witness(asking[c])'.acted, live |-> seen[c].live \/ Witness(asking[c])'.live]
  BY DEF Observe, Authorizing
<1>2. /\ Witness(asking[c])'.org = {o \in Orgs : asking'[c].account # NoOne /\ role'[o, asking'[c].account] # NoOne}
      /\ Witness(asking[c])'.owned = {o \in Orgs : asking'[c].account # NoOne /\ role'[o, asking'[c].account] = "owner"}
      /\ Witness(asking[c])'.acted = (asking'[c].account \in active')
      /\ Witness(asking[c])'.live = (asking'[c].session # NoOne /\ IsLive(asking[c].session)')
  BY DEF Witness, IsMember
<1>3. /\ seen'[c].acted = (seen[c].acted \/ Witness(asking[c])'.acted)
      /\ seen'[c].live = (seen[c].live \/ Witness(asking[c])'.live)
      /\ seen'[c].org = seen[c].org \cup Witness(asking[c])'.org
      /\ seen'[c].owned = seen[c].owned \cup Witness(asking[c])'.owned
  BY <1>1
<1> QED BY <1>2, <1>3

\* While a request is at rest, or goes on, what it saw stays seen.
LEMMA SeenStays ==
  ASSUME NEW c \in Clients, Served(c), Observe, asking'[c] = asking[c]
  PROVE  Served(c)'
<1>1. CASE ~Authorizing(c)
  BY <1>1 DEF Served, Authorizing
<1>2. CASE Authorizing(c)
  BY <1>2, Sees DEF Served, Authorizing
<1> QED BY <1>1, <1>2

LEMMA StrangersUnserved ==
  ASSUME NEW c \in Clients, asking'[c].errand \notin {"act", "resolve"}, asking'[c].stage \notin {"context", "scoped"}
  PROVE  Served(c)'
BY DEF Served

LEMMA GivingServes ==
  ASSUME SessionIInv, NEW c \in Clients, Give(c)
  PROVE  Served(c)'
<1>1. asking'[c].errand = "none" /\ asking'[c].stage = "done"
  BY DEF Give, NoErrand, SessionIInv, SessionTypeOK
<1> QED BY <1>1, StrangersUnserved

LEMMA OthersServed ==
  ASSUME SessionIInv, Observe, NEW c \in Clients, Served(c), SessionRequest(c),
         ~\E s \in Sessions, e \in {"act", "resolve"} : Present(c, s, e),
         ~(ResolveActor(c) \/ MakeContext(c) \/ ResolveScope(c))
  PROVE  Served(c)'
<1> DEFINE Strange == asking'[c].errand \notin {"act", "resolve"} /\ asking'[c].stage \notin {"context", "scoped"}
<1>0. asking \in [Clients -> Asking] /\ asking[c] \in Asking
  BY DEF SessionIInv, SessionTypeOK
<1>1. ASSUME NEW ask, Begin(c, ask), ask.errand \notin {"act", "resolve"}, ask.stage \notin {"context", "scoped"}
      PROVE  Strange
  BY <1>0, <1>1 DEF Begin
<1>2. ASSUME NEW stage \in Stage \ {"context", "scoped"}, Reach(c, stage), asking[c].errand \notin {"act", "resolve"}
      PROVE  Strange
  BY <1>0, <1>2 DEF Reach, Asking
<1>3. ASSUME NEW a \in Accounts, NameAccount(c, a) PROVE Strange
  <2> DEFINE ask == [NoErrand EXCEPT !.errand = "sign in", !.stage = "named", !.account = a]
  <2>1. ask.errand = "sign in" /\ ask.stage = "named"
    BY DEF NoErrand
  <2>2. Begin(c, ask)
    BY <1>3 DEF NameAccount
  <2> HIDE DEF ask
  <2> QED BY <1>1, <2>1, <2>2
<1>4. ASSUME NEW s \in Sessions, NEW o \in Orgs, AskToSwitch(c, s, o) PROVE Strange
  <2> DEFINE ask == [NoErrand EXCEPT !.errand = "switch", !.stage = "issued", !.session = s,
                                     !.account = session[s].of, !.org = o]
  <2>1. ask.errand = "switch" /\ ask.stage = "issued"
    BY DEF NoErrand
  <2>2. Begin(c, ask)
    BY <1>4 DEF AskToSwitch
  <2> HIDE DEF ask
  <2> QED BY <1>1, <2>1, <2>2
<1>5. ASSUME NEW a \in Accounts, NEW k \in Keys, AskToRecover(c, a, k) PROVE Strange
  <2> DEFINE ask == [NoErrand EXCEPT !.errand = "recover", !.stage = "named", !.account = a,
                                     !.key = k, !.known = Known(a, k)]
  <2>1. ask.errand = "recover" /\ ask.stage = "named"
    BY DEF NoErrand
  <2>2. Begin(c, ask)
    BY <1>5 DEF AskToRecover
  <2> HIDE DEF ask
  <2> QED BY <1>1, <2>1, <2>2
<1>6. ASSUME NEW s \in Sessions, NEW o \in Orgs, IssueSession(c, s, o) PROVE Strange
  BY <1>0, <1>6 DEF IssueSession, Asking, Stands
<1>7. ASSUME Drop(c) PROVE Strange
  BY <1>0, <1>7 DEF Drop, Asking
<1>8. {"cleared", "found", "member", "refused", "rejected", "checked", "done", "revoked", "verified"}
        \subseteq Stage \ {"context", "scoped"}
  BY DEF Stage
<1>9. CASE AssertActive(c) \/ ResolveToSwitch(c) \/ CheckMembership(c) \/ PointAtOrganization(c) \/ Refuse(c)
           \/ RevokeEverySession(c) \/ ProveAgain(c) \/ RecordRecovery(c)
  <2>1. \/ Give(c)
        \/ /\ asking[c].errand \notin {"act", "resolve"}
           /\ \E stage \in {"cleared", "found", "member", "refused", "rejected", "done", "revoked", "verified"} :
                Reach(c, stage)
    BY <1>9 DEF AssertActive, ResolveToSwitch, CheckMembership, PointAtOrganization, Refuse,
       RevokeEverySession, ProveAgain, RecordRecovery, Stands
  <2> QED BY <1>2, <1>8, <2>1, GivingServes, StrangersUnserved
<1>10. CASE FindRecovery(c)
  <2>1. asking[c].errand = "recover" /\ (Reach(c, "checked") \/ Reach(c, "done"))
    BY <1>10 DEF FindRecovery, Reach, Stands
  <2> QED BY <1>2, <1>8, <2>1, StrangersUnserved
<1> QED BY <1>3, <1>4, <1>5, <1>6, <1>7, <1>9, <1>10, StrangersUnserved DEF SessionRequest

LEMMA ServedOnWhatWasSeen ==
  ASSUME SessionIInv, SessionAction, Observe, NEW c \in Clients, Served(c),
         \/ \E s \in Sessions, e \in {"act", "resolve"} : Present(c, s, e)
         \/ ResolveActor(c) \/ MakeContext(c) \/ ResolveScope(c)
  PROVE  Served(c)'
<1>0. /\ asking \in [Clients -> Asking] /\ asking[c] \in Asking /\ Founded(c)
      /\ session \in [Sessions -> SessionState]
  BY DEF SessionIInv, SessionTypeOK, RequestsSound
<1>1. ASSUME NEW s \in Sessions, NEW e \in {"act", "resolve"}, Present(c, s, e) PROVE Served(c)'
  <2> DEFINE ask == [NoErrand EXCEPT !.errand = e, !.stage = "found", !.session = s,
                                     !.account = session[s].of, !.org = session[s].org]
  <2>1. asking'[c] = ask /\ IsLive(s) /\ UNCHANGED session
    BY <1>0, <1>1 DEF Present, Begin
  <2>2. ask.errand = e /\ ask.stage = "found" /\ ask.session = s
    BY DEF NoErrand
  <2> HIDE DEF ask
  <2>3. s # NoOne /\ IsLive(asking[c].session)'
    BY <2>1, <2>2, SessionAssumption DEF IsLive
  <2>4. Authorizing(c)'
    BY <2>1, <2>2 DEF Authorizing
  <2>5. seen'[c].live
    BY <2>1, <2>2, <2>3, <2>4, Sees
  <2> QED BY <2>1, <2>2, <2>5 DEF Served
<1>2. ASSUME NEW stage, Reach(c, stage), Authorizing(c)
      PROVE  /\ asking'[c].stage = stage /\ asking'[c].errand = asking[c].errand /\ asking'[c].org = asking[c].org
             /\ asking'[c].account = asking[c].account /\ asking'[c].role = asking[c].role
             /\ Authorizing(c)'
  BY <1>0, <1>2 DEF Reach, Authorizing, Asking
<1>3. CASE ResolveActor(c) /\ ~Give(c)
  <2>1. Reach(c, "verified") /\ asking[c].account \in active' /\ Authorizing(c)
    BY <1>3 DEF ResolveActor, Stands, Authorizing, accountVars
  <2> QED BY <1>2, <2>1, Sees DEF Served, Authorizing
<1>4. CASE ResolveScope(c) /\ ~Give(c)
  <2>1. Reach(c, "scoped") /\ Authorizing(c) /\ asking[c].stage = "context"
    BY <1>4 DEF ResolveScope, Stands, Authorizing
  <2> QED BY <1>2, <2>1, Sees DEF Served, Authorizing
<1>5. CASE MakeContext(c) /\ ~Give(c)
  <2> DEFINE held == role[asking[c].org, asking[c].account]
  <2>1. /\ asking'[c] = [asking[c] EXCEPT !.role = held, !.stage = "context"]
        /\ held # NoOne /\ asking[c].org # NoOne /\ UNCHANGED role
        /\ Authorizing(c) /\ asking[c].stage = "verified"
    BY <1>0, <1>5 DEF MakeContext, Stands, Authorizing, accountVars
  <2> HIDE DEF held
  <2>2. /\ asking'[c].role = held /\ asking'[c].stage = "context" /\ asking'[c].errand = asking[c].errand
        /\ asking'[c].org = asking[c].org /\ asking'[c].account = asking[c].account
    BY <1>0, <2>1 DEF Asking
  <2>3. asking[c].org \in Orgs /\ asking[c].account # NoOne
    BY <1>0, <2>1, SessionAssumption DEF Asking, Founded, Authorizing
  <2>4. role'[asking'[c].org, asking'[c].account] = held
    BY <2>1, <2>2 DEF held
  <2> QED BY <2>1, <2>2, <2>3, <2>4, Sees DEF Served, Authorizing
<1> QED BY <1>1, <1>3, <1>4, <1>5, GivingServes

LEMMA ServedInvariant == SessionSpec => []ServedIInv
<1>1. SessionInit => ServedIInv
  BY DEF SessionInit, ServedIInv, Served, NoErrand
<1>2. SessionIInv /\ ServedIInv /\ [SessionNext]_svars => ServedIInv'
  <2>1. ASSUME SessionIInv, ServedIInv, SessionAction, Observe PROVE ServedIInv'
    <3>1. ASSUME NEW c \in Clients, SessionRequest(c), \A d \in Clients : d # c => asking'[d] = asking[d]
          PROVE  ServedIInv'
      BY <2>1, <3>1, SeenStays, OthersServed, ServedOnWhatWasSeen DEF ServedIInv
    <3>2. CASE UNCHANGED asking
      BY <2>1, <3>2, SeenStays DEF ServedIInv
    <3>3. ASSUME NEW c \in Clients, Advances(c) PROVE \A d \in Clients : d # c => asking'[d] = asking[d]
      BY <2>1, <3>3 DEF Advances, SessionIInv, SessionTypeOK
    <3> QED BY <2>1, <3>1, <3>2, <3>3, OneAdvances
  <2>2. ServedIInv /\ UNCHANGED svars => ServedIInv'
    BY DEF svars, ServedIInv, Served
  <2> QED BY <2>1, <2>2 DEF SessionNext
<1> QED BY <1>1, <1>2, SessionInvariant, PTL DEF SessionSpec

\* Whoever is served was a member, or an owner, with a live session and an active
\* account while its request ran: for any number of accounts and organizations,
\* although every fact is read in a transaction of its own.
THEOREM ServedMembers == SessionSpec => []ServedWhileMember
<1>1. ServedIInv => ServedWhileMember
  BY DEF ServedIInv, Served, ServedWhileMember
<1> QED BY <1>1, ServedInvariant, PTL

-----------------------------------------------------------------------------
(* Workspace records: WorkspaceRecords.                                    *)

ContentRow == [state : ContentState, retained : BOOLEAN, row : BOOLEAN, object : BOOLEAN]
VersionRow == [state : VersionState, sealed : BOOLEAN, due : BOOLEAN]
RunRow == [of : Versions, state : RunState, active : BOOLEAN, bound : BOOLEAN]
RequestRow == [task : Task, at : Step, object : Objects]

OnVersions == {"create", "profile", "delete", "purge"}
OnRuns == {"start", "complete", "fail"}

\* What a request knows: its object is of the sort its task is about; a purge
\* is of a version that is due; a deletion past its content found it ended; a
\* run to be started is not there.
RequestGood(q) ==
  /\ asked[q].task \in OnVersions => asked[q].object \in Versions
  /\ asked[q].task \in OnRuns => asked[q].object \in Runs
  /\ asked[q].task = "purge" => version[asked[q].object].due
  /\ asked[q].task = "delete" /\ asked[q].at \in {"ended", "version"} =>
       content[asked[q].object].state = "deleted"
  /\ asked[q].task = "start" /\ asked[q].at # "done" => run[asked[q].object].state = "absent"

\* A run has one start, and nobody else asked anything of it before.
StartsAlone ==
  \A p, q \in Requests :
    p # q /\ asked[q].task = "start" /\ asked[q].at # "done" => asked[p].object # asked[q].object

\* What is true of a version's own rows.
VersionGood(v) ==
  /\ version[v].due => version[v].sealed
  /\ version[v].sealed => \E r \in Runs : run[r].of = v /\ run[r].bound
  /\ ~content[v].row => content[v].state = "deleted" \/ version[v].due
  /\ ~content[v].object /\ content[v].state = "live" => version[v].due
  /\ version[v].state # "absent" => content[v].retained
  /\ v \notin restored =>
       /\ version[v].state = "tombstoned" <=> v \in ledger
       /\ version[v].state = "tombstoned" => content[v].state = "deleted"
       /\ deletions[v] = IF version[v].state = "tombstoned" THEN 1 ELSE 0
       /\ graves[v] = IF version[v].state = "tombstoned" THEN 1 ELSE 0

\* What is true of a run and its version.
RunGood(r) ==
  LET ended == version[run[r].of].state = "tombstoned" IN
  /\ run[r].bound <=> run[r].state = "completed"
  /\ run[r].bound => version[run[r].of].sealed
  /\ run[r].state = "absent" => graves[r] = 0
  /\ run[r].state # "absent" /\ run[r].of \notin restored =>
       /\ graves[r] = IF ended THEN 1 ELSE 0
       /\ run[r].active <=> ~ended

\* An object that went before its row was removed by a purge.
PurgeSeen ==
  \A v \in Versions : content[v].row /\ ~content[v].object =>
    \E q \in Requests : At(q, "purge", "ended") \/ At(q, "purge", "done")

\* The inductive invariant of the records.
WorkspaceIInv ==
  /\ WorkspaceTypeOK
  /\ \A q \in Requests : RequestGood(q)
  /\ StartsAlone
  /\ \A v \in Versions : VersionGood(v)
  /\ \A r \in Runs : RunGood(r)
  /\ PurgeSeen

LEMMA TypesOfRows ==
  WorkspaceTypeOK <=>
    /\ content \in [Versions -> ContentRow]
    /\ version \in [Versions -> VersionRow]
    /\ run \in [Runs -> RunRow]
    /\ pins \subseteq Objects
    /\ profiles \subseteq Versions
    /\ graves \in [Objects -> Nat]
    /\ ledger \subseteq Versions
    /\ deletions \in [Versions -> Nat]
    /\ lockedBy \in [Objects -> Requests \cup {Nobody}]
    /\ asked \in [Requests -> RequestRow]
    /\ restored \subseteq Versions
  BY DEF WorkspaceTypeOK, ContentRow, VersionRow, RunRow, RequestRow

LEMMA InvariantImpliesEndsTogether == WorkspaceIInv => EndsTogether
<1> SUFFICES ASSUME WorkspaceIInv, NEW v \in Versions \ restored
             PROVE  LET ended == version[v].state = "tombstoned" IN
                    /\ ended <=> v \in ledger
                    /\ ended => content[v].state = "deleted"
                    /\ deletions[v] = IF ended THEN 1 ELSE 0
                    /\ \A o \in {v} \cup RunsOf(v) : graves[o] = IF ended THEN 1 ELSE 0
                    /\ \A r \in RunsOf(v) : run[r].active <=> ~ended
  BY DEF EndsTogether
<1>1. VersionGood(v) /\ \A r \in RunsOf(v) : RunGood(r)
  BY DEF WorkspaceIInv, RunsOf
<1>2. \A r \in RunsOf(v) : run[r].of = v /\ run[r].state # "absent"
  BY DEF RunsOf
<1> QED BY <1>1, <1>2 DEF VersionGood, RunGood

LEMMA InvariantImpliesSealed == WorkspaceIInv => SealedByCompletion
<1> SUFFICES ASSUME WorkspaceIInv
             PROVE  SealedByCompletion
  OBVIOUS
<1>1. \A r \in Runs : /\ run[r].bound <=> run[r].state = "completed"
                      /\ run[r].bound => version[run[r].of].sealed
  BY DEF WorkspaceIInv, RunGood
<1>2. ASSUME NEW v \in Versions
      PROVE  /\ ~content[v].object /\ content[v].state = "live" =>
                  version[v].due /\ \E r \in RunsOf(v) : run[r].bound
             /\ version[v].state = "active" => content[v].retained
  <2>1. VersionGood(v)
    BY DEF WorkspaceIInv
  <2>2. \A r \in Runs : run[r].of = v /\ run[r].bound => r \in RunsOf(v)
    BY <1>1 DEF RunsOf
  <2> QED BY <2>1, <2>2 DEF VersionGood
<1> QED BY <1>1, <1>2 DEF SealedByCompletion, WorkspaceIInv, PurgeSeen

LEMMA WorkspaceBegins == WorkspaceInit => WorkspaceIInv
<1> SUFFICES ASSUME WorkspaceInit
             PROVE  WorkspaceIInv
  OBVIOUS
<1>1. /\ version \in [Versions -> VersionRow]
      /\ \A v \in Versions : ~version[v].sealed /\ ~version[v].due
                             /\ version[v].state \in {"absent", "active"}
  <2>1. version \in [Versions -> {FirstVersion(s) : s \in {"absent", "active"}}]
    BY DEF WorkspaceInit
  <2>2. \A s \in {"absent", "active"} :
          LET f == FirstVersion(s) IN f \in VersionRow /\ ~f.sealed /\ ~f.due /\ f.state = s
    BY DEF FirstVersion, VersionRow, VersionState
  <2>3. \A v \in Versions : \E s \in {"absent", "active"} : version[v] = FirstVersion(s)
    BY <2>1
  <2>4. version = [v \in Versions |-> version[v]]
    BY <2>1
  <2> QED BY <2>2, <2>3, <2>4
<1>2. /\ content \in [Versions -> ContentRow]
      /\ \A v \in Versions : /\ content[v].row /\ content[v].object /\ content[v].state = "live"
                             /\ version[v].state # "absent" => content[v].retained
  BY <1>1 DEF WorkspaceInit, ContentRow, ContentState
<1>3. /\ run \in [Runs -> RunRow]
      /\ \A r \in Runs : /\ ~run[r].bound /\ run[r].state # "completed"
                         /\ run[r].state # "absent" => run[r].active
  <2>1. run \in [Runs -> {FirstRun(m[1], m[2]) : m \in Versions \X {"absent", "started"}}]
    BY DEF WorkspaceInit
  <2>2. \A m \in Versions \X {"absent", "started"} :
          LET f == FirstRun(m[1], m[2]) IN
          f \in RunRow /\ ~f.bound /\ f.state # "completed" /\ (f.state # "absent" => f.active)
    BY DEF FirstRun, RunRow, RunState
  <2>3. \A r \in Runs : \E m \in Versions \X {"absent", "started"} : run[r] = FirstRun(m[1], m[2])
    BY <2>1
  <2>4. run = [r \in Runs |-> run[r]]
    BY <2>1
  <2> QED BY <2>2, <2>3, <2>4
<1>4. asked \in [Requests -> RequestRow] /\ \A q \in Requests : asked[q].task = "none"
  BY DEF WorkspaceInit, RequestRow, Task, Step, Objects
<1>5. WorkspaceTypeOK
  BY <1>1, <1>2, <1>3, <1>4, TypesOfRows DEF WorkspaceInit
<1>6. \A v \in Versions : VersionGood(v)
  BY <1>1, <1>2 DEF WorkspaceInit, VersionGood, Objects
<1>7. ASSUME NEW r \in Runs
      PROVE  RunGood(r)
  <2>1. run[r].of \in Versions
    BY <1>3 DEF RunRow
  <2>2. graves[r] = 0 /\ version[run[r].of].state # "tombstoned"
    BY <1>1, <2>1 DEF WorkspaceInit, Objects
  <2>3. ~run[r].bound /\ run[r].state # "completed" /\ (run[r].state # "absent" => run[r].active)
    BY <1>3
  <2> QED BY <2>2, <2>3 DEF RunGood
<1> QED BY <1>2, <1>4, <1>5, <1>6, <1>7 DEF WorkspaceIInv, RequestGood, OnVersions, OnRuns,
     StartsAlone, PurgeSeen

-----------------------------------------------------------------------------
(* What a request's step does to the requests.                             *)

LEMMA AskedMoves ==
  ASSUME asked \in [Requests -> RequestRow], NEW q \in Requests, NEW w \in Step,
         asked' = [asked EXCEPT ![q].at = w]
  PROVE  /\ asked' \in [Requests -> RequestRow]
         /\ asked'[q].task = asked[q].task /\ asked'[q].object = asked[q].object
         /\ asked'[q].at = w
         /\ \A p \in Requests : p # q => asked'[p] = asked[p]
  BY DEF RequestRow

\* The records as requests depend on them: what is due or deleted stays so.
Onward ==
  /\ \A v \in Versions : /\ version[v].due => version'[v].due
                         /\ content[v].state = "deleted" => content'[v].state = "deleted"

\* The step of one request that goes on or finishes keeps what the others know,
\* if it starts no run but its own.
LEMMA RequestStep ==
  ASSUME WorkspaceIInv, NEW q \in Requests, NEW w \in Step,
         asked' = [asked EXCEPT ![q].at = w],
         Onward,
         \A r \in Runs : run[r].state = "absent" =>
            \/ run'[r].state = "absent"
            \/ asked[q].task = "start" /\ asked[q].at # "done" /\ asked[q].object = r,
         asked[q].at # "done",
         asked[q].task = "start" => w \in {"done", "version"},
         asked[q].task = "start" /\ w # "done" => run' = run,
         asked[q].task = "delete" /\ w \in {"ended", "version"} =>
            content'[asked[q].object].state = "deleted",
         asked[q].task = "purge" => w \in {"ended", "done"}
  PROVE  /\ asked' \in [Requests -> RequestRow]
         /\ (\A p \in Requests : RequestGood(p))'
         /\ StartsAlone'
         /\ \A p \in Requests : At(p, "purge", "ended") \/ At(p, "purge", "done") =>
              At(p, "purge", "ended")' \/ At(p, "purge", "done")'
<1>t. asked \in [Requests -> RequestRow]
  BY TypesOfRows DEF WorkspaceIInv
<1>1. /\ asked' \in [Requests -> RequestRow]
      /\ asked'[q].task = asked[q].task /\ asked'[q].object = asked[q].object
      /\ asked'[q].at = w
      /\ \A p \in Requests : p # q => asked'[p] = asked[p]
  BY <1>t, AskedMoves
<1>2. ASSUME NEW p \in Requests
      PROVE  RequestGood(p)'
  <2>1. RequestGood(p)
    BY DEF WorkspaceIInv
  <2>2. CASE p = q
    <3>1. asked[q].task = "start" => asked[q].object \in Runs
      BY <2>1, <2>2 DEF RequestGood, OnRuns
    <3> QED BY <1>1, <2>1, <2>2, <3>1 DEF RequestGood, Onward, OnVersions, OnRuns
  <2>3. CASE p # q
    <3>1. asked'[p] = asked[p]
      BY <1>1, <2>3
    <3>2. asked[p].task = "start" /\ asked[p].at # "done" =>
            run'[asked[p].object].state = "absent"
      <4> SUFFICES ASSUME asked[p].task = "start", asked[p].at # "done"
                   PROVE  run'[asked[p].object].state = "absent"
        OBVIOUS
      <4>1. asked[p].object \in Runs /\ run[asked[p].object].state = "absent"
        BY <2>1 DEF RequestGood, OnRuns
      <4>2. asked[q].object # asked[p].object
        BY <2>3 DEF WorkspaceIInv, StartsAlone
      <4> QED BY <4>1, <4>2
    <3> QED BY <2>1, <3>1, <3>2 DEF RequestGood, Onward, OnVersions, OnRuns
  <2> QED BY <2>2, <2>3
<1>3. StartsAlone'
  <2> SUFFICES ASSUME NEW p \in Requests, NEW s \in Requests, p # s,
                      asked'[s].task = "start", asked'[s].at # "done"
               PROVE  asked'[p].object # asked'[s].object
    BY DEF StartsAlone
  <2>1. asked[s].task = "start" /\ asked[s].at # "done"
    BY <1>1
  <2>2. asked'[p].object = asked[p].object /\ asked'[s].object = asked[s].object
    BY <1>1
  <2> QED BY <2>1, <2>2 DEF WorkspaceIInv, StartsAlone
<1>4. ASSUME NEW p \in Requests, At(p, "purge", "ended") \/ At(p, "purge", "done")
      PROVE  At(p, "purge", "ended")' \/ At(p, "purge", "done")'
  BY <1>1, <1>4 DEF At
<1> QED BY <1>1, <1>2, <1>3, <1>4

\* No version or run row changes.
RecordsStay == UNCHANGED <<content, version, run, graves, ledger, deletions, restored>>

LEMMA GoodStays ==
  ASSUME WorkspaceIInv, RecordsStay
  PROVE  (\A v \in Versions : VersionGood(v))' /\ (\A r \in Runs : RunGood(r))'
  BY DEF WorkspaceIInv, RecordsStay, VersionGood, RunGood

LEMMA PurgeStaysSeen ==
  ASSUME WorkspaceIInv,
         \A v \in Versions : content'[v].row /\ ~content'[v].object =>
            content[v].row /\ ~content[v].object,
         \A p \in Requests : At(p, "purge", "ended") \/ At(p, "purge", "done") =>
            At(p, "purge", "ended")' \/ At(p, "purge", "done")'
  PROVE  PurgeSeen'
  BY DEF WorkspaceIInv, PurgeSeen, At

LEMMA ReleaseTyped ==
  ASSUME WorkspaceIInv, NEW q, Release(q)
  PROVE  lockedBy' \in [Objects -> Requests \cup {Nobody}]
  BY TypesOfRows DEF WorkspaceIInv, Release

-----------------------------------------------------------------------------
(* Steps that write no version and no run.                                 *)

\* A first read: the request is new, and asks of what it found.
LEMMA ReadPreserves ==
  ASSUME WorkspaceIInv, NEW q \in Requests, Read(q)
  PROVE  WorkspaceIInv'
<1>t. asked \in [Requests -> RequestRow] /\ run \in [Runs -> RunRow]
  BY TypesOfRows DEF WorkspaceIInv
<1>1. UNCHANGED <<content, Records, lockedBy, restored>> /\ RecordsStay
      /\ asked[q].task = "none"
  BY DEF Read, Records, RecordsStay, Fresh
<1>2. PICK t \in Task, o \in Objects :
        /\ asked' = [asked EXCEPT ![q] = [task |-> t, at |-> "read", object |-> o]]
        /\ t # "none"
        /\ t \in OnVersions => o \in Versions
        /\ t \in OnRuns => o \in Runs
        /\ t = "purge" => version[o].due
        /\ t = "start" => run[o].state = "absent" /\ \A p \in Requests : asked[p].object # o
        /\ t # "start" /\ o \in Runs => run[o].state # "absent"
  <2>1. Versions \cap Runs = {}
    BY WorkspaceAssumption
  <2>2. ASSUME NEW v \in Versions,
               \/ Move(q, "create", "read", v) \/ Move(q, "profile", "read", v)
               \/ Move(q, "delete", "read", v)
               \/ version[v].due /\ Move(q, "purge", "read", v)
        PROVE  \E t \in Task, o \in Objects :
        /\ asked' = [asked EXCEPT ![q] = [task |-> t, at |-> "read", object |-> o]]
        /\ t # "none"
        /\ t \in OnVersions => o \in Versions
        /\ t \in OnRuns => o \in Runs
        /\ t = "purge" => version[o].due
        /\ t = "start" => run[o].state = "absent" /\ \A p \in Requests : asked[p].object # o
        /\ t # "start" /\ o \in Runs => run[o].state # "absent"
    BY <2>1, <2>2 DEF Move, Task, Objects, OnVersions, OnRuns
  <2>3. ASSUME NEW r \in Runs,
               \/ /\ run[r].state = "absent" /\ \A p \in Requests : asked[p].object # r
                  /\ Move(q, "start", "read", r)
               \/ run[r].state # "absent" /\ Move(q, "complete", "read", r)
               \/ run[r].state # "absent" /\ Move(q, "fail", "read", r)
        PROVE  \E t \in Task, o \in Objects :
        /\ asked' = [asked EXCEPT ![q] = [task |-> t, at |-> "read", object |-> o]]
        /\ t # "none"
        /\ t \in OnVersions => o \in Versions
        /\ t \in OnRuns => o \in Runs
        /\ t = "purge" => version[o].due
        /\ t = "start" => run[o].state = "absent" /\ \A p \in Requests : asked[p].object # o
        /\ t # "start" /\ o \in Runs => run[o].state # "absent"
    BY <2>3 DEF Move, Task, Objects, OnVersions, OnRuns
  <2>4. ASSUME NEW o \in Objects, Pinnable(o), Move(q, "pin", "read", o)
        PROVE  \E t \in Task, x \in Objects :
        /\ asked' = [asked EXCEPT ![q] = [task |-> t, at |-> "read", object |-> x]]
        /\ t # "none"
        /\ t \in OnVersions => x \in Versions
        /\ t \in OnRuns => x \in Runs
        /\ t = "purge" => version[x].due
        /\ t = "start" => run[x].state = "absent" /\ \A p \in Requests : asked[p].object # x
        /\ t # "start" /\ x \in Runs => run[x].state # "absent"
    <3>1. o \in Runs => run[o].state # "absent"
      BY <2>1, <2>4 DEF Pinnable
    <3> QED BY <2>4, <3>1 DEF Move, Task, OnVersions, OnRuns
  <2> QED BY <2>2, <2>3, <2>4 DEF Read, LiveRun
<1>3. /\ asked' \in [Requests -> RequestRow]
      /\ asked'[q].task = t /\ asked'[q].at = "read" /\ asked'[q].object = o
      /\ \A p \in Requests : p # q => asked'[p] = asked[p]
  BY <1>t, <1>2 DEF RequestRow, Step
<1>4. ASSUME NEW p \in Requests
      PROVE  RequestGood(p)'
  <2>1. CASE p = q
    BY <1>1, <1>2, <1>3, <2>1 DEF RequestGood, RecordsStay
  <2>2. CASE p # q
    <3>1. RequestGood(p) /\ asked'[p] = asked[p]
      BY <1>3, <2>2 DEF WorkspaceIInv
    <3> QED BY <1>1, <3>1 DEF RequestGood, RecordsStay
  <2> QED BY <2>1, <2>2
<1>5. StartsAlone'
  <2> SUFFICES ASSUME NEW p \in Requests, NEW s \in Requests, p # s,
                      asked'[s].task = "start", asked'[s].at # "done"
               PROVE  asked'[p].object # asked'[s].object
    BY DEF StartsAlone
  <2>1. CASE s = q
    BY <1>2, <1>3, <2>1
  <2>2. CASE s # q /\ p = q
    <3>1. asked[s].object \in Runs /\ run[asked[s].object].state = "absent"
      BY <1>3, <2>2 DEF WorkspaceIInv, RequestGood, OnRuns
    <3>2. t = "start" => o # asked[s].object
      BY <1>2
    <3>3. t # "start" => o # asked[s].object
      BY <1>2, <3>1
    <3> QED BY <1>3, <2>2, <3>2, <3>3
  <2>3. CASE s # q /\ p # q
    BY <1>3, <2>3 DEF WorkspaceIInv, StartsAlone
  <2> QED BY <2>1, <2>2, <2>3
<1>6. \A p \in Requests : At(p, "purge", "ended") \/ At(p, "purge", "done") =>
        At(p, "purge", "ended")' \/ At(p, "purge", "done")'
  BY <1>1, <1>3 DEF At
<1>7. PurgeSeen'
  BY <1>1, <1>6, PurgeStaysSeen DEF RecordsStay
<1>8. WorkspaceTypeOK'
  BY <1>1, <1>3 DEF WorkspaceIInv, WorkspaceTypeOK, Records, RequestRow
<1> QED BY <1>1, <1>4, <1>5, <1>7, <1>8, GoodStays DEF WorkspaceIInv

\* Locks, refusals, pins and profiles, and deaths.
LEMMA QuietPreserves ==
  ASSUME WorkspaceIInv, NEW q \in Requests,
         \/ \E o \in Objects : Lock(q, o)
         \/ CreateRefused(q) \/ AddProfile(q) \/ Pin(q) \/ EndDerivedContent(q)
         \/ DeletionDeferred(q) \/ AlreadyDeleted(q) \/ Abandon(q)
  PROVE  WorkspaceIInv'
<1>t. /\ asked[q] \in RequestRow /\ lockedBy \in [Objects -> Requests \cup {Nobody}]
      /\ RequestGood(q)
  BY TypesOfRows DEF WorkspaceIInv
<1>1. RecordsStay
  BY DEF Lock, CreateRefused, AddProfile, Pin, EndDerivedContent, DeletionDeferred, AlreadyDeleted,
     Abandon, Records, RecordsStay
<1>2. pins' \subseteq Objects /\ profiles' \subseteq Versions
  BY <1>t, TypesOfRows DEF Lock, CreateRefused, AddProfile, Pin, EndDerivedContent,
     DeletionDeferred, AlreadyDeleted, Abandon, Records, WorkspaceIInv, RequestGood, OnVersions, At,
     RequestRow
<1>3. lockedBy' \in [Objects -> Requests \cup {Nobody}]
  BY <1>t, ReleaseTyped DEF Lock, CreateRefused, AddProfile, Pin, EndDerivedContent,
     DeletionDeferred, AlreadyDeleted, Abandon, Finish
<1>5. PICK w \in Step :
        /\ asked' = [asked EXCEPT ![q].at = w]
        /\ asked[q].at # "done"
        /\ asked[q].task = "start" => w \in {"done", "version"}
        /\ asked[q].task = "delete" /\ w \in {"ended", "version"} =>
             content[asked[q].object].state = "deleted"
        /\ asked[q].task = "purge" => w \in {"ended", "done"}
  <2>1. ASSUME NEW o \in Objects, Lock(q, o)
        PROVE  \E w \in Step :
        /\ asked' = [asked EXCEPT ![q].at = w]
        /\ asked[q].at # "done"
        /\ asked[q].task = "start" => w \in {"done", "version"}
        /\ asked[q].task = "delete" /\ w \in {"ended", "version"} =>
             content[asked[q].object].state = "deleted"
        /\ asked[q].task = "purge" => w \in {"ended", "done"}
    <3> DEFINE w == IF LocksVersion(q) \/ At(q, "delete", "version") THEN "version" ELSE "runs"
    <3>1. asked' = [asked EXCEPT ![q].at = w]
      BY <2>1 DEF Lock
    <3>2. LocksVersion(q) \/ LocksRun(q) \/ At(q, "delete", "version")
      BY <2>1 DEF Lock, Wanted
    <3>3. /\ asked[q].at # "done" /\ asked[q].task # "purge"
          /\ asked[q].task = "start" => w = "version"
          /\ asked[q].task = "delete" => asked[q].at \in {"ended", "version"}
      BY <3>2 DEF LocksVersion, LocksRun, At
    <3>4. asked[q].task = "delete" => content[asked[q].object].state = "deleted"
      BY <1>t, <3>3 DEF RequestGood
    <3> QED BY <3>1, <3>3, <3>4 DEF Step
  <2>2. CASE EndDerivedContent(q)
    <3> DEFINE v == asked[q].object
    <3>1. /\ asked[q].task = "delete" /\ asked[q].at = "read"
          /\ HasSessions(v) => content[v].state = "deleted"
          /\ asked' = [asked EXCEPT ![q].at = "ended"]
      BY <2>2 DEF EndDerivedContent, At
    <3>2. v \in Versions
      BY <1>t, <3>1 DEF RequestGood, OnVersions
    <3>3. VersionGood(v)
      BY <3>2 DEF WorkspaceIInv
    <3>4. version[v].due => RunsOf(v) # {}
      <4> SUFFICES ASSUME version[v].due
                   PROVE  RunsOf(v) # {}
        OBVIOUS
      <4>1. PICK r \in Runs : run[r].of = v /\ run[r].bound
        BY <3>3 DEF VersionGood
      <4>2. run[r].state = "completed"
        BY <4>1 DEF WorkspaceIInv, RunGood
      <4> QED BY <4>1, <4>2 DEF RunsOf
    <3>5. content[v].state = "deleted"
      BY <3>1, <3>3, <3>4 DEF HasSessions, VersionGood
    <3> QED BY <3>1, <3>5 DEF Step
  <2>3. CASE CreateRefused(q) \/ AddProfile(q) \/ Pin(q) \/ DeletionDeferred(q)
             \/ AlreadyDeleted(q) \/ Abandon(q)
    BY <2>3 DEF CreateRefused, AddProfile, Pin, DeletionDeferred, AlreadyDeleted, Abandon, Finish,
       At, Step
  <2> QED BY <2>1, <2>2, <2>3
<1>6. Onward
  BY <1>1 DEF Onward, RecordsStay
<1>7. /\ asked' \in [Requests -> RequestRow]
      /\ (\A p \in Requests : RequestGood(p))'
      /\ StartsAlone'
      /\ \A p \in Requests : At(p, "purge", "ended") \/ At(p, "purge", "done") =>
           At(p, "purge", "ended")' \/ At(p, "purge", "done")'
  BY <1>1, <1>5, <1>6, RequestStep DEF RecordsStay
<1>8. PurgeSeen'
  BY <1>1, <1>7, PurgeStaysSeen DEF RecordsStay
<1>9. WorkspaceTypeOK'
  BY <1>1, <1>2, <1>3, <1>7 DEF WorkspaceIInv, WorkspaceTypeOK, RecordsStay, RequestRow
<1> QED BY <1>1, <1>7, <1>8, <1>9, GoodStays DEF WorkspaceIInv

-----------------------------------------------------------------------------
(* Steps that write versions, runs or content.                             *)

\* A step of the world around the requests keeps what they know.
LEMMA WorldStep ==
  ASSUME WorkspaceIInv, UNCHANGED asked, Onward,
         \A r \in Runs : run[r].state = "absent" => run'[r].state = "absent"
  PROVE  /\ (\A p \in Requests : RequestGood(p))'
         /\ StartsAlone'
         /\ \A p \in Requests : At(p, "purge", "ended") \/ At(p, "purge", "done") =>
              At(p, "purge", "ended")' \/ At(p, "purge", "done")'
<1>1. ASSUME NEW p \in Requests
      PROVE  RequestGood(p)'
  BY DEF WorkspaceIInv, RequestGood, Onward, OnVersions, OnRuns
<1>2. StartsAlone'
  BY DEF WorkspaceIInv, StartsAlone
<1>3. ASSUME NEW p \in Requests
      PROVE  At(p, "purge", "ended") \/ At(p, "purge", "done") =>
              At(p, "purge", "ended")' \/ At(p, "purge", "done")'
  BY DEF At
<1> QED BY <1>1, <1>2, <1>3

LEMMA CreateKeepsRows ==
  ASSUME WorkspaceIInv, NEW q \in Requests, CreateVersion(q)
  PROVE  /\ content' \in [Versions -> ContentRow] /\ version' \in [Versions -> VersionRow]
         /\ (\A v \in Versions : VersionGood(v))'
         /\ (\A r \in Runs : RunGood(r))'
         /\ Onward
         /\ \A v \in Versions : /\ content'[v].row = content[v].row
                                /\ content'[v].object = content[v].object
<1>t. /\ content \in [Versions -> ContentRow] /\ version \in [Versions -> VersionRow]
      /\ run \in [Runs -> RunRow]
  BY TypesOfRows DEF WorkspaceIInv
<1> DEFINE v0 == asked[q].object
<1>1. /\ content' = [content EXCEPT ![v0].retained = TRUE]
      /\ version' = [version EXCEPT ![v0].state = IF @ = "absent" THEN "active" ELSE @]
      /\ UNCHANGED <<run, pins, profiles, graves, ledger, deletions, restored>>
  BY DEF CreateVersion, Others
<1>2. content' \in [Versions -> ContentRow] /\ version' \in [Versions -> VersionRow]
  BY <1>t, <1>1 DEF ContentRow, VersionRow, VersionState
<1>3. ASSUME NEW v \in Versions
      PROVE  /\ content'[v].state = content[v].state /\ content'[v].row = content[v].row
             /\ content'[v].object = content[v].object
             /\ content'[v].retained = (v = v0 \/ content[v].retained)
             /\ version'[v].sealed = version[v].sealed /\ version'[v].due = version[v].due
             /\ version'[v].state = "tombstoned" <=> version[v].state = "tombstoned"
             /\ v # v0 => version'[v].state = version[v].state
  BY <1>t, <1>1 DEF ContentRow, VersionRow
<1>4. ASSUME NEW v \in Versions
      PROVE  VersionGood(v)'
  <2>1. VersionGood(v)
    BY DEF WorkspaceIInv
  <2>2. version'[v].state # "absent" => content'[v].retained
    BY <1>3, <2>1 DEF VersionGood
  <2>3. version'[v].sealed => \E r \in Runs : run'[r].of = v /\ run'[r].bound
    BY <1>1, <1>3, <2>1 DEF VersionGood
  <2> QED BY <1>1, <1>3, <2>1, <2>2, <2>3 DEF VersionGood
<1>5. ASSUME NEW r \in Runs
      PROVE  RunGood(r)'
  <2>1. RunGood(r) /\ run[r].of \in Versions
    BY <1>t DEF WorkspaceIInv, RunRow
  <2> QED BY <1>1, <1>3, <2>1 DEF RunGood
<1> QED BY <1>2, <1>3, <1>4, <1>5 DEF Onward

LEMMA CreatePreserves ==
  ASSUME WorkspaceIInv, NEW q \in Requests, CreateVersion(q)
  PROVE  WorkspaceIInv'
<1>1. /\ content' \in [Versions -> ContentRow] /\ version' \in [Versions -> VersionRow]
      /\ (\A v \in Versions : VersionGood(v))'
      /\ (\A r \in Runs : RunGood(r))'
      /\ Onward
      /\ \A v \in Versions : /\ content'[v].row = content[v].row
                             /\ content'[v].object = content[v].object
  BY CreateKeepsRows
<1>2. /\ asked' = [asked EXCEPT ![q].at = "done"] /\ Release(q)
      /\ asked[q].at = "read" /\ asked[q].task = "create"
      /\ UNCHANGED <<run, pins, profiles, graves, ledger, deletions, restored>>
  BY DEF CreateVersion, Finish, At, Others
<1>3. /\ asked' \in [Requests -> RequestRow]
      /\ (\A p \in Requests : RequestGood(p))'
      /\ StartsAlone'
      /\ \A p \in Requests : At(p, "purge", "ended") \/ At(p, "purge", "done") =>
           At(p, "purge", "ended")' \/ At(p, "purge", "done")'
  BY <1>1, <1>2, RequestStep DEF Step
<1>4. PurgeSeen'
  BY <1>1, <1>3, PurgeStaysSeen
<1>5. WorkspaceTypeOK'
  BY <1>1, <1>2, <1>3, ReleaseTyped, TypesOfRows DEF WorkspaceIInv, WorkspaceTypeOK, ContentRow,
     VersionRow, RequestRow
<1> QED BY <1>1, <1>3, <1>4, <1>5 DEF WorkspaceIInv

\* A step that changes one run and leaves the rest of the records, the seal of
\* its version excepted.
LEMMA OneRunChanges ==
  ASSUME WorkspaceIInv, NEW r0 \in Runs, NEW new \in RunRow,
         run' = [run EXCEPT ![r0] = new],
         new.of = run[r0].of, run[r0].bound => new.bound,
         new.bound <=> new.state = "completed",
         UNCHANGED <<content, graves, ledger, deletions, restored>>,
         version' = version \/ (new.bound /\ version' = [version EXCEPT ![new.of].sealed = TRUE]),
         run[r0].state = "absent" /\ new.state # "absent" =>
            version[new.of].state = "active" /\ new.active,
         run[r0].state # "absent" => new.state # "absent" /\ new.active = run[r0].active,
         new.bound => version'[new.of].sealed
  PROVE  /\ run' \in [Runs -> RunRow] /\ version' \in [Versions -> VersionRow]
         /\ (\A v \in Versions : VersionGood(v))'
         /\ (\A r \in Runs : RunGood(r))'
         /\ Onward
<1>t. /\ content \in [Versions -> ContentRow] /\ version \in [Versions -> VersionRow]
      /\ run \in [Runs -> RunRow] /\ new.of \in Versions
  BY TypesOfRows DEF WorkspaceIInv, RunRow
<1>1. run' \in [Runs -> RunRow] /\ run'[r0] = new /\ \A r \in Runs : r # r0 => run'[r] = run[r]
  BY <1>t
<1>2. version' \in [Versions -> VersionRow]
  <2>1. CASE version' = version
    BY <1>t, <2>1
  <2>2. CASE version' = [version EXCEPT ![new.of].sealed = TRUE]
    BY <1>t, <2>2 DEF VersionRow
  <2> QED BY <2>1, <2>2
<1>3. ASSUME NEW v \in Versions
      PROVE  /\ version'[v].state = version[v].state /\ version'[v].due = version[v].due
             /\ version[v].sealed => version'[v].sealed
             /\ version'[v].sealed => version[v].sealed \/ (v = new.of /\ new.bound)
  BY <1>t DEF VersionRow
<1>4. ASSUME NEW v \in Versions
      PROVE  VersionGood(v)'
  <2>1. VersionGood(v)
    BY DEF WorkspaceIInv
  <2>2. version'[v].sealed => \E r \in Runs : run'[r].of = v /\ run'[r].bound
    <3>1. CASE v = new.of /\ new.bound
      BY <1>1, <3>1
    <3>2. CASE version[v].sealed
      <4>1. PICK r \in Runs : run[r].of = v /\ run[r].bound
        BY <2>1, <3>2 DEF VersionGood
      <4> QED BY <1>1, <4>1
    <3> QED BY <1>3, <3>1, <3>2
  <2> QED BY <1>3, <2>1, <2>2 DEF VersionGood
<1>5. ASSUME NEW r \in Runs
      PROVE  RunGood(r)'
  <2>1. RunGood(r) /\ run[r].of \in Versions /\ RunGood(r0)
    BY <1>t DEF WorkspaceIInv, RunRow
  <2>2. CASE r # r0
    <3>1. run'[r] = run[r]
      BY <1>1, <2>2
    <3> QED BY <1>3, <2>1, <3>1 DEF RunGood
  <2>3. CASE r = r0
    <3>1. run'[r] = new
      BY <1>1, <2>3
    <3>2. new.bound => version'[new.of].sealed
      OBVIOUS
    <3>3. version'[new.of].state = version[new.of].state
      BY <1>t, <1>3
    <3>4. CASE run[r0].state = "absent"
      <4>1. graves[r] = 0
        BY <2>1, <2>3, <3>4 DEF RunGood
      <4> QED BY <2>3, <3>1, <3>2, <3>3, <3>4, <4>1 DEF RunGood
    <3>5. CASE run[r0].state # "absent"
      BY <2>1, <2>3, <3>1, <3>2, <3>3, <3>5 DEF RunGood
    <3> QED BY <3>4, <3>5
  <2> QED BY <2>2, <2>3
<1> QED BY <1>1, <1>2, <1>3, <1>4, <1>5 DEF Onward

\* The requests that write one run: start, completion, failure.
LEMMA RunWritePreserves ==
  ASSUME WorkspaceIInv, NEW q \in Requests, StartRun(q) \/ RecordCompletion(q) \/ FailRun(q)
  PROVE  WorkspaceIInv'
<1> DEFINE r0 == asked[q].object
<1>t. /\ version \in [Versions -> VersionRow] /\ run \in [Runs -> RunRow]
      /\ RequestGood(q)
  BY TypesOfRows DEF WorkspaceIInv
<1>1. /\ asked[q].task \in OnRuns /\ asked[q].at # "done" /\ r0 \in Runs
      /\ asked' = [asked EXCEPT ![q].at = "done"] /\ Release(q)
      /\ UNCHANGED <<content, pins, profiles, graves, ledger, deletions, restored>>
      /\ asked[q].task = "start" => StartRun(q)
  BY <1>t DEF StartRun, RecordCompletion, FailRun, RequestGood, At, OnRuns, Finish, Others
<1>2. run[r0] \in RunRow /\ run[r0].of \in Versions /\ RunGood(r0)
  BY <1>t, <1>1 DEF RunRow, WorkspaceIInv
<1>3. /\ run' \in [Runs -> RunRow] /\ version' \in [Versions -> VersionRow]
      /\ (\A v \in Versions : VersionGood(v))'
      /\ (\A r \in Runs : RunGood(r))'
      /\ Onward
      /\ \A r \in Runs : run[r].state = "absent" => run'[r].state = "absent" \/ (asked[q].task = "start" /\ r = r0)
  <2>1. CASE StartRun(q)
    <3> DEFINE new == [run[r0] EXCEPT !.state = IF ParentActive(q) THEN "started" ELSE @,
                                      !.active = ParentActive(q)]
    <3>1. /\ asked[q].task = "start" /\ asked[q].at = "version"
          /\ run' = [run EXCEPT ![r0].state = IF ParentActive(q) THEN "started" ELSE @,
                                ![r0].active = ParentActive(q)]
          /\ version' = version
      BY <2>1 DEF StartRun, At
    <3>2. ParentActive(q) \in BOOLEAN /\ (ParentActive(q) <=> version[run[r0].of].state = "active")
      <4>1. r0 \notin Versions
        BY <1>1, WorkspaceAssumption
      <4> QED BY <4>1 DEF ParentActive, VersionOf
    <3>3. run' = [run EXCEPT ![r0] = new]
      BY <1>t, <1>1, <3>1 DEF RunRow
    <3>4. run[r0].state = "absent" /\ ~run[r0].bound
      BY <1>t, <1>2, <3>1 DEF RequestGood, RunGood
    <3>5. /\ new \in RunRow /\ new.of = run[r0].of /\ new.bound = run[r0].bound
          /\ new.active = ParentActive(q)
          /\ new.state = IF ParentActive(q) THEN "started" ELSE "absent"
      BY <1>2, <3>2, <3>4 DEF RunRow, RunState
    <3>6. /\ run' \in [Runs -> RunRow] /\ version' \in [Versions -> VersionRow]
          /\ (\A v \in Versions : VersionGood(v))'
          /\ (\A r \in Runs : RunGood(r))'
          /\ Onward
      <4>1. new.state # "absent" => version[new.of].state = "active" /\ new.active
        BY <3>2, <3>5
      <4>2. ~new.bound /\ new.state # "completed"
        BY <3>4, <3>5
      <4> HIDE DEF new
      <4> QED BY <1>1, <3>1, <3>3, <3>4, <3>5, <4>1, <4>2, OneRunChanges
    <3> QED BY <1>t, <1>1, <3>1, <3>3, <3>6
  <2>2. CASE RecordCompletion(q) /\ StillStarted(r0)
    <3> DEFINE new == [run[r0] EXCEPT !.state = "completed", !.bound = TRUE]
    <3>1. /\ run' = [run EXCEPT ![r0].state = "completed", ![r0].bound = TRUE]
          /\ version' = [version EXCEPT ![run[r0].of].sealed = TRUE]
      BY <2>2 DEF RecordCompletion
    <3>2. run' = [run EXCEPT ![r0] = new]
      BY <1>t, <1>1, <3>1 DEF RunRow
    <3>3. run[r0].state = "started"
      BY <2>2 DEF StillStarted
    <3>4. /\ new \in RunRow /\ new.of = run[r0].of /\ new.bound /\ new.state = "completed"
          /\ new.active = run[r0].active
      BY <1>2 DEF RunRow, RunState
    <3>5. version'[new.of].sealed
      BY <1>t, <1>2, <3>1, <3>4 DEF VersionRow
    <3>6. /\ run' \in [Runs -> RunRow] /\ version' \in [Versions -> VersionRow]
          /\ (\A v \in Versions : VersionGood(v))'
          /\ (\A r \in Runs : RunGood(r))'
          /\ Onward
      <4> HIDE DEF new
      <4> QED BY <1>1, <3>1, <3>2, <3>3, <3>4, <3>5, OneRunChanges
    <3> QED BY <1>t, <1>1, <3>2, <3>3, <3>6
  <2>3. CASE FailRun(q) /\ StillStarted(r0)
    <3> DEFINE new == [run[r0] EXCEPT !.state = "failed"]
    <3>1. run' = [run EXCEPT ![r0] = new] /\ version' = version
      BY <1>t, <1>1, <2>3 DEF FailRun, RunRow
    <3>2. run[r0].state = "started" /\ ~run[r0].bound
      BY <1>2, <2>3 DEF StillStarted, RunGood
    <3>3. /\ new \in RunRow /\ new.of = run[r0].of /\ new.bound = run[r0].bound
          /\ new.state = "failed" /\ new.active = run[r0].active
      BY <1>2 DEF RunRow, RunState
    <3>4. /\ run' \in [Runs -> RunRow] /\ version' \in [Versions -> VersionRow]
          /\ (\A v \in Versions : VersionGood(v))'
          /\ (\A r \in Runs : RunGood(r))'
          /\ Onward
      <4> HIDE DEF new
      <4> QED BY <1>1, <3>1, <3>2, <3>3, OneRunChanges
    <3> QED BY <1>t, <1>1, <3>1, <3>2, <3>4
  <2>4. CASE (RecordCompletion(q) \/ FailRun(q)) /\ ~StillStarted(r0)
    <3>1. run' = run /\ version' = version
      <4>1. CASE FailRun(q)
        BY <1>t, <1>1, <2>4, <4>1 DEF FailRun, RunRow
      <4>2. CASE RecordCompletion(q)
        BY <2>4, <4>2 DEF RecordCompletion
      <4> QED BY <2>4, <4>1, <4>2 DEF FailRun
    <3> QED BY <1>t, <1>1, <3>1, GoodStays DEF RecordsStay, Onward
  <2> QED BY <2>1, <2>2, <2>3, <2>4
<1>4. /\ asked' \in [Requests -> RequestRow]
      /\ (\A p \in Requests : RequestGood(p))'
      /\ StartsAlone'
      /\ \A p \in Requests : At(p, "purge", "ended") \/ At(p, "purge", "done") =>
           At(p, "purge", "ended")' \/ At(p, "purge", "done")'
  BY <1>1, <1>3, RequestStep DEF Step, OnRuns
<1>5. PurgeSeen'
  BY <1>1, <1>4, PurgeStaysSeen
<1>6. WorkspaceTypeOK'
  BY <1>1, <1>3, <1>4, ReleaseTyped, TypesOfRows DEF WorkspaceIInv, WorkspaceTypeOK, RunRow,
     VersionRow, RequestRow
<1> QED BY <1>3, <1>4, <1>5, <1>6 DEF WorkspaceIInv

\* Content that only goes, and goes only when it is deleted or a purge is due.
LEMMA ContentGoes ==
  ASSUME WorkspaceIInv, NEW v0 \in Versions, NEW new \in ContentRow,
         content' = [content EXCEPT ![v0] = new],
         new.retained = content[v0].retained,
         content[v0].state = "deleted" => new.state = "deleted",
         new.row = content[v0].row \/ (~new.row /\ (new.state = "deleted" \/ version[v0].due)),
         new.object = content[v0].object \/ (~new.object /\ (new.state # "live" \/ version[v0].due)),
         new.state = "live" => content[v0].state = "live",
         UNCHANGED <<version, run, graves, ledger, deletions, restored>>
  PROVE  /\ content' \in [Versions -> ContentRow]
         /\ (\A v \in Versions : VersionGood(v))'
         /\ (\A r \in Runs : RunGood(r))'
         /\ Onward
<1>t. content \in [Versions -> ContentRow]
  BY TypesOfRows DEF WorkspaceIInv
<1>1. content' \in [Versions -> ContentRow] /\ content'[v0] = new
      /\ \A v \in Versions : v # v0 => content'[v] = content[v]
  BY <1>t
<1>2. ASSUME NEW v \in Versions
      PROVE  VersionGood(v)'
  <2>1. VersionGood(v)
    BY DEF WorkspaceIInv
  <2>2. CASE v = v0
    BY <1>1, <2>1, <2>2 DEF VersionGood
  <2>3. CASE v # v0
    BY <1>1, <2>1, <2>3 DEF VersionGood
  <2> QED BY <2>2, <2>3
<1>3. (\A r \in Runs : RunGood(r))'
  BY DEF WorkspaceIInv, RunGood
<1>4. Onward
  BY <1>1 DEF Onward
<1> QED BY <1>1, <1>2, <1>3, <1>4

LEMMA ContentEndPreserves ==
  ASSUME WorkspaceIInv, NEW v0 \in Versions, RequestContentEnd(v0) \/ CompleteContentEnd(v0)
  PROVE  WorkspaceIInv'
<1>t. content \in [Versions -> ContentRow] /\ content[v0] \in ContentRow
  BY TypesOfRows DEF WorkspaceIInv
<1>1. UNCHANGED <<version, run, pins, profiles, graves, ledger, deletions, lockedBy, asked, restored>>
  BY DEF RequestContentEnd, CompleteContentEnd, Records
<1>2. PICK new \in ContentRow :
        /\ content' = [content EXCEPT ![v0] = new]
        /\ new.retained = content[v0].retained
        /\ content[v0].state = "deleted" => new.state = "deleted"
        /\ new.row = content[v0].row \/ (~new.row /\ (new.state = "deleted" \/ version[v0].due))
        /\ new.object = content[v0].object \/ (~new.object /\ (new.state # "live" \/ version[v0].due))
        /\ new.state # "live"
        /\ new.object = new.row \/ (new.object = content[v0].object /\ new.row = content[v0].row)
  <2>1. CASE RequestContentEnd(v0)
    <3> DEFINE new == [content[v0] EXCEPT !.state = "requested"]
    <3>1. content' = [content EXCEPT ![v0] = new] /\ content[v0].state = "live"
      BY <1>t, <2>1 DEF RequestContentEnd, ContentRow
    <3>2. /\ new \in ContentRow /\ new.retained = content[v0].retained /\ new.state = "requested"
          /\ new.row = content[v0].row /\ new.object = content[v0].object
      BY <1>t DEF ContentRow, ContentState
    <3> HIDE DEF new
    <3> QED BY <3>1, <3>2
  <2>2. CASE CompleteContentEnd(v0)
    <3> DEFINE new == [content[v0] EXCEPT !.state = "deleted", !.row = FALSE, !.object = FALSE]
    <3>1. content' = [content EXCEPT ![v0] = new]
      BY <1>t, <2>2 DEF CompleteContentEnd, ContentRow
    <3>2. /\ new \in ContentRow /\ new.retained = content[v0].retained /\ new.state = "deleted"
          /\ new.row = FALSE /\ new.object = FALSE
      BY <1>t DEF ContentRow, ContentState
    <3> HIDE DEF new
    <3> QED BY <3>1, <3>2
  <2> QED BY <2>1, <2>2
<1>3. /\ content' \in [Versions -> ContentRow]
      /\ (\A v \in Versions : VersionGood(v))'
      /\ (\A r \in Runs : RunGood(r))'
      /\ Onward
  BY <1>1, <1>2, ContentGoes
<1>4. /\ (\A p \in Requests : RequestGood(p))'
      /\ StartsAlone'
      /\ \A p \in Requests : At(p, "purge", "ended") \/ At(p, "purge", "done") =>
           At(p, "purge", "ended")' \/ At(p, "purge", "done")'
  BY <1>1, <1>3, WorldStep
<1>5. \A v \in Versions : content'[v].row /\ ~content'[v].object => content[v].row /\ ~content[v].object
  BY <1>t, <1>2
<1>6. PurgeSeen'
  BY <1>4, <1>5, PurgeStaysSeen
<1>7. WorkspaceTypeOK'
  BY <1>1, <1>3 DEF WorkspaceIInv, WorkspaceTypeOK, ContentRow
<1> QED BY <1>3, <1>4, <1>6, <1>7 DEF WorkspaceIInv

LEMMA PurgeOfRawPreserves ==
  ASSUME WorkspaceIInv, NEW q \in Requests, PurgeObject(q) \/ PurgeRow(q)
  PROVE  WorkspaceIInv'
<1> DEFINE v0 == asked[q].object
<1>t. /\ content \in [Versions -> ContentRow] /\ RequestGood(q)
      /\ lockedBy \in [Objects -> Requests \cup {Nobody}]
  BY TypesOfRows DEF WorkspaceIInv
<1>1. /\ asked[q].task = "purge" /\ asked[q].at \in {"read", "ended"}
      /\ UNCHANGED <<version, run, pins, profiles, graves, ledger, deletions, restored>>
  BY DEF PurgeObject, PurgeRow, At, Records
<1>2. v0 \in Versions /\ version[v0].due
  BY <1>t, <1>1 DEF RequestGood, OnVersions
<1>3. lockedBy' \in [Objects -> Requests \cup {Nobody}]
  BY <1>t, ReleaseTyped DEF PurgeObject, PurgeRow, Finish
<1>4. content[v0] \in ContentRow
  BY <1>t, <1>2
<1>5. PICK w \in {"ended", "done"} : asked' = [asked EXCEPT ![q].at = w]
  BY DEF PurgeObject, PurgeRow, Finish
<1>6. PICK new \in ContentRow :
        /\ content' = [content EXCEPT ![v0] = new]
        /\ new.retained = content[v0].retained /\ new.state = content[v0].state
        /\ new.row = content[v0].row \/ ~new.row
        /\ new.object = content[v0].object \/ ~new.object
  <2>1. CASE PurgeObject(q)
    <3> DEFINE new == [content[v0] EXCEPT !.object = FALSE]
    <3>1. content' = [content EXCEPT ![v0] = new]
      BY <1>t, <1>2, <2>1 DEF PurgeObject, ContentRow
    <3>2. /\ new \in ContentRow /\ new.retained = content[v0].retained
          /\ new.state = content[v0].state /\ new.row = content[v0].row /\ ~new.object
      BY <1>4 DEF ContentRow
    <3> QED BY <3>1, <3>2
  <2>2. CASE PurgeRow(q)
    <3> DEFINE new == [content[v0] EXCEPT !.row = FALSE]
    <3>1. content' = [content EXCEPT ![v0] = new]
      BY <1>t, <1>2, <2>2 DEF PurgeRow, ContentRow
    <3>2. /\ new \in ContentRow /\ new.retained = content[v0].retained
          /\ new.state = content[v0].state /\ new.object = content[v0].object /\ ~new.row
      BY <1>4 DEF ContentRow
    <3> QED BY <3>1, <3>2
  <2> QED BY <2>1, <2>2
<1>7. /\ content' \in [Versions -> ContentRow]
      /\ (\A v \in Versions : VersionGood(v))'
      /\ (\A r \in Runs : RunGood(r))'
      /\ Onward
  BY <1>1, <1>2, <1>6, ContentGoes
<1>8. /\ asked' \in [Requests -> RequestRow]
      /\ (\A p \in Requests : RequestGood(p))'
      /\ StartsAlone'
      /\ \A p \in Requests : At(p, "purge", "ended") \/ At(p, "purge", "done") =>
           At(p, "purge", "ended")' \/ At(p, "purge", "done")'
  BY <1>1, <1>5, <1>7, RequestStep DEF Step
<1>9. PurgeSeen'
  <2>1. asked'[q].task = "purge" /\ asked'[q].at = w
    BY <1>1, <1>5, TypesOfRows, AskedMoves DEF WorkspaceIInv, Step
  <2>2. At(q, "purge", "ended")' \/ At(q, "purge", "done")'
    BY <1>5, <2>1 DEF At
  <2> QED BY <2>2 DEF PurgeSeen, At
<1>10. WorkspaceTypeOK'
  BY <1>1, <1>3, <1>7, <1>8 DEF WorkspaceIInv, WorkspaceTypeOK, ContentRow, RequestRow
<1> QED BY <1>7, <1>8, <1>9, <1>10 DEF WorkspaceIInv

LEMMA SealAgesPreserves ==
  ASSUME WorkspaceIInv, NEW v0 \in Versions, SealAges(v0)
  PROVE  WorkspaceIInv'
<1>t. version \in [Versions -> VersionRow] /\ run \in [Runs -> RunRow]
  BY TypesOfRows DEF WorkspaceIInv
<1>1. /\ UNCHANGED <<content, run, pins, profiles, graves, ledger, deletions, lockedBy, asked, restored>>
      /\ version[v0].sealed /\ version' = [version EXCEPT ![v0].due = TRUE]
  BY DEF SealAges, Others
<1>2. version' \in [Versions -> VersionRow]
  BY <1>t, <1>1 DEF VersionRow
<1>3. ASSUME NEW v \in Versions
      PROVE  /\ version'[v].state = version[v].state /\ version'[v].sealed = version[v].sealed
             /\ version'[v].due = (v = v0 \/ version[v].due)
  BY <1>t, <1>1 DEF VersionRow
<1>4. ASSUME NEW v \in Versions
      PROVE  VersionGood(v)'
  <2>1. VersionGood(v)
    BY DEF WorkspaceIInv
  <2>2. version'[v].due => version'[v].sealed
    BY <1>1, <1>3, <2>1 DEF VersionGood
  <2>3. version'[v].sealed => \E r \in Runs : run'[r].of = v /\ run'[r].bound
    BY <1>1, <1>3, <2>1 DEF VersionGood
  <2> QED BY <1>1, <1>3, <2>1, <2>2, <2>3 DEF VersionGood
<1>5. ASSUME NEW r \in Runs
      PROVE  RunGood(r)'
  <2>1. RunGood(r) /\ run[r].of \in Versions
    BY <1>t DEF WorkspaceIInv, RunRow
  <2> QED BY <1>1, <1>3, <2>1 DEF RunGood
<1>6. Onward
  BY <1>1, <1>3 DEF Onward
<1>7. /\ (\A p \in Requests : RequestGood(p))'
      /\ StartsAlone'
      /\ \A p \in Requests : At(p, "purge", "ended") \/ At(p, "purge", "done") =>
           At(p, "purge", "ended")' \/ At(p, "purge", "done")'
  BY <1>1, <1>6, WorldStep
<1>8. PurgeSeen'
  BY <1>1, <1>7, PurgeStaysSeen
<1>9. WorkspaceTypeOK'
  BY <1>1, <1>2 DEF WorkspaceIInv, WorkspaceTypeOK, VersionRow
<1> QED BY <1>4, <1>5, <1>7, <1>8, <1>9 DEF WorkspaceIInv

\* A restore puts a version and its runs out of what EndsTogether speaks of.
LEMMA RestorePreserves ==
  ASSUME WorkspaceIInv, NEW v0 \in Versions, Restore(v0)
  PROVE  WorkspaceIInv'
<1>t. version \in [Versions -> VersionRow] /\ run \in [Runs -> RunRow] /\ restored \subseteq Versions
  BY TypesOfRows DEF WorkspaceIInv
<1>1. /\ UNCHANGED <<content, pins, profiles, graves, ledger, deletions, lockedBy, asked>>
      /\ version[v0].state = "tombstoned"
      /\ version' = [version EXCEPT ![v0].state = "active"]
      /\ run' = [r \in Runs |-> IF r \in RunsOf(v0) THEN [run[r] EXCEPT !.active = TRUE] ELSE run[r]]
      /\ restored' = restored \cup {v0}
  BY DEF Restore, Others
<1>2. version' \in [Versions -> VersionRow]
  BY <1>t, <1>1 DEF VersionRow, VersionState
<1>3. ASSUME NEW v \in Versions
      PROVE  /\ version'[v].sealed = version[v].sealed /\ version'[v].due = version[v].due
             /\ v # v0 => version'[v].state = version[v].state
             /\ v = v0 => version'[v].state = "active"
  BY <1>t, <1>1 DEF VersionRow
<1>4. ASSUME NEW r \in Runs
      PROVE  /\ run'[r] \in RunRow /\ run'[r].of = run[r].of /\ run'[r].state = run[r].state
             /\ run'[r].bound = run[r].bound
             /\ run[r].of # v0 => run'[r].active = run[r].active
  <2>1. run[r] \in RunRow
    BY <1>t
  <2>2. CASE r \in RunsOf(v0)
    <3>1. run'[r] = [run[r] EXCEPT !.active = TRUE] /\ run[r].of = v0
      BY <1>1, <2>2 DEF RunsOf
    <3> QED BY <2>1, <3>1 DEF RunRow
  <2>3. CASE r \notin RunsOf(v0)
    BY <1>1, <2>1, <2>3
  <2> QED BY <2>2, <2>3
<1>5. run' \in [Runs -> RunRow]
  BY <1>1, <1>4
<1>6. ASSUME NEW v \in Versions
      PROVE  VersionGood(v)'
  <2>1. VersionGood(v)
    BY DEF WorkspaceIInv
  <2>2. version'[v].sealed => \E r \in Runs : run'[r].of = v /\ run'[r].bound
    BY <1>3, <1>4, <2>1 DEF VersionGood
  <2> QED BY <1>1, <1>3, <2>1, <2>2 DEF VersionGood
<1>7. ASSUME NEW r \in Runs
      PROVE  RunGood(r)'
  <2>1. RunGood(r) /\ run[r].of \in Versions
    BY <1>t DEF WorkspaceIInv, RunRow
  <2>2. /\ run'[r].of = run[r].of /\ run'[r].state = run[r].state /\ run'[r].bound = run[r].bound
        /\ graves' = graves
        /\ version'[run[r].of].sealed = version[run[r].of].sealed
    BY <1>1, <1>3, <1>4, <2>1
  <2>3. CASE run[r].of = v0
    <3>1. run'[r].of \in restored'
      BY <1>1, <2>2, <2>3
    <3> QED BY <2>1, <2>2, <3>1 DEF RunGood
  <2>4. CASE run[r].of # v0
    <3>1. /\ run'[r].active = run[r].active
          /\ version'[run[r].of].state = version[run[r].of].state
      BY <1>3, <1>4, <2>1, <2>4
    <3>2. run'[r].of \in restored' <=> run[r].of \in restored
      BY <1>1, <1>4, <2>4
    <3> QED BY <2>1, <2>2, <3>1, <3>2 DEF RunGood
  <2> QED BY <2>3, <2>4
<1>8. Onward
  BY <1>1, <1>3 DEF Onward
<1>9. /\ (\A p \in Requests : RequestGood(p))'
      /\ StartsAlone'
      /\ \A p \in Requests : At(p, "purge", "ended") \/ At(p, "purge", "done") =>
           At(p, "purge", "ended")' \/ At(p, "purge", "done")'
  BY <1>1, <1>4, <1>8, WorldStep
<1>10. PurgeSeen'
  BY <1>1, <1>9, PurgeStaysSeen
<1>11. WorkspaceTypeOK'
  BY <1>t, <1>1, <1>2, <1>5 DEF WorkspaceIInv, WorkspaceTypeOK, VersionRow, RunRow
<1> QED BY <1>6, <1>7, <1>9, <1>10, <1>11 DEF WorkspaceIInv

\* The unit of work that ends a version: its runs were all active, each gets its
\* grave, and its content ended before.
LEMMA DeletePreserves ==
  ASSUME WorkspaceIInv, NEW q \in Requests, DeleteVersion(q)
  PROVE  WorkspaceIInv'
<1> DEFINE v0 == asked[q].object
           cascaded == LiveRunsOf(v0)
<1>t. /\ content \in [Versions -> ContentRow] /\ version \in [Versions -> VersionRow]
      /\ run \in [Runs -> RunRow] /\ graves \in [Objects -> Nat] /\ deletions \in [Versions -> Nat]
      /\ ledger \subseteq Versions /\ pins \subseteq Objects /\ RequestGood(q)
  BY TypesOfRows DEF WorkspaceIInv
<1>1. /\ asked[q].task = "delete" /\ asked[q].at = "version" /\ version[v0].state = "active"
      /\ version' = [version EXCEPT ![v0].state = "tombstoned"]
      /\ run' = [r \in Runs |-> IF r \in cascaded THEN [run[r] EXCEPT !.active = FALSE] ELSE run[r]]
      /\ graves' = [o \in Objects |-> IF o = v0 \/ o \in cascaded THEN graves[o] + 1 ELSE graves[o]]
      /\ pins' \subseteq pins
      /\ ledger' = ledger \cup {v0}
      /\ deletions' = [deletions EXCEPT ![v0] = @ + 1]
      /\ asked' = [asked EXCEPT ![q].at = "done"] /\ Release(q)
      /\ UNCHANGED <<content, profiles, restored>>
  BY DEF DeleteVersion, At, Finish
<1>2. v0 \in Versions /\ content[v0].state = "deleted"
  BY <1>t, <1>1 DEF RequestGood, OnVersions
<1>3. version' \in [Versions -> VersionRow]
  BY <1>t, <1>1 DEF VersionRow, VersionState
<1>4. ASSUME NEW v \in Versions
      PROVE  /\ version'[v].sealed = version[v].sealed /\ version'[v].due = version[v].due
             /\ v # v0 => version'[v].state = version[v].state
             /\ v = v0 => version'[v].state = "tombstoned"
  BY <1>t, <1>1 DEF VersionRow
<1>5. ASSUME NEW r \in Runs
      PROVE  /\ run'[r] \in RunRow /\ run'[r].of = run[r].of /\ run'[r].state = run[r].state
             /\ run'[r].bound = run[r].bound
             /\ r \notin cascaded => run'[r] = run[r]
             /\ r \in cascaded => /\ ~run'[r].active /\ run[r].of = v0
                                  /\ run[r].state # "absent" /\ run[r].active
  <2>1. run[r] \in RunRow
    BY <1>t
  <2>2. CASE r \in cascaded
    <3>1. run'[r] = [run[r] EXCEPT !.active = FALSE]
      BY <1>1, <2>2
    <3>2. run[r].of = v0 /\ run[r].state # "absent" /\ run[r].active
      BY <2>2 DEF LiveRunsOf, RunsOf
    <3> QED BY <2>1, <2>2, <3>1, <3>2 DEF RunRow
  <2>3. CASE r \notin cascaded
    BY <1>1, <2>1, <2>3
  <2> QED BY <2>2, <2>3
<1>6. run' \in [Runs -> RunRow]
  BY <1>1, <1>5
<1>7. /\ graves' \in [Objects -> Nat] /\ deletions' \in [Versions -> Nat]
      /\ \A v \in Versions : /\ v # v0 => graves'[v] = graves[v] /\ deletions'[v] = deletions[v]
                             /\ v = v0 => graves'[v] = graves[v] + 1 /\ deletions'[v] = deletions[v] + 1
      /\ \A r \in Runs : /\ r \in cascaded => graves'[r] = graves[r] + 1
                         /\ r \notin cascaded => graves'[r] = graves[r]
  <2>1. cascaded \subseteq Runs /\ Versions \cap Runs = {}
    BY WorkspaceAssumption DEF LiveRunsOf, RunsOf
  <2> HIDE DEF cascaded
  <2>2. graves' \in [Objects -> Nat]
    BY <1>t, <1>1
  <2>3. deletions' \in [Versions -> Nat]
    <3>1. deletions[v0] + 1 \in Nat
      BY <1>t, <1>2
    <3> QED BY <1>t, <1>1, <3>1
  <2>4. \A v \in Versions : /\ v # v0 => graves'[v] = graves[v] /\ deletions'[v] = deletions[v]
                            /\ v = v0 => graves'[v] = graves[v] + 1 /\ deletions'[v] = deletions[v] + 1
    BY <1>t, <1>1, <2>1 DEF Objects
  <2>5. \A r \in Runs : /\ r \in cascaded => graves'[r] = graves[r] + 1
                        /\ r \notin cascaded => graves'[r] = graves[r]
    BY <1>t, <1>1, <1>2, <2>1 DEF Objects
  <2> QED BY <2>2, <2>3, <2>4, <2>5
<1>8. ASSUME NEW v \in Versions
      PROVE  VersionGood(v)'
  <2>1. VersionGood(v)
    BY DEF WorkspaceIInv
  <2>2. version'[v].sealed => \E r \in Runs : run'[r].of = v /\ run'[r].bound
    BY <1>4, <1>5, <2>1 DEF VersionGood
  <2>3. CASE v # v0
    <3>1. /\ v \in ledger' <=> v \in ledger
          /\ version'[v].state = version[v].state /\ version'[v].due = version[v].due
          /\ version'[v].sealed = version[v].sealed
          /\ content'[v] = content[v] /\ restored' = restored
          /\ graves'[v] = graves[v] /\ deletions'[v] = deletions[v]
      BY <1>1, <1>4, <1>7, <2>3
    <3> QED BY <2>1, <2>2, <3>1 DEF VersionGood
  <2>4. CASE v = v0
    <3>1. /\ version'[v].state = "tombstoned" /\ v \in ledger' /\ content'[v].state = "deleted"
          /\ content'[v].retained
      BY <1>1, <1>2, <1>4, <2>1, <2>4 DEF VersionGood
    <3>2. v \notin restored => graves[v] = 0 /\ deletions[v] = 0
      BY <1>1, <2>1, <2>4 DEF VersionGood
    <3>3. v \notin restored' => graves'[v] = 1 /\ deletions'[v] = 1
      BY <1>1, <1>7, <2>4, <3>2
    <3> QED BY <1>1, <1>4, <2>1, <2>2, <3>1, <3>3 DEF VersionGood
  <2> QED BY <2>3, <2>4
<1>9. ASSUME NEW r \in Runs
      PROVE  RunGood(r)'
  <2>1. RunGood(r) /\ run[r].of \in Versions
    BY <1>t DEF WorkspaceIInv, RunRow
  <2>2. CASE run[r].of # v0
    <3>1. r \notin cascaded
      BY <1>5, <2>2
    <3>2. /\ run'[r] = run[r] /\ graves'[r] = graves[r] /\ restored' = restored
          /\ version'[run[r].of].state = version[run[r].of].state
          /\ version'[run[r].of].sealed = version[run[r].of].sealed
      BY <1>1, <1>4, <1>5, <1>7, <2>1, <2>2, <3>1
    <3> QED BY <2>1, <3>2 DEF RunGood
  <2>3. CASE run[r].of = v0 /\ run[r].state = "absent"
    <3>1. r \notin cascaded
      BY <1>5, <2>3
    <3> QED BY <1>1, <1>4, <1>5, <1>7, <2>1, <2>3, <3>1 DEF RunGood
  <2>4. CASE run[r].of = v0 /\ run[r].state # "absent"
    <3>1. run[r].of \notin restored => r \in cascaded /\ graves[r] = 0
      BY <1>1, <2>1, <2>4 DEF RunGood, LiveRunsOf, RunsOf
    <3>2. run[r].of \notin restored => ~run'[r].active /\ graves'[r] = 1
      BY <1>5, <1>7, <3>1
    <3>3. /\ run'[r].of = run[r].of /\ run'[r].state = run[r].state /\ run'[r].bound = run[r].bound
          /\ version'[run[r].of].state = "tombstoned"
          /\ version'[run[r].of].sealed = version[run[r].of].sealed
      BY <1>2, <1>4, <1>5, <2>4
    <3> QED BY <1>1, <2>1, <2>4, <3>2, <3>3 DEF RunGood
  <2> QED BY <2>2, <2>3, <2>4
<1>10. Onward
  BY <1>1, <1>4 DEF Onward
<1>11. /\ asked' \in [Requests -> RequestRow]
       /\ (\A p \in Requests : RequestGood(p))'
       /\ StartsAlone'
       /\ \A p \in Requests : At(p, "purge", "ended") \/ At(p, "purge", "done") =>
            At(p, "purge", "ended")' \/ At(p, "purge", "done")'
  BY <1>1, <1>5, <1>10, RequestStep DEF Step
<1>12. PurgeSeen'
  BY <1>1, <1>11, PurgeStaysSeen
<1>13. WorkspaceTypeOK'
  BY <1>t, <1>1, <1>2, <1>3, <1>6, <1>7, <1>11, ReleaseTyped DEF WorkspaceIInv, WorkspaceTypeOK,
     VersionRow, RunRow, RequestRow
<1> QED BY <1>8, <1>9, <1>11, <1>12, <1>13 DEF WorkspaceIInv

LEMMA WorkspaceStays ==
  ASSUME WorkspaceIInv, UNCHANGED wvars \/ \E o \in Objects : Unpin(o)
  PROVE  WorkspaceIInv'
<1>1. /\ UNCHANGED <<content, version, run, profiles, graves, ledger, deletions, lockedBy, asked, restored>>
      /\ pins' \subseteq pins
  BY DEF wvars, Unpin
<1>2. Onward /\ RecordsStay
  BY <1>1 DEF Onward, RecordsStay
<1>3. /\ (\A p \in Requests : RequestGood(p))'
      /\ StartsAlone'
      /\ \A p \in Requests : At(p, "purge", "ended") \/ At(p, "purge", "done") =>
           At(p, "purge", "ended")' \/ At(p, "purge", "done")'
  BY <1>1, <1>2, WorldStep
<1>4. PurgeSeen'
  BY <1>1, <1>3, PurgeStaysSeen
<1>5. WorkspaceTypeOK'
  BY <1>1 DEF WorkspaceIInv, WorkspaceTypeOK
<1> QED BY <1>2, <1>3, <1>4, <1>5, GoodStays DEF WorkspaceIInv

LEMMA RecordsStep == WorkspaceIInv /\ [WorkspaceNext]_wvars => WorkspaceIInv'
<1> SUFFICES ASSUME WorkspaceIInv, [WorkspaceNext]_wvars
             PROVE  WorkspaceIInv'
  OBVIOUS
<1>1. ASSUME NEW q \in Requests, WorkspaceStep(q)
      PROVE  WorkspaceIInv'
  BY <1>1, ReadPreserves, QuietPreserves, CreatePreserves, RunWritePreserves, DeletePreserves,
     PurgeOfRawPreserves DEF WorkspaceStep
<1>2. ASSUME NEW v \in Versions,
             RequestContentEnd(v) \/ CompleteContentEnd(v) \/ SealAges(v) \/ Restore(v)
      PROVE  WorkspaceIInv'
  BY <1>2, ContentEndPreserves, SealAgesPreserves, RestorePreserves
<1> QED BY <1>1, <1>2, WorkspaceStays DEF WorkspaceNext

LEMMA RecordsInductive == WorkspaceSpec => []WorkspaceIInv
  BY WorkspaceBegins, RecordsStep, PTL DEF WorkspaceSpec

-----------------------------------------------------------------------------
(* Row locks.                                                              *)

LocksItsVersion == {"start", "complete", "profile", "delete"}
Locking == {"version", "runs"}

\* A lock of a version is that of the request's own; a lock of a run is that of
\* the run a completion or a failure is about, or of a cascade over its version.
HolderShape(o, q) ==
  /\ o \in Versions =>
       /\ asked[q].task \in LocksItsVersion /\ asked[q].at \in Locking
       /\ VersionOf(asked[q].object) = o
  /\ o \in Runs =>
       \/ /\ asked[q].task \in {"complete", "fail"} /\ asked[q].at = "runs"
          /\ asked[q].object = o
       \/ asked[q].task = "delete" /\ asked[q].at = "version" /\ run[o].of = asked[q].object

Holders == \A o \in Objects, q \in Requests : lockedBy[o] = q => HolderShape(o, q)

\* Whoever is past the version's lock still holds it.
HoldsItsVersion ==
  \A q \in Requests : asked[q].task \in LocksItsVersion /\ asked[q].at \in Locking =>
    lockedBy[VersionOf(asked[q].object)] = q

LocksIInv == Holders /\ HoldsItsVersion

OfStays == \A r \in Runs : run'[r].of = run[r].of

LEMMA RunsKeepTheirVersion == WorkspaceIInv /\ [WorkspaceNext]_wvars => OfStays
<1> SUFFICES ASSUME WorkspaceIInv, [WorkspaceNext]_wvars
             PROVE  OfStays
  OBVIOUS
<1>t. run \in [Runs -> RunRow]
  BY TypesOfRows DEF WorkspaceIInv
<1>1. CASE run' = run
  BY <1>1 DEF OfStays
<1>2. ASSUME NEW q \in Requests, StartRun(q) \/ RecordCompletion(q) \/ FailRun(q)
      PROVE  OfStays
  <2>1. CASE run' = run
    BY <1>1, <2>1
  <2>2. CASE StartRun(q)
    BY <1>t, <2>2 DEF StartRun, OfStays, RunRow
  <2>3. CASE RecordCompletion(q)
    BY <1>t, <2>1, <2>3 DEF RecordCompletion, OfStays, RunRow
  <2>4. CASE FailRun(q)
    BY <1>t, <2>4 DEF FailRun, OfStays, RunRow
  <2> QED BY <1>2, <2>2, <2>3, <2>4
<1>3. ASSUME NEW q \in Requests, DeleteVersion(q)
      PROVE  OfStays
  BY <1>t, <1>3 DEF DeleteVersion, OfStays, RunRow
<1>4. ASSUME NEW v \in Versions, Restore(v)
      PROVE  OfStays
  BY <1>t, <1>4 DEF Restore, OfStays, RunRow
<1>5. ASSUME NEW q \in Requests, WorkspaceStep(q)
      PROVE  OfStays
  BY <1>1, <1>2, <1>3, <1>5 DEF WorkspaceStep, Read, Lock, CreateVersion, CreateRefused, AddProfile,
     Pin, EndDerivedContent, DeletionDeferred, AlreadyDeleted, PurgeObject, PurgeRow, Abandon,
     Records, Others
<1> QED BY <1>1, <1>4, <1>5 DEF WorkspaceNext, wvars, Unpin, RequestContentEnd, CompleteContentEnd,
     SealAges, Records, Others

LEMMA LocksBegin == WorkspaceInit => LocksIInv
<1> SUFFICES ASSUME WorkspaceInit
             PROVE  LocksIInv
  OBVIOUS
<1>1. \A q \in Requests : asked[q].task = "none"
  BY DEF WorkspaceInit
<1>2. \A o \in Objects, q \in Requests : lockedBy[o] # q
  BY WorkspaceAssumption DEF WorkspaceInit
<1> QED BY <1>1, <1>2 DEF LocksIInv, Holders, HoldsItsVersion, LocksItsVersion

\* The version of an object a request may hold is one of the objects.
LEMMA VersionOfObject ==
  ASSUME run \in [Runs -> RunRow], NEW o \in Objects
  PROVE  VersionOf(o) \in Versions /\ (OfStays => VersionOf(o)' = VersionOf(o))
  BY DEF VersionOf, Objects, RunRow, OfStays

\* A request that finishes gives up its locks and no other's.
LEMMA FinishKeepsLocks ==
  ASSUME WorkspaceIInv, LocksIInv, OfStays, NEW q \in Requests, Finish(q)
  PROVE  LocksIInv'
<1>t. /\ run \in [Runs -> RunRow] /\ asked \in [Requests -> RequestRow]
      /\ lockedBy \in [Objects -> Requests \cup {Nobody}]
  BY TypesOfRows DEF WorkspaceIInv
<1>1. /\ asked'[q].at = "done" /\ \A p \in Requests : p # q => asked'[p] = asked[p]
  BY <1>t, AskedMoves DEF Finish, Step
<1>2. \A o \in Objects : lockedBy'[o] = IF lockedBy[o] = q THEN Nobody ELSE lockedBy[o]
  BY <1>t DEF Finish, Release
<1>3. ASSUME NEW o \in Objects, NEW p \in Requests, lockedBy'[o] = p
      PROVE  HolderShape(o, p)'
  <2>1. p # q /\ lockedBy[o] = p
    BY <1>2, <1>3, WorkspaceAssumption
  <2>2. HolderShape(o, p) /\ asked'[p] = asked[p] /\ asked[p].object \in Objects
    BY <1>t, <1>1, <2>1 DEF LocksIInv, Holders, RequestRow
  <2>3. VersionOf(asked[p].object)' = VersionOf(asked[p].object)
    <3>1. VersionOf(asked[p].object)' = IF asked[p].object \in Versions THEN asked[p].object
                                        ELSE run'[asked[p].object].of
      BY <2>2 DEF VersionOf
    <3> QED BY <2>2, <3>1 DEF VersionOf, OfStays, Objects
  <2> QED BY <2>2, <2>3 DEF HolderShape, OfStays
<1>4. ASSUME NEW p \in Requests, asked'[p].task \in LocksItsVersion, asked'[p].at \in Locking
      PROVE  lockedBy'[VersionOf(asked[p].object)'] = p
  <2>1. p # q
    BY <1>1, <1>4 DEF Locking
  <2>2. asked'[p] = asked[p] /\ asked[p].object \in Objects
    BY <1>t, <1>1, <2>1 DEF RequestRow
  <2>3. VersionOf(asked[p].object)' = VersionOf(asked[p].object) /\ VersionOf(asked[p].object) \in Objects
    <3>1. VersionOf(asked[p].object)' = IF asked[p].object \in Versions THEN asked[p].object
                                        ELSE run'[asked[p].object].of
      BY <2>2 DEF VersionOf
    <3> QED BY <1>t, <2>2, <3>1 DEF VersionOf, OfStays, Objects, RunRow
  <2>4. lockedBy[VersionOf(asked[p].object)] = p
    BY <1>4, <2>2 DEF LocksIInv, HoldsItsVersion
  <2> QED BY <1>2, <2>1, <2>3, <2>4
<1> QED BY <1>3, <1>4 DEF LocksIInv, Holders, HoldsItsVersion

\* A request that holds nothing may move on without a lock.
LEMMA MoveKeepsLocks ==
  ASSUME WorkspaceIInv, LocksIInv, OfStays, NEW q \in Requests,
         UNCHANGED lockedBy,
         \A o \in Objects : lockedBy[o] # q,
         \A p \in Requests : p # q => asked'[p] = asked[p],
         asked'[q].at \notin Locking
  PROVE  LocksIInv'
<1>t. /\ run \in [Runs -> RunRow] /\ asked \in [Requests -> RequestRow]
  BY TypesOfRows DEF WorkspaceIInv
<1>1. ASSUME NEW p \in Requests, p # q
      PROVE  /\ asked'[p] = asked[p] /\ asked[p].object \in Objects
             /\ VersionOf(asked[p].object)' = VersionOf(asked[p].object)
  <2>1. asked'[p] = asked[p] /\ asked[p].object \in Objects
    BY <1>t, <1>1 DEF RequestRow
  <2>2. VersionOf(asked[p].object)' = IF asked[p].object \in Versions THEN asked[p].object
                                      ELSE run'[asked[p].object].of
    BY <2>1 DEF VersionOf
  <2> QED BY <2>1, <2>2 DEF VersionOf, OfStays, Objects
<1>2. ASSUME NEW o \in Objects, NEW p \in Requests, lockedBy'[o] = p
      PROVE  HolderShape(o, p)'
  <2>1. p # q /\ HolderShape(o, p)
    BY <1>2 DEF LocksIInv, Holders
  <2> QED BY <1>1, <2>1 DEF HolderShape, OfStays
<1>3. ASSUME NEW p \in Requests, asked'[p].task \in LocksItsVersion, asked'[p].at \in Locking
      PROVE  lockedBy'[VersionOf(asked[p].object)'] = p
  <2>1. p # q
    BY <1>3
  <2> QED BY <1>1, <1>3, <2>1 DEF LocksIInv, HoldsItsVersion
<1> QED BY <1>2, <1>3 DEF LocksIInv, Holders, HoldsItsVersion

\* One more lock, of a row the request wants.
LEMMA LockKeepsLocks ==
  ASSUME WorkspaceIInv, LocksIInv, NEW q \in Requests, NEW o0 \in Objects, Lock(q, o0)
  PROVE  LocksIInv'
<1>t. /\ run \in [Runs -> RunRow] /\ asked \in [Requests -> RequestRow] /\ RequestGood(q)
      /\ lockedBy \in [Objects -> Requests \cup {Nobody}] /\ Versions \cap Runs = {}
  BY TypesOfRows, WorkspaceAssumption DEF WorkspaceIInv
<1> DEFINE w == IF LocksVersion(q) \/ At(q, "delete", "version") THEN "version" ELSE "runs"
<1>1. /\ o0 \in Wanted(q) /\ lockedBy[o0] = Nobody /\ run' = run
      /\ lockedBy' = [lockedBy EXCEPT ![o0] = q]
      /\ asked' = [asked EXCEPT ![q].at = w]
  BY DEF Lock, Free, Records
<1>2. /\ asked'[q].task = asked[q].task /\ asked'[q].object = asked[q].object
      /\ asked'[q].at = w /\ \A p \in Requests : p # q => asked'[p] = asked[p]
  BY <1>t, <1>1, AskedMoves DEF Step
<1>3. \A x : VersionOf(x)' = VersionOf(x)
  BY <1>1 DEF VersionOf
<1>4. /\ lockedBy'[o0] = q /\ \A o \in Objects : o # o0 => lockedBy'[o] = lockedBy[o]
  BY <1>t, <1>1
<1>5. \/ /\ asked[q].task \in {"start", "complete", "profile"} /\ asked[q].at = "read"
         /\ o0 = VersionOf(asked[q].object) /\ w = "version"
      \/ /\ asked[q].task = "delete" /\ asked[q].at = "ended"
         /\ o0 = VersionOf(asked[q].object) /\ w = "version"
      \/ /\ asked[q].task = "complete" /\ asked[q].at = "version"
         /\ o0 = asked[q].object /\ w = "runs"
      \/ /\ asked[q].task = "fail" /\ asked[q].at = "read"
         /\ o0 = asked[q].object /\ w = "runs"
      \/ /\ asked[q].task = "delete" /\ asked[q].at = "version"
         /\ o0 \in Runs /\ run[o0].of = asked[q].object /\ w = "version"
  <2>1. CASE LocksVersion(q)
    BY <1>1, <2>1 DEF LocksVersion, Wanted, At
  <2>2. CASE ~LocksVersion(q) /\ LocksRun(q)
    BY <1>1, <2>2 DEF LocksVersion, LocksRun, Wanted, At
  <2>3. CASE ~LocksVersion(q) /\ ~LocksRun(q)
    BY <1>1, <2>3 DEF LocksVersion, LocksRun, Wanted, At, LiveRunsOf, RunsOf
  <2> QED BY <2>1, <2>2, <2>3
<1> HIDE DEF w
<1>6. /\ asked[q].object \in Objects /\ VersionOf(asked[q].object) \in Versions
      /\ asked[q].task \in {"complete", "fail"} => asked[q].object \in Runs
      /\ asked[q].task = "delete" => asked[q].object \in Versions
  BY <1>t, VersionOfObject DEF RequestRow, RequestGood, OnRuns, OnVersions
<1>7. ASSUME NEW o \in Objects, NEW p \in Requests, lockedBy'[o] = p
      PROVE  HolderShape(o, p)'
  <2>1. CASE p # q
    <3>1. lockedBy[o] = p /\ asked'[p] = asked[p]
      BY <1>2, <1>4, <1>7, <2>1
    <3>2. HolderShape(o, p)
      BY <3>1 DEF LocksIInv, Holders
    <3> QED BY <1>1, <1>3, <3>1, <3>2 DEF HolderShape
  <2>2. CASE p = q /\ o = o0
    BY <1>t, <1>1, <1>2, <1>3, <1>5, <1>6, <2>2 DEF HolderShape, LocksItsVersion, Locking
  <2>3. CASE p = q /\ o # o0
    <3>1. HolderShape(o, q)
      BY <1>4, <1>7, <2>3 DEF LocksIInv, Holders
    <3>2. asked[q].at \notin {"read", "ended"}
      BY <3>1 DEF HolderShape, Locking, Objects
    <3> QED BY <1>1, <1>2, <1>3, <1>5, <2>3, <3>1, <3>2 DEF HolderShape, LocksItsVersion, Locking
  <2> QED BY <2>1, <2>2, <2>3
<1>8. ASSUME NEW p \in Requests, asked'[p].task \in LocksItsVersion, asked'[p].at \in Locking
      PROVE  lockedBy'[VersionOf(asked'[p].object)] = p
  <2>1. CASE p # q
    <3>1. lockedBy[VersionOf(asked[p].object)] = p
      BY <1>2, <1>8, <2>1 DEF LocksIInv, HoldsItsVersion
    <3>2. VersionOf(asked[p].object) \in Objects
      BY <1>t, VersionOfObject DEF RequestRow, Objects
    <3>3. VersionOf(asked[p].object) # o0
      BY <1>1, <3>1, WorkspaceAssumption
    <3> QED BY <1>2, <1>4, <2>1, <3>1, <3>2, <3>3
  <2>2. CASE p = q
    <3>1. CASE o0 = VersionOf(asked[q].object)
      BY <1>2, <1>4, <2>2, <3>1
    <3>2. CASE o0 # VersionOf(asked[q].object)
      <4>1. asked[q].task \in LocksItsVersion /\ asked[q].at \in Locking
        BY <1>2, <1>5, <1>8, <2>2, <3>2 DEF LocksItsVersion, Locking
      <4>2. lockedBy[VersionOf(asked[q].object)] = q
        BY <4>1 DEF LocksIInv, HoldsItsVersion
      <4> QED BY <1>2, <1>4, <1>6, <2>2, <3>2, <4>2 DEF Objects
    <3> QED BY <3>1, <3>2
  <2> QED BY <2>1, <2>2
<1>9. Holders'
  BY <1>7 DEF Holders
<1>10. HoldsItsVersion'
  BY <1>3, <1>8 DEF HoldsItsVersion
<1> QED BY <1>9, <1>10 DEF LocksIInv

LEMMA LocksStep == WorkspaceIInv /\ LocksIInv /\ [WorkspaceNext]_wvars => LocksIInv'
<1> SUFFICES ASSUME WorkspaceIInv, LocksIInv, [WorkspaceNext]_wvars
             PROVE  LocksIInv'
  OBVIOUS
<1>t. run \in [Runs -> RunRow] /\ asked \in [Requests -> RequestRow]
  BY TypesOfRows DEF WorkspaceIInv
<1>o. OfStays
  BY RunsKeepTheirVersion
<1>1. ASSUME NEW q \in Requests, Read(q) \/ EndDerivedContent(q) \/ PurgeObject(q)
      PROVE  LocksIInv'
  <2>1. /\ UNCHANGED lockedBy
        /\ asked[q].task = "none" \/ asked[q].at = "read"
    BY <1>1 DEF Read, EndDerivedContent, PurgeObject, Fresh, At
  <2>2. \A o \in Objects : lockedBy[o] # q
    BY <2>1 DEF LocksIInv, Holders, HolderShape, LocksItsVersion, Locking, Objects
  <2>3. /\ \A p \in Requests : p # q => asked'[p] = asked[p]
        /\ asked'[q].at \in {"read", "ended"}
    <3>1. CASE Read(q)
      BY <1>t, <3>1 DEF Read, Move
    <3>2. CASE EndDerivedContent(q) \/ PurgeObject(q)
      BY <1>t, <3>2, AskedMoves DEF EndDerivedContent, PurgeObject, Step
    <3> QED BY <1>1, <3>1, <3>2
  <2> QED BY <1>o, <2>1, <2>2, <2>3, MoveKeepsLocks DEF Locking
<1>2. ASSUME NEW q \in Requests, WorkspaceStep(q)
      PROVE  LocksIInv'
  BY <1>o, <1>1, <1>2, FinishKeepsLocks, LockKeepsLocks DEF WorkspaceStep, CreateVersion,
     CreateRefused, StartRun, AddProfile, RecordCompletion, FailRun, Pin, DeletionDeferred,
     DeleteVersion, AlreadyDeleted, PurgeRow, Abandon
<1>3. CASE UNCHANGED <<lockedBy, asked>>
  <2>1. ASSUME NEW q \in Requests
        PROVE  VersionOf(asked[q].object)' = VersionOf(asked[q].object)
    <3>1. asked[q].object \in Objects
      BY <1>t DEF RequestRow
    <3>2. VersionOf(asked[q].object)' = IF asked[q].object \in Versions THEN asked[q].object
                                        ELSE run'[asked[q].object].of
      BY <1>3 DEF VersionOf
    <3> QED BY <1>o, <3>1, <3>2 DEF VersionOf, OfStays, Objects
  <2>2. Holders'
    BY <1>o, <1>3, <2>1 DEF LocksIInv, Holders, HolderShape, OfStays
  <2>3. HoldsItsVersion'
    BY <1>3, <2>1 DEF LocksIInv, HoldsItsVersion
  <2> QED BY <2>2, <2>3 DEF LocksIInv
<1> QED BY <1>2, <1>3 DEF WorkspaceNext, wvars, Unpin, RequestContentEnd, CompleteContentEnd,
     SealAges, Restore

\* Nobody waits for one who waits: a request others wait for holds a version, and
\* what such a request still wants are runs of that version, which only holders of
\* the same version, or requests that want nothing more, may have locked.
LEMMA WaitingEnds ==
  ASSUME WorkspaceIInv, LocksIInv, NEW p \in Requests, NEW q \in Requests, NEW s \in Requests,
         WaitsFor(p, q), WaitsFor(q, s), Wanted(s) # {}
  PROVE  FALSE
<1>t. /\ run \in [Runs -> RunRow] /\ asked \in [Requests -> RequestRow] /\ Versions \cap Runs = {}
      /\ RequestGood(p) /\ RequestGood(q) /\ RequestGood(s)
  BY TypesOfRows, WorkspaceAssumption DEF WorkspaceIInv
<1>1. ASSUME NEW x \in Requests
      PROVE  Wanted(x) \subseteq Objects
  <2>1. RequestGood(x) /\ asked[x].object \in Objects
    BY <1>t DEF WorkspaceIInv, RequestRow
  <2>2. VersionOf(asked[x].object) \in Objects
    BY <1>t, <2>1, VersionOfObject DEF Objects
  <2> QED BY <2>1, <2>2 DEF Wanted, LiveRunsOf, RunsOf, Objects
<1>2. ASSUME NEW x \in Requests, NEW o \in Objects, lockedBy[o] = x, Wanted(x) # {}
      PROVE  /\ asked[x].task \in {"complete", "delete"} /\ asked[x].at = "version"
             /\ asked[x].task = "complete" => o \in Versions
  <2>1. HolderShape(o, x)
    BY <1>2 DEF LocksIInv, Holders
  <2> QED BY <1>2, <2>1, <1>t DEF HolderShape, Wanted, LocksVersion, LocksRun, At, LocksItsVersion,
       Locking, Objects
<1>3. PICK o \in Objects : o \in Wanted(p) /\ lockedBy[o] = q
  BY <1>1 DEF WaitsFor
<1>4. PICK r \in Objects : r \in Wanted(q) /\ lockedBy[r] = s
  BY <1>1 DEF WaitsFor
<1>5. asked[q].task \in {"complete", "delete"} /\ asked[q].at = "version"
  BY <1>2, <1>3, <1>4
<1>6. /\ r \in Runs /\ run[r].of = VersionOf(asked[q].object)
      /\ asked[q].task = "delete" => lockedBy[r] # q
  <2>1. CASE asked[q].task = "complete"
    <3>1. r = asked[q].object /\ r \in Runs
      BY <1>t, <1>4, <1>5, <2>1 DEF Wanted, LocksVersion, LocksRun, At, RequestGood, OnRuns
    <3> QED BY <1>t, <2>1, <3>1 DEF VersionOf
  <2>2. CASE asked[q].task = "delete"
    <3>1. r \in LiveRunsOf(asked[q].object) \ Held(q)
      BY <1>4, <1>5, <2>2 DEF Wanted, LocksVersion, LocksRun, At
    <3>2. asked[q].object \in Versions
      BY <1>t, <2>2 DEF RequestGood, OnVersions
    <3> QED BY <3>1, <3>2 DEF LiveRunsOf, RunsOf, Held, VersionOf, Objects
  <2> QED BY <1>5, <2>1, <2>2
<1>7. /\ asked[s].task = "delete" /\ asked[s].at = "version" /\ asked[s].object = run[r].of
  <2>1. HolderShape(r, s)
    BY <1>4 DEF LocksIInv, Holders
  <2>2. asked[s].at = "version" /\ (asked[s].task = "complete" => r \in Versions)
    BY <1>2, <1>4
  <2> QED BY <1>t, <1>6, <2>1, <2>2 DEF HolderShape
<1>8. lockedBy[VersionOf(asked[q].object)] = q /\ lockedBy[VersionOf(asked[s].object)] = s
  BY <1>5, <1>7 DEF LocksIInv, HoldsItsVersion, LocksItsVersion, Locking
<1>9. VersionOf(asked[s].object) = asked[s].object
  BY <1>t, <1>7 DEF RequestGood, OnVersions, VersionOf
<1>10. q = s
  BY <1>6, <1>7, <1>8, <1>9
<1> QED BY <1>4, <1>6, <1>7, <1>10

LEMMA LocksImplyNoCycle == WorkspaceIInv /\ LocksIInv => NoLockCycle
<1> SUFFICES ASSUME WorkspaceIInv, LocksIInv
             PROVE  NoLockCycle
  OBVIOUS
<1> SUFFICES ASSUME NEW waiting \in (SUBSET {p \in Requests : Wanted(p) # {}}) \ {{}}
             PROVE  \E p \in waiting : \A q \in waiting : ~WaitsFor(p, q)
  BY ZenonT(20) DEF NoLockCycle
<1>0. waiting \in SUBSET {p \in Requests : Wanted(p) # {}} /\ waiting # {}
  OBVIOUS
<1>1. PICK p \in waiting : TRUE
  BY <1>0
<1>2. CASE \A q \in waiting : ~WaitsFor(p, q)
  BY <1>1, <1>2
<1>3. ASSUME NEW q \in waiting, WaitsFor(p, q)
      PROVE  \A s \in waiting : ~WaitsFor(q, s)
  BY <1>0, <1>1, <1>3, WaitingEnds
<1> QED BY <1>1, <1>2, <1>3

LEMMA LocksInductive == WorkspaceSpec => [](WorkspaceIInv /\ LocksIInv)
<1>1. WorkspaceInit => WorkspaceIInv /\ LocksIInv
  BY WorkspaceBegins, LocksBegin
<1>2. (WorkspaceIInv /\ LocksIInv) /\ [WorkspaceNext]_wvars => (WorkspaceIInv /\ LocksIInv)'
  BY RecordsStep, LocksStep
<1> QED BY <1>1, <1>2, PTL DEF WorkspaceSpec

-----------------------------------------------------------------------------
(* The theorems.                                                           *)

\* Rows, locks and requests keep their types (the columns of rca/workspace/schema.py).
THEOREM WorkspaceTypes == WorkspaceSpec => []WorkspaceTypeOK
<1>1. WorkspaceIInv => WorkspaceTypeOK
  BY DEF WorkspaceIInv
<1> QED BY <1>1, RecordsInductive, PTL

\* A version ends with its content ended before and its runs with it, once in the
\* tombstones, the ledger and the audit trail, however requests race, die and are
\* repeated (delete_version and its tombstone cascade).
THEOREM VersionsEndWhole == WorkspaceSpec => []EndsTogether
  BY RecordsInductive, InvariantImpliesEndsTogether, PTL

\* Bindings, completion and seal are one; raw uploads go only by a purge that is
\* due; and what is recorded is retained (record_completion, the upload sweep).
THEOREM CompletionsSeal == WorkspaceSpec => []SealedByCompletion
  BY RecordsInductive, InvariantImpliesSealed, PTL

\* Row locks are taken in one order, so requests never wait in a circle, whatever
\* their number (SELECT ... FOR UPDATE in rca/workspace/store.py and tombstones.py).
THEOREM LocksAreOrdered == WorkspaceSpec => []NoLockCycle
  BY LocksInductive, LocksImplyNoCycle, PTL

\* What the ledger names stays as it ended, also after its rows came back from a
\* backup: completions and failures ask the ledger under their locks.
THEOREM RevocationHolds == WorkspaceSpec => RevokedIsFrozen
<1> DEFINE Frozen ==
      \A v \in ledger :
       /\ v \in ledger' /\ ~LiveVersion(v)'
       /\ version'[v].sealed = version[v].sealed
       /\ \A r \in RunsOf(v) :
            run'[r].state = run[r].state /\ run'[r].bound = run[r].bound
<1>1. ASSUME WorkspaceIInv, [WorkspaceNext]_wvars
      PROVE  Frozen
  <2> SUFFICES ASSUME NEW v \in ledger
               PROVE  /\ v \in ledger' /\ ~LiveVersion(v)'
                      /\ version'[v].sealed = version[v].sealed
                      /\ \A r \in RunsOf(v) :
                           run'[r].state = run[r].state /\ run'[r].bound = run[r].bound
    OBVIOUS
  <2>t. /\ run \in [Runs -> RunRow] /\ version \in [Versions -> VersionRow] /\ v \in Versions
        /\ \A r \in RunsOf(v) : r \in Runs /\ run[r] \in RunRow /\ run[r].of = v
                                /\ run[r].state # "absent"
    BY <1>1, TypesOfRows DEF WorkspaceIInv, RunsOf
  <2> DEFINE Still == /\ v \in ledger'
                      /\ version'[v].sealed = version[v].sealed
                      /\ \A r \in RunsOf(v) :
                           run'[r].state = run[r].state /\ run'[r].bound = run[r].bound
  <2>0. Still => v \in ledger' /\ ~LiveVersion(v)'
                 /\ version'[v].sealed = version[v].sealed
                 /\ \A r \in RunsOf(v) :
                      run'[r].state = run[r].state /\ run'[r].bound = run[r].bound
    BY DEF LiveVersion
  <2> SUFFICES Still
    BY <2>0
  <2>1. ASSUME UNCHANGED <<version, run, ledger>>
        PROVE  Still
    BY <2>1
  <2>2. ASSUME NEW q \in Requests, CreateVersion(q)
        PROVE  Still
    BY <2>t, <2>2 DEF CreateVersion, Others, VersionRow
  <2>3. ASSUME NEW q \in Requests, StartRun(q)
        PROVE  Still
    <3>1. run[asked[q].object].state = "absent"
      BY <1>1, <2>3 DEF WorkspaceIInv, RequestGood, StartRun, At
    <3>2. \A r \in RunsOf(v) : r # asked[q].object
      BY <2>t, <3>1
    <3> QED BY <2>t, <2>3, <3>2 DEF StartRun, Others
  <2>4. ASSUME NEW q \in Requests, RecordCompletion(q) \/ FailRun(q)
        PROVE  Still
    <3>1. CASE ~StillStarted(asked[q].object)
      <4>1. CASE RecordCompletion(q)
        BY <2>1, <3>1, <4>1 DEF RecordCompletion, Others
      <4>2. CASE FailRun(q)
        BY <2>t, <3>1, <4>2 DEF FailRun, Others, RunRow
      <4> QED BY <2>4, <4>1, <4>2
    <3>2. CASE StillStarted(asked[q].object)
      <4>1. run[asked[q].object].of # v
        BY <3>2 DEF StillStarted, LiveRun
      <4>2. \A r \in RunsOf(v) : r # asked[q].object
        BY <2>t, <4>1
      <4>3. /\ v \in ledger' /\ version'[v].sealed = version[v].sealed
        BY <2>t, <2>4, <3>2, <4>1 DEF RecordCompletion, FailRun, Others, VersionRow
      <4>4. \A r \in RunsOf(v) : run'[r] = run[r]
        BY <2>t, <2>4, <3>2, <4>2 DEF RecordCompletion, FailRun
      <4> QED BY <4>3, <4>4
    <3> QED BY <3>1, <3>2
  <2>5. ASSUME NEW q \in Requests, DeleteVersion(q)
        PROVE  Still
    BY <2>t, <2>5 DEF DeleteVersion, VersionRow, RunRow
  <2>6. ASSUME NEW w \in Versions, SealAges(w)
        PROVE  Still
    BY <2>t, <2>6 DEF SealAges, Others, VersionRow
  <2>7. ASSUME NEW w \in Versions, Restore(w)
        PROVE  Still
    BY <2>t, <2>7 DEF Restore, Others, VersionRow, RunRow
  <2>8. ASSUME NEW q \in Requests, WorkspaceStep(q)
        PROVE  Still
    BY <2>1, <2>2, <2>3, <2>4, <2>5, <2>8 DEF WorkspaceStep, Read, Lock, CreateRefused, AddProfile,
       Pin, EndDerivedContent, DeletionDeferred, AlreadyDeleted, PurgeObject, PurgeRow, Abandon,
       Records
  <2> HIDE DEF Still
  <2> QED BY <1>1, <2>1, <2>6, <2>7, <2>8 DEF WorkspaceNext, wvars, Unpin, RequestContentEnd,
       CompleteContentEnd, Records
<1> HIDE DEF Frozen
<1>2. WorkspaceIInv /\ [WorkspaceNext]_wvars => [Frozen]_wvars
  BY <1>1
<1>3. WorkspaceSpec => [][Frozen]_wvars
  BY <1>2, RecordsInductive, PTL DEF WorkspaceSpec
<1> QED BY <1>3 DEF Frozen, RevokedIsFrozen

-----------------------------------------------------------------------------
(* Envelope migration: EnvelopeMigration.                                  *)

\* A pass that holds the lock of a session has a first-format row of it in hand,
\* and the session's deletion has not begun.
RowInHand ==
  \A m \in Movers : mover[m].at \in Holding =>
    /\ mover[m].file \in Files
    /\ sealed[mover[m].file].row = "v1"
    /\ closing[sealed[mover[m].file].scope] = "live"

\* One pass holds the lock of a session.
OnePassLocks ==
  \A m, n \in Movers :
    /\ mover[m].at \in Holding /\ mover[n].at \in Holding
    /\ sealed[mover[m].file].scope = sealed[mover[n].file].scope
    => m = n

\* A file that has a first-format row has been sealed.
FirstWasSealed == \A f \in Files : sealed[f].row = "v1" => sealed[f].last # NoSeal

\* Only writes given up can still land.
StrayIsGivenUp == \A f \in Files, n \in Seal : <<f, n>> \in stray => f \in givenUp

\* What a pass wrote, or adopted, is what the row it will commit says.
WrittenStands ==
  \A m \in Movers : mover[m].at = "written" /\ mover[m].file \notin givenUp =>
    /\ mover[m].got = sealed[mover[m].file].object
    /\ mover[m].got > FirstSeal

\* A file's row and object agree.
BodyAgrees(f) ==
  /\ sealed[f].row = "v2" /\ ~Ended(f) => Opens(f)
  /\ sealed[f].row = "v1" /\ ~Ended(f) => Opens(f) \/ sealed[f].object > FirstSeal
  /\ Ended(f) => sealed[f].object = NoSeal

RowsAgree == \A f \in Files \ givenUp : BodyAgrees(f)

\* While a pass may still report verified, every first-format row is in a session
\* it has yet to count or was recorded since it counted that session.
YetToCount ==
  \A m \in Movers :
    /\ mover[m].at = "reported" => mover[m].sessions = {}
    /\ mover[m].at # "idle" /\ mover[m].clear =>
         \A f \in Files : sealed[f].row = "v1" =>
           f \in newcomers[m] \/ sealed[f].scope \in mover[m].sessions

\* The inductive invariant.
EnvelopeIInv ==
  /\ EnvelopeTypeOK
  /\ RowInHand
  /\ OnePassLocks
  /\ FirstWasSealed
  /\ StrayIsGivenUp
  /\ WrittenStands
  /\ RowsAgree
  /\ YetToCount

Pass == [at : MoverAt, sessions : SUBSET Scopes, todo : SUBSET Files,
         file : Files \cup {NoFile}, got : Seal, clear : BOOLEAN]
Stock == [scope : Scopes, row : {"none", "v1", "v2"}, digest : Seal, object : Seal, last : Seal]

LEMMA EnvelopeParts ==
  EnvelopeTypeOK <=>
    /\ sealed \in [Files -> Stock]
    /\ closing \in [Scopes -> {"live", "requested", "swept", "deleted"}]
    /\ mover \in [Movers -> Pass]
    /\ stray \subseteq Files \X Seal
    /\ givenUp \subseteq Files
    /\ newcomers \in [Movers -> SUBSET Files]
  BY DEF EnvelopeTypeOK, Pass, Stock

LEMMA TypesNext ==
  EnvelopeTypeOK' <=>
    /\ sealed' \in [Files -> Stock]
    /\ closing' \in [Scopes -> {"live", "requested", "swept", "deleted"}]
    /\ mover' \in [Movers -> Pass]
    /\ stray' \subseteq Files \X Seal
    /\ givenUp' \subseteq Files
    /\ newcomers' \in [Movers -> SUBSET Files]
  BY DEF EnvelopeTypeOK, Pass, Stock

LEMMA Seals == Seal \subseteq Nat /\ {NoSeal, FirstSeal} \subseteq Seal /\ NoSeal # FirstSeal
  BY EnvelopeAssumption DEF Seal, NoSeal, FirstSeal

LEMMA RestingIsPass == Resting \in Pass
  BY Seals DEF Resting, Pass, MoverAt

LEMMA CandidateDone ==
  ASSUME mover \in [Movers -> Pass], NEW m \in Movers, NextCandidate(m)
  PROVE  /\ mover' \in [Movers -> Pass]
         /\ \A n \in Movers \ {m} : mover'[n] = mover[n]
         /\ mover'[m].at = "walking"
         /\ mover'[m].sessions = mover[m].sessions
         /\ mover'[m].clear = mover[m].clear
<1> DEFINE p == [mover[m] EXCEPT !.at = "walking", !.todo = @ \ {mover[m].file},
                                 !.file = NoFile, !.got = NoSeal]
<1>1. mover[m] \in Pass
  OBVIOUS
<1>2. mover' = [mover EXCEPT ![m] = p]
  BY <1>1 DEF NextCandidate
<1>3. p \in Pass
  BY <1>1, Seals DEF Pass, MoverAt
<1>4. p.at = "walking" /\ p.sessions = mover[m].sessions /\ p.clear = mover[m].clear
  BY <1>1 DEF Pass
<1> HIDE DEF p
<1> QED  BY <1>2, <1>3, <1>4

\* The steps of a pass that write neither an object nor a row.
PassOnly(m) ==
  \/ ListSessions(m) \/ FetchBody(m) \/ ReportPass(m) \/ PassDies(m)
  \/ \E s \in Scopes : ReadCandidates(m, s) \/ CountSession(m, s)
  \/ \E f \in Files : LockCandidate(m, f)

LEMMA PassTypes ==
  ASSUME EnvelopeTypeOK, RowInHand, NEW m \in Movers, PassOnly(m)
  PROVE  /\ mover' \in [Movers -> Pass] /\ newcomers' \in [Movers -> SUBSET Files]
         /\ UNCHANGED <<sealed, closing, stray, givenUp>>
         /\ \A n \in Movers \ {m} : mover'[n] = mover[n] /\ newcomers'[n] = newcomers[n]
<1>T. /\ mover \in [Movers -> Pass] /\ mover[m] \in Pass /\ sealed \in [Files -> Stock]
      /\ newcomers \in [Movers -> SUBSET Files]
  BY EnvelopeParts
<1>1. CASE ListSessions(m)
  BY <1>T, <1>1, RestingIsPass DEF ListSessions, Pass, MoverAt
<1>2. CASE FetchBody(m)
  <2>0. mover[m].file \in Files /\ sealed[mover[m].file] \in Stock
    BY <1>T, <1>2 DEF FetchBody, RowInHand, Holding
  <2>1. CASE NextCandidate(m)
    BY <1>T, <1>2, <2>1, CandidateDone DEF FetchBody
  <2>2. CASE mover' = [mover EXCEPT ![m].at = "fetched"]
    BY <1>T, <1>2, <2>2 DEF FetchBody, Pass, MoverAt
  <2>3. CASE mover' = [mover EXCEPT ![m].at = "written", ![m].got = sealed[mover[m].file].object]
    BY <1>T, <1>2, <2>0, <2>3 DEF FetchBody, Pass, MoverAt, Stock
  <2> QED  BY <1>2, <2>1, <2>2, <2>3 DEF FetchBody
<1>3. CASE ReportPass(m)
  BY <1>T, <1>3 DEF ReportPass, Pass, MoverAt
<1>4. CASE PassDies(m)
  BY <1>T, <1>4, RestingIsPass DEF PassDies
<1>5. ASSUME NEW s \in Scopes, ReadCandidates(m, s) \/ CountSession(m, s)
      PROVE  /\ mover' \in [Movers -> Pass] /\ UNCHANGED <<sealed, closing, stray, givenUp, newcomers>>
             /\ \A n \in Movers \ {m} : mover'[n] = mover[n]
  <2>1. CASE CountSession(m, s)
    <3>1. PICK readable \in BOOLEAN :
            mover' = [mover EXCEPT ![m].sessions = @ \ {s},
                                   ![m].clear = @ /\ readable /\ Legacy(s) = {}]
      BY <2>1 DEF CountSession
    <3> DEFINE b == mover[m].clear /\ readable /\ Legacy(s) = {}
    <3>2. b \in BOOLEAN
      OBVIOUS
    <3>3. mover' = [mover EXCEPT ![m].sessions = @ \ {s}, ![m].clear = b]
      BY <1>T, <3>1
    <3> HIDE DEF b
    <3>4. mover' \in [Movers -> Pass] /\ \A n \in Movers \ {m} : mover'[n] = mover[n]
      BY <1>T, <3>2, <3>3 DEF Pass
    <3> QED  BY <2>1, <3>4 DEF CountSession
  <2>2. CASE ReadCandidates(m, s)
    <3>1. Legacy(s) \in SUBSET Files
      BY DEF Legacy, InScope
    <3>2. UNCHANGED <<sealed, closing, stray, givenUp, newcomers>>
      BY <2>2 DEF ReadCandidates
    <3>3. CASE s \in Unscoped
      BY <1>T, <2>2, <3>2, <3>3 DEF ReadCandidates, Pass
    <3>4. CASE s \notin Unscoped
      BY <1>T, <2>2, <3>1, <3>2, <3>4 DEF ReadCandidates, Pass
    <3> QED  BY <3>3, <3>4
  <2> QED  BY <1>5, <2>1, <2>2
<1>6. ASSUME NEW f \in Files, LockCandidate(m, f)
      PROVE  /\ mover' \in [Movers -> Pass] /\ UNCHANGED <<sealed, closing, stray, givenUp, newcomers>>
             /\ \A n \in Movers \ {m} : mover'[n] = mover[n]
  BY <1>T, <1>6 DEF LockCandidate, Pass, MoverAt
<1>7. CASE UNCHANGED <<sealed, closing, stray, givenUp, newcomers>> /\ mover' \in [Movers -> Pass]
           /\ \A n \in Movers \ {m} : mover'[n] = mover[n]
  BY <1>T, <1>7
<1> QED  BY <1>1, <1>2, <1>3, <1>4, <1>5, <1>6, <1>7 DEF PassOnly

\* A pass takes a row in hand when it finds it in the first format in a session
\* that is live and that no pass locks, and keeps it until it is done with it.
LEMMA PassLocks ==
  ASSUME EnvelopeTypeOK, NEW m \in Movers, PassOnly(m), mover'[m].at \in Holding
  PROVE  \/ /\ mover[m].at \in Holding /\ mover'[m].file = mover[m].file
            /\ mover'[m].at = "written" =>
                  mover'[m].got = sealed[mover[m].file].object /\ mover'[m].got > FirstSeal
         \/ /\ mover'[m].at = "locked" /\ mover'[m].file \in Files
            /\ sealed[mover'[m].file].row = "v1"
            /\ closing[sealed[mover'[m].file].scope] = "live"
            /\ ~ScopeLocked(sealed[mover'[m].file].scope)
<1> DEFINE Goal ==
         \/ /\ mover[m].at \in Holding /\ mover'[m].file = mover[m].file
            /\ mover'[m].at = "written" =>
                  mover'[m].got = sealed[mover[m].file].object /\ mover'[m].got > FirstSeal
         \/ /\ mover'[m].at = "locked" /\ mover'[m].file \in Files
            /\ sealed[mover'[m].file].row = "v1"
            /\ closing[sealed[mover'[m].file].scope] = "live"
            /\ ~ScopeLocked(sealed[mover'[m].file].scope)
<1>T. mover \in [Movers -> Pass] /\ mover[m] \in Pass
  BY EnvelopeParts
<1>1. CASE ListSessions(m) \/ PassDies(m)
  <2>1. ListSessions(m) => mover'[m].at = "walking"
    BY <1>T DEF ListSessions, Resting
  <2>2. PassDies(m) => mover'[m].at = "idle"
    BY <1>T DEF PassDies, Resting
  <2> QED  BY <1>1, <2>1, <2>2 DEF Holding
<1>2. CASE ReportPass(m)
  BY <1>T, <1>2 DEF ReportPass, Pass, Holding
<1>3. CASE FetchBody(m)
  <2>1. CASE NextCandidate(m)
    BY <1>T, <2>1, CandidateDone DEF Holding
  <2>2. CASE mover' = [mover EXCEPT ![m].at = "fetched"]
    BY <1>T, <1>3, <2>2 DEF FetchBody, Pass, Holding
  <2>3. CASE /\ mover' = [mover EXCEPT ![m].at = "written", ![m].got = sealed[mover[m].file].object]
             /\ sealed[mover[m].file].object > FirstSeal
    BY <1>T, <1>3, <2>3 DEF FetchBody, Pass, Holding
  <2> QED  BY <1>3, <2>1, <2>2, <2>3 DEF FetchBody
<1>4. ASSUME NEW s \in Scopes, ReadCandidates(m, s) \/ CountSession(m, s) PROVE Goal
  <2>1. mover'[m].at = "walking"
    BY <1>T, <1>4 DEF ReadCandidates, CountSession, Pass
  <2> QED  BY <2>1 DEF Holding
<1>5. ASSUME NEW f \in Files, LockCandidate(m, f) PROVE Goal
  <2>1. CASE mover' = [mover EXCEPT ![m].at = "locked", ![m].file = f]
             /\ ContentIsLiveIn(sealed[f].scope) /\ sealed[f].row = "v1"
    BY <1>T, <1>5, <2>1 DEF LockCandidate, Pass, ContentIsLiveIn
  <2>2. CASE mover' = [mover EXCEPT ![m].todo = @ \ {f}]
    BY <1>T, <1>5, <2>2 DEF LockCandidate, Pass, Holding
  <2> QED  BY <1>5, <2>1, <2>2 DEF LockCandidate
<1> HIDE DEF Goal
<1>6. Goal
  BY <1>1, <1>2, <1>3, <1>4, <1>5 DEF PassOnly, Goal
<1> QED  BY <1>6 DEF Goal

\* What a pass that may still report verified has yet to count.
Uncounted(m) ==
  /\ mover[m].at = "reported" => mover[m].sessions = {}
  /\ mover[m].at # "idle" /\ mover[m].clear =>
       \A f \in Files : sealed[f].row = "v1" =>
         f \in newcomers[m] \/ sealed[f].scope \in mover[m].sessions

\* A session leaves the listing counted without a first-format row, or the verdict
\* is blocked.
LEMMA PassCounts ==
  ASSUME EnvelopeTypeOK, RowInHand, NEW m \in Movers, Uncounted(m), PassOnly(m)
  PROVE  Uncounted(m)'
<1>T. mover \in [Movers -> Pass] /\ mover[m] \in Pass /\ sealed \in [Files -> Stock]
  BY EnvelopeParts
<1>S. UNCHANGED sealed
  BY PassTypes
<1>0. CASE /\ mover'[m].sessions = mover[m].sessions /\ mover'[m].clear = mover[m].clear
           /\ newcomers' = newcomers /\ mover[m].at # "idle" /\ mover'[m].at # "reported"
  BY <1>S, <1>0 DEF Uncounted
<1>1. CASE ListSessions(m)
  <2>1. mover'[m].at = "walking" /\ mover'[m].sessions = Scopes
    BY <1>T, <1>1 DEF ListSessions, Resting
  <2> QED  BY <1>T, <1>S, <2>1 DEF Uncounted, Stock
<1>2. CASE PassDies(m)
  <2>1. mover'[m].at = "idle"
    BY <1>T, <1>2 DEF PassDies, Resting
  <2> QED  BY <2>1 DEF Uncounted
<1>3. CASE ReportPass(m)
  <2>1. /\ mover'[m].sessions = mover[m].sessions /\ mover'[m].clear = mover[m].clear
        /\ newcomers' = newcomers /\ mover[m].at = "walking" /\ mover[m].sessions = {}
    BY <1>T, <1>3 DEF ReportPass, Pass
  <2> QED  BY <1>S, <2>1 DEF Uncounted
<1>4. CASE FetchBody(m)
  <2>1. CASE NextCandidate(m)
    BY <1>0, <1>T, <1>4, <2>1, CandidateDone DEF FetchBody
  <2>2. CASE mover' = [mover EXCEPT ![m].at = "fetched"]
    BY <1>0, <1>T, <1>4, <2>2 DEF FetchBody, Pass
  <2>3. CASE mover' = [mover EXCEPT ![m].at = "written", ![m].got = sealed[mover[m].file].object]
    BY <1>0, <1>T, <1>4, <2>3 DEF FetchBody, Pass
  <2> QED  BY <1>4, <2>1, <2>2, <2>3 DEF FetchBody
<1>5. ASSUME NEW s \in Scopes, ReadCandidates(m, s) PROVE Uncounted(m)'
  <2>1. CASE s \in Unscoped
    <3>1. mover'[m].clear = FALSE /\ mover'[m].at = "walking"
      BY <1>T, <1>5, <2>1 DEF ReadCandidates, Pass
    <3> QED  BY <3>1 DEF Uncounted
  <2>2. CASE s \notin Unscoped
    <3>1. mover' = [mover EXCEPT ![m].todo = Legacy(s)] /\ newcomers' = newcomers /\ mover[m].at = "walking"
      BY <1>5, <2>2 DEF ReadCandidates
    <3> QED  BY <1>0, <1>T, <3>1 DEF Pass
  <2> QED  BY <2>1, <2>2
<1>6. ASSUME NEW s \in Scopes, CountSession(m, s) PROVE Uncounted(m)'
  <2>1. PICK readable \in BOOLEAN :
          mover' = [mover EXCEPT ![m].sessions = @ \ {s},
                                 ![m].clear = @ /\ readable /\ Legacy(s) = {}]
    BY <1>6 DEF CountSession
  <2>2. /\ mover'[m].sessions = mover[m].sessions \ {s}
        /\ mover'[m].clear => mover[m].clear /\ Legacy(s) = {}
        /\ mover'[m].at = mover[m].at /\ mover[m].at = "walking" /\ newcomers' = newcomers
    BY <1>T, <1>6, <2>1 DEF CountSession, Pass
  <2>3. ASSUME Legacy(s) = {}, NEW f \in Files, sealed[f].row = "v1" PROVE sealed[f].scope # s
    BY <2>3 DEF Legacy, InScope
  <2> QED  BY <1>S, <2>2, <2>3 DEF Uncounted
<1>7. ASSUME NEW f \in Files, LockCandidate(m, f) PROVE Uncounted(m)'
  <2>1. /\ newcomers' = newcomers /\ mover[m].at = "walking"
        /\ \/ mover' = [mover EXCEPT ![m].at = "locked", ![m].file = f]
           \/ mover' = [mover EXCEPT ![m].todo = @ \ {f}]
    BY <1>7 DEF LockCandidate
  <2>2. /\ mover'[m].sessions = mover[m].sessions /\ mover'[m].clear = mover[m].clear
        /\ mover'[m].at # "reported"
    BY <1>T, <2>1 DEF Pass
  <2> QED  BY <1>0, <2>1, <2>2
<1> QED  BY <1>1, <1>2, <1>3, <1>4, <1>5, <1>6, <1>7 DEF PassOnly

-----------------------------------------------------------------------------
(* The steps that write objects and rows, each on all parts of the         *)
(* invariant.                                                              *)

LEMMA PassKeeps ==
  ASSUME EnvelopeIInv, NEW m \in Movers, PassOnly(m)
  PROVE  EnvelopeIInv'
<1> USE DEF EnvelopeIInv
<1>T. /\ mover \in [Movers -> Pass] /\ mover[m] \in Pass /\ sealed \in [Files -> Stock]
      /\ UNCHANGED <<sealed, closing, stray, givenUp>>
      /\ \A n \in Movers \ {m} : mover'[n] = mover[n] /\ newcomers'[n] = newcomers[n]
  BY EnvelopeParts, PassTypes
<1>1. EnvelopeTypeOK'
  BY PassTypes, EnvelopeParts, TypesNext
<1>2. RowInHand'
  BY <1>T, PassLocks DEF RowInHand
<1>3. OnePassLocks'
  <2>1. ASSUME NEW n \in Movers \ {m}, mover'[m].at \in Holding, mover'[n].at \in Holding,
               sealed[mover'[m].file].scope = sealed[mover'[n].file].scope
        PROVE  FALSE
    <3>1. mover[n].at \in Holding /\ mover[n].file = mover'[n].file
      BY <1>T, <2>1
    <3>2. ScopeLocked(sealed[mover'[m].file].scope)
      BY <2>1, <3>1 DEF ScopeLocked
    <3>3. mover[m].at \in Holding /\ mover'[m].file = mover[m].file
      BY <2>1, <3>2, PassLocks
    <3> QED  BY <2>1, <3>1, <3>3 DEF OnePassLocks
  <2> QED  BY <1>T, <2>1 DEF OnePassLocks
<1>4. FirstWasSealed' /\ StrayIsGivenUp'
  BY <1>T DEF FirstWasSealed, StrayIsGivenUp
<1>5. WrittenStands'
  <2>1. mover'[m].at = "written" =>
          mover'[m].got = sealed'[mover'[m].file].object /\ mover'[m].got > FirstSeal
    BY <1>T, PassLocks DEF Holding
  <2> QED  BY <1>T, <2>1 DEF WrittenStands
<1>6. RowsAgree'
  BY <1>T DEF RowsAgree, BodyAgrees, Ended, Opens
<1>7. YetToCount'
  <2>1. Uncounted(m)'
    BY PassCounts DEF YetToCount, Uncounted
  <2> QED  BY <1>T, <2>1 DEF YetToCount, Uncounted
<1> QED  BY <1>1, <1>2, <1>3, <1>4, <1>5, <1>6, <1>7

\* One file's seals are written by the pass that holds its session's lock.
LEMMA CandidateStep ==
  ASSUME EnvelopeIInv, NEW m \in Movers, NEW s \in Stock, mover[m].at \in Holding,
         sealed' = [sealed EXCEPT ![mover[m].file] = s],
         s.scope = sealed[mover[m].file].scope,
         s.row = "v1" => s.last # NoSeal,
         mover' \in [Movers -> Pass],
         \A n \in Movers \ {m} : mover'[n] = mover[n],
         mover'[m].sessions = mover[m].sessions, mover'[m].clear = mover[m].clear,
         mover'[m].at \in {"walking", "written"},
         mover'[m].at = "written" => /\ mover'[m].file = mover[m].file /\ s.row = "v1"
                                     /\ mover'[m].got = s.object /\ s.object > FirstSeal,
         stray' \subseteq Files \X Seal, givenUp \subseteq givenUp', givenUp' \subseteq Files,
         \A f \in Files, n \in Seal : <<f, n>> \in stray' => <<f, n>> \in stray \/ f \in givenUp',
         UNCHANGED <<closing, newcomers>>,
         mover[m].file \notin givenUp' =>
           /\ s.row \in {"v1", "v2"}
           /\ s.row = "v1" => s.object > FirstSeal
           /\ s.row = "v2" => s.object # NoSeal /\ s.object = s.digest
  PROVE  EnvelopeIInv'
<1> USE DEF EnvelopeIInv
<1> DEFINE f == mover[m].file
<1>T. /\ mover \in [Movers -> Pass] /\ mover[m] \in Pass /\ sealed \in [Files -> Stock]
      /\ f \in Files /\ sealed[f].row = "v1" /\ closing[sealed[f].scope] = "live"
  BY EnvelopeParts DEF RowInHand
<1>S. /\ sealed' \in [Files -> Stock] /\ sealed'[f] = s
      /\ \A g \in Files \ {f} : sealed'[g] = sealed[g]
      /\ \A g \in Files : sealed'[g].scope = sealed[g].scope
  BY <1>T
<1>1. EnvelopeTypeOK'
  BY <1>S, EnvelopeParts, TypesNext
<1>N. ASSUME NEW n \in Movers \ {m}, mover[n].at \in Holding PROVE mover[n].file \in Files \ {f}
  BY <1>N, <1>T DEF RowInHand, OnePassLocks
<1>2. RowInHand'
  <2>1. mover'[m].at \in Holding => mover'[m].file = f /\ s.row = "v1"
    BY DEF Holding
  <2> QED  BY <1>T, <1>S, <1>N, <2>1 DEF RowInHand
<1>3. OnePassLocks'
  <2>1. ASSUME NEW n \in Movers, mover'[n].at \in Holding
        PROVE  /\ mover[n].at \in Holding /\ mover'[n].file = mover[n].file
               /\ mover[n].file \in Files
    BY <2>1 DEF Holding, RowInHand
  <2> QED  BY <1>S, <2>1 DEF OnePassLocks
<1>4. FirstWasSealed' /\ StrayIsGivenUp'
  BY <1>S DEF FirstWasSealed, StrayIsGivenUp
<1>5. WrittenStands'
  BY <1>S, <1>N DEF WrittenStands, Holding
<1>6. RowsAgree'
  <2> SUFFICES ASSUME NEW g \in Files \ givenUp' PROVE BodyAgrees(g)'
    BY DEF RowsAgree
  <2>1. CASE g = f
    BY <1>T, <1>S, <2>1 DEF BodyAgrees, Ended, Opens
  <2>2. CASE g # f
    BY <1>S, <2>2 DEF RowsAgree, BodyAgrees, Ended, Opens
  <2> QED  BY <2>1, <2>2
<1>7. YetToCount'
  <2>1. \A g \in Files : sealed'[g].row = "v1" => sealed[g].row = "v1"
    BY <1>T, <1>S
  <2>2. mover[m].at # "idle" /\ mover'[m].at # "reported"
    BY DEF Holding
  <2> QED  BY <1>S, <2>1, <2>2 DEF YetToCount
<1> QED  BY <1>1, <1>2, <1>3, <1>4, <1>5, <1>6, <1>7

LEMMA OverwriteKeeps ==
  ASSUME EnvelopeIInv, NEW m \in Movers, OverwriteObject(m)
  PROVE  EnvelopeIInv'
<1> DEFINE f == mover[m].file
           new == sealed[f].last + 1
<1>T. /\ mover \in [Movers -> Pass] /\ mover[m] \in Pass /\ sealed \in [Files -> Stock]
      /\ stray \subseteq Files \X Seal /\ givenUp \subseteq Files
      /\ mover[m].at = "fetched" /\ mover[m].at \in Holding
      /\ f \in Files /\ sealed[f] \in Stock /\ sealed[f].row = "v1" /\ sealed[f].last # NoSeal
      /\ sealed[f].last < MaxSeals /\ UNCHANGED <<closing, newcomers>>
  BY EnvelopeParts DEF EnvelopeIInv, RowInHand, FirstWasSealed, OverwriteObject, Holding
<1>N. new \in Seal /\ new > FirstSeal /\ new # NoSeal
  BY <1>T, EnvelopeAssumption DEF Stock, Seal, NoSeal, FirstSeal
<1>S. StrayIsGivenUp
  BY DEF EnvelopeIInv
<1>1. CASE /\ sealed' = [sealed EXCEPT ![f].object = new, ![f].last = new]
           /\ mover' = [mover EXCEPT ![m].at = "written", ![m].got = new]
           /\ UNCHANGED <<stray, givenUp>>
  <2> DEFINE s == [sealed[f] EXCEPT !.object = new, !.last = new]
  <2>1. sealed' = [sealed EXCEPT ![f] = s]
    BY <1>T, <1>1
  <2>2. /\ s \in Stock /\ s.scope = sealed[f].scope /\ s.row = "v1" /\ s.last = new
        /\ s.object = new
    BY <1>T, <1>N DEF Stock
  <2>3. /\ mover' \in [Movers -> Pass] /\ mover'[m].at = "written" /\ mover'[m].file = f
        /\ mover'[m].got = new /\ mover'[m].sessions = mover[m].sessions
        /\ mover'[m].clear = mover[m].clear
        /\ \A n \in Movers \ {m} : mover'[n] = mover[n]
    BY <1>T, <1>N, <1>1 DEF Pass, MoverAt
  <2> HIDE DEF s
  <2>4. /\ stray' \subseteq Files \X Seal /\ givenUp' \subseteq Files
        /\ stray' = stray /\ givenUp' = givenUp
    BY <1>T, <1>1
  <2> QED  BY <1>T, <1>N, <2>1, <2>2, <2>3, <2>4, CandidateStep
<1>2. CASE /\ sealed' = [sealed EXCEPT ![f].object = new, ![f].last = new]
           /\ NextCandidate(m) /\ UNCHANGED <<stray, givenUp>>
  <2> DEFINE s == [sealed[f] EXCEPT !.object = new, !.last = new]
  <2>1. sealed' = [sealed EXCEPT ![f] = s]
    BY <1>T, <1>2
  <2>2. /\ s \in Stock /\ s.scope = sealed[f].scope /\ s.row = "v1" /\ s.last = new
        /\ s.object = new
    BY <1>T, <1>N DEF Stock
  <2> HIDE DEF s
  <2>3. /\ mover' \in [Movers -> Pass] /\ mover'[m].at = "walking"
        /\ mover'[m].sessions = mover[m].sessions /\ mover'[m].clear = mover[m].clear
        /\ \A n \in Movers \ {m} : mover'[n] = mover[n]
    BY <1>T, <1>2, CandidateDone
  <2>4. /\ stray' \subseteq Files \X Seal /\ givenUp' \subseteq Files
        /\ stray' = stray /\ givenUp' = givenUp
    BY <1>T, <1>2
  <2> QED  BY <1>T, <1>N, <2>1, <2>2, <2>3, <2>4, CandidateStep
<1>3. CASE /\ stray' = stray \cup {<<f, new>>} /\ givenUp' = givenUp \cup {f}
           /\ sealed' = [sealed EXCEPT ![f].last = new]
           /\ NextCandidate(m)
  <2> DEFINE s == [sealed[f] EXCEPT !.last = new]
  <2>1. sealed' = [sealed EXCEPT ![f] = s]
    BY <1>T, <1>3
  <2>2. s \in Stock /\ s.scope = sealed[f].scope /\ s.row = "v1" /\ s.last = new
    BY <1>T, <1>N DEF Stock
  <2> HIDE DEF s
  <2>3. /\ stray' \subseteq Files \X Seal /\ givenUp \subseteq givenUp' /\ givenUp' \subseteq Files
        /\ f \in givenUp'
        /\ \A g \in Files, n \in Seal : <<g, n>> \in stray' => <<g, n>> \in stray \/ g \in givenUp'
    BY <1>T, <1>N, <1>3
  <2>4. /\ mover' \in [Movers -> Pass] /\ mover'[m].at = "walking"
        /\ mover'[m].sessions = mover[m].sessions /\ mover'[m].clear = mover[m].clear
        /\ \A n \in Movers \ {m} : mover'[n] = mover[n]
    BY <1>T, <1>3, CandidateDone
  <2> QED  BY <1>T, <1>N, <2>1, <2>2, <2>3, <2>4, CandidateStep
<1> QED  BY <1>1, <1>2, <1>3 DEF OverwriteObject

LEMMA CommitKeeps ==
  ASSUME EnvelopeIInv, NEW m \in Movers, CommitRow(m)
  PROVE  EnvelopeIInv'
<1> DEFINE f == mover[m].file
           s == [sealed[f] EXCEPT !.row = "v2", !.digest = mover[m].got]
<1>T. /\ mover \in [Movers -> Pass] /\ mover[m] \in Pass /\ sealed \in [Files -> Stock]
      /\ stray \subseteq Files \X Seal /\ givenUp \subseteq Files
      /\ mover[m].at = "written" /\ mover[m].at \in Holding
      /\ f \in Files /\ sealed[f] \in Stock
      /\ UNCHANGED <<closing, newcomers, stray, givenUp>> /\ NextCandidate(m)
  BY EnvelopeParts DEF EnvelopeIInv, RowInHand, CommitRow, Holding
<1>1. sealed' = [sealed EXCEPT ![f] = s]
  BY <1>T DEF CommitRow
<1>2. /\ s \in Stock /\ s.scope = sealed[f].scope /\ s.row = "v2" /\ s.digest = mover[m].got
      /\ s.object = sealed[f].object
  BY <1>T DEF Stock, Pass
<1>3. f \notin givenUp => mover[m].got = sealed[f].object /\ mover[m].got # NoSeal
  BY <1>T DEF EnvelopeIInv, WrittenStands, NoSeal, FirstSeal
<1> HIDE DEF s
<1> QED  BY <1>T, <1>1, <1>2, <1>3, CandidateDone, CandidateStep DEF EnvelopeIInv, StrayIsGivenUp

\* A write given up lands on a file that is excepted from what rows and objects say.
LEMMA LateWriteKeeps ==
  ASSUME EnvelopeIInv, NEW f \in Files, NEW n \in Seal, LateWriteLands(f, n)
  PROVE  EnvelopeIInv'
<1> USE DEF EnvelopeIInv
<1>T. /\ sealed \in [Files -> Stock] /\ stray \subseteq Files \X Seal /\ f \in givenUp
      /\ UNCHANGED <<closing, mover, givenUp, newcomers>>
      /\ stray' = stray \ {<<f, n>>} /\ sealed' = [sealed EXCEPT ![f].object = n]
  BY EnvelopeParts DEF LateWriteLands, StrayIsGivenUp
<1>S. /\ sealed' \in [Files -> Stock]
      /\ \A g \in Files : /\ sealed'[g].scope = sealed[g].scope /\ sealed'[g].row = sealed[g].row
                          /\ sealed'[g].last = sealed[g].last
                          /\ g # f => sealed'[g] = sealed[g]
  BY <1>T DEF Stock
<1>1. EnvelopeTypeOK'
  BY <1>T, <1>S, EnvelopeParts, TypesNext
<1>2. RowInHand' /\ OnePassLocks'
  BY <1>T, <1>S DEF RowInHand, OnePassLocks
<1>3. FirstWasSealed' /\ StrayIsGivenUp'
  BY <1>T, <1>S DEF FirstWasSealed, StrayIsGivenUp
<1>4. WrittenStands'
  BY <1>T, <1>S DEF WrittenStands, RowInHand, Holding
<1>5. RowsAgree'
  BY <1>T, <1>S DEF RowsAgree, BodyAgrees, Ended, Opens
<1>6. YetToCount'
  BY <1>T, <1>S DEF YetToCount
<1> QED  BY <1>1, <1>2, <1>3, <1>4, <1>5, <1>6

\* What a publication records opens, and every pass that has counted its session
\* takes note of it.
LEMMA RecordKeeps ==
  ASSUME EnvelopeIInv, NEW f \in Files, RecordArtifact(f)
  PROVE  EnvelopeIInv'
<1> USE DEF EnvelopeIInv
<1>T. /\ sealed \in [Files -> Stock] /\ sealed[f] \in Stock /\ mover \in [Movers -> Pass]
      /\ newcomers \in [Movers -> SUBSET Files]
      /\ sealed[f].row = "none" /\ closing[sealed[f].scope] \in {"live", "requested"}
      /\ UNCHANGED <<closing, mover, stray, givenUp>>
  BY EnvelopeParts DEF RecordArtifact
<1>1. PICK n \in {FirstSeal, FirstSeal + 1}, row \in {"v1", "v2"} :
        /\ n = FirstSeal + 1 => FirstSeal < MaxSeals
        /\ sealed' = [sealed EXCEPT ![f] = [@ EXCEPT !.row = row, !.digest = n, !.object = n, !.last = n]]
        /\ IF row = "v2" THEN newcomers' = newcomers
           ELSE newcomers' = [m \in Movers |-> IF sealed[f].scope \in mover[m].sessions THEN newcomers[m]
                                               ELSE newcomers[m] \cup {f}]
  <2>1. CASE /\ FirstSeal < MaxSeals
             /\ sealed' = [sealed EXCEPT ![f] = [@ EXCEPT !.row = "v2", !.digest = FirstSeal + 1,
                             !.object = FirstSeal + 1, !.last = FirstSeal + 1]]
             /\ newcomers' = newcomers
    BY <2>1
  <2>2. CASE /\ sealed' = [sealed EXCEPT ![f] = [@ EXCEPT !.row = "v1", !.digest = FirstSeal,
                             !.object = FirstSeal, !.last = FirstSeal]]
             /\ newcomers' = [m \in Movers |->
                   IF sealed[f].scope \in mover[m].sessions THEN newcomers[m]
                   ELSE newcomers[m] \cup {f}]
    <3>1. FirstSeal # FirstSeal + 1
      BY DEF FirstSeal
    <3> QED  BY <2>2, <3>1
  <2> QED  BY <2>1, <2>2 DEF RecordArtifact
<1> DEFINE s == [sealed[f] EXCEPT !.row = row, !.digest = n, !.object = n, !.last = n]
<1>2. n \in Seal /\ n # NoSeal
  BY <1>1, EnvelopeAssumption DEF Seal, NoSeal, FirstSeal
<1>3. /\ s \in Stock /\ s.scope = sealed[f].scope /\ s.row = row /\ s.digest = n
      /\ s.object = n /\ s.last = n
  BY <1>T, <1>2 DEF Stock
<1>4. sealed' = [sealed EXCEPT ![f] = s]
  BY <1>1
<1> HIDE DEF s
<1>S. /\ sealed' \in [Files -> Stock] /\ sealed'[f] = s
      /\ \A g \in Files \ {f} : sealed'[g] = sealed[g]
      /\ \A g \in Files : sealed'[g].scope = sealed[g].scope
  BY <1>T, <1>3, <1>4
<1>N. /\ newcomers' \in [Movers -> SUBSET Files]
      /\ \A m \in Movers : newcomers[m] \subseteq newcomers'[m]
      /\ row = "v1" => \A m \in Movers : f \in newcomers'[m] \/ sealed[f].scope \in mover[m].sessions
  BY <1>T, <1>1
<1>5. EnvelopeTypeOK'
  BY <1>T, <1>S, <1>N, EnvelopeParts, TypesNext
<1>6. \A m \in Movers : mover[m].at \in Holding => mover[m].file \in Files \ {f}
  BY <1>T DEF RowInHand
<1>7. RowInHand' /\ OnePassLocks'
  BY <1>T, <1>S, <1>6 DEF RowInHand, OnePassLocks
<1>8. FirstWasSealed' /\ StrayIsGivenUp'
  BY <1>T, <1>S, <1>2, <1>3 DEF FirstWasSealed, StrayIsGivenUp
<1>9. WrittenStands'
  BY <1>T, <1>S, <1>6 DEF WrittenStands, Holding
<1>10. RowsAgree'
  <2>1. BodyAgrees(f)'
    BY <1>T, <1>S, <1>2, <1>3 DEF BodyAgrees, Ended, Opens
  <2>2. ASSUME NEW g \in Files \ givenUp', g # f PROVE BodyAgrees(g)'
    BY <1>T, <1>S, <2>2 DEF RowsAgree, BodyAgrees, Ended, Opens
  <2> QED  BY <2>1, <2>2 DEF RowsAgree
<1>11. YetToCount'
  BY <1>T, <1>S, <1>N, <1>3 DEF YetToCount
<1> QED  BY <1>5, <1>7, <1>8, <1>9, <1>10, <1>11

\* A deletion begins when no pass locks the session, so none has a row of it in hand.
LEMMA CloseKeeps ==
  ASSUME EnvelopeIInv, NEW s \in Scopes, RequestClose(s)
  PROVE  EnvelopeIInv'
<1> USE DEF EnvelopeIInv
<1>T. /\ sealed \in [Files -> Stock]
      /\ closing \in [Scopes -> {"live", "requested", "swept", "deleted"}] /\ closing[s] = "live"
      /\ closing' = [closing EXCEPT ![s] = "requested"]
      /\ UNCHANGED <<sealed, mover, stray, givenUp, newcomers>> /\ ~ScopeLocked(s)
  BY EnvelopeParts DEF RequestClose
<1>1. EnvelopeTypeOK'
  BY <1>T, EnvelopeParts, TypesNext
<1>2. RowInHand' /\ OnePassLocks'
  BY <1>T DEF RowInHand, OnePassLocks, ScopeLocked, Stock
<1>3. FirstWasSealed' /\ StrayIsGivenUp' /\ WrittenStands' /\ YetToCount'
  BY <1>T DEF FirstWasSealed, StrayIsGivenUp, WrittenStands, YetToCount
<1>4. RowsAgree'
  <2>1. \A f \in Files : Ended(f)' <=> Ended(f)
    BY <1>T DEF Ended, Stock
  <2> QED  BY <1>T, <2>1 DEF RowsAgree, BodyAgrees, Opens
<1> QED  BY <1>1, <1>2, <1>3, <1>4

\* The deletion sweeps the objects and then the rows; no pass has one in hand.
LEMMA DeletionKeeps ==
  ASSUME EnvelopeIInv, NEW s \in Scopes, SweepObjects(s) \/ RemoveRows(s)
  PROVE  EnvelopeIInv'
<1> USE DEF EnvelopeIInv
<1>T. /\ sealed \in [Files -> Stock] /\ \A f \in Files : sealed[f] \in Stock
      /\ closing \in [Scopes -> {"live", "requested", "swept", "deleted"}]
      /\ closing[s] \in {"requested", "swept"} /\ closing'[s] \in {"swept", "deleted"}
      /\ closing' \in [Scopes -> {"live", "requested", "swept", "deleted"}]
      /\ \A t \in Scopes \ {s} : closing'[t] = closing[t]
      /\ UNCHANGED <<mover, stray, givenUp, newcomers>>
  BY EnvelopeParts DEF SweepObjects, RemoveRows
<1>S. /\ sealed' \in [Files -> Stock]
      /\ \A f \in Files :
           /\ sealed'[f].scope = sealed[f].scope /\ sealed'[f].last = sealed[f].last
           /\ sealed'[f].row = "v1" => sealed[f].row = "v1"
           /\ sealed[f].scope # s => sealed'[f] = sealed[f]
           /\ sealed[f].scope = s => sealed'[f].object = NoSeal \/ sealed'[f].object = sealed[f].object
           /\ sealed[f].scope = s /\ closing[s] = "requested" => sealed'[f].object = NoSeal
  <2>1. CASE SweepObjects(s)
    BY <1>T, <2>1, Seals DEF SweepObjects, InScope, Stock
  <2>2. CASE RemoveRows(s)
    <3>1. /\ closing[s] = "swept"
          /\ sealed' = [f \in Files |-> IF sealed[f].scope = s
                          THEN [sealed[f] EXCEPT !.row = "none", !.digest = NoSeal] ELSE sealed[f]]
      BY <2>2 DEF RemoveRows, InScope
    <3>2. ASSUME NEW f \in Files
          PROVE  LET r == [sealed[f] EXCEPT !.row = "none", !.digest = NoSeal]
                 IN  /\ r \in Stock /\ r.scope = sealed[f].scope /\ r.last = sealed[f].last
                     /\ r.object = sealed[f].object /\ r.row = "none"
      BY <1>T, Seals DEF Stock
    <3> QED  BY <1>T, <3>1, <3>2
  <2> QED  BY <2>1, <2>2
<1>H. \A m \in Movers : mover[m].at \in Holding =>
        mover[m].file \in Files /\ sealed[mover[m].file].scope # s
        /\ sealed[mover[m].file].scope \in Scopes
  BY <1>T DEF RowInHand, Stock
<1>1. EnvelopeTypeOK'
  BY <1>T, <1>S, EnvelopeParts, TypesNext
<1>2. RowInHand' /\ OnePassLocks'
  BY <1>T, <1>S, <1>H DEF RowInHand, OnePassLocks
<1>3. FirstWasSealed' /\ StrayIsGivenUp' /\ YetToCount'
  BY <1>T, <1>S DEF FirstWasSealed, StrayIsGivenUp, YetToCount
<1>4. WrittenStands'
  BY <1>T, <1>S, <1>H DEF WrittenStands, Holding
<1>5. RowsAgree'
  <2> SUFFICES ASSUME NEW f \in Files \ givenUp PROVE BodyAgrees(f)'
    BY <1>T DEF RowsAgree
  <2>0. BodyAgrees(f)
    BY DEF RowsAgree
  <2>1. CASE sealed[f].scope = s
    <3>1. Ended(f)' /\ (closing[s] = "swept" => Ended(f))
      BY <1>T, <1>S, <2>1 DEF Ended
    <3> QED  BY <1>T, <1>S, <2>0, <2>1, <3>1 DEF BodyAgrees
  <2>2. CASE sealed[f].scope # s
    BY <1>T, <1>S, <2>0, <2>2 DEF BodyAgrees, Ended, Opens, Stock
  <2> QED  BY <2>1, <2>2
<1> QED  BY <1>1, <1>2, <1>3, <1>4, <1>5

-----------------------------------------------------------------------------

LEMMA EnvelopeBegins == EnvelopeInit => EnvelopeIInv
<1> SUFFICES ASSUME EnvelopeInit PROVE EnvelopeIInv
  OBVIOUS
<1>1. \A s \in Scopes, row \in {"none", "v1"} :
        /\ Stocked(s, row) \in Stock
        /\ Stocked(s, row).row = row
        /\ row = "v1" => /\ Stocked(s, row).object = FirstSeal /\ Stocked(s, row).digest = FirstSeal
                        /\ Stocked(s, row).last = FirstSeal
  BY Seals DEF Stocked, Stock
<1>2. sealed \in [Files -> {Stocked(s, row) : s \in Scopes, row \in {"none", "v1"}}]
  BY DEF EnvelopeInit
<1>3. /\ sealed \in [Files -> Stock]
      /\ \A f \in Files :
           /\ sealed[f].row \in {"none", "v1"} /\ sealed[f] \in Stock
           /\ sealed[f].row = "v1" => /\ sealed[f].object = FirstSeal /\ sealed[f].digest = FirstSeal
                                     /\ sealed[f].last = FirstSeal
  BY <1>1, <1>2
<1>4. /\ \A m \in Movers : mover[m].at = "idle"
      /\ mover \in [Movers -> Pass]
  BY RestingIsPass DEF EnvelopeInit, Resting
<1>5. /\ closing = [s \in Scopes |-> "live"] /\ stray = {} /\ givenUp = {}
      /\ newcomers = [m \in Movers |-> {}]
  BY DEF EnvelopeInit
<1>6. EnvelopeTypeOK
  BY <1>3, <1>4, <1>5, EnvelopeParts
<1>7. RowInHand /\ OnePassLocks /\ WrittenStands /\ YetToCount
  BY <1>4 DEF RowInHand, OnePassLocks, WrittenStands, YetToCount, Holding
<1>8. FirstWasSealed /\ StrayIsGivenUp
  BY <1>3, <1>5, Seals DEF FirstWasSealed, StrayIsGivenUp
<1>9. RowsAgree
  <2>1. \A f \in Files : ~Ended(f)
    BY <1>3, <1>5 DEF Ended, Stock
  <2> QED  BY <1>3, <2>1, Seals DEF RowsAgree, BodyAgrees, Opens
<1> QED  BY <1>6, <1>7, <1>8, <1>9 DEF EnvelopeIInv

LEMMA EnvelopeStep == EnvelopeIInv /\ [EnvelopeNext]_evars => EnvelopeIInv'
<1>1. ASSUME EnvelopeIInv, EnvelopeNext PROVE EnvelopeIInv'
  <2>1. \/ \E m \in Movers : PassOnly(m) \/ OverwriteObject(m) \/ CommitRow(m)
        \/ \E f \in Files : RecordArtifact(f) \/ \E n \in Seal : LateWriteLands(f, n)
        \/ \E s \in Scopes : RequestClose(s) \/ SweepObjects(s) \/ RemoveRows(s)
    BY <1>1 DEF EnvelopeNext, PassOnly
  <2> QED  BY <1>1, <2>1, PassKeeps, OverwriteKeeps, CommitKeeps, LateWriteKeeps, RecordKeeps,
              CloseKeeps, DeletionKeeps
<1>2. ASSUME EnvelopeIInv, UNCHANGED evars PROVE EnvelopeIInv'
  <2>0. UNCHANGED <<sealed, closing, mover, stray, givenUp, newcomers>>
    BY <1>2 DEF evars
  <2>1. EnvelopeTypeOK'
    BY <1>2, <2>0, EnvelopeParts, TypesNext DEF EnvelopeIInv
  <2>2. RowInHand' /\ OnePassLocks' /\ WrittenStands'
    BY <1>2, <2>0 DEF EnvelopeIInv, RowInHand, OnePassLocks, WrittenStands
  <2>3. FirstWasSealed' /\ StrayIsGivenUp' /\ YetToCount'
    BY <1>2, <2>0 DEF EnvelopeIInv, FirstWasSealed, StrayIsGivenUp, YetToCount
  <2>4. RowsAgree'
    BY <1>2, <2>0 DEF EnvelopeIInv, RowsAgree, BodyAgrees, Ended, Opens
  <2> QED  BY <2>1, <2>2, <2>3, <2>4 DEF EnvelopeIInv
<1> QED  BY <1>1, <1>2

\* Every behaviour keeps the state well typed.
THEOREM EnvelopeTypes == EnvelopeSpec => []EnvelopeTypeOK
<1>1. EnvelopeIInv => EnvelopeTypeOK
  BY DEF EnvelopeIInv
<1> QED  BY <1>1, EnvelopeBegins, EnvelopeStep, PTL DEF EnvelopeSpec

\* However many passes of the migration run, crash and are retried beside
\* publications and deletions, a row and its object go on agreeing, a swept object
\* stays swept, and a pass that reports verified missed no first-format row, but for
\* files whose write was given up while it could still land.
THEOREM MigrationSealsAsRecorded == EnvelopeSpec => []SealedAsRecorded
<1>1. EnvelopeIInv => SealedAsRecorded
  <2> SUFFICES ASSUME EnvelopeIInv PROVE SealedAsRecorded
    OBVIOUS
  <2>1. \A f \in Files \ givenUp : BodyAgrees(f)
    BY DEF EnvelopeIInv, RowsAgree
  <2>2. ASSUME NEW m \in Movers, mover[m].at = "reported", mover[m].clear,
               NEW f \in Files, sealed[f].row = "v1"
        PROVE  f \in newcomers[m]
    BY <2>2 DEF EnvelopeIInv, YetToCount
  <2> QED  BY <2>1, <2>2 DEF SealedAsRecorded, BodyAgrees
<1> QED  BY <1>1, EnvelopeBegins, EnvelopeStep, PTL DEF EnvelopeSpec
=============================================================================
