SPECIFICATION Spec
CONSTANTS
  Versions = {v1}
  Runs = {x, y}
  Requests = {a, b, c}
  Nobody = Nobody
  Accounts = {a1}
  Orgs = {o1}
  Sessions = {x, y}
  Keys = {k1}
  Clients = {a, b}
  NoOne = NoOne
  Guests = {g1, g2}
  Houses = {h1}
  Invites = {x, y}
  Redeemers = {a, b}
  Unnamed = Unnamed
  Callers = {a, b, c}
  Questions = {qa, qb}
  Releases = {r1, r2}
  NoQuestion = NoQuestion
  MaxUploads = 2
  Files = {x, y}
  Scopes = {1, 2}
  Movers = {a, b}
  Unscoped = {2}
  NoFile = NoFile
  MaxSeals = 3
  MaxGivenUp = 1
  Missing = Missing
SYMMETRY Interchangeable
INVARIANTS TypeOK EndsTogether SealedByCompletion NoLockCycle EndedAsPromised ServedWhileMember InvitationSpentOnce OneReading SealedAsRecorded FiguresHold EvidenceHolds PagesHold
PROPERTIES RevokedIsFrozen SessionEndIsFinal DeletionStands
CHECK_DEADLOCK FALSE
