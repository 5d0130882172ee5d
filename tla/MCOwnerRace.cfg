CONSTANTS
    a1 = a1  a2 = a2  c1 = c1  c2 = c2  c3 = c3  c4 = c4
    Account <- Accounts
    Org = {o1}
    Link = {l1}
    Invite = {i1}
    Client <- Clients3
    None = None
SYMMETRY Sym3
SPECIFICATION Spec
INVARIANTS OwnerKept
