---------------------------- MODULE MCOwnership ----------------------------
(* Small instances of Ownership for TLC. *)
EXTENDS Ownership, TLC

CONSTANTS a1, a2, c1, c2, c3, c4

Accounts == {a1, a2}
Clients3 == {c1, c2, c3}
Clients4 == {c1, c2, c3, c4}

\* Accounts and clients are interchangeable.
Sym3 == Permutations(Accounts) \cup Permutations(Clients3)
Sym4 == Permutations(Accounts) \cup Permutations(Clients4)
=============================================================================
