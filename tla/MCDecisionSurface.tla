--------------------------- MODULE MCDecisionSurface ---------------------------
(***************************************************************************)
(* The decision page alone, over the bundles of MCEvidence, against what   *)
(* the code says of the parts of a page whose figures were admitted.       *)
(***************************************************************************)
EXTENDS MCEvidence

Next == DecisionNext /\ UNCHANGED part
Spec == DecisionInit /\ [][Next]_<<part, figvars>>

\* A part of the page whose figures were admitted shows them: an absent cell is
\* an answer, and not a value without wording (projection.py, shell_decisions.py).
AdmittedIsShown == Deciding!AdmittedIsShown
=============================================================================
