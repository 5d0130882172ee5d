----------------------------- MODULE MCReportJobs -----------------------------
(***************************************************************************)
(* Small instances of ReportJobs for TLC.                                  *)
(***************************************************************************)
EXTENDS ReportJobs, TLC

CONSTANTS s1, s2, j1, j2, w1, w2

\* One job in each session.
OneJobEach == j1 :> s1 @@ j2 :> s2

\* Both jobs in the same session.
SharedSession == j1 :> s1 @@ j2 :> s1

OneJob == j1 :> s1

WorkerSymmetry == Permutations({w1, w2})
===============================================================================
