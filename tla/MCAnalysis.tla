----------------------------- MODULE MCAnalysis -----------------------------
(***************************************************************************)
(* Instances of Analysis for TLC.  Two rows are an analysis and the one    *)
(* that recovers, repeats or retries it; two workers are a lost one and    *)
(* its successor; with two chunks a run can be half done.                  *)
(***************************************************************************)
EXTENDS Analysis, TLC

CONSTANTS w1, w2

MCWorkers == {w1, w2}
Symmetry == Permutations(MCWorkers)

=============================================================================
