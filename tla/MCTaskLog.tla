----------------------------- MODULE MCTaskLog ------------------------------
(***************************************************************************)
(* Instances of TaskLog for TLC.  Two rows are a HOT scan and the FULL     *)
(* that supersedes it; two workers are two messages, or twice the same.    *)
(***************************************************************************)
EXTENDS TaskLog

MCWorkers == {"w1", "w2"}

=============================================================================
