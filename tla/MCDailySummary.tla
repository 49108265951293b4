--------------------------- MODULE MCDailySummary ---------------------------
(***************************************************************************)
(* Instances of DailySummary for TLC.  Two rows are a row with the date    *)
(* and one without it, or a row and its retry; two workers are two         *)
(* messages, or twice the same; three attempts let a late worker meet one  *)
(* that succeeded and one that came after it.                              *)
(***************************************************************************)
EXTENDS DailySummary

MCWorkers == {"w1", "w2"}

=============================================================================
