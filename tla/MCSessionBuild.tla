--------------------------- MODULE MCSessionBuild ---------------------------
(***************************************************************************)
(* Instances of SessionBuild for TLC.  Clip 2 starts where clip 1 ends, or *)
(* before, when clip 1 cannot be probed; clip 3 starts where clip 2 ends,  *)
(* or after a gap when clip 2 is not there, and rounds to no tick at all.  *)
(***************************************************************************)
EXTENDS SessionBuild

MCWorkers == {"w1", "w2"}
MCOneWorker == {"w1"}
MCFiles == 1..3
MCStart == <<0, 1, 3>>
MCProbed == <<1, 2, 0>>

=============================================================================
