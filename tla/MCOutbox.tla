------------------------------ MODULE MCOutbox ------------------------------
(***************************************************************************)
(* Instances of Outbox for TLC.  Two rows and two publishers are enough    *)
(* for a batch that holds one row while another publisher passes over it;  *)
(* four attempts reach both a retry and the budget's end, and the cap of   *)
(* 3 ticks is hit on the way (1, 2, then 4 capped).                        *)
(***************************************************************************)
EXTENDS Outbox

MCEvents == {1, 2}
MCPublishers == {"pub1", "pub2"}

=============================================================================
