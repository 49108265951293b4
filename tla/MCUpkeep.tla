------------------------------ MODULE MCUpkeep ------------------------------
(***************************************************************************)
(* Instances of Upkeep for TLC: one session beside the requests of two     *)
(* clients, and two sessions under the heartbeat alone.                    *)
(***************************************************************************)
EXTENDS Upkeep

MCClients == {"c1", "c2"}
MCSession == {"s1"}
MCSessions == {"s1", "s2"}

=============================================================================
