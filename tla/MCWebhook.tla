----------------------------- MODULE MCWebhook ------------------------------
(***************************************************************************)
(* Instances of Webhook for TLC.  The key lengths are those of the texts   *)
(* the task builds for the shortest payload of each kind.                  *)
(***************************************************************************)
EXTENDS Webhook

MCWorkers == {"w1", "w2"}
MCProduced == {"session_analyzed", "daily_summary_generated"}
MCKinds == MCProduced \cup {"test_event"}
MCSubjects == {"s1", "s2"}
MCRuleLists == {{}, MCProduced}
MCKeyLength ==
  [k \in MCKinds |->
     CASE k = "test_event" -> 219
       [] k = "session_analyzed" -> 306
       [] k = "daily_summary_generated" -> 309]

=============================================================================
