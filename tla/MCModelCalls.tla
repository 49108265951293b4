---------------------------- MODULE MCModelCalls ----------------------------
(***************************************************************************)
(* An instance of ModelCalls for TLC: two callers; a default provider      *)
(* for everything, and one that may be created; a home of one pet, to      *)
(* which a second entity may be added, and which may take its name.        *)
(***************************************************************************)
EXTENDS ModelCalls, TLC

MCProviders == 1..2

AllRound == [f \in Flags |-> TRUE]
MCInstalled == <<AllRound>>
MCNewProviders == {AllRound}
MCProviderChanges ==
  {[supports_vision |-> FALSE, enabled |-> FALSE]}

MCInitialQuota == [all |-> 2, each |-> 1]
MCQuotas == {[all |-> 1, each |-> 0]}
MCOwnQuotas == {2}

MCCosts == {1}
MCInitialHome == <<[kind |-> "pet", name |-> "ann", enabled |-> TRUE]>>
MCEntityNames == {"rex"}
MCEntityChanges == {[name |-> "rex"], [name |-> Blank]}
MCDays == {<<"zoe", "ann">>}
MCAnswers == {<<"zoe">>}

Callers == Permutations(Workers)

=============================================================================
