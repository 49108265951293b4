SPECIFICATION Spec
CONSTANTS
  Workers = {w1, w2}
  Providers <- MCProviders
  Installed <- MCInstalled
  NewProviders <- MCNewProviders
  ProviderChanges <- MCProviderChanges
  InitialHome <- MCInitialHome
  EntityNames <- MCEntityNames
  EntityChanges <- MCEntityChanges
  Days <- MCDays
  Answers <- MCAnswers
  Costs <- MCCosts
  InitialQuota <- MCInitialQuota
  Quotas <- MCQuotas
  OwnQuotas <- MCOwnQuotas
  MAX_TOOL_ROUNDS = 1
  MaxSubjects = 2
  MaxBegun = 2
  MaxEdits = 2
  MaxDays = 1
SYMMETRY Callers
INVARIANTS
  TypeOK
  
  SubjectsAreCovered
  DefaultsAreEnabled
\* The system may stop when MaxBegun is used up and the callers are done.
CHECK_DEADLOCK FALSE
