----------------------------- MODULE ModelCalls -----------------------------
(***************************************************************************)
(* The calls of a language model and what they cost: the provider table    *)
(* and the requests that change it, the choice of a provider, the daily    *)
(* token quota, and the callers: the questions (from the chat page or      *)
(* through MCP), the recognition of a session's chunks, the daily summary  *)
(* and the description of an entity's picture.  The members and pets of    *)
(* the home, whom a summary is about, are edited meanwhile.                *)
(*                                                                         *)
(* The quota is checked against the usage other transactions committed;    *)
(* a caller's own usage reaches the table only when its transaction        *)
(* commits, which for a question is after its last call and for a summary  *)
(* after its text is complete.                                             *)
(*                                                                         *)
(* What the calls of a summary produce is DailyText.  The rows and leases  *)
(* of the tasks behind the callers are the subject of the other modules.   *)
(***************************************************************************)
EXTENDS DailyText, FiniteSets, FiniteSetsExt

CONSTANTS
  Workers,          \* threads and processes that make model calls
  Providers,        \* ids of provider rows
  Installed,        \* the rows that are there when the model begins
  NewProviders,     \* what a creation may ask for: complete rows
  ProviderChanges,  \* what an update may ask for: some fields of a row
  InitialHome,      \* the members and pets when the model begins
  EntityNames,      \* what a member or pet may be called
  EntityChanges,    \* what an update may ask for: some fields of an entity
  Days,             \* sequences of names the events of a day mention
  Answers,          \* name sequences a model may write sections for
  Costs,            \* what the usage of one call may be
  InitialQuota,     \* llm_daily_token_quota_global ("all") and _per_provider
                    \* ("each") when the model begins, 0 for none
  Quotas,           \* what they may be set to
  OwnQuotas,        \* what a row's extra_config_json may say of its quota
  MAX_TOOL_ROUNDS,  \* calls with tools of one question
  MaxSubjects,      \* bound on the members and pets of the home
  MaxBegun,         \* bound on questions, chunks and summaries
  MaxEdits,         \* bound on the changes of provider table, quotas and home
  MaxDays           \* bound on midnights

Roles == {"vision", "qa"}
Flags == {"supports_vision", "supports_qa", "supports_tool_calling",
          "is_default_vision", "is_default_qa", "enabled"}
Kinds == {"member", "pet"}
Entities == [kind: Kinds, name: STRING, enabled: BOOLEAN]

\* Provider rows are complete; a default row that is there is enabled.
ASSUME RowsAssumption ==
  /\ DOMAIN Installed \subseteq Providers
  /\ \A p \in DOMAIN Installed:
       /\ Installed[p] \in [Flags -> BOOLEAN]
       /\ Installed[p]["is_default_vision"] => Installed[p]["enabled"]
       /\ Installed[p]["is_default_qa"] => Installed[p]["enabled"]
  /\ NewProviders \subseteq [Flags -> BOOLEAN]
  /\ \A change \in ProviderChanges:
       DOMAIN change \subseteq Flags
       /\ \A f \in DOMAIN change: change[f] \in BOOLEAN

\* Entities are complete; a request names none of their fields but these.
ASSUME HomeAssumption ==
  /\ InitialHome \in Seq(Entities)
  /\ EntityNames \subseteq STRING
  /\ \A change \in EntityChanges:
       /\ DOMAIN change \subseteq {"name", "enabled"}
       /\ "name" \in DOMAIN change => change["name"] \in STRING
       /\ "enabled" \in DOMAIN change => change["enabled"] \in BOOLEAN
  /\ Days \subseteq Seq(STRING)
  /\ Answers \subseteq Seq(STRING)

\* extra_config_json has no daily_token_quota; a negative one counts as 0.
NoKey == -1

ASSUME BoundsAssumption ==
  /\ IsFiniteSet(Workers) /\ Workers # {}
  /\ IsFiniteSet(Providers)
  /\ Costs \subseteq Nat /\ IsFiniteSet(Costs) /\ Costs # {}
  /\ InitialQuota \in [all: Nat, each: Nat]
  /\ Quotas \subseteq [all: Nat, each: Nat]
  /\ OwnQuotas \subseteq Nat \cup {NoKey}
  /\ MAX_TOOL_ROUNDS \in Nat \ {0}
  /\ MaxSubjects \in Nat
  /\ Len(InitialHome) <= MaxSubjects
  /\ MaxBegun \in Nat /\ MaxEdits \in Nat /\ MaxDays \in Nat

NoFlags == [f \in Flags |-> FALSE]
NoText == [home |-> <<>>, events |-> <<>>, serial |-> FALSE,
           todo |-> <<>>, retried |-> FALSE, sections |-> <<>>]
Questions == {"question", "mcp_question"}
Jobs == Questions \cup {"none", "recognition", "summary", "appearance"}
Stages == {"idle", "check", "call", "done"}

VARIABLES
  row,        \* "absent", "there" or "deleted", for each provider id
  provider,   \* the flags of each provider row
  quota,      \* the two quotas of the system configuration
  own,        \* each row's own quota, or NoKey
  inForce,    \* history: the quotas that were in force today
  home,       \* the members and pets, in the order they are listed
  used,       \* today's committed usage of each provider
  orphaned,   \* today's usage whose provider_id a deletion set to NULL
  pc,         \* where each worker is
  job,        \* what it makes calls for
  chosen,     \* the providers it uses: one, or none
  loaded,     \* that provider's own quota, as its row was loaded
  unsaved,    \* usage it recorded and has not committed
  round,      \* calls with tools its question has made
  text,       \* the summary it works on
  begun,      \* quota checks begun so far
  edits,      \* changes of provider table, quotas and home so far
  days        \* midnights so far

quotaVars == <<quota, own, inForce>>
tableVars == <<row, provider, quotaVars, home, edits>>
usageVars == <<used, orphaned, days>>
callVars == <<unsaved, round>>
workerVars == <<pc, job, chosen, loaded, callVars, text>>
vars == <<tableVars, usageVars, workerVars, begun>>
-----------------------------------------------------------------------------
(* The provider table *)

CapabilityField == [vision |-> "supports_vision", qa |-> "supports_qa"]
DefaultField == [vision |-> "is_default_vision", qa |-> "is_default_qa"]

There == {p \in Providers: row[p] = "there"}
Usable(role) ==
  {p \in There: provider[p][CapabilityField[role]] /\ provider[p]["enabled"]}

\* find_enabled_provider: without an ORDER BY, any of the defaults, or any
\* of the usable ones when none of them is the default.
Selectable(role) ==
  LET defaults == {p \in Usable(role): provider[p][DefaultField[role]]}
  IN  IF defaults # {} THEN defaults ELSE Usable(role)

\* reset_other_default_providers: siblings that have the capability.
ResetOthers(table, p, roles) ==
  [q \in Providers |->
     IF q = p THEN table[q]
     ELSE [f \in Flags |->
             table[q][f] /\ ~ \E r \in roles: f = DefaultField[r]
                                   /\ table[q][CapabilityField[r]]]]

DefaultRoles(flags) == {r \in Roles: flags[DefaultField[r]]}

\* The fields that a request names get its values, the others keep theirs.
Changed(old, change) ==
  [f \in DOMAIN old |-> IF f \in DOMAIN change THEN change[f] ELSE old[f]]

\* A default has its capability and is enabled, a row without the
\* capability is no default.
Adjusted(asked) ==
  LET capable == {r \in Roles: asked[CapabilityField[r]]}
      roles == DefaultRoles(asked) \cap capable
  IN  [f \in Flags |->
         IF f = "enabled" THEN asked[f] \/ roles # {}
         ELSE asked[f] /\ \A r \in Roles \ capable: f # DefaultField[r]]

\* The update computes the next defaults before it clears those without a
\* capability, and so gives back the capability the request takes away.
AdjustedInUpdate(asked) ==
  LET roles == DefaultRoles(asked)
  IN  [f \in Flags |->
         IF f = "enabled" THEN asked[f] \/ roles # {}
         ELSE /\ asked[f] \/ \E r \in roles: f = CapabilityField[r]
              /\ \A r \in Roles:
                   f = DefaultField[r] => asked[CapabilityField[r]]]

Admissible(flags) ==
  /\ \E r \in Roles: flags[CapabilityField[r]]
  /\ flags["supports_qa"] => flags["supports_tool_calling"]

\* _provider_daily_quota of a row that was loaded with this quota of its own.
DailyQuota(key) == IF key # NoKey THEN key ELSE quota["each"]

\* What a caller's usage of p is, or will be, compared with.
Applying(p) ==
  {DailyQuota(own[p])}
    \cup {DailyQuota(loaded[w]): w \in {v \in Workers: p \in chosen[v]}}

\* The quotas that apply after this step have been in force today, too.
PutInForce ==
  inForce' = [all |-> inForce["all"] \cup {quota["all"]}',
              of |-> [p \in Providers |->
                        inForce["of"][p] \cup Applying(p)']]

Edit ==
  /\ edits < MaxEdits
  /\ edits' = edits + 1
  /\ UNCHANGED <<home, workerVars, begun, days>>

CreateProvider(p) ==
  /\ row[p] = "absent"
  /\ Edit
  /\ \E asked \in NewProviders:
       /\ Admissible(Adjusted(asked))
       /\ row' = [row EXCEPT ![p] = "there"]
       /\ provider' =
            ResetOthers([provider EXCEPT ![p] = Adjusted(asked)], p,
                        DefaultRoles(Adjusted(asked)))
  /\ \E key \in OwnQuotas: own' = [own EXCEPT ![p] = key]
  /\ UNCHANGED <<quota, used, orphaned>>
  /\ PutInForce

\* Seeded fault: an update stores the fields as they are asked for.
UpdateProviderAsAsked(p) ==
  /\ row[p] = "there"
  /\ Edit
  /\ \E change \in ProviderChanges:
       LET next == Changed(provider[p], change)
       IN  /\ Admissible(next)
           /\ provider' = ResetOthers([provider EXCEPT ![p] = next], p,
                                      DefaultRoles(next))
  /\ UNCHANGED <<row, quotaVars, used, orphaned>>

\* The fields that the request does not name keep their value.
UpdateProvider(p) ==
  /\ row[p] = "there"
  /\ Edit
  /\ \E change \in ProviderChanges:
       LET next == AdjustedInUpdate(Changed(provider[p], change))
       IN  /\ Admissible(next)
           /\ provider' = ResetOthers([provider EXCEPT ![p] = next], p,
                                      DefaultRoles(next))
  /\ \E key \in OwnQuotas \cup {own[p]}: own' = [own EXCEPT ![p] = key]
  /\ UNCHANGED <<row, quota, used, orphaned>>
  /\ PutInForce

\* The foreign key of llm_usage_log is ON DELETE SET NULL: the usage rows
\* stay, without their provider.
OrphanUsage(p) ==
  /\ used' = [used EXCEPT ![p] = 0]
  /\ orphaned' = orphaned + used[p]

\* Refused for a default, and for the provider that a caller of either role
\* would now get.
DeleteProvider(p) ==
  /\ row[p] = "there"
  /\ DefaultRoles(provider[p]) = {}
  /\ \A role \in Roles: Selectable(role) # {p}
  /\ Edit
  /\ row' = [row EXCEPT ![p] = "deleted"]
  /\ provider' = [provider EXCEPT ![p] = NoFlags]
  /\ OrphanUsage(p)
  /\ UNCHANGED quotaVars

\* Clears the flag of the siblings that have the capability now.
SetDefaultProvider(p, role) ==
  /\ row[p] = "there"
  /\ provider[p][CapabilityField[role]]
  /\ role = "qa" => provider[p]["supports_tool_calling"]
  /\ Edit
  /\ provider' =
       ResetOthers([provider EXCEPT ![p][DefaultField[role]] = TRUE,
                                    ![p]["enabled"] = TRUE], p, {role})
  /\ UNCHANGED <<row, quotaVars, used, orphaned>>

\* check_provider_connectivity: the probes find what they find, and nothing
\* when the server cannot be reached; their own tokens are not recorded.
ProbeResults ==
  {[supports_vision |-> sees, supports_tool_calling |-> calls]:
     sees, calls \in BOOLEAN}

\* The default flags stay.
TestProvider(p) ==
  /\ row[p] = "there"
  /\ Edit
  /\ \E found \in ProbeResults:
       provider' = [provider EXCEPT ![p] = Changed(provider[p], found)]
  /\ UNCHANGED <<row, quotaVars, used, orphaned>>
-----------------------------------------------------------------------------
(* The members and pets of the home.  The list is ordered by sort_order and  *)
(* id; sort_order is left out, as are the fields that only the prompts show. *)

\* Bound: nobody looks at the home when the last caller has begun.
EditHome ==
  /\ edits < MaxEdits /\ begun < MaxBegun
  /\ edits' = edits + 1
  /\ UNCHANGED <<row, provider, quotaVars, usageVars, workerVars, begun>>

AddEntity(kind) ==
  /\ Len(home) < MaxSubjects
  /\ EditHome
  /\ \E name \in EntityNames, enabled \in BOOLEAN:
       home' = Append(home, [kind |-> kind, name |-> name,
                             enabled |-> enabled])

CreateMember == AddEntity("member")
CreatePet == AddEntity("pet")

\* The kind of an entity stays; its names and flags are not compared with
\* those of others.
UpdateEntity ==
  /\ EditHome
  /\ \E i \in DOMAIN home, change \in EntityChanges:
       home' = [home EXCEPT ![i] = Changed(@, change)]

\* The endpoint is a DELETE; the row stays.
DisableEntity ==
  /\ EditHome
  /\ \E i \in DOMAIN home: home' = [home EXCEPT ![i].enabled = FALSE]
-----------------------------------------------------------------------------
(* The quota *)

UsedToday == orphaned + MapThenSumSet(LAMBDA p: used[p], Providers)

\* enforce_token_quota does not raise, for a row loaded with this quota.  The
\* settings are read anew.
QuotaLeft(p, key) ==
  /\ quota["all"] > 0 => UsedToday < quota["all"]
  /\ DailyQuota(key) > 0 => used[p] < DailyQuota(key)

\* update_system_config.  Bound: only questions look at the quotas when the
\* last caller has begun.
SetQuotas ==
  /\ edits < MaxEdits
  /\ begun < MaxBegun \/ \E w \in Workers: job[w] \in Questions
  /\ edits' = edits + 1
  /\ quota' \in Quotas
  /\ UNCHANGED <<row, provider, own, home, usageVars, workerVars, begun>>
  /\ PutInForce

\* usage_date is the day on which the usage is recorded, so that what is
\* committed after midnight does not count for the new day.  A midnight
\* after a day without usage changes nothing and is left out.
Midnight ==
  /\ days < MaxDays
  /\ UsedToday > 0 \/ \E w \in Workers: unsaved[w] > 0
  /\ days' = days + 1
  /\ used' = [p \in Providers |-> 0]
  /\ orphaned' = 0
  /\ unsaved' = [w \in Workers |-> 0]
  /\ inForce' = [all |-> {quota["all"]},
                 of |-> [p \in Providers |-> Applying(p)]]
  /\ UNCHANGED <<row, provider, quota, own, home, edits, pc, job, chosen,
                 loaded, round, text, begun>>

\* The worker's transaction is over: committed usage goes to the table.
Release(w) ==
  /\ pc' = [pc EXCEPT ![w] = "idle"]
  /\ job' = [job EXCEPT ![w] = "none"]
  /\ chosen' = [chosen EXCEPT ![w] = {}]
  /\ loaded' = [loaded EXCEPT ![w] = NoKey]
  /\ unsaved' = [unsaved EXCEPT ![w] = 0]
  /\ round' = [round EXCEPT ![w] = 0]
  /\ text' = [text EXCEPT ![w] = NoText]
  /\ UNCHANGED <<tableVars, orphaned, days, begun>>

\* A usage row needs its provider row: the insert of one whose provider was
\* deleted meanwhile fails, and the transaction with it.
Save(w, units) ==
  \/ \E p \in chosen[w]:
       /\ row[p] = "there" \/ units = 0
       /\ used' = [used EXCEPT ![p] = @ + units]
  \/ \E p \in chosen[w]: row[p] # "there" /\ units > 0 /\ UNCHANGED used
-----------------------------------------------------------------------------
(* The callers *)

Begin(w, what, role, stage) ==
  /\ pc[w] = "idle"
  /\ \E p \in Selectable(role):
       /\ what \notin {"recognition", "appearance"} => QuotaLeft(p, own[p])
       /\ chosen' = [chosen EXCEPT ![w] = {p}]
       /\ loaded' = [loaded EXCEPT ![w] = own[p]]
  /\ pc' = [pc EXCEPT ![w] = stage]
  /\ job' = [job EXCEPT ![w] = what]
  /\ UNCHANGED <<tableVars, usageVars, callVars>>

\* QAService.answer: the provider must be able to call tools.
AskQuestion(w, what) ==
  /\ begun < MaxBegun
  /\ begun' = begun + 1
  /\ Begin(w, what, "qa", "check")
  /\ \A p \in chosen'[w]: provider[p]["supports_tool_calling"]
  /\ UNCHANGED text

AskThroughPage(w) == AskQuestion(w, "question")
AskThroughMCP(w) == AskQuestion(w, "mcp_question")

\* The analysis builds its client once, for all of its chunks.
StartRecognition(w) ==
  /\ begun < MaxBegun
  /\ Begin(w, "recognition", "vision", "check")
  /\ UNCHANGED <<text, begun>>

\* build_evidence: the home and the day's events as they are now; the
\* prompt they make is long (serial) or not.
Draft(subjects, events, serial) ==
  [NoText EXCEPT !.home = subjects, !.events = events, !.serial = serial,
                 !.todo = IF serial THEN SerialSections(subjects, events)
                                    ELSE <<>>]

Evidence ==
  {Draft(KnownSubjects(home), events, serial):
     events \in Days, serial \in BOOLEAN}

\* The evidence is read, and the attempt committed, before the first call.
StartSummary(w) ==
  /\ begun < MaxBegun
  /\ begun' = begun + 1
  /\ Begin(w, "summary", "qa", "call")
  /\ \E evidence \in Evidence: text' = [text EXCEPT ![w] = evidence]

\* The check before a call of a question, or before a chunk's call.
CheckQuota(w) ==
  /\ pc[w] = "check"
  /\ \E p \in chosen[w]: QuotaLeft(p, loaded[w])
  /\ \/ job[w] # "recognition" /\ UNCHANGED begun
     \/ job[w] = "recognition" /\ begun < MaxBegun /\ begun' = begun + 1
  /\ pc' = [pc EXCEPT ![w] = "call"]
  /\ UNCHANGED <<tableVars, usageVars, job, chosen, loaded, callVars, text>>

\* What a question that fails leaves: the log of the MCP call, which is
\* written for a failed one too, commits the usage of the calls before; the
\* chat page's session is closed without a commit.
LeaveQuestion(w) ==
  \/ job[w] = "mcp_question" /\ Save(w, unsaved[w])
  \/ job[w] # "mcp_question" /\ UNCHANGED used

\* The quota is used up before a call.
Refused(w) ==
  /\ pc[w] = "check"
  /\ \E p \in chosen[w]: ~QuotaLeft(p, loaded[w])
  /\ LeaveQuestion(w)
  /\ Release(w)

\* The model answers; the server reports usage or not.
Answered(w) ==
  /\ pc[w] = "call"
  /\ \E usage \in Costs: unsaved' = [unsaved EXCEPT ![w] = @ + usage]
  /\ UNCHANGED <<tableVars, usageVars, job, chosen, loaded, begun>>

\* Seeded fault: the rounds of a question are not counted up to a limit.
CallToolsEndlessly(w) ==
  /\ job[w] \in Questions
  /\ Answered(w)
  /\ round' = [round EXCEPT ![w] = @ + 1]
  /\ pc' = [pc EXCEPT ![w] = "check"]
  /\ UNCHANGED text

\* The model asks for tools, whose results go into the next call.
CallTools(w) ==
  /\ job[w] \in Questions
  /\ round[w] < MAX_TOOL_ROUNDS
  /\ Answered(w)
  /\ round' = [round EXCEPT ![w] = @ + 1]
  /\ pc' = [pc EXCEPT ![w] = "check"]
  /\ UNCHANGED text

\* It asks for none; after MAX_TOOL_ROUNDS it is not offered any.
AnswerQuestion(w) ==
  /\ job[w] \in Questions
  /\ Answered(w)
  /\ pc' = [pc EXCEPT ![w] = "done"]
  /\ UNCHANGED <<round, text>>

\* The query log of the chat page, or the log of the MCP call, commits the
\* usage with it.
FinishQuestion(w) ==
  /\ pc[w] = "done" /\ job[w] \in Questions
  /\ Save(w, unsaved[w])
  /\ Release(w)

\* A call that raises.
FailQuestion(w) ==
  /\ pc[w] = "call" /\ job[w] \in Questions
  /\ LeaveQuestion(w)
  /\ Release(w)

RecognizeChunk(w) ==
  /\ job[w] = "recognition"
  /\ Answered(w)
  /\ pc' = [pc EXCEPT ![w] = "done"]
  /\ UNCHANGED <<round, text>>

\* The usage is committed with the chunk's checkpoint.
RecordChunk(w) ==
  /\ pc[w] = "done" /\ job[w] = "recognition"
  /\ Save(w, unsaved[w])
  /\ \/ /\ \A p \in chosen[w]: row[p] = "there"
        /\ pc' = [pc EXCEPT ![w] = "check"]
        /\ unsaved' = [unsaved EXCEPT ![w] = 0]
        /\ UNCHANGED <<tableVars, orphaned, days, begun, job, chosen,
                       loaded, round, text>>
     \/ Release(w)

\* _chat: the usage of each call is recorded when it has returned.
CallForSummary(w) == job[w] = "summary" /\ Answered(w)

\* generate_single_pass_summary_payload: the model writes the sections, or
\* none, which the fallback text and an answer without any text amount to.
WriteSinglePass(w) ==
  /\ ~text[w].serial
  /\ CallForSummary(w)
  /\ \E answer \in Answers \cup {<<>>}:
       text' = [text EXCEPT ![w].sections =
                  CompleteSections(answer, text[w].home, text[w].events)]
  /\ pc' = [pc EXCEPT ![w] = "done"]
  /\ UNCHANGED round

\* generate_serial_summary_payload, the call for the next subject: the
\* model's text, or a fallback text.
WriteSubject(w) ==
  /\ text[w].serial /\ text[w].todo # <<>>
  /\ CallForSummary(w)
  /\ text' = [text EXCEPT ![w].sections = Append(@, Head(text[w].todo)),
                          ![w].todo = Tail(@),
                          ![w].retried = FALSE]
  /\ UNCHANGED <<pc, round>>

\* The call for the whole day, when no subject is left.
WriteRollup(w) ==
  /\ text[w].serial /\ text[w].todo = <<>>
  /\ CallForSummary(w)
  /\ text' = [text EXCEPT ![w].sections = ByActivity(@)]
  /\ pc' = [pc EXCEPT ![w] = "done"]
  /\ UNCHANGED round

\* An answer that cannot be parsed is asked for once more.
AskAgain(w) ==
  /\ ~text[w].retried
  /\ CallForSummary(w)
  /\ text' = [text EXCEPT ![w].retried = TRUE]
  /\ UNCHANGED <<pc, round>>

\* Seeded fault: the failure handler records the usage of all calls once
\* more.
FailSummaryTotal(w) ==
  /\ pc[w] = "call" /\ job[w] = "summary"
  /\ \E usage \in Costs \cup {0}: Save(w, 2 * unsaved[w] + usage)
  /\ Release(w)

\* A call that raises.  The failure handler records the gateway's last usage
\* and commits: that of this call, if its answer was read, or once more that
\* of the call before, which is recorded already.
FailSummary(w) ==
  /\ pc[w] = "call" /\ job[w] = "summary"
  /\ \E usage \in Costs \cup {0}: Save(w, unsaved[w] + usage)
  /\ Release(w)

PublishSummary(w) ==
  /\ pc[w] = "done" /\ job[w] = "summary"
  /\ Save(w, unsaved[w])
  /\ Release(w)

\* generate_entity_appearance asks for no quota.
DescribeEntity(w) ==
  /\ begun < MaxBegun
  /\ begun' = begun + 1
  /\ home # <<>>
  /\ Begin(w, "appearance", "vision", "call")
  /\ UNCHANGED text

\* Nor does it record what the answer used, whatever that was.
Described(w) ==
  /\ pc[w] = "call" /\ job[w] = "appearance"
  /\ Release(w)
  /\ UNCHANGED used

\* The caller's transaction is rolled back: a chunk's call raises, the task
\* was cancelled or fenced, the process died.
RollBack(w) ==
  /\ pc[w] # "idle"
  /\ Release(w)
  /\ UNCHANGED used
-----------------------------------------------------------------------------
Init ==
  /\ row = [p \in Providers |->
              IF p \in DOMAIN Installed THEN "there" ELSE "absent"]
  /\ quota = InitialQuota
  /\ own = [p \in Providers |-> NoKey]
  /\ inForce = [all |-> {InitialQuota["all"]},
                of |-> [p \in Providers |-> {InitialQuota["each"]}]]
  /\ home = InitialHome
  /\ provider = Changed([p \in Providers |-> NoFlags], Installed)
  /\ used = [p \in Providers |-> 0]
  /\ orphaned = 0
  /\ pc = [w \in Workers |-> "idle"]
  /\ job = [w \in Workers |-> "none"]
  /\ chosen = [w \in Workers |-> {}]
  /\ loaded = [w \in Workers |-> NoKey]
  /\ unsaved = [w \in Workers |-> 0]
  /\ round = [w \in Workers |-> 0]
  /\ text = [w \in Workers |-> NoText]
  /\ begun = 0 /\ edits = 0 /\ days = 0

Administer(p) ==
  \/ CreateProvider(p) \/ UpdateProvider(p) \/ DeleteProvider(p)
  \/ \E role \in Roles: SetDefaultProvider(p, role)
  \/ TestProvider(p)

AdministerHome ==
  CreateMember \/ CreatePet \/ UpdateEntity \/ DisableEntity

Work(w) ==
  \/ AskThroughPage(w) \/ AskThroughMCP(w)
  \/ StartRecognition(w) \/ StartSummary(w)
  \/ CheckQuota(w) \/ Refused(w)
  \/ CallTools(w) \/ AnswerQuestion(w)
  \/ FinishQuestion(w) \/ FailQuestion(w)
  \/ RecognizeChunk(w) \/ RecordChunk(w)
  \/ WriteSinglePass(w) \/ WriteSubject(w) \/ WriteRollup(w) \/ AskAgain(w)
  \/ FailSummary(w) \/ PublishSummary(w)
  \/ DescribeEntity(w) \/ Described(w) \/ RollBack(w)

Next ==
  \/ \E p \in Providers: Administer(p)
  \/ AdministerHome
  \/ SetQuotas
  \/ Midnight
  \/ \E w \in Workers: Work(w)

Spec == Init /\ [][Next]_vars
-----------------------------------------------------------------------------
(* Properties *)

\* The most one pass of the quota check lets a caller spend: a question all
\* its calls, a summary two for each subject and two for the day.
Allowance == Max(Costs) * Max({MAX_TOOL_ROUNDS + 1, 2 * (MaxSubjects + 1)})
Overrun == Cardinality(Workers) * Allowance

Sections == [name: STRING, activity: Nat]
Texts == [home: Seq(STRING), events: Seq(STRING), serial: BOOLEAN,
          todo: Seq(Sections), retried: BOOLEAN, sections: Seq(Sections)]

\* Every variable has its type.
TypeOK ==
  /\ row \in [Providers -> {"absent", "there", "deleted"}]
  /\ provider \in [Providers -> [Flags -> BOOLEAN]]
  /\ quota \in [all: Nat, each: Nat]
  /\ own \in [Providers -> Nat \cup {NoKey}]
  /\ inForce \in [all: SUBSET Nat, of: [Providers -> SUBSET Nat]]
  /\ home \in Seq(Entities) /\ Len(home) <= MaxSubjects
  /\ used \in [Providers -> Nat] /\ orphaned \in Nat
  /\ pc \in [Workers -> Stages] /\ job \in [Workers -> Jobs]
  /\ chosen \in [Workers -> SUBSET Providers]
  /\ \A w \in Workers: (chosen[w] = {}) <=> (pc[w] = "idle")
  /\ loaded \in [Workers -> Nat \cup {NoKey}]
  /\ unsaved \in [Workers -> 0..Allowance]
  /\ round \in [Workers -> 0..MAX_TOOL_ROUNDS]
  /\ text \in [Workers -> Texts]
  /\ \A w \in Workers: (text[w] # NoText) => (job[w] = "summary")
  /\ begun \in 0..MaxBegun /\ edits \in 0..MaxEdits /\ days \in 0..MaxDays

\* However the callers interleave and the quotas are changed meanwhile, a
\* day's recorded usage passes some quota that was in force that day by no
\* more than what one passed check is worth to each of the callers that run
\* at the same time (enforce_token_quota looks at committed usage and holds
\* nothing back).
OverrunIsBounded ==
  /\ \E limit \in inForce["all"]: limit > 0 => UsedToday < limit + Overrun
  /\ \A p \in Providers:
       \E limit \in inForce["of"][p]: limit > 0 => used[p] < limit + Overrun

\* A finished summary text has a section for each subject of the home,
\* whatever the model wrote, with the subject's activity of that day, the
\* most active first; without the model's help (serial) nobody has two,
\* unless two subjects without an event share the name.
SubjectsAreCovered ==
  \A w \in Workers:
    (pc[w] = "done" /\ job[w] = "summary") =>
      LET sections == text[w].sections
          subjects == text[w].home
          about(x) == {i \in DOMAIN sections: sections[i].name = x}
      IN  /\ \A x \in ToSet(subjects):
               /\ about(x) # {}
               /\ \A i \in about(x):
                    sections[i].activity = Mentions(text[w].events, x)
               /\ (text[w].serial /\ Cardinality(about(x)) > 1) =>
                    Mentions(text[w].events, x) = 0
                   /\ Mentions(subjects, x) > 1
          /\ \A i, j \in DOMAIN sections:
               i < j => sections[i].activity >= sections[j].activity

\* A default provider is enabled, whatever is asked for, in whatever order;
\* so a caller gets the default as long as it has the capability.
DefaultsAreEnabled ==
  \A p \in Providers: DefaultRoles(provider[p]) # {} => provider[p]["enabled"]
=============================================================================
