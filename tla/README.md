# Video Diary in TLA+

Formal models of the pipeline in `src/src/`: a FastAPI service and a set of
Celery workers that turn the files of home cameras into sessions, the sessions
into analysed events, and a day's events into a summary. PostgreSQL is the only
shared state; the Celery broker carries messages that name a `task_log` row.

What is hard here is not one function. It is that a dozen handlers in different
processes read rows without locks, decide, and write them by primary key later;
that the broker delivers late, twice or never; and that a heartbeat, a user and
a redelivered message all believe they may finish the same row. The models keep
every state change, guard, early return and commit boundary of those handlers,
and abstract the data (a chunk is a number, a prompt is a version, a message is
its row).

## 1. The system

| Component | State it keeps | Operations | Talks to |
|---|---|---|---|
| Transactional outbox (`application/outbox`) | `outbox_event` rows: status, attempt_count, next_attempt_at | enrol with the task_log; claim, send, mark | task dispatch (enrols), broker (sends) |
| Task dispatch and task_log life cycle (`services/dispatch`, `infrastructure/tasks`) | `task_log` rows: status, dedupe key, lease, cancel_requested, detail_json | dispatch, defer, supersede, bind, renew, finalise | outbox, every task |
| Heartbeat (`tasks/_task_maintenance_orchestration.py`, `services/maintenance`) | none of its own; reads leases and anchors | time out, recover a lost analysis, schedule HOT scans, retention | task_log, sessions, broker (revoke) |
| Stop and retry (`application/tasks`) | `cancel_requested` | stop, retry, trigger | task_log, sessions, broker (revoke) |
| Vision analysis (`services/analysis`, `tasks/_analyzer_orchestration.py`) | `video_session.analysis_status`, checkpoints, events | claim, chunk loop, finalise, fail, cancel | model provider, task_log, webhooks |
| Session build (`services/session_build`, `tasks/_session_build_orchestration.py`) | `video_file`, `video_session` | discover, dedupe, reduce, seal | analysis dispatch |
| Daily summary (`services/summarizer`, `application/summary_attempt`, `application/summary_publication`) | generation attempts, `daily_summary`, the scheduler's guard | dispatch, claim an attempt, generate, publish, cancel | task dispatch, analysed events, model provider, webhooks (enrols) |
| Webhooks (`tasks/webhook.py`, `services/analysis/webhook_events.py`) | `webhook_config`, a `task_log` row per event and one per delivery | configure, enrol, deliver, retry, test | outbox, subscribers |
| Video sources (`api/v1/endpoints/video_sources.py`) | `video_source`: paused, path, last verdict | create, update, test, pause, delete | builds, analyses, heartbeat |
| Providers and quota (`application/llm_providers`, `services/llm_qos.py`) | `llm_provider`, `llm_usage_log` | create, update, test, delete, set default; check, record | every caller of a model |
| Questions and MCP (`application/qa`, `application/mcp`, `mcp`) | usage, the call log | ask, call tools | model provider; reads all tables |
| Home profile (`application/home_profile`) | members and pets | create, update, disable, describe | daily summary reads them |
| Settings, query, media, API, transition log | single rows, or none | CRUD, reads | prompts read the settings |

How they interact. A request (API, beat, a build that seals sessions) inserts a
`task_log` row and an `outbox_event` row in one transaction. A publisher sends
the row's message. A worker reads the row, writes it running ("bind"), works,
and finalises it. The heartbeat looks every minute for rows whose lease or
time-out has passed, revokes their message and times them out; a lost analysis
it seals again and dispatches anew. A unique index on `dedupe_key` over the
active rows makes a source, or a session, have one active row.

What makes each part correct:

- outbox: a committed command reaches the broker or ends visibly failed; nobody
  sends a row somebody else is sending; a duplicate has a cause;
- task_log: nobody joins another's build of a source by accident, though no row is
  locked for its worker; a stop is honoured; a row that was started ends; a finalised
  row stays final;
- session build: a file is in one session, once; sessions are contiguous; a
  source has one open session; a sealed one never changes and is analysed; what
  was recorded is found;
- analysis: a session that says success shows the events of all its files; a
  chunk that was paid for is not paid for again; a lost analysis is resumed; a
  worker that was replaced does not decide any more;
- daily summary: readers see the text of the latest attempt to succeed, and its
  subscribers hear of it once; a failure leaves the published text alone; a row
  reports only what it generated itself; a stop is honoured; a date whose
  attempt was lost can be summarised again;
- webhooks: an event is delivered at least once, a surplus delivery has a cause,
  and the task's own retry never makes one;
- sources: the verdict a source is scheduled on is that of its configuration;
  recorded history is deleted only when the user asked for it and nothing had been
  analysed; what the heartbeat takes up it ends, though its transaction is shared;
- model calls: the quota is passed by no more than what is in flight; a summary
  speaks of everybody at home, whatever the model wrote; a default provider can
  be used.

Not all of those hold. Section 7 lists where the code and its own documents
disagree.

## 2. Modules

| Module | Models | Used by |
|---|---|---|
| `OutboxAbstract` | the outbox's promise: owed, handed over, settled or written off | `Outbox` refines it |
| `Outbox` | publishers, row locks, one transaction per iteration, back-off, crashes | `OutboxProofs`, `MCOutbox` |
| `TaskLog` | the rows of one source's dedupe key: dispatch with HOT/FULL precedence, bind, build, stop, heartbeat | `TaskLogProofs`, `MCTaskLog` |
| `SessionBuild` | the HOT and FULL builds of one source: window, lock, discovery, dedupe, reduction, sealing, hand-off | `SessionBuildProofs`, `MCSessionBuild` |
| `Analysis` | one session: rows, claim, checkpoints, chunk loop, finalisation, retry, recovery | `AnalysisProofs`, `MCAnalysis` |
| `DailySummary` | the summary of one date: dispatch and guard, bind, attempt, publication, stop, time-out, loss | `DailySummaryProofs`, `MCDailySummary` |
| `Webhook` | one subscriber: its configuration, both producers, enrolment, bind under the worker's key, delivery, retry | `WebhookProofs`, `MCWebhook` |
| `Upkeep` | one source with all its rows: requests on it, its builds and analyses, the heartbeat as one transaction | `UpkeepProofs`, `MCUpkeep` |
| `DailyText` | operators: subjects of the home, their activity, the sections of a summary | `ModelCalls` |
| `ModelCalls` | provider table, quota and usage, home, and every caller of a model | `ModelCallsProofs`, `MCModelCalls` |
| `*Proofs` | theorems about the eight, for all constants | |
| `MC*` | instances for TLC | |

Operators whose comment starts with "Seeded fault" are not part of a model. They
are plausible bugs in the code; each property is known to fail when one of them
replaces the definition it stands before.

### Outbox

`run_once` is one database transaction: the claim's UPDATE to `publishing`, the
broker call and the `mark_*` UPDATE commit together. The steps are separate
actions (`Claim`, `Send` or `SendFails`, one of the three commits) because other
publishers run between them, and the status `publishing` is never a committed
value: it is the publisher's `pc`. `locked` is what FOR UPDATE holds, the whole
batch and not only the row that is sent; `Claimable` passes those rows over
(SKIP LOCKED). `eta` is `next_attempt_at - now` in ticks, so that time needs no
clock; a due time more than `Horizon` ticks ago is not told apart from one
`Horizon` ticks ago. Jitter is left out: it moves a due time by less than a tick.
The backoff's own loop in the CLI (what it does when the database is away) is a
publisher that takes no step.

### TaskLog

One worker step per commit or read that matters. `BindRead` and `BindCommit` are
`bind_or_create_running_task_log` before and after its unlocked read; a row read
as pending is written running by primary key whatever became of it, and one read
as running is not written at all (the ORM sees no change). `BindCommit` reads
the other pending rows (`mark_superseded_pending`) and writes them in one step.
`SupersedeRead`/`SupersedeCommit`, `StopRead`/`StopCommit` and
`SweepRead`/`SweepCommit` split the other check-then-write handlers the same
way. `Locked` are the rows the heartbeat's FOR UPDATE scan holds: pending ones
only. `overdue` stands for a lease and a time-out that have both passed.
`Skip` is the outcome that returns without finalising.

The outbox is, in this module, what `OutboxAbstract` promises: a committed
command is handed over once, more than once, or never (`HandOver`).

### SessionBuild

A build has two halves. `PlanHot` and `PlanFull` compute the window from what is
committed, without the source's lock; `Begin` waits for the advisory lock,
discovers and looks the tables up. What follows until the commit is one
transaction, whose view is `tx`: `Reduce` places one file, `Commit` seals, hands
the sealed sessions and the stuck ones to analysis, and makes `tx` the tables;
`Abort` (a stop, an error, a lost worker) throws it away. The code inserts all
files, then plans, then applies; the model does the three for a file at a time,
which nothing can tell apart inside one transaction.

A file is its path hash; `Start` is parsed from its name. `EndTimes` are its two
possible ends: `Probed` is what ffprobe says, rounded and at least a second,
`Nominal` the parser's minute when the probe fails because the camera still
writes the file. `Appear` lets a recording come late. `plan.extend` and
`plan.new` are the two sessions the reducer may append to; as in the code, an
append to the first resets the second. `ToSeal` is a set of sets, as two sessions may end
at the same time and the query's order is then the database's choice.

That two builds of a source run at once is `TaskLog`'s subject; here any number
of workers build. `TaskLog` shows that a row may stay running for ever, and the
liveness properties of `SessionBuild` then do not apply: HOT builds of that
source are no longer dispatched.

### Analysis

The rows are those of one session's dedupe key, their bind and stop one step
each (`TaskLog` has the races). The loop: `TakeChunk` opens a checkpoint and
commits, the model is called outside any transaction, `WriteChunk` closes it;
`TakeLate`/`WriteLate` are LateWorkerFencingError; `ReuseChunk` skips what is
done. A request to analyse again is three steps: it reads the session's status
(`ResealRead`), writes `sealed` by primary key whatever became of the session since
(`Reseal`), and then dispatches (`Dispatch`); `resealing` says that such a request is
between its first two. `run` is `analysis_run_id`, derived from the files; `fingerprint` the
prompts a checkpoint was made for. `Takeable` carries the session factory's
`autoflush=False`: see section 7. `Fenced` is `enforce_fencing` where it reads the
row afresh; where it reads the orchestration's own identity map it cannot fail,
and is left out. `FinalizeSuccess`, `FinalizeLost`, `FinalizeFails` are the
three ways `finalize_session_success` ends; the last marks the newest checkpoint of
the run that is still open as an error (`MarkOpen`), whoever opened it. `SweepRead`, `ResumeLost`, `HandOff`
are the heartbeat's recovery, with the commit between them where the code has it.

Granularity. The claim's two commits (session, then the row's stamp) are one
step. A checkpoint re-created after a purge has the old one's place. Time may
pass for a row at any moment, even between bind and claim. The heartbeat handles
one row at a time.

### DailySummary

One date. `status`, `cancelReq`, `revoked` and `queue` are the `task_log` rows that
ask for its summary and their messages; `dated` are those whose dedupe key names
the date, as a row asked for without one ("yesterday") has a key of its own until
`Bind` writes the date's. `attempt` and `owner` are the rows of
`daily_summary_generation_attempt`, in the order of their ids; `summary` is the
attempt whose text `daily_summary` holds; `notified` counts the batches of webhook
commands enrolled for an attempt; `guard` is the scheduler's row in
`app_runtime_state`.

A worker takes the steps its commits and unlocked reads cut it into: `Bind`;
`Look` (`attempt_already_running`, without a lock); `Claim`, the INSERT that waits
for another claim's transaction (`Claiming`) and, when it loses, gives the
winner's attempt back; `ClaimCommit`, which is the evidence, both cancel checks and
the commit after which the attempt is running; the model call, outside any
transaction; `LoadAttempt`, the unlocked read in `publish_daily_summary`;
`Publish`, its compare-and-set and the commit of everything with it. `Mismatch`,
`Rejected`, `Fails`, `GiveUp` and `NoTimezone` are the ways out with an exception,
told apart by what they roll back and write: `GiveUp` is what no handler of the
task takes, and leaves row and attempt as they are.

Granularity. The states claimed and queued are never committed and have no
value. `attempt_no` is left out: it orders attempts as their ids do. A bind, a
stop and a time-out are one step each (`TaskLog` has their races). A row's message
waits in `queue` from the start; that it may be sent late is its waiting, that it
is never sent is `TimeOut` finding the row pending. The scheduler's read and
insert are one step, since the guard's primary key and the unique index make the
later of two fail.

### Webhook

An event is one enrolled webhook command; its row in `task_log` is inserted with it
(`enrolled`), under the key `enqueue_command` builds from the command's name, the
hook and what the event is about: the session, or the summary and its date (`subject`).
While an elder event of the same kind and subject is pending (`Elder`), `EnqueueCommand`
swallows the younger one. The task builds a key of its own, from the hook and the payload's text, and so
never finds the enrolled row: it inserts a second one (`InsertRow`), which is the
one that is finalised. Of a key only its length is told apart from the column's
width, a constant for each kind (`KeyLength`, `KeyFits`); `KeyTooLong` is the
insertion that fails. `Messages` are the first message of an event and those of
Celery's retries; `Undelivered` commits the row failed and, in the same step, puts
the next retry in the queue, as nothing can come between that anyone would notice.
`BindRead` reads the newest row of the key without a lock and `InsertRow`,
`LoseTheKey` or `Rebind` write what follows; `Stale` is the bind that meets a row
which is final. `SweepEnrolled` times the enrolled row out; only the one of a test event
knows its message, and revokes it. `owed` and `HandOver` are what `OutboxAbstract` promises.

### Upkeep

`run_heartbeat` commits once, at its end: `BeginBeat` schedules, `TimeOutBuild`,
`RecoverAnalysis`, `GiveUpAnalysis` and `SweepPending` take up the rows that were due
then (`todo`), and `EndBeat` or `CrashBeat` commits or undoes them (`doomed` are the
rows it has ended so far). `resume_lost_analysis` commits in the middle, and so with it
everything before it; `DispatchAgain` is the half after that commit, and
`LoseCompareAndSet` the one refusal that rolls the whole session back and goes on.
A row inserted and not committed is a `draft`.

A source is scheduled (`Schedulable`) when it is enabled, not paused, has been validated,
and is of a supported type. The type is part of the configuration (`Supported` are those
of a supported type), and a test of another type always fails (`Verdicts`).

A request on the source reads its row (`ReadSource`, `DeleteCheck`) and writes later
(`UpdateSource`, `TestSource`, `DeleteSource`), and the ORM writes the columns
that changed and no others. `judged` is the configuration a verdict was passed on and
`overtaken`, `overrun` record that somebody else wrote between a request's read and
its write: they are there for the properties only. A scan of the source's
directory ends with any verdict. `aged` says that days have passed, which is
all retention depends on.

### DailyText and ModelCalls

`DailyText` has no state. Its operators give the code's loops and sorts by what they
return, a part of a sequence in an order (`Arranged`). `KnownSubjects` is whom a summary
is about, `Mentions` how often the day's events name them, `SerialSections` and
`CompleteSections` what is published in the two modes, from an answer that may leave
subjects out, invent some, or name one twice. A name stands for itself and for nothing
else, but the blank one, which the code drops.

`ModelCalls` has one action per request on the provider table (`CreateProvider`,
`UpdateProvider`, ...), each with the normalisation of flags the use case makes
(`Adjusted`, `AdjustedInUpdate`, `Admissible`, `ResetOthers`). A request of the
administrator is one step: it is one short transaction, and two administrators at
the same time are left out. A caller goes `check`, `call`, and back or on.
It keeps the row of its provider as it has loaded it, and with it the quota of
that row's own (`loaded`), which overrides the setting for each provider (`DailyQuota`);
the settings are read anew by each check. `SetQuotas` edits them, and `own` is edited with
the row; `inForce` records for the properties which quotas were in force since midnight.
`unsaved` is the usage it has recorded and not committed, which nobody's check
sees, its own included (the session does not flush by itself). `Save` commits it and
`RollBack` loses it; which one a failure takes is the caller's: `FailQuestion` loses
it for a question from the chat page and keeps it for one through MCP, whose call
log commits. `Midnight` starts a new day's sum, and usage that was recorded before and
committed after it does not count for the new day. `DescribeEntity` neither checks nor records.

## 3. What each run checks

| Run | Properties | States | What it shows |
|---|---|---|---|
| `outbox` | TypeOK, DuplicatesAreCharged, EnrolledIsSettled, ImplementsPromise | 138 102 | Two publishers, batches, retries and a crash: each surplus send is charged, everything enrolled is settled, and the outbox implements its promise |
| `task_log` | TypeOK, OverlapIsExplained, ResurrectionNeedsStaleBind, FullYieldsOnlyToStop | 2 804 501 | HOT and FULL requests, redelivery, a lost worker, stop and heartbeat in all orders: two workers act for the source at once only after a duplicate, or when a row was taken away under its worker |
| `task_log_live` | StopIsHonoured, TasksSettle | 278 650 | Every dispatched row ends; a stop that found the build before its check prevents its commit |
| `analysis` | TypeOK, SuccessIsComplete, PaidWorkIsKept | 2 352 163 | Two workers, two chunks, an edit of the prompts, a request to analyse again, a duplicate and a fault |
| `analysis_live` | AnalysisSettles | 317 951 | A running analysis ends, with a change of files and a fault |
| `session_build` | TypeOK, OneOpenSession, EveryFileIsPlaced, SessionsAreContiguous | 2 194 998 | Two builds overlap with late files, an abort or a failed dispatch |
| `session_build_live` | OpenIsSealed, SealedIsDispatched, NewIsFound | 42 968 | What is recorded is found, sealed and dispatched, with a fault |
| `daily_summary` | TypeOK, NotifiedOnce, SummaryIsLatest, SuccessIsOwn, SummarySurvivesFailure, StopIsHonoured, AttemptsSettle | 145 209 | Two workers, two rows and three attempts with a redelivery, a lost worker, stops and time-outs in all orders; no row waits for an attempt nobody works at |
| `webhook` | TypeOK, AttemptsArePaid, RetriesNeedADuplicate, FittingIsAttempted | 369 518 | Two workers, two events of one subject or two, of kinds whose key fits the column or does not, a retry, a duplicate or a lost worker: surplus deliveries are accounted for, a Celery retry makes none, and what fits is attempted |
| `upkeep` | TypeOK, VerdictNeedsOvertaking, HistoryLossNeedsOvertaking, SilencedRowsEnd | 389 933 | Two clients, a build, an analysis with its recovery, a heartbeat that fails: what only overtaking requests can do, and rows of lost messages end |
| `model_calls` | TypeOK, OverrunIsBounded, SubjectsAreCovered, DefaultsAreEnabled | 1 074 718 | Two callers ask, recognise, summarise and describe while providers, quotas and home are edited and midnight passes |
| `upkeep_lost` | RecoveredIsRedispatched | stops at a counterexample | The first disagreement of section 7 |

CHECK_DEADLOCK is off throughout: the system may stop when every row is final
and the bound on rows is used up.

## 4. Bounds

- Two workers or publishers: each race in these components is between two
  processes, or between a process and the heartbeat or a request, which are
  actors of their own. A third worker adds no new pair.
- Two rows: a HOT and the FULL that supersedes it, or an analysis and its
  recovery or retry. What a row does to its successor is between two. In `analysis` a
  request to analyse again is made only while there is a row left for its dispatch.
- Two chunks: a run can be half done, and a late worker ahead or behind. One
  chunk where a liveness property is checked.
- Three recordings in `session_build`: one to open a session, one that follows or
  touches it, one behind a gap; one of them is probed as nothing. `MaxTime` 6 and
  `Window` 2 let a recording leave the HOT window and be found by FULL. The live
  run has `Window` 6, `SEAL_BUFFER_SECONDS` 2 and one worker.
- Two rows and three attempts in `daily_summary`: an attempt, the one that
  replaces it, and a row whose message comes again after its own attempt failed.
- One duplicate delivery and one fault (a lost worker, a deadlock, a heartbeat
  that rolls back): a redelivered message of a lost worker is both. They are
  named `MaxDuplicates`, `MaxFaults`, `MaxCrashes` and only bound the runs.
- `MaxAttempts` 4 and `BackoffCap` 3 in `outbox`: the cap is reached before
  the budget is, and the budget before the state space ends.
- `MaxAttempts` 1 in `analysis`: one recovery is within the budget, the next is not.
- `webhook`: two workers and two events, about the same subject or two (`Subjects`), with three rows for them, of one retry, and one
  fault or duplicate. The lengths of the keys (219, 306, 309) are those the code
  builds for the shortest payload of the test event and of the two produced
  kinds, against a column of 255: a test event is delivered, the others meet `KeyTooLong`.
- `upkeep`: two clients with two requests, for an overtaking needs two; two
  configurations, one of a type that is not supported; one session,
  its analysis and one recovery; one build; one fault. A second session is in
  `upkeep_lost`, without requests and faults.
- `model_calls`: two callers (symmetric), two pieces of work between them (`MaxBegun`), one
  call with tools for a question (and the answer's), a home of one pet and at most one more
  entity, which may take its name; two edits and one midnight. Calls cost 1; the quotas are
  2 for all and 1 for each provider (`InitialQuota`), and an edit may lower the first to 1
  and lift the second (`Quotas`), or give a provider 2 of its own (`OwnQuotas`). `SetQuotas`
  is left out once nobody will look at the quotas any more.
- `MaxRows` and the edit counters stop new requests, never the handling of old ones.

The theorems have no such bounds: they hold for every value of the constants.

## 5. Fairness

- Publishers: supervisord restarts them, the loop polls for ever and each broker
  call returns or raises. Weak fairness of the claim and of the step after it,
  and of time. No fairness of enrolling or crashing.
- Workers: a bound task goes on (its next step, an exception, or the hard time
  limit's `Kill`). Picking a message up is not fair: a message may be lost.
- Heartbeat: beat fires every minute, so its select and its commit are fair; its
  rollback is bounded by `MaxFaults`. Time passes for each row.
- Builds: the heartbeat dispatches a HOT build every scan interval (strong
  fairness of `PlanHot`, since a pause disables it), PostgreSQL queues the waiters
  of a lock (strong fairness of `Begin`), and the holder runs on. FULL builds,
  pauses and recordings are not fair.
- Daily summary: a worker that is at a task, or to which a message comes, goes on,
  and a row's time-out passes, as beat fires every minute. `AttemptsSettle` needs both.
- Webhook: the outbox hands over what it owes (`Outbox`, `EnrolledIsSettled`), workers
  go on and take the messages that wait; losing a worker is never required.
- Upkeep: beat fires and a heartbeat goes on to its end, committed or not; time passes
  for a row nobody works at. Workers, messages and requests may stop for good.
- Model calls: none; the properties are about what has happened.
- Nobody has to dispatch, stop, retry, edit, or redeliver.

## 6. What is proved

TLAPS checks, for every number of workers, publishers, rows, chunks and faults:

| Module | Theorem | States |
|---|---|---|
| `OutboxProofs` | `TypeCorrect`, `DuplicatesCharged` | the run's invariants |
| | `ExclusiveClaims` | no two publishers have a row |
| | `OutboxKeepsPromise` | each step of `Outbox` is a step of `OutboxAbstract` or a stutter (safety) |
| `TaskLogProofs` | `TypeCorrect`, `OverlapsAreExplained` | the run's invariants |
| | `ResurrectionIsARace`, `FullYieldsRarely` | its action properties |
| | `StopsAreHonoured` | the live run's temporal safety property |
| `AnalysisProofs` | `TypeCorrect`, `SuccessComplete`, `PaidWork` | the run's invariants and its action property |
| `SessionBuildProofs` | `TypeCorrect`, `SourceHasOneOpenSession`, `FilesArePlaced`, `SessionsStayContiguous` | the run's invariants |
| | `SealedStays` | a sealed session never changes its files |
| `DailySummaryProofs` | `TypeCorrect`, `SubscribersToldOnce`, `LatestIsShown`, `ReportsAreOwn` | the run's invariants |
| | `FailureKeepsSummary` | its action property |
| | `FinishedAttemptsStay` | an attempt that has ended stays as it ended |
| | `StopsAreHonoured` | the temporal safety property: once stopped in time, never published |
| `WebhookProofs` | `TypeCorrect`, `RetriesDeliverNothing`, `AttemptsPaid` | the run's invariants |
| `UpkeepProofs` | `TypeCorrect`, `VerdictsAreOwn`, `HistoryIsKept` | the run's invariants and its action property |
| `ModelCallsProofs` | `CallsTyped`, `DefaultsEnabled`, `SubjectsCovered`, `QuotaOverrun` | the run's invariants |

Assumptions are those the modules state about their constants: bounds are
naturals, positive where zero would mean no system; where workers or providers are
counted, there are finitely many (`Webhook`, `ModelCalls`). `ModelCalls` also assumes that
the rows, the home and the requests it is given are well formed and that an installed
default is enabled (`RowsAssumption`, `HomeAssumption`). `Outbox` also assumes that
the powers of two up to `MaxAttempts` are naturals, as arithmetic with a
variable exponent is beyond the provers; TLC evaluates the assumption.

Why the invariants are what they are:

- `Outbox`. Exclusive claims need the locks: `LockInv` says that a publisher in
  its transaction has a row, has it locked, that locked rows are pending and that
  the locks of two publishers are disjoint. The charge of duplicates is not
  inductive by itself, since a send is charged only when its transaction ends;
  `SendsAreAccounted` counts a send in flight separately.
- `TaskLog`. An overlap is explained from two sides. Two workers at one row need a
  duplicate: as long as no message was delivered twice, a row's command is in one place,
  owed, in the queue or with one worker (`OnePlace`, `Single`). Two workers at two
  rows are one too many for the unique index (`OneActiveRow`, a lemma here), so that one of
  the rows is no longer running although its worker goes on; `BoundRowsRun` says that
  only a time-out, a stop or a FULL scan ends a row under a worker that has bound it. It
  needs `Single`, since a second worker at the row could report for the first, and that a
  FULL scan supersedes HOT rows only (`SupersedesHot`).
- `SessionBuild`. `Good` is what any view of the tables satisfies: a file with a
  row has one place, a session without a row no clips, and existing sessions are
  contiguous. `Inv` says it of the tables and, while a build holds the lock, of
  its transaction (`TxInv`), along with what ties the two: the files to do have no
  row, the sessions to append to are open, and a sealed session is the same in
  both. The last needs that at most one build is in its transaction, which is
  the advisory lock. That a source has one open session is inductive only
  with `found`: a build that found nothing seals by the clock alone.
- `Analysis`. A success is complete because of what every worker left behind it:
  `Behind(w)` says that each chunk before the worker's `next` is a success in its
  run. It is inductive only as long as no other plan's claim purges the run,
  hence `OneRun` (run ids are ids of plans made so far) and the condition
  `files = 0`; `FinalizesAtTheEnd` says that a finalising worker is past the last
  chunk. `TypeCorrect` needs a bound on recovery attempts (`Budget`) and that a
  worker in a call is at a chunk (`CallsAChunk`).

- `DailySummary`. That the latest success is shown rests on the date's slot, so
  `SlotInv` says what the unique index and the wait of a claim give: attempts are
  claimed in order and all but the last are finished, at most one claim is in its
  transaction and then all attempts are finished, and a worker in `publishing` is
  at an attempt of its own row. With it `OutcomeInv` (the three invariants about
  outcomes) is inductive. `StopsAreHonoured`, here and in `TaskLog`, is no
  invariant: the proof shows that "stopped, not successful, nobody past the checks"
  (`Stopped`) is stable, as no step past the checks is possible once the row has
  its stop request.

- `Webhook`. That a retry posts nothing is a fact about deliveries which the retry's
  own state does not show. `RetryInv` says what holds as long as no message was
  delivered twice: an event is in one place, owed, waiting or at one worker
  (`OneMessage`), it has one row of the task's own (`OneRow`), a worker's row is of its
  event (`RowsAreOwn`), and the event of a retry has a final row (`RetriesAreStale`),
  so that the bind is stale. `OneRow` needs `OneMessage`: two workers at one event
  would insert two.
  That deliveries are accounted for (`AttemptsArePaid`) is a sum over the queue and the
  workers. A message with `n` retries behind it has `1 + MaxRetries - n` chances, the
  deliveries it and its retries may still begin; `Left` adds them up for an event. Each
  step pays for the chances it adds: a duplicate brings `1 + MaxRetries`, a lost worker
  brings one back. That bounds the deliveries by one too many for each retry, since the
  bound counts retries that the code never lets deliver: a failure makes the newest row
  final, and an event whose newest row is final, with no worker about to insert another
  (`Closed`), stays so and delivers no more than it has begun (`Due`). So the chances of
  the retries are a reserve of the event's first messages (`Reserve`, `Short`), and
  `PaidInv` gives it back when the event is closed (`Compare`). What it needs of the
  rows is `HistoryInv`: rows are inserted in order, the next one of an event when the
  last one is final, and a message that finds no row is no retry.
- `Upkeep`. `VerdictInv`: while nobody was overtaken, whoever updates or tests has read
  the row's configuration and verdict as they are (`ReadIsFresh`), so that what it
  writes is consistent with what it leaves. `DeletionInv`: behind a deletion's
  check that was not overrun there is no history and no analysis that could add to it.
- `ModelCalls`. `DefaultsEnabled`: `TableInv` is the property with the type of the table.
  The proof is in the lemmas about the operators (`AdjustedIsSound`,
  `AdjustedInUpdateIsSound`): what the normalisation makes of any request is sound.
  The types are not inductive by themselves: what a caller has spent and not saved
  stays in its range because of the calls it has made, which are bounded by the
  rounds of a question or the sections of its summary. `Accounted` lists where a
  caller may be with what it does, and what it has spent there.
  `SubjectsCovered` rests on the same invariant: a summary in the making has the
  sections of some subjects written and those of the others to do (`InWork`), and what
  is left when it is done covers the home (`Covers`). That the operators of `DailyText`
  give such sections, sorted, for every answer of the model is proved from what they
  return (`SerialCovers`, `SinglePassCovers`).
  `QuotaOverrun`: the property is not inductive, since a caller whose check has passed
  will add to the usage whatever others have added. `QuotaInv` adds to the recorded usage
  an allowance for each caller that has passed a check and not saved (`Holders`): a
  check passes only below the quota, when the others hold one allowance each at most, and
  saving turns an allowance into usage. As quotas change, it says so of some quota that was
  in force that day. The witness is the quota the last check has passed; an edit cannot
  take it away, since what was in force stays on record (`Recorded`), and a quota that a
  caller loaded before midnight is in force until that caller is done.

Sums and counts over a set of any size are first-order facts here: a sum is the number of
units its elements count for (`Total` in `WebhookProofs`), or a function that an
induction along the order of finite sets shows to exist (`Sums` in `ModelCallsProofs`).

Three of the properties (`ClaimsAreExclusive`, `SealedIsFinal`, `TerminalAttemptsStay`) are proved and no longer part of a run.

Every invariant and action property that a run checks is proved, and the safety part of
the refinement with them. Model-checked only are the liveness properties
(`EnrolledIsSettled`, `TasksSettle`, `AnalysisSettles`, `OpenIsSealed`,
`SealedIsDispatched`, `NewIsFound`, `AttemptsSettle`, `FittingIsAttempted`,
`SilencedRowsEnd`) and the liveness part of `ImplementsPromise`, since fairness and
ENABLED are out of the prover's reach. No module has a RECURSIVE operator.

## 7. Where code and documents disagree

- **A recovered analysis can be lost again** (`upkeep_lost`). `resume_lost_analysis`
  commits the time-out of a lost row before the next attempt is dispatched, and its
  docstring (`analysis_recovery.py:21-27`) says the two are atomic. If the heartbeat
  rolls back later in its round, because another row's compare-and-set is lost, because
  retention fails, or because it crashes, the next attempt is gone with it. The
  session stays sealed, and the query for stuck sessions passes over one that has any
  analysis row.

The others have no run of their own. In the models they are what a step does, or the
case a property excepts.

Analysis and session build:

- A changed prompt blocks a half-done analysis. The session factory has
  `autoflush=False` (`db/session.py:15`), so the reset of a checkpoint whose
  fingerprint changed is not in the table yet when the UPDATE looks for the new
  fingerprint (`checkpoint_writer.py:164`): the only worker is told it is late, in every
  attempt. `checkpoint_writer.py:144-147` and `errors.py:23` say that means another worker.
- A crash can hide itself. The redelivered message of a lost worker finds the session
  analyzing and writes the row skipped (`claim.py:285`); the heartbeat looks at running
  rows only, and trigger and retry refuse the session while it is analyzing.
  `ARCHITECTURE.en.md:601-604` says that a lost worker's session is recovered.
- A recording at the boundary is not found. The scan excludes its lower bound, the end
  of the latest session (`xiaomi_parser.py:151`); the docstrings of `discovery.py:47`
  and `runner.py:149` say it is inclusive. A clip that starts in that second is missed by
  every HOT build, and a later clip moves the bound past it.
- A stopped running task may never end: the stop revokes with terminate=True,
  so the worker's handler that would write `cancelled` (`dispatch/cancel.py:9-13`)
  does not run, and the heartbeat passes over rows with a stop request
  (`running_lease_recovery.py:158`). `TasksSettle` excepts this case.
- The fence does not tell a replaced analysis worker from its successor.
  Recovery changes neither the generation nor the lease owner of the old row
  (`checkpoint_failure.py:37-42` says it does), and gives the successor a row of
  its own. What protects the data are the compare-and-sets (`PaidWorkIsKept`,
  `SuccessIsComplete`).

Daily summary:

- A lost attempt blocks its date. The attempt of a worker that is lost, killed, or
  raises between the claim's commit and the handlers stays running
  (`_summarizer_orchestration.py:205`). No code calls `mark_timed_out`, `mark_superseded` or
  `mark_cancelled`, which `models/daily_summary_attempt.py:49-50` draws as the ways
  out. Every later row of the date, the redelivered one first, finds the running
  attempt and ends as success, "Skipped duplicate". `AttemptsSettle` is what remains true.
- A cancelled generation deletes the date's published summary
  (`tasks/summarizer.py:100`), whichever attempt wrote it;
  `summary_publication/use_case.py:31-33` says a cancellation leaves it. The second
  disjunct of `SummarySurvivesFailure` is this case and no other.
- The loser of a claim does not back off, as `summary_attempt/repository.py:104-108`
  says it should: it asks the model as well, its publication is refused with a
  ValueError, and the handler marks the winner's attempt failed (`Mismatch`).
  `SuccessIsOwn` and `NotifiedOnce` hold in spite of it; the winner's work is lost.
- A row asked for without a date is refused the date's key while another row
  runs, and stays pending until the heartbeat times it out (`Bind`).

Rows, builds and outbox:

- A bind can revive a finalised row, and one of a superseded HOT row can cancel
  the FULL that superseded it, since it reads without a lock and writes by
  primary key. `worker_bind/_branches.py:43-44` and `deferred.py:10-12` exclude
  both. `ResurrectionNeedsStaleBind` and `FullYieldsOnlyToStop` state precisely
  the window that is left.
- `seal_policy.py` seals every open session after a FULL scan because nothing more
  is expected, but a FULL scan ends where the HOT window begins, and the open
  session may be growing inside it. The rest of that event becomes a session of
  its own.
- `publisher.py:32-40` and `76-82` describe an expired lease on a `publishing` row
  being claimed again. The code never commits `publishing`; what recovers the row
  is the rollback, and no query looks for the status. `EnrolledIsSettled` holds
  for that reason.

Webhooks:

- Produced events are never delivered. The task's dedupe key holds the payload's text
  (`dedupe.py:62`), 306 characters and more for either produced kind, and the column has
  255; only a test event's key fits. The unit tests use `data: {}`. `webhook_events.py:6-9`
  says delivery is at least once. `FittingIsAttempted` is therefore about keys that fit.
- The enrolled row is never bound, as the task looks for a row under another key. The
  heartbeat times it out after 300 seconds, whatever became of the event. A second event
  of the same session or date that comes while it is pending is swallowed.
- A failed delivery is not tried again. The row is committed failed before the task asks
  Celery for its retry, whose message then finds a final row and is stale
  (`RetriesNeedADuplicate`, `RetriesDeliverNothing`).
- An update of a webhook that does not name its subscriptions clears them
  (`api/v1/endpoints/webhooks.py:18-35`, `83`); a webhook with a delivery log cannot be deleted; the
  test event is skipped for a hook that does not subscribe to it.

Heartbeat, sources and retention:

- A terminal row that an outbox row refers to cannot be deleted (RESTRICT), and nothing
  calls `cleanup_published_older_than`. From the day the first such row is old enough,
  each hourly heartbeat fails in retention and rolls back what it did (`RetentionFails`);
  the deletion of such a row by a user fails too.
- A build whose source is paused returns without writing its row; the heartbeat times it
  out. `file_missing` is set and never reset.
- A test beside an update writes the verdict of the old directory
  (`VerdictNeedsOvertaking`), and a deletion checked before an analysis was claimed
  deletes what it records (`HistoryLossNeedsOvertaking`).

Models, providers and quota:

- An update that takes the capability from a default row drops the default flag and yet
  sets the capability and `enabled` again (`use_cases.py:178-194`). The check that a default
  cannot be disabled never fires in an update, since the update enables the row first. Two
  defaults of a role are reachable, which `provider_selector.py:77` rules out.
- A failed question of the chat page loses the usage it recorded; one through MCP has it
  committed by the call log. A publication that fails rolls back the usage of its summary
  (`_summarizer_orchestration.py:525-549`), and the failure handler counts the last call's usage a
  second time (line 338). Answers to a chunk that cannot be parsed, tests of a provider and
  descriptions of pictures are not counted at all.
- A summary is checked against the quota once, for up to two calls for each subject and two
  for the day; a question's own calls are not seen by its checks. `OverrunIsBounded` says how
  far that goes.
- Names at home are not unique and may be blank: two sections of one name, or a subject
  left out. The serial mode, which a docstring calls unreachable, is reached by a home
  context of more than 16,000 characters.

## 8. Not modelled

- Payload contract and registry of the outbox, HTTP schemas, authentication, settings: they
  check or edit one record in one transaction.
- Query service, the questions' tools, status pages: they read only.
- Media access and playback: signing and streaming, and a cache of merged videos that no part
  of the pipeline reads back. A merged video is cached for good once it is built, although
  `README.en.md:259` has it skip missing segments; two requests that build it at once write
  the same temporary file without a lock; and a file marked missing is left out of the
  playlist after it has come back. These are races on files, which a module
  of its own could show; they touch none of the state modelled here.
- The wording of prompts and summaries, the parsing of answers, clusters of events,
  length limits, the names and keys of providers.
- The fan-out of a webhook message without a `webhook_id`, the enable and disable use
  cases of providers, `source_deletion.py`: nothing calls them.
- Two administrators who edit the provider table at the same time.
- Transition log (append-only, read by nobody in the pipeline), bootstrap, the web front end.
  Of the migrations only the tables the models keep are mapped.
- Compositions. `Outbox` meets the other modules through `OutboxAbstract`, whose promise they
  take over as their `HandOver`; one state space of all rows is beyond TLC. That a
  written-off command leaves its row pending is in each of them (a message that never
  comes), and that no sweep looks at a pending analysis is `SilencedRowsEnd`'s exception.
