---------------------------- MODULE DailySummary ----------------------------
(***************************************************************************)
(* The generation of the daily summary of one date: the task_log rows that *)
(* ask for it, the daily_summary_generation_attempt rows that hold the     *)
(* date's active slot, the daily_summary row, and the webhook commands a   *)
(* publication enrols.                                                     *)
(*                                                                         *)
(* A row asked for without a date ("yesterday") has a dedupe key of its    *)
(* own until a worker binds it, which writes the date's key.               *)
(*                                                                         *)
(* The states claimed and queued of an attempt are never committed: a      *)
(* claim inserts the attempt and makes it running in one transaction,      *)
(* during which the unique index makes every other claim of the date wait. *)
(*                                                                         *)
(* How a bind, a stop and the heartbeat race over one row is the subject   *)
(* of TaskLog; here each of them is one step.                              *)
(***************************************************************************)
EXTENDS Integers, FiniteSets

CONSTANTS
  Workers,        \* Celery worker processes
  MaxRows,        \* bound on the rows dispatch inserts
  MaxAttempts,    \* bound on the attempts that are claimed
  MaxDuplicates,  \* bound on messages delivered once more
  MaxFaults       \* bound on lost workers

ASSUME BoundsAssumption ==
  /\ MaxRows \in Nat \ {0}
  /\ MaxAttempts \in Nat \ {0}
  /\ MaxDuplicates \in Nat
  /\ MaxFaults \in Nat

Rows == 1..MaxRows
Attempts == 1..MaxAttempts

\* A row that ends "success" because it found a running attempt says so in
\* its detail_json (skipped_duplicate): "duplicate" here.
TERMINAL_TASK_STATUSES ==
  {"success", "duplicate", "failed", "timeout", "cancelled"}
ACTIVE == {"pending", "running"}
TaskStatus == ACTIVE \cup TERMINAL_TASK_STATUSES
TERMINAL_STATUSES == {"succeeded", "failed"}
AttemptStatus == {"none", "running"} \cup TERMINAL_STATUSES

VARIABLES
  status,      \* task_log.status, "absent" before the INSERT
  dated,       \* rows whose dedupe key names the date
  cancelReq,   \* rows with task_log.cancel_requested
  revoked,     \* rows whose message a revoke(terminate=True) went out for
  queue,       \* messages of each row waiting for a worker
  guard,       \* the scheduler's app_runtime_state row of the date exists
  attempt,     \* the attempts' status, "none" until its claim commits
  owner,       \* the attempts' task_log_id
  summary,     \* the attempt whose text the daily_summary row holds, or 0
  notified,    \* batches of webhook enrolments made for each attempt
  pc,          \* where each worker is in its task
  row,         \* the row its message names
  att,         \* the attempt it claimed or was given, or 0
  duplicates,  \* messages delivered once more so far
  faults       \* lost workers so far

rowVars == <<status, dated, cancelReq, revoked, guard>>
attemptVars == <<attempt, owner>>
summaryVars == <<summary, notified>>
workerVars == <<pc, row, att>>
vars == <<rowVars, queue, attemptVars, summaryVars, workerVars, duplicates,
          faults>>

Stages == {"idle", "bound", "looked", "claimed", "asking", "publishing"}

-----------------------------------------------------------------------------
(***************************************************************************)
(* Helpers                                                                 *)
(***************************************************************************)

Active(r) == status[r] \in ACTIVE
Terminal(r) == status[r] \in TERMINAL_TASK_STATUSES

\* Rows get ascending ids: the next one to be inserted.
NextRow == {r \in Rows : /\ status[r] = "absent"
                         /\ \A s \in Rows : s < r => status[s] # "absent"}

\* The attempt that holds the date's active slot (find_active_for_date).
Running == {a \in Attempts : attempt[a] = "running"}

\* Attempts get ascending ids as well.
NextAttempt == {a \in Attempts :
                  /\ attempt[a] = "none"
                  /\ \A b \in Attempts : b < a => attempt[b] # "none"}

\* The worker has inserted an attempt that is not committed yet.
Claiming(w) == pc[w] = "claimed" /\ attempt[att[w]] = "none"

\* The worker's task ends (what it knew is forgotten).
Leave(w) ==
  /\ pc' = [pc EXCEPT ![w] = "idle"]
  /\ row' = [row EXCEPT ![w] = 1]
  /\ att' = [att EXCEPT ![w] = 0]

Goto(w, stage) ==
  /\ pc' = [pc EXCEPT ![w] = stage]
  /\ UNCHANGED <<row, att>>

\* finalize_task_log: an UPDATE by primary key, whatever the row has become.
Finalize(r, final) == status' = [status EXCEPT ![r] = final]

\* mark_failed: running -> failed; any other status matches no row.
MarkFailed(a) ==
  attempt' = [attempt EXCEPT ![a] = IF @ = "running" THEN "failed" ELSE @]

-----------------------------------------------------------------------------
(***************************************************************************)
(* Dispatch                                                                *)
(***************************************************************************)

Init ==
  /\ status = [r \in Rows |-> "absent"]
  /\ dated = {}
  /\ cancelReq = {}
  /\ revoked = {}
  /\ queue = [r \in Rows |-> 0]
  /\ guard = FALSE
  /\ attempt = [a \in Attempts |-> "none"]
  /\ owner = [a \in Attempts |-> 1]
  /\ summary = 0
  /\ notified = [a \in Attempts |-> 0]
  /\ pc = [w \in Workers |-> "idle"]
  /\ row = [w \in Workers |-> 1]
  /\ att = [w \in Workers |-> 0]
  /\ duplicates = 0
  /\ faults = 0

\* task_log INSERT and outbox INSERT; the outbox hands the message over.
InsertPending(r, withDate) ==
  /\ status' = [status EXCEPT ![r] = "pending"]
  /\ dated' = IF withDate THEN dated \cup {r} ELSE dated
  /\ queue' = [queue EXCEPT ![r] = 1]
  /\ UNCHANGED <<cancelReq, revoked, attemptVars, summaryVars, workerVars,
                 duplicates, faults>>

\* generate-all, summarize (with or without a date) and retry: a new row
\* unless an active one has its key (then that one is answered with).
Dispatch(withDate) ==
  /\ \A s \in Rows : (s \in dated) = withDate => ~Active(s)
  /\ \E r \in NextRow : InsertPending(r, withDate)
  /\ UNCHANGED guard

\* The date has a summary, or a row of its key that is active or succeeded.
AlreadyThere ==
  \/ summary # 0
  \/ \E s \in dated : status[s] \in ACTIVE \cup {"success", "duplicate"}

\* The beat's dispatch of yesterday, once per date: the guard is still free.
\* (A failed dispatch rolls back and clears the guard: nothing changes.)
Schedule ==
  /\ ~AlreadyThere
  /\ ~guard
  /\ guard' = TRUE
  /\ \E r \in NextRow : InsertPending(r, TRUE)

-----------------------------------------------------------------------------
(***************************************************************************)
(* Broker, stop requests and heartbeat                                     *)
(***************************************************************************)

\* The outbox sends a command twice, or the broker queues a message again
\* that its worker is still at (task_acks_late, visibility time-out).
Redeliver(r) ==
  /\ status[r] # "absent"
  /\ duplicates < MaxDuplicates
  /\ duplicates' = duplicates + 1
  /\ queue' = [queue EXCEPT ![r] = @ + 1]
  /\ UNCHANGED <<rowVars, attemptVars, summaryVars, workerVars, faults>>

\* A worker that knows of the revocation discards the message.
Discard(r) ==
  /\ r \in revoked
  /\ queue[r] > 0
  /\ queue' = [queue EXCEPT ![r] = @ - 1]
  /\ UNCHANGED <<rowVars, attemptVars, summaryVars, workerVars, duplicates,
                 faults>>

\* stop_task_log_use_case: revoke, flag, and cancel a row that is pending.
Stop(r) ==
  /\ Active(r)
  /\ revoked' = revoked \cup {r}
  /\ cancelReq' = cancelReq \cup {r}
  /\ IF status[r] = "pending" THEN Finalize(r, "cancelled")
                              ELSE UNCHANGED status
  /\ UNCHANGED <<dated, guard, queue, attemptVars, summaryVars, workerVars,
                 duplicates, faults>>

\* Seeded fault: the heartbeat looks at rows that wait and not at those whose
\* worker is gone.
TimeOutPending(r) ==
  /\ status[r] = "pending"
  /\ r \notin cancelReq
  /\ revoked' = revoked \cup {r}
  /\ Finalize(r, "timeout")
  /\ UNCHANGED <<dated, cancelReq, guard, queue, attemptVars, summaryVars,
                 workerVars, duplicates, faults>>

\* The heartbeat times an active row out and revokes its message; neither
\* the worker, who may still be at it, nor the attempt is looked at.
TimeOut(r) ==
  /\ Active(r)
  /\ r \notin cancelReq
  /\ revoked' = revoked \cup {r}
  /\ Finalize(r, "timeout")
  /\ UNCHANGED <<dated, cancelReq, guard, queue, attemptVars, summaryVars,
                 workerVars, duplicates, faults>>

-----------------------------------------------------------------------------
(***************************************************************************)
(* Worker: bind, claim, evidence                                           *)
(***************************************************************************)

\* Rows that keep r from taking the date's key: a running one, and a later
\* pending one, whose UPDATE to cancelled is flushed after r's own.
Blocking(r) == {s \in dated \ {r} : \/ status[s] = "running"
                                    \/ status[s] = "pending" /\ s > r}

\* mark_superseded_pending: the date's other pending rows, when r is bound.
Superseded(r) == {s \in dated \ {r} : status[s] = "pending"}

\* A worker takes a message.  A terminal row makes it stale; a row that the
\* unique index keeps from the date's key is left as it is, and the task
\* fails; otherwise the row is running, under the date's key.
Bind(w) ==
  /\ pc[w] = "idle"
  /\ \E r \in Rows :
       /\ queue[r] > 0
       /\ queue' = [queue EXCEPT ![r] = @ - 1]
       /\ IF Terminal(r) \/ Blocking(r) # {}
          THEN UNCHANGED <<status, dated, workerVars>>
          ELSE /\ status' = [s \in Rows |->
                               IF s = r THEN "running"
                               ELSE IF s \in Superseded(r) THEN "cancelled"
                               ELSE status[s]]
               /\ dated' = dated \cup {r}
               /\ pc' = [pc EXCEPT ![w] = "bound"]
               /\ row' = [row EXCEPT ![w] = r]
               /\ UNCHANGED att
  /\ UNCHANGED <<cancelReq, revoked, guard, attemptVars, summaryVars,
                 duplicates, faults>>

\* The home time zone does not resolve: the row fails.
NoTimezone(w) ==
  /\ pc[w] = "bound"
  /\ Finalize(row[w], "failed")
  /\ Leave(w)
  /\ UNCHANGED <<dated, cancelReq, revoked, guard, queue, attemptVars,
                 summaryVars, duplicates, faults>>

\* attempt_already_running, without a lock: a running attempt, if only the
\* one a lost worker left, ends the row with success.
Look(w) ==
  /\ pc[w] = "bound"
  /\ IF Running # {}
     THEN Finalize(row[w], "duplicate") /\ Leave(w)
     ELSE Goto(w, "looked") /\ UNCHANGED status
  /\ UNCHANGED <<dated, cancelReq, revoked, guard, queue, attemptVars,
                 summaryVars, duplicates, faults>>

\* Seeded fault: no unique index, every claim inserts.
ClaimUnchecked(w) ==
  /\ pc[w] = "looked"
  /\ \A v \in Workers : ~Claiming(v)
  /\ \E a \in NextAttempt : att' = [att EXCEPT ![w] = a]
  /\ pc' = [pc EXCEPT ![w] = "claimed"]
  /\ UNCHANGED <<rowVars, queue, attemptVars, summaryVars, row, duplicates,
                 faults>>

\* Seeded fault: the loser is not given the winner's attempt.
ClaimWithoutReadBack(w) ==
  /\ pc[w] = "looked"
  /\ \A v \in Workers : ~Claiming(v)
  /\ IF Running # {} THEN UNCHANGED att
     ELSE \E a \in NextAttempt : att' = [att EXCEPT ![w] = a]
  /\ pc' = [pc EXCEPT ![w] = "claimed"]
  /\ UNCHANGED <<rowVars, queue, attemptVars, summaryVars, row, duplicates,
                 faults>>

\* claim: INSERT ... ON CONFLICT DO NOTHING waits for another claim's
\* transaction.  The loser is given the running attempt (created=False),
\* and its caller goes on with it.
Claim(w) ==
  /\ pc[w] = "looked"
  /\ \A v \in Workers : ~Claiming(v)
  /\ \E a \in IF Running # {} THEN Running ELSE NextAttempt :
       att' = [att EXCEPT ![w] = a]
  /\ pc' = [pc EXCEPT ![w] = "claimed"]
  /\ UNCHANGED <<rowVars, queue, attemptVars, summaryVars, row, duplicates,
                 faults>>

\* A cancel check finds the stop request: the claim is rolled back, the
\* date's summary deleted, the row cancelled.
Cancelled(w) ==
  /\ pc[w] = "claimed"
  /\ row[w] \in cancelReq
  /\ summary' = 0
  /\ Finalize(row[w], "cancelled")
  /\ Leave(w)
  /\ UNCHANGED <<dated, cancelReq, revoked, guard, queue, attemptVars,
                 notified, duplicates, faults>>

\* Seeded fault: the model is asked without the cancel checks.
ClaimCommitUnasked(w) ==
  LET a == att[w] IN
  /\ pc[w] = "claimed"
  /\ IF attempt[a] = "none"
     THEN /\ attempt' = [attempt EXCEPT ![a] = "running"]
          /\ owner' = [owner EXCEPT ![a] = row[w]]
     ELSE UNCHANGED attemptVars
  /\ Goto(w, "asking")
  /\ UNCHANGED <<rowVars, queue, summaryVars, duplicates, faults>>

\* Evidence is collected, both cancel checks pass, and the claim commits as
\* a running attempt (mark_running matches nothing on a given one).
ClaimCommit(w) ==
  LET a == att[w] IN
  /\ pc[w] = "claimed"
  /\ row[w] \notin cancelReq
  /\ IF attempt[a] = "none"
     THEN /\ attempt' = [attempt EXCEPT ![a] = "running"]
          /\ owner' = [owner EXCEPT ![a] = row[w]]
     ELSE UNCHANGED attemptVars
  /\ Goto(w, "asking")
  /\ UNCHANGED <<rowVars, queue, summaryVars, duplicates, faults>>

\* An exception that no handler of the task takes (no provider, quota,
\* evidence; the client or the subscribers): roll back, leave the row.
GiveUp(w) ==
  /\ pc[w] \in {"looked", "claimed", "asking"}
  /\ Leave(w)
  /\ UNCHANGED <<rowVars, queue, attemptVars, summaryVars, duplicates, faults>>

-----------------------------------------------------------------------------
(***************************************************************************)
(* Worker: model call and publication                                      *)
(***************************************************************************)

\* Seeded fault: a failure clears the date's summary as well.
FailsAndClears(w) ==
  /\ pc[w] \in {"asking", "publishing"}
  /\ MarkFailed(att[w])
  /\ summary' = 0
  /\ Finalize(row[w], "failed")
  /\ Leave(w)
  /\ UNCHANGED <<dated, cancelReq, revoked, guard, queue, owner, notified,
                 duplicates, faults>>

\* The model call fails (the soft time limit too), or a publication raises:
\* attempt and row fail together.
Fails(w) ==
  /\ pc[w] \in {"asking", "publishing"}
  /\ MarkFailed(att[w])
  /\ Finalize(row[w], "failed")
  /\ Leave(w)
  /\ UNCHANGED <<dated, cancelReq, revoked, guard, queue, owner, summaryVars,
                 duplicates, faults>>

\* Seeded fault: whose attempt it is does not matter.
LoadAnyAttempt(w) ==
  /\ pc[w] = "asking"
  /\ attempt[att[w]] = "running"
  /\ Goto(w, "publishing")
  /\ UNCHANGED <<rowVars, queue, attemptVars, summaryVars, duplicates, faults>>

\* publish_daily_summary reads the attempt, without a lock: it must be
\* active and the row's own.
LoadAttempt(w) ==
  /\ pc[w] = "asking"
  /\ attempt[att[w]] = "running"
  /\ owner[att[w]] = row[w]
  /\ Goto(w, "publishing")
  /\ UNCHANGED <<rowVars, queue, attemptVars, summaryVars, duplicates, faults>>

\* Another row's attempt is a ValueError, and the handler of publication
\* errors marks the attempt failed that the other row is still at.
Mismatch(w) ==
  /\ pc[w] = "asking"
  /\ attempt[att[w]] = "running"
  /\ owner[att[w]] # row[w]
  /\ MarkFailed(att[w])
  /\ Finalize(row[w], "failed")
  /\ Leave(w)
  /\ UNCHANGED <<dated, cancelReq, revoked, guard, queue, owner, summaryVars,
                 duplicates, faults>>

\* The attempt is over (AttemptNotInValidStateError): the upsert is rolled
\* back and the row fails.
Rejected(w) ==
  /\ pc[w] \in {"asking", "publishing"}
  /\ attempt[att[w]] # "running"
  /\ Finalize(row[w], "failed")
  /\ Leave(w)
  /\ UNCHANGED <<dated, cancelReq, revoked, guard, queue, attemptVars,
                 summaryVars, duplicates, faults>>

\* Seeded fault: the status read before is not asked again.
PublishUnchecked(w) ==
  LET a == att[w] IN
  /\ pc[w] = "publishing"
  /\ attempt' = [attempt EXCEPT ![a] = "succeeded"]
  /\ summary' = a
  /\ notified' = [notified EXCEPT ![a] = @ + 1]
  /\ Finalize(row[w], "success")
  /\ Leave(w)
  /\ UNCHANGED <<dated, cancelReq, revoked, guard, queue, owner, duplicates,
                 faults>>

\* Upsert of the summary, running -> succeeded, one webhook command per
\* subscriber and the row's success commit together.
Publish(w) ==
  LET a == att[w] IN
  /\ pc[w] = "publishing"
  /\ attempt[a] = "running"
  /\ attempt' = [attempt EXCEPT ![a] = "succeeded"]
  /\ summary' = a
  /\ notified' = [notified EXCEPT ![a] = @ + 1]
  /\ Finalize(row[w], "success")
  /\ Leave(w)
  /\ UNCHANGED <<dated, cancelReq, revoked, guard, queue, owner, duplicates,
                 faults>>

\* The process is lost: task_reject_on_worker_lost queues the message again.
LoseWorker(w) ==
  /\ pc[w] # "idle"
  /\ faults < MaxFaults
  /\ faults' = faults + 1
  /\ Leave(w)
  /\ queue' = [queue EXCEPT ![row[w]] = @ + 1]
  /\ UNCHANGED <<rowVars, attemptVars, summaryVars, duplicates>>

\* A revocation terminates the process, or the hard time limit does: the
\* message is acknowledged, row and attempt are left.
Kill(w) ==
  /\ pc[w] # "idle"
  /\ row[w] \in revoked \/ pc[w] \in {"claimed", "asking"}
  /\ Leave(w)
  /\ UNCHANGED <<rowVars, queue, attemptVars, summaryVars, duplicates, faults>>

-----------------------------------------------------------------------------

\* What a worker does that is at a task, or to which a message comes.
Work(w) ==
  \/ Bind(w) \/ NoTimezone(w) \/ Look(w) \/ Claim(w) \/ Cancelled(w)
  \/ ClaimCommit(w) \/ GiveUp(w) \/ Fails(w) \/ LoadAttempt(w) \/ Mismatch(w)
  \/ Rejected(w) \/ Publish(w) \/ Kill(w)

Next ==
  \/ \E d \in BOOLEAN : Dispatch(d)
  \/ Schedule
  \/ \E r \in Rows :
       \/ Redeliver(r)
       \/ Discard(r)
       \/ Stop(r)
       \/ TimeOut(r)
  \/ \E w \in Workers :
       \/ Bind(w)
       \/ NoTimezone(w)
       \/ Look(w)
       \/ Claim(w)
       \/ Cancelled(w)
       \/ ClaimCommit(w)
       \/ GiveUp(w)
       \/ Fails(w)
       \/ LoadAttempt(w)
       \/ Mismatch(w)
       \/ Rejected(w)
       \/ Publish(w)
       \/ LoseWorker(w)
       \/ Kill(w)

\* Workers run on and take the messages that wait; beat fires every minute
\* and a row's time-out passes.
Fairness ==
  /\ \A w \in Workers : WF_vars(Work(w))
  /\ \A r \in Rows : WF_vars(TimeOut(r))

Spec == Init /\ [][Next]_vars
FairSpec == Spec /\ Fairness

-----------------------------------------------------------------------------
(***************************************************************************)
(* Properties                                                              *)
(***************************************************************************)

\* Every variable has its type.
TypeOK ==
  /\ status \in [Rows -> TaskStatus \cup {"absent"}]
  /\ dated \subseteq Rows
  /\ cancelReq \subseteq Rows
  /\ revoked \subseteq Rows
  /\ queue \in [Rows -> Nat]
  /\ guard \in BOOLEAN
  /\ attempt \in [Attempts -> AttemptStatus]
  /\ owner \in [Attempts -> Rows]
  /\ summary \in 0..MaxAttempts
  /\ notified \in [Attempts -> Nat]
  /\ pc \in [Workers -> Stages]
  /\ row \in [Workers -> Rows]
  /\ att \in [Workers -> 0..MaxAttempts]
  /\ \A w \in Workers :
       pc[w] \in {"claimed", "asking", "publishing"} => att[w] \in Attempts
  /\ duplicates \in 0..MaxDuplicates
  /\ faults \in 0..MaxFaults

\* The enrolment of the subscribers' webhooks is made exactly once for each
\* attempt that succeeded, and for no other, however many workers publish the
\* attempt.  (Which of them comes to a delivery is Webhook's subject.)
NotifiedOnce ==
  \A a \in Attempts : notified[a] = IF attempt[a] = "succeeded" THEN 1 ELSE 0

\* The summary that readers see is that of the latest attempt to succeed: a
\* late worker never puts an older text over a newer one.
SummaryIsLatest ==
  summary # 0 =>
    /\ attempt[summary] = "succeeded"
    /\ \A a \in Attempts : a > summary => attempt[a] # "succeeded"

\* A row that reports a generated summary generated it: an attempt of its
\* own succeeded, not one it was given by a lost claim.
SuccessIsOwn ==
  \A r \in Rows :
    status[r] = "success" =>
      \E a \in Attempts : attempt[a] = "succeeded" /\ owner[a] = r

\* A finished attempt keeps its outcome and its row, for the audit.
TerminalAttemptsStay ==
  [][\A a \in Attempts :
       attempt[a] \in TERMINAL_STATUSES =>
         attempt'[a] = attempt[a] /\ owner'[a] = owner[a]]_vars

\* A failed, rejected, lost or superseded generation leaves the published
\* summary alone: it gives way to a newer one, or to a stop request.
SummarySurvivesFailure ==
  [][summary' # summary =>
       \/ summary' > summary /\ attempt'[summary'] = "succeeded"
       \/ summary' = 0 /\ \E r \in cancelReq : status'[r] = "cancelled"]_vars

\* A stop request is honoured: once it is committed and no worker on the
\* row has passed its checks, the row publishes nothing any more.
StopIsHonoured ==
  \A r \in Rows :
    [](/\ r \in cancelReq
       /\ status[r] # "success"
       /\ \A w \in Workers : row[w] = r => pc[w] \notin {"asking", "publishing"}
       => [](status[r] # "success"))

\* No row waits for an attempt that nobody works at: an attempt ends, or its
\* row is timed out, unless a stop request keeps the heartbeat from it.  The
\* attempt itself may then stay running for ever: nothing calls
\* mark_timed_out, and every later row of the date is a skipped duplicate.
AttemptsSettle ==
  \A a \in Attempts :
    attempt[a] = "running" ~>
      \/ attempt[a] # "running"
      \/ Terminal(owner[a])
      \/ owner[a] \in cancelReq

=============================================================================
