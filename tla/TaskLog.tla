------------------------------ MODULE TaskLog -------------------------------
(***************************************************************************)
(* The life of the task_log rows of one dedupe key, that of the builds of  *)
(* one video source ("source_scan:<id>"): dispatch with its HOT/FULL       *)
(* precedence, delivery by the broker, the worker's bind, the build and    *)
(* its finalisation, the user's stop, and the heartbeat's time-outs.       *)
(*                                                                         *)
(* No reader of a row locks it (the heartbeat's pending scan excepted) and *)
(* every writer but a few updates it by primary key alone.  A handler that *)
(* decides on a row in one step and writes it in a later one is therefore  *)
(* two actions here, and what the second writes is what the first saw.     *)
(*                                                                         *)
(* The outbox between dispatch and broker is what OutboxAbstract, which    *)
(* Outbox implements, promises: only a committed row's command is sent,    *)
(* once, more than once, or (written off, or delayed for ever) never.      *)
(***************************************************************************)
EXTENDS Integers, FiniteSets

CONSTANTS
  Workers,        \* Celery worker processes
  MaxRows,        \* bound on the rows dispatch inserts
  MaxDuplicates,  \* bound on messages the broker delivers once more
  MaxFaults       \* bound on lost workers and rolled back heartbeats

ASSUME BoundsAssumption ==
  /\ MaxRows \in Nat \ {0}
  /\ MaxDuplicates \in Nat
  /\ MaxFaults \in Nat

Rows == 1..MaxRows
Modes == {"hot", "full"}
TERMINAL_TASK_STATUSES ==
  {"success", "skipped", "failed", "timeout", "cancelled"}
ACTIVE == {"pending", "running"}
TaskStatus == ACTIVE \cup TERMINAL_TASK_STATUSES

VARIABLES
  status,      \* task_log.status, "absent" before the INSERT
  mode,        \* detail_json.scan_mode
  cancelReq,   \* task_log.cancel_requested
  overdue,     \* active rows whose lease and time-out have both passed
  owed,        \* rows whose command the outbox still has to settle
  queue,       \* broker messages of each row waiting for a worker
  revoked,     \* rows whose message a revoke(terminate=True) went out for
  pc,          \* where each worker is in its task
  row,         \* the row its message names
  seen,        \* the status its bind read
  client,      \* the API request under way
  sweep,       \* rows the heartbeat's open transaction will time out
  duplicates,  \* messages delivered once more so far
  faults       \* faults so far

rowVars == <<status, mode, cancelReq, overdue>>
brokerVars == <<owed, queue, revoked, duplicates>>
workerVars == <<pc, row, seen>>
vars == <<rowVars, brokerVars, workerVars, client, sweep, faults>>

Stages == {"idle", "read", "running", "waiting", "building"}
NoRequest == [op |-> "none"]
Requests ==
  {NoRequest}
    \cup [op : {"stop"}, target : Rows, saw : ACTIVE]
    \cup [op : {"supersede"}, target : Rows]

-----------------------------------------------------------------------------
(***************************************************************************)
(* Helpers                                                                 *)
(***************************************************************************)

Active(r) == status[r] \in ACTIVE
Terminal(r) == status[r] \in TERMINAL_TASK_STATUSES
ActiveRows == {r \in Rows : Active(r)}

\* Rows get ascending ids: the next one to be inserted.
NextRow == {r \in Rows : /\ status[r] = "absent"
                         /\ \A s \in Rows : s < r => status[s] # "absent"}

\* The heartbeat's SELECT ... FOR UPDATE locks the pending rows it found.
Locked == {r \in sweep : status[r] = "pending"}

\* The worker's task ends (what it knew of its row is forgotten).
Leave(w) ==
  /\ pc' = [pc EXCEPT ![w] = "idle"]
  /\ row' = [row EXCEPT ![w] = 1]
  /\ seen' = [seen EXCEPT ![w] = "pending"]

\* finalize_task_log: an UPDATE by primary key, whatever the row has become.
Finalize(r, final) ==
  /\ status' = [status EXCEPT ![r] = final]
  /\ overdue' = overdue \ {r}

\* mark_superseded_pending: the key's other pending rows, when r is bound.
Superseded(r) == {s \in Rows \ {r} : status[s] = "pending"}

\* task_log INSERT and outbox INSERT of one dispatch, in one transaction.
InsertPending(r, m) ==
  /\ status' = [status EXCEPT ![r] = "pending"]
  /\ mode' = [mode EXCEPT ![r] = m]
  /\ owed' = owed \cup {r}
  /\ UNCHANGED <<cancelReq, overdue, queue, revoked, duplicates>>

-----------------------------------------------------------------------------
(***************************************************************************)
(* Dispatch (CeleryTaskDispatcher.dispatch_session_build)                  *)
(***************************************************************************)

Init ==
  /\ status = [r \in Rows |-> "absent"]
  /\ mode = [r \in Rows |-> "hot"]
  /\ cancelReq = [r \in Rows |-> FALSE]
  /\ overdue = {}
  /\ owed = {}
  /\ queue = [r \in Rows |-> 0]
  /\ revoked = {}
  /\ pc = [w \in Workers |-> "idle"]
  /\ row = [w \in Workers |-> 1]
  /\ seen = [w \in Workers |-> "pending"]
  /\ client = NoRequest
  /\ sweep = {}
  /\ duplicates = 0
  /\ faults = 0

\* No active row holds the dedupe key: a new pending row and its command.
\* (An active row of the same mode is reused: nothing changes.)
Dispatch(m) ==
  /\ ActiveRows = {}
  /\ \E r \in NextRow : InsertPending(r, m)
  /\ UNCHANGED <<workerVars, client, sweep, faults>>

\* Seeded fault: the precedence rule applied the wrong way round.
DeferHotSupersedes ==
  /\ \E a \in ActiveRows :
       /\ mode[a] = "full"
       /\ a \notin Locked
       /\ Finalize(a, "cancelled")
  /\ UNCHANGED <<mode, cancelReq, brokerVars, workerVars, client, sweep,
                 faults>>

\* HOT over an active FULL: a row that is born skipped, without a command.
DeferHot ==
  /\ \E a \in ActiveRows : mode[a] = "full"
  /\ \E r \in NextRow :
       /\ status' = [status EXCEPT ![r] = "skipped"]
       /\ mode' = [mode EXCEPT ![r] = "hot"]
  /\ UNCHANGED <<cancelReq, overdue, brokerVars, workerVars, client, sweep,
                 faults>>

\* FULL over an active HOT: the request has found the HOT row ...
SupersedeRead ==
  /\ client = NoRequest
  /\ \E a \in ActiveRows :
       /\ mode[a] = "hot"
       /\ client' = [op |-> "supersede", target |-> a]
  /\ UNCHANGED <<rowVars, brokerVars, workerVars, sweep, faults>>

\* ... and cancels it, whatever it has become, its worker not being told,
\* and inserts the FULL row.  Another active row makes the INSERT a no-op:
\* RuntimeError, and the transaction is rolled back.
SupersedeCommit ==
  /\ client.op = "supersede"
  /\ client.target \notin Locked
  /\ IF ActiveRows \subseteq {client.target}
     THEN \E r \in NextRow :
            /\ status' = [status EXCEPT ![client.target] = "cancelled",
                                        ![r] = "pending"]
            /\ mode' = [mode EXCEPT ![r] = "full"]
            /\ overdue' = overdue \ {client.target}
            /\ owed' = owed \cup {r}
     ELSE UNCHANGED <<status, mode, overdue, owed>>
  /\ client' = NoRequest
  /\ UNCHANGED <<cancelReq, queue, revoked, duplicates, workerVars, sweep,
                 faults>>

-----------------------------------------------------------------------------
(***************************************************************************)
(* Outbox and broker                                                       *)
(***************************************************************************)

\* The publisher hands the command over, and records it or has to repeat.
HandOver(r) ==
  /\ r \in owed
  /\ queue' = [queue EXCEPT ![r] = @ + 1]
  /\ \/ owed' = owed \ {r} /\ UNCHANGED duplicates
     \/ /\ duplicates < MaxDuplicates
        /\ duplicates' = duplicates + 1
        /\ UNCHANGED owed
  /\ UNCHANGED <<rowVars, revoked, workerVars, client, sweep, faults>>

\* The visibility time-out of an unacknowledged message (task_acks_late)
\* passes: the broker queues it again while its worker is still at it.
Redeliver(w) ==
  /\ pc[w] # "idle"
  /\ duplicates < MaxDuplicates
  /\ duplicates' = duplicates + 1
  /\ queue' = [queue EXCEPT ![row[w]] = @ + 1]
  /\ UNCHANGED <<rowVars, owed, revoked, workerVars, client, sweep, faults>>

\* A worker that knows of the revocation discards the message.
Discard(r) ==
  /\ r \in revoked
  /\ queue[r] > 0
  /\ queue' = [queue EXCEPT ![r] = @ - 1]
  /\ UNCHANGED <<rowVars, owed, revoked, duplicates, workerVars, client,
                 sweep, faults>>

-----------------------------------------------------------------------------
(***************************************************************************)
(* Worker: bind_or_create_running_task_log and the build's lifecycle       *)
(***************************************************************************)

\* Seeded fault: no short-circuit on a terminal row.
BindReadBlind(w) ==
  /\ pc[w] = "idle"
  /\ \E r \in Rows :
       /\ queue[r] > 0
       /\ queue' = [queue EXCEPT ![r] = @ - 1]
       /\ pc' = [pc EXCEPT ![w] = "read"]
       /\ row' = [row EXCEPT ![w] = r]
       /\ seen' = [seen EXCEPT ![w] = status[r]]
  /\ UNCHANGED <<rowVars, owed, revoked, duplicates, client, sweep, faults>>

\* A worker takes a message and reads its row; a terminal row makes the
\* message stale, and it is dropped.
BindRead(w) ==
  /\ pc[w] = "idle"
  /\ \E r \in Rows :
       /\ queue[r] > 0
       /\ queue' = [queue EXCEPT ![r] = @ - 1]
       /\ IF Terminal(r)
          THEN UNCHANGED workerVars
          ELSE /\ pc' = [pc EXCEPT ![w] = "read"]
               /\ row' = [row EXCEPT ![w] = r]
               /\ seen' = [seen EXCEPT ![w] = status[r]]
  /\ UNCHANGED <<rowVars, owed, revoked, duplicates, client, sweep, faults>>

\* Seeded fault: the UPDATE names the status whatever the bind had read.
BindCommitRewrites(w) ==
  LET r == row[w] IN
  /\ pc[w] = "read"
  /\ r \notin Locked
  /\ IF ~(ActiveRows \subseteq {r})
     THEN Leave(w) /\ UNCHANGED <<status, overdue>>
     ELSE /\ status' = [status EXCEPT ![r] = "running"]
          /\ overdue' = overdue \ {r}
          /\ pc' = [pc EXCEPT ![w] = "running"]
          /\ UNCHANGED <<row, seen>>
  /\ UNCHANGED <<mode, cancelReq, brokerVars, client, sweep, faults>>

\* The bind's UPDATE and commit.  A row read as running keeps its status
\* column; a row read as pending is written running, unless the unique
\* index on active dedupe keys refuses (the task fails, the row is left).
\* Other rows still pending are cancelled as superseded.
BindCommit(w) ==
  LET r      == row[w]
      others == Superseded(r)
  IN
  /\ pc[w] = "read"
  /\ ({r} \cup others) \cap Locked = {}
  /\ IF seen[w] = "pending" /\ ~(ActiveRows \subseteq {r})
     THEN Leave(w) /\ UNCHANGED <<status, overdue>>
     ELSE /\ status' = [s \in Rows |->
                          IF s = r /\ seen[w] = "pending" THEN "running"
                          ELSE IF s \in others THEN "cancelled"
                          ELSE status[s]]
          /\ overdue' = overdue \ ({r} \cup others)
          /\ pc' = [pc EXCEPT ![w] = "running"]
          /\ UNCHANGED <<row, seen>>
  /\ UNCHANGED <<mode, cancelReq, brokerVars, client, sweep, faults>>

\* A "skipped" outcome (source paused, no directories, empty range): the
\* task returns and leaves the row running.
Skip(w) ==
  /\ pc[w] = "running"
  /\ Leave(w)
  /\ UNCHANGED <<rowVars, brokerVars, client, sweep, faults>>

\* Seeded fault: the build starts without asking whether it was stopped.
PassCheckUnasked(w) ==
  /\ pc[w] = "running"
  /\ pc' = [pc EXCEPT ![w] = "waiting"]
  /\ UNCHANGED <<rowVars, row, seen, brokerVars, client, sweep, faults>>

\* The builder's first cancel check finds nothing.
PassCheck(w) ==
  /\ pc[w] = "running"
  /\ ~cancelReq[row[w]]
  /\ pc' = [pc EXCEPT ![w] = "waiting"]
  /\ UNCHANGED <<rowVars, row, seen, brokerVars, client, sweep, faults>>

\* pg_advisory_xact_lock on the source, held until the build's commit.
TakeLock(w) ==
  /\ pc[w] = "waiting"
  /\ \A v \in Workers : pc[v] # "building"
  /\ pc' = [pc EXCEPT ![w] = "building"]
  /\ UNCHANGED <<rowVars, row, seen, brokerVars, client, sweep, faults>>

\* Seeded fault: the row is finalised in a transaction of its own, before
\* the build's.
FinishReportsFirst(w) ==
  /\ pc[w] = "building"
  /\ IF status[row[w]] # "success"
     THEN Finalize(row[w], "success") /\ UNCHANGED workerVars
     ELSE Leave(w) /\ UNCHANGED <<status, overdue>>
  /\ UNCHANGED <<mode, cancelReq, brokerVars, client, sweep, faults>>

\* Build, finalisation and analysis hand-off commit together.  The row is
\* written success whatever it has become.
Finish(w) ==
  /\ pc[w] = "building"
  /\ Finalize(row[w], "success")
  /\ Leave(w)
  /\ UNCHANGED <<mode, cancelReq, brokerVars, client, sweep, faults>>

\* A cancel check (before the lock, or during the build) finds the stop
\* request: roll back, then write cancelled.
Cancelled(w) ==
  /\ pc[w] \in {"running", "building"}
  /\ cancelReq[row[w]]
  /\ Finalize(row[w], "cancelled")
  /\ Leave(w)
  /\ UNCHANGED <<mode, cancelReq, brokerVars, client, sweep, faults>>

\* Any other exception (the soft time limit too): roll back, write failed.
Fail(w) ==
  /\ pc[w] \in {"running", "waiting", "building"}
  /\ Finalize(row[w], "failed")
  /\ Leave(w)
  /\ UNCHANGED <<mode, cancelReq, brokerVars, client, sweep, faults>>

\* The process is lost: task_reject_on_worker_lost queues the message again.
LoseWorker(w) ==
  /\ pc[w] # "idle"
  /\ faults < MaxFaults
  /\ faults' = faults + 1
  /\ Leave(w)
  /\ queue' = [queue EXCEPT ![row[w]] = @ + 1]
  /\ UNCHANGED <<rowVars, owed, revoked, duplicates, client, sweep>>

\* A revocation terminates the process, or the hard time limit does, which
\* comes after the soft one: the message is acknowledged, the row left.
Kill(w) ==
  /\ pc[w] # "idle"
  /\ row[w] \in revoked \/ pc[w] \in {"waiting", "building"}
  /\ Leave(w)
  /\ UNCHANGED <<rowVars, brokerVars, client, sweep, faults>>

-----------------------------------------------------------------------------
(***************************************************************************)
(* Stop request and heartbeat                                              *)
(***************************************************************************)

\* stop_task_log_use_case reads an active row and revokes its message ...
StopRead(r) ==
  /\ client = NoRequest
  /\ Active(r)
  /\ client' = [op |-> "stop", target |-> r, saw |-> status[r]]
  /\ revoked' = revoked \cup {r}
  /\ UNCHANGED <<rowVars, owed, queue, duplicates, workerVars, sweep, faults>>

\* ... then commits the flag, and the status of a row it saw pending.
StopCommit ==
  /\ client.op = "stop"
  /\ client.target \notin Locked
  /\ cancelReq' = [cancelReq EXCEPT ![client.target] = TRUE]
  /\ IF client.saw = "pending"
     THEN Finalize(client.target, "cancelled")
     ELSE UNCHANGED <<status, overdue>>
  /\ client' = NoRequest
  /\ UNCHANGED <<mode, brokerVars, workerVars, sweep, faults>>

\* Time: a pending row stays unclaimed for PENDING_UNLEASED_TIMEOUT, or a
\* running row's lease and task time-out pass.
TimePasses(r) ==
  /\ Active(r)
  /\ r \notin overdue
  /\ overdue' = overdue \cup {r}
  /\ UNCHANGED <<status, mode, cancelReq, brokerVars, workerVars, client,
                 sweep, faults>>

\* Rows recover_timed_out_tasks and recover_unleased_pending_tasks select.
Sweepable == {r \in Rows : Active(r) /\ r \in overdue /\ ~cancelReq[r]}

\* Seeded fault: the sweep forgets the pending rows no worker picked up.
SweepReadRunningOnly ==
  /\ sweep = {}
  /\ sweep' = {r \in Sweepable : status[r] = "running"}
  /\ sweep' # {}
  /\ revoked' = revoked \cup sweep'
  /\ UNCHANGED <<rowVars, owed, queue, duplicates, workerVars, client, faults>>

\* The heartbeat selects them (locking the pending ones), revokes them ...
SweepRead ==
  /\ sweep = {}
  /\ Sweepable # {}
  /\ sweep' = Sweepable
  /\ revoked' = revoked \cup Sweepable
  /\ UNCHANGED <<rowVars, owed, queue, duplicates, workerVars, client, faults>>

\* ... and its commit writes them timed out, by primary key.
SweepCommit ==
  /\ sweep # {}
  /\ status' = [r \in Rows |-> IF r \in sweep THEN "timeout" ELSE status[r]]
  /\ overdue' = overdue \ sweep
  /\ sweep' = {}
  /\ UNCHANGED <<mode, cancelReq, brokerVars, workerVars, client, faults>>

\* Any exception in the heartbeat rolls the whole sweep back.
SweepRollback ==
  /\ sweep # {}
  /\ faults < MaxFaults
  /\ faults' = faults + 1
  /\ sweep' = {}
  /\ UNCHANGED <<rowVars, brokerVars, workerVars, client>>

-----------------------------------------------------------------------------

\* What a worker that took a message does next.
Work(w) ==
  \/ BindCommit(w) \/ Skip(w) \/ PassCheck(w) \/ TakeLock(w)
  \/ Finish(w) \/ Cancelled(w) \/ Fail(w) \/ Kill(w)

Next ==
  \/ \E m \in Modes : Dispatch(m)
  \/ DeferHot
  \/ SupersedeRead
  \/ SupersedeCommit
  \/ StopCommit
  \/ SweepRead
  \/ SweepCommit
  \/ SweepRollback
  \/ \E r \in Rows :
       \/ HandOver(r)
       \/ Discard(r)
       \/ StopRead(r)
       \/ TimePasses(r)
  \/ \E w \in Workers :
       \/ Redeliver(w)
       \/ BindRead(w)
       \/ BindCommit(w)
       \/ Skip(w)
       \/ PassCheck(w)
       \/ TakeLock(w)
       \/ Finish(w)
       \/ Cancelled(w)
       \/ Fail(w)
       \/ LoseWorker(w)
       \/ Kill(w)

\* Workers and requests run on, beat fires every minute and time passes.
\* Neither the broker nor a worker has to pick a message up.
Fairness ==
  /\ \A w \in Workers : WF_vars(Work(w))
  /\ WF_vars(SupersedeCommit \/ StopCommit)
  /\ WF_vars(SweepRead)
  /\ WF_vars(SweepCommit)
  /\ \A r \in Rows : WF_vars(TimePasses(r))

Spec == Init /\ [][Next]_vars
FairSpec == Spec /\ Fairness

-----------------------------------------------------------------------------
(***************************************************************************)
(* Properties                                                              *)
(***************************************************************************)

\* Every variable has its type.
TypeOK ==
  /\ status \in [Rows -> TaskStatus \cup {"absent"}]
  /\ mode \in [Rows -> Modes]
  /\ cancelReq \in [Rows -> BOOLEAN]
  /\ overdue \subseteq Rows
  /\ owed \subseteq Rows
  /\ queue \in [Rows -> Nat]
  /\ revoked \subseteq Rows
  /\ pc \in [Workers -> Stages]
  /\ row \in [Workers -> Rows]
  /\ seen \in [Workers -> ACTIVE]
  /\ client \in Requests
  /\ sweep \subseteq Rows
  /\ duplicates \in 0..MaxDuplicates
  /\ faults \in 0..MaxFaults

\* The worker is past its bind, and acts for its row.
AtWork(w) == pc[w] \in {"running", "waiting", "building"}

\* A row its worker may have lost: timed out by the heartbeat, cancelled on
\* the user's request, or (a HOT row) superseded by a FULL one.
TakenAway(r) ==
  \/ status[r] = "timeout"
  \/ status[r] = "cancelled" /\ (cancelReq[r] \/ mode[r] = "hot")

\* Nothing locks a row for the worker that acts for it.  Still, two workers
\* act for the source at once only if a message was delivered twice, or if
\* they act for two rows and one of these was taken away under its worker;
\* so no build, a FULL scan's above all, is joined by another by accident.
OverlapIsExplained ==
  \A v, w \in Workers :
    v # w /\ AtWork(v) /\ AtWork(w) =>
      \/ duplicates > 0
      \/ row[v] # row[w] /\ (TakenAway(row[v]) \/ TakenAway(row[w]))

\* A finalised row is active again only if a worker had read it pending
\* before it was finalised; a message that arrives later finds it closed.
ResurrectionNeedsStaleBind ==
  [][\A r \in Rows :
       Terminal(r) /\ Active(r)' =>
         \E w \in Workers :
           pc[w] = "read" /\ row[w] = r /\ seen[w] = "pending"]_vars

\* A FULL scan gives way to the user's stop, never to a HOT request; only
\* a worker re-binding another row of the source may cancel it.
FullYieldsOnlyToStop ==
  [][\A r \in Rows :
       mode[r] = "full" /\ Active(r) /\ status'[r] = "cancelled" =>
         \/ cancelReq'[r]
         \/ \E w \in Workers : /\ pc[w] = "read" /\ pc'[w] = "running"
                               /\ row[w] # r /\ seen[w] = "running"]_vars

\* A stop request is honoured: once it is committed and no worker on the
\* row has passed its check, the row's build is never committed.
StopIsHonoured ==
  \A r \in Rows :
    [](/\ cancelReq[r]
       /\ status[r] # "success"
       /\ \A w \in Workers : row[w] = r => pc[w] \notin {"waiting", "building"}
       => [](status[r] # "success"))

\* Every dispatched task ends, whatever the broker and the workers do,
\* except one that a stop request found running.
TasksSettle ==
  \A r \in Rows :
    Active(r) ~> (Terminal(r) \/ (status[r] = "running" /\ cancelReq[r]))

=============================================================================
