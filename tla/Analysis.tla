------------------------------ MODULE Analysis ------------------------------
(***************************************************************************)
(* The vision analysis of one sealed video session: the claim, the chunk   *)
(* loop with its durable checkpoints, the finalisation, and the recovery   *)
(* of lost workers (src/services/analysis, _analyzer_orchestration,        *)
(* maintenance/analysis_recovery).                                         *)
(*                                                                         *)
(* The task_log rows are those of the session's dedupe key.  The races of  *)
(* their bind and stop are the subject of TaskLog: here each is one step.  *)
(* A row's lease_owner is its message's id for good, so of the fence only  *)
(* the generation is told apart.  A command in the outbox counts as a      *)
(* message in the queue.                                                   *)
(***************************************************************************)
EXTENDS Integers, FiniteSets

CONSTANTS
  Workers,         \* vision worker processes
  LastChunk,       \* the session's files, one sub-chunk each: 1..LastChunk
  MaxRows,         \* bound on task_log rows
  MaxAttempts,     \* ANALYSIS_RECOVERY_MAX_ATTEMPTS
  MaxPromptEdits,  \* bound on edits of what the prompts are made of
  MaxFileChanges,  \* bound on changes of the session's files on disk
  MaxDuplicates,   \* bound on messages delivered once more
  MaxFaults        \* bound on lost workers, deadlocks and lost hand-overs

ASSUME BoundsAssumption ==
  /\ LastChunk \in Nat \ {0}
  /\ MaxRows \in Nat \ {0}
  /\ MaxAttempts \in Nat
  /\ MaxPromptEdits \in Nat
  /\ MaxFileChanges \in Nat
  /\ MaxDuplicates \in Nat
  /\ MaxFaults \in Nat

Rows == 1..MaxRows
Chunks == 1..LastChunk
Runs == 0..MaxFileChanges
Prompts == 0..MaxPromptEdits
Work == Runs \X Chunks

TERMINAL_TASK_STATUSES ==
  {"success", "skipped", "failed", "timeout", "cancelled"}
ACTIVE == {"pending", "running"}
SessionAnalysisStatus ==
  {"sealed", "analyzing", "partial", "failed", "success"}
\* "pending" is never committed: the step that inserts a checkpoint marks
\* it processing.
CheckpointState == {"absent", "processing", "error", "success"}
RESUMABLE_STATES == {"processing", "error"}

VARIABLES
  session,     \* video_session.analysis_status
  events,      \* the chunks whose events the session shows
  ckpt,        \* checkpoint state of each run (analysis_run_id) and chunk
  fingerprint, \* its input_fingerprint: the prompts it was created for
  prompts,     \* edits of the prompts' sources so far
  files,       \* changes of the files so far: the run id a plan gets now
  status,      \* task_log.status
  attempt,     \* task_log.recovery_attempt
  generation,  \* detail_json.generation, 0 when not stamped yet
  cancelReq,   \* task_log.cancel_requested
  overdue,     \* running rows whose lease and time-out have passed
  queue,       \* messages of each row that are under way
  revoked,     \* rows whose message a revoke(terminate=True) went out for
  pc,          \* where each worker is in run_session_analysis
  row,         \* its task_log
  run,         \* the run id of its plan
  prompt,      \* the prompts it builds
  gen,         \* the generation of its claim
  sawStop,     \* cancel_requested when it claimed
  next,        \* the chunk it is at; LastChunk + 1 after the loop
  sweep,       \* the row the heartbeat is about to recover, or NoRow
  handoff,     \* recovery attempt the heartbeat still has to dispatch, or 0
  resealing,   \* a trigger_analyze has read the session finished
  duplicates,  \* messages delivered once more so far
  faults       \* faults so far

sessionVars == <<session, events>>
ckptVars == <<ckpt, fingerprint>>
inputVars == <<prompts, files>>
rowVars == <<status, attempt, generation, cancelReq, overdue>>
brokerVars == <<queue, revoked, duplicates>>
localVars == <<row, run, prompt, gen, sawStop, next>>
beatVars == <<sweep, handoff>>
vars == <<sessionVars, ckptVars, inputVars, rowVars, brokerVars, pc,
          localVars, beatVars, resealing, faults>>

NoRow == 0
Stages == {"idle", "bound", "ready", "calling", "finalizing"}

-----------------------------------------------------------------------------
(***************************************************************************)
(* Helpers                                                                 *)
(***************************************************************************)

Active(r) == status[r] \in ACTIVE
Terminal(r) == status[r] \in TERMINAL_TASK_STATUSES
ActiveRows == {r \in Rows : Active(r)}
Inserted == {r \in Rows : status[r] # "absent"}
NextRow == {r \in Rows \ Inserted : \A s \in Rows : s < r => s \in Inserted}
Newest == {r \in Inserted : \A s \in Inserted : s <= r}

\* The worker's place in the checkpoints, and those of its run.
At(w) == <<run[w], next[w]>>
Done(f) == {c \in Chunks : ckpt[<<f, c>>] = "success"}
Processing(f) == {c \in Chunks : ckpt[<<f, c>>] = "processing"}

\* The failure handlers mark the newest open checkpoint of the run, whoever
\* works on it.
MarkOpen(f) ==
  LET open == Processing(f) IN
  IF open = {}
  THEN UNCHANGED ckpt
  ELSE \E c \in open :
         /\ \A d \in open : d <= c
         /\ ckpt' = [ckpt EXCEPT ![<<f, c>>] = "error"]

\* transition_session: a compare-and-set on the session's status.
Move(from, to) == session' = IF session = from THEN to ELSE session

\* finalize_task_log: an UPDATE by primary key, whatever the row has become.
Finalize(r, final) ==
  /\ status' = [status EXCEPT ![r] = final]
  /\ overdue' = overdue \ {r}

\* renew_task_lease: of a row that is still running.
RenewLease(r) == overdue' = overdue \ {r}

\* enforce_fencing in a session of its own, which reads the row afresh.
\* The orchestration's own session sees its row as it was at the claim,
\* and its calls of enforce_fencing never fail.
Fenced(w) == generation[row[w]] # gen[w]

\* The worker's task ends; what it knew is forgotten.
Leave(w) ==
  /\ pc' = [pc EXCEPT ![w] = "idle"]
  /\ row' = [row EXCEPT ![w] = 1]
  /\ run' = [run EXCEPT ![w] = 0]
  /\ prompt' = [prompt EXCEPT ![w] = 0]
  /\ gen' = [gen EXCEPT ![w] = 0]
  /\ sawStop' = [sawStop EXCEPT ![w] = FALSE]
  /\ next' = [next EXCEPT ![w] = 1]

\* dispatch_analyze_session with the dedupe key free: row and command.
InsertPending(n) ==
  \E r \in NextRow :
    /\ status' = [status EXCEPT ![r] = "pending"]
    /\ attempt' = [attempt EXCEPT ![r] = n]
    /\ queue' = [queue EXCEPT ![r] = @ + 1]
    /\ UNCHANGED <<generation, cancelReq, overdue, revoked, duplicates>>

-----------------------------------------------------------------------------
(***************************************************************************)
(* Dispatch and inputs                                                     *)
(***************************************************************************)

\* The transaction that seals the session dispatches its first analysis.
Init ==
  /\ session = "sealed"
  /\ events = {}
  /\ ckpt = [k \in Work |-> "absent"]
  /\ fingerprint = [k \in Work |-> 0]
  /\ prompts = 0
  /\ files = 0
  /\ status = [r \in Rows |-> IF r = 1 THEN "pending" ELSE "absent"]
  /\ attempt = [r \in Rows |-> 0]
  /\ generation = [r \in Rows |-> 0]
  /\ cancelReq = [r \in Rows |-> FALSE]
  /\ overdue = {}
  /\ queue = [r \in Rows |-> IF r = 1 THEN 1 ELSE 0]
  /\ revoked = {}
  /\ pc = [w \in Workers |-> "idle"]
  /\ row = [w \in Workers |-> 1]
  /\ run = [w \in Workers |-> 0]
  /\ prompt = [w \in Workers |-> 0]
  /\ gen = [w \in Workers |-> 0]
  /\ sawStop = [w \in Workers |-> FALSE]
  /\ next = [w \in Workers |-> 1]
  /\ sweep = NoRow
  /\ handoff = 0
  /\ resealing = FALSE
  /\ duplicates = 0
  /\ faults = 0

\* trigger_analyze reads a finished session ...  (NextRow: MaxRows bounds the
\* requests that may insert a row.)
ResealRead ==
  /\ ~resealing
  /\ NextRow # {}
  /\ session \in {"failed", "success"}
  /\ resealing' = TRUE
  /\ UNCHANGED <<sessionVars, ckptVars, inputVars, rowVars, brokerVars, pc,
                 localVars, beatVars, faults>>

\* ... and re-opens it in a commit of its own: an UPDATE by primary key,
\* whatever the session has become.
Reseal ==
  /\ resealing
  /\ session' = "sealed"
  /\ resealing' = FALSE
  /\ UNCHANGED <<events, ckptVars, inputVars, rowVars, brokerVars, pc,
                 localVars, beatVars, faults>>

\* A request that has not read "analyzing" dispatches; an active row would
\* be reused.  The session is sealed at first, so that one may have read it
\* then, and the dispatch looks at the rows only.
Dispatch ==
  /\ ActiveRows = {}
  /\ InsertPending(0)
  /\ UNCHANGED <<sessionVars, ckptVars, inputVars, pc, localVars, beatVars,
                 resealing, faults>>

\* retry_task: re-opens and dispatches in one transaction.  The request is
\* refused when the row's own stop request holds the transition up.
Retry(r) ==
  /\ status[r] \in {"failed", "timeout", "cancelled"}
  /\ ActiveRows = {}
  /\ IF session \in {"failed", "partial", "success"}
     THEN ~cancelReq[r] /\ session' = "sealed"
     ELSE UNCHANGED session
  /\ InsertPending(0)
  /\ UNCHANGED <<events, ckptVars, inputVars, pc, localVars, beatVars,
                 resealing, faults>>

\* Somebody edits the home profile, or a setting the prompts are made of.
EditPrompts ==
  /\ prompts < MaxPromptEdits
  /\ prompts' = prompts + 1
  /\ UNCHANGED <<sessionVars, ckptVars, files, rowVars, brokerVars, pc,
                 localVars, beatVars, resealing, faults>>

\* A file of the session changes on disk, or disappears.
ChangeFiles ==
  /\ files < MaxFileChanges
  /\ files' = files + 1
  /\ UNCHANGED <<sessionVars, ckptVars, prompts, rowVars, brokerVars, pc,
                 localVars, beatVars, resealing, faults>>

\* Stop request: a pending row is cancelled, a running one flagged.
Stop(r) ==
  /\ Active(r)
  /\ revoked' = revoked \cup {r}
  /\ cancelReq' = [cancelReq EXCEPT ![r] = TRUE]
  /\ IF status[r] = "pending"
     THEN Finalize(r, "cancelled")
     ELSE UNCHANGED <<status, overdue>>
  /\ UNCHANGED <<sessionVars, ckptVars, inputVars, attempt, generation, queue,
                 duplicates, pc, localVars, beatVars, resealing, faults>>

-----------------------------------------------------------------------------
(***************************************************************************)
(* Worker: delivery, bind and claim                                        *)
(***************************************************************************)

\* The plan, and with it the run id, is made before the row is bound.  A
\* terminal row makes the message stale.  Other pending rows of the key
\* are cancelled (mark_superseded_pending).
Bind(w) ==
  /\ pc[w] = "idle"
  /\ \E r \in Rows :
       /\ queue[r] > 0
       /\ queue' = [queue EXCEPT ![r] = @ - 1]
       /\ IF Terminal(r)
          THEN UNCHANGED <<status, overdue, pc, row, run>>
          ELSE /\ status' = [s \in Rows |->
                               IF s = r THEN "running"
                               ELSE IF status[s] = "pending" THEN "cancelled"
                               ELSE status[s]]
               /\ overdue' = overdue \ {r}
               /\ pc' = [pc EXCEPT ![w] = "bound"]
               /\ row' = [row EXCEPT ![w] = r]
               /\ run' = [run EXCEPT ![w] = files]
  /\ UNCHANGED <<sessionVars, ckptVars, inputVars, attempt, generation,
                 cancelReq, revoked, duplicates, prompt, gen, sawStop, next,
                 beatVars, resealing, faults>>

\* Claim a sealed or partial session, drop the checkpoints of other runs,
\* and stamp the row's generation (a generation of 0 counts as none).  The
\* code commits the claim and the stamp one after the other.
Claim(w) ==
  LET r == row[w]
      g == IF generation[r] > 0 THEN generation[r] ELSE attempt[r]
  IN
  /\ pc[w] = "bound"
  /\ session \in {"sealed", "partial"}
  /\ session' = "analyzing"
  /\ ckpt' = [k \in Work |-> IF k[1] = run[w] THEN ckpt[k] ELSE "absent"]
  /\ fingerprint' =
       [k \in Work |-> IF k[1] = run[w] THEN fingerprint[k] ELSE 0]
  /\ generation' = [generation EXCEPT ![r] = g]
  /\ gen' = [gen EXCEPT ![w] = g]
  /\ prompt' = [prompt EXCEPT ![w] = prompts]
  /\ sawStop' = [sawStop EXCEPT ![w] = cancelReq[r]]
  /\ pc' = [pc EXCEPT ![w] = "ready"]
  /\ UNCHANGED <<events, inputVars, status, attempt, cancelReq, overdue,
                 brokerVars, row, run, next, beatVars, resealing, faults>>

\* Any other state of the session: the newest row of the session, not the
\* worker's own, is written skipped.
ClaimRefused(w) ==
  /\ pc[w] = "bound"
  /\ session \notin {"sealed", "partial"}
  /\ \E r \in Newest : Finalize(r, "skipped")
  /\ Leave(w)
  /\ UNCHANGED <<sessionVars, ckptVars, inputVars, attempt, generation,
                 cancelReq, brokerVars, beatVars, resealing, faults>>

-----------------------------------------------------------------------------
(***************************************************************************)
(* Worker: the chunk loop                                                  *)
(***************************************************************************)

\* What the UPDATE of mark_checkpoint_processing needs.  A fingerprint that
\* changed was reset in memory only (the session does not autoflush), so
\* the UPDATE looks for a row the database does not have.
Takeable(w) ==
  \/ ckpt[At(w)] = "absent"
  \/ /\ ckpt[At(w)] \in RESUMABLE_STATES
     /\ fingerprint[At(w)] = prompt[w]

\* A chunk whose success is for the same input is not analysed again.
Reusable(w) ==
  ckpt[At(w)] = "success" /\ fingerprint[At(w)] = prompt[w]

\* The worker is at a chunk and no stop request is found.
AtChunk(w) ==
  pc[w] = "ready" /\ next[w] <= LastChunk /\ ~cancelReq[row[w]]

ReuseChunk(w) ==
  /\ AtChunk(w)
  /\ Reusable(w)
  /\ next' = [next EXCEPT ![w] = @ + 1]
  /\ UNCHANGED <<sessionVars, ckptVars, inputVars, rowVars, brokerVars, pc,
                 row, run, prompt, gen, sawStop, beatVars, resealing, faults>>

\* Create or take the checkpoint, renew the lease, commit; the model is
\* called after that, outside any transaction.
TakeChunk(w) ==
  /\ AtChunk(w)
  /\ Takeable(w)
  /\ ~Fenced(w)
  /\ ckpt' = [ckpt EXCEPT ![At(w)] = "processing"]
  /\ fingerprint' = [fingerprint EXCEPT ![At(w)] = prompt[w]]
  /\ RenewLease(row[w])
  /\ pc' = [pc EXCEPT ![w] = "calling"]
  /\ UNCHANGED <<sessionVars, inputVars, status, attempt, generation,
                 cancelReq, brokerVars, localVars, beatVars, resealing,
                 faults>>

\* Seeded fault: the error is swallowed and the loop goes on.
TakeLateGoesOn(w) ==
  /\ AtChunk(w)
  /\ ~Reusable(w)
  /\ Fenced(w) \/ ~Takeable(w)
  /\ next' = [next EXCEPT ![w] = @ + 1]
  /\ UNCHANGED <<sessionVars, ckptVars, inputVars, rowVars, brokerVars, pc,
                 row, run, prompt, gen, sawStop, beatVars, resealing, faults>>

\* LateWorkerFencingError: the task returns and leaves all as it is.
TakeLate(w) ==
  /\ AtChunk(w)
  /\ ~Reusable(w)
  /\ Fenced(w) \/ ~Takeable(w)
  /\ Leave(w)
  /\ UNCHANGED <<sessionVars, ckptVars, inputVars, rowVars, brokerVars,
                 beatVars, resealing, faults>>

\* The result is written if the checkpoint is still open (whoever opened
\* it), with the token usage and a fresh lease.
WriteChunk(w) ==
  /\ pc[w] = "calling"
  /\ ckpt[At(w)] \in RESUMABLE_STATES
  /\ ~Fenced(w)
  /\ ckpt' = [ckpt EXCEPT ![At(w)] = "success"]
  /\ RenewLease(row[w])
  /\ next' = [next EXCEPT ![w] = @ + 1]
  /\ pc' = [pc EXCEPT ![w] = "ready"]
  /\ UNCHANGED <<sessionVars, fingerprint, inputVars, status, attempt,
                 generation, cancelReq, brokerVars, row, run, prompt, gen,
                 sawStop, beatVars, resealing, faults>>

\* Another worker closed the checkpoint first: LateWorkerFencingError.  (A
\* checkpoint that a claim dropped meanwhile is an exception, and fails.)
WriteLate(w) ==
  /\ pc[w] = "calling"
  /\ \/ ckpt[At(w)] = "success"
     \/ ckpt[At(w)] # "absent" /\ Fenced(w)
  /\ Leave(w)
  /\ UNCHANGED <<sessionVars, ckptVars, inputVars, rowVars, brokerVars,
                 beatVars, resealing, faults>>

\* The check after the last chunk finds no stop request.
PassLastCheck(w) ==
  /\ pc[w] = "ready"
  /\ next[w] > LastChunk
  /\ ~cancelReq[row[w]]
  /\ pc' = [pc EXCEPT ![w] = "finalizing"]
  /\ UNCHANGED <<sessionVars, ckptVars, inputVars, rowVars, brokerVars,
                 localVars, beatVars, resealing, faults>>

\* A check finds the stop request: the session goes back to sealed.
CancelSession(w) ==
  /\ pc[w] = "ready"
  /\ cancelReq[row[w]]
  /\ Move("analyzing", "sealed")
  /\ Finalize(row[w], "cancelled")
  /\ Leave(w)
  /\ UNCHANGED <<events, ckptVars, inputVars, attempt, generation, cancelReq,
                 brokerVars, beatVars, resealing, faults>>

\* Seeded fault: mark_checkpoint_error without its filter on the state.
FailMarksAny(w) ==
  LET seen == {c \in Chunks : ckpt[<<run[w], c>>] # "absent"} IN
  /\ pc[w] \in {"ready", "calling", "finalizing"}
  /\ seen # {}
  /\ \E c \in seen :
       /\ \A d \in seen : d <= c
       /\ ckpt' = [ckpt EXCEPT ![<<run[w], c>>] = "error"]
  /\ IF sawStop[w] THEN UNCHANGED session ELSE Move("analyzing", "partial")
  /\ Finalize(row[w], "failed")
  /\ Leave(w)
  /\ UNCHANGED <<events, fingerprint, inputVars, attempt, generation,
                 cancelReq, brokerVars, beatVars, resealing, faults>>

\* Any exception but a deadlock, before the finalisation's own writes.  An
\* open checkpoint decides between partial and failed.
Fail(w) ==
  /\ pc[w] \in {"ready", "calling", "finalizing"}
  /\ MarkOpen(run[w])
  /\ IF sawStop[w]
     THEN UNCHANGED session
     ELSE Move("analyzing",
               IF Processing(run[w]) = {} THEN "failed" ELSE "partial")
  /\ Finalize(row[w], "failed")
  /\ Leave(w)
  /\ UNCHANGED <<events, fingerprint, inputVars, attempt, generation,
                 cancelReq, brokerVars, beatVars, resealing, faults>>

\* A database deadlock in the loop: the session goes back to sealed and the
\* message to the queue (self.retry), the row stays running.
Deadlock(w) ==
  /\ pc[w] \in {"ready", "calling"}
  /\ faults < MaxFaults
  /\ faults' = faults + 1
  /\ Move("analyzing", "sealed")
  /\ queue' = [queue EXCEPT ![row[w]] = @ + 1]
  /\ Leave(w)
  /\ UNCHANGED <<events, ckptVars, inputVars, rowVars, revoked, duplicates,
                 beatVars, resealing>>

-----------------------------------------------------------------------------
(***************************************************************************)
(* Worker: finalize_session_success                                        *)
(***************************************************************************)

\* The events of the run's successful checkpoints replace the session's,
\* and the session and the row become success, in one transaction.
FinalizeSuccess(w) ==
  /\ pc[w] = "finalizing"
  /\ session = "analyzing"
  /\ session' = "success"
  /\ events' = Done(run[w])
  /\ Finalize(row[w], "success")
  /\ Leave(w)
  /\ UNCHANGED <<ckptVars, inputVars, attempt, generation, cancelReq,
                 brokerVars, beatVars, resealing, faults>>

\* The session is no longer analyzing: return without commit.  A database
\* error inside the transaction ends the same way.
FinalizeLost(w) ==
  /\ pc[w] = "finalizing"
  /\ Leave(w)
  /\ UNCHANGED <<sessionVars, ckptVars, inputVars, rowVars, brokerVars,
                 beatVars, resealing, faults>>

\* An error after the session's compare-and-set (the webhooks' enrolment):
\* the failure handler commits what was done, marks an open checkpoint, and
\* the row says failed.  (Its own compare-and-set finds no analysis.)
FinalizeFails(w) ==
  /\ pc[w] = "finalizing"
  /\ session = "analyzing"
  /\ session' = "success"
  /\ events' = Done(run[w])
  /\ MarkOpen(run[w])
  /\ Finalize(row[w], "failed")
  /\ Leave(w)
  /\ UNCHANGED <<fingerprint, inputVars, attempt, generation, cancelReq,
                 brokerVars, beatVars, resealing, faults>>

-----------------------------------------------------------------------------
(***************************************************************************)
(* Broker faults and recovery                                              *)
(***************************************************************************)

\* The visibility time-out of an unacknowledged message passes.
Redeliver(w) ==
  /\ pc[w] # "idle"
  /\ duplicates < MaxDuplicates
  /\ duplicates' = duplicates + 1
  /\ queue' = [queue EXCEPT ![row[w]] = @ + 1]
  /\ UNCHANGED <<sessionVars, ckptVars, inputVars, rowVars, revoked, pc,
                 localVars, beatVars, resealing, faults>>

\* The process is lost: task_reject_on_worker_lost queues the message again.
LoseWorker(w) ==
  /\ pc[w] # "idle"
  /\ faults < MaxFaults
  /\ faults' = faults + 1
  /\ queue' = [queue EXCEPT ![row[w]] = @ + 1]
  /\ Leave(w)
  /\ UNCHANGED <<sessionVars, ckptVars, inputVars, rowVars, revoked,
                 duplicates, beatVars, resealing>>

\* A revocation or the hard time limit terminates the process: the message
\* is acknowledged, row and session are left.
Kill(w) ==
  /\ pc[w] # "idle"
  /\ row[w] \in revoked \/ pc[w] = "calling"
  /\ Leave(w)
  /\ UNCHANGED <<sessionVars, ckptVars, inputVars, rowVars, brokerVars,
                 beatVars, resealing, faults>>

\* A worker that knows of the revocation discards the message.
Discard(r) ==
  /\ r \in revoked
  /\ queue[r] > 0
  /\ queue' = [queue EXCEPT ![r] = @ - 1]
  /\ UNCHANGED <<sessionVars, ckptVars, inputVars, rowVars, revoked,
                 duplicates, pc, localVars, beatVars, resealing, faults>>

\* A running row's lease and task time-out pass.
TimePasses(r) ==
  /\ status[r] = "running"
  /\ r \notin overdue
  /\ overdue' = overdue \cup {r}
  /\ UNCHANGED <<sessionVars, ckptVars, inputVars, status, attempt,
                 generation, cancelReq, brokerVars, pc, localVars, beatVars,
                 resealing, faults>>

\* The heartbeat finds an overdue row and revokes its message ...
SweepRead ==
  /\ sweep = NoRow
  /\ handoff = 0
  /\ \E r \in overdue :
       /\ status[r] = "running"
       /\ ~cancelReq[r]
       /\ sweep' = r
       /\ revoked' = revoked \cup {r}
  /\ UNCHANGED <<sessionVars, ckptVars, inputVars, rowVars, queue, duplicates,
                 pc, localVars, handoff, resealing, faults>>

\* Seeded faults: the attempts are not counted against the budget ...
ResumeLostForEver ==
  /\ sweep # NoRow
  /\ IF status[sweep] # "running"
     THEN UNCHANGED <<session, status, overdue, attempt, handoff>>
     ELSE /\ Finalize(sweep, "timeout")
          /\ attempt' = [attempt EXCEPT ![sweep] = @ + 1]
          /\ Move("analyzing", "sealed")
          /\ handoff' = attempt[sweep] + 1
  /\ sweep' = NoRow
  /\ UNCHANGED <<events, ckptVars, inputVars, generation, cancelReq,
                 brokerVars, pc, localVars, resealing, faults>>

\* ... or the row is recovered and the session is not.
ResumeLostRowOnly ==
  /\ sweep # NoRow
  /\ IF status[sweep] # "running"
     THEN UNCHANGED <<status, overdue, attempt, handoff>>
     ELSE /\ Finalize(sweep, "timeout")
          /\ attempt' = [attempt EXCEPT ![sweep] = @ + 1]
          /\ handoff' = IF attempt[sweep] < MaxAttempts
                        THEN attempt[sweep] + 1 ELSE 0
  /\ sweep' = NoRow
  /\ UNCHANGED <<sessionVars, ckptVars, inputVars, generation, cancelReq,
                 brokerVars, pc, localVars, resealing, faults>>

\* ... resume_lost_analysis times it out if it is still running, seals the
\* session, and commits; within the budget a new analysis is still due.
ResumeLost ==
  /\ sweep # NoRow
  /\ IF status[sweep] # "running"
     THEN UNCHANGED <<session, status, overdue, attempt, handoff>>
     ELSE /\ Finalize(sweep, "timeout")
          /\ attempt' = [attempt EXCEPT ![sweep] = @ + 1]
          /\ Move("analyzing", "sealed")
          /\ handoff' = IF attempt[sweep] < MaxAttempts
                        THEN attempt[sweep] + 1 ELSE 0
  /\ sweep' = NoRow
  /\ UNCHANGED <<events, ckptVars, inputVars, generation, cancelReq,
                 brokerVars, pc, localVars, resealing, faults>>

\* The heartbeat's final commit brings the new row and its command; an
\* active row would be reused.
HandOff ==
  /\ handoff # 0
  /\ IF ActiveRows = {}
     THEN InsertPending(handoff)
     ELSE UNCHANGED <<rowVars, brokerVars>>
  /\ handoff' = 0
  /\ UNCHANGED <<sessionVars, ckptVars, inputVars, pc, localVars, sweep,
                 resealing, faults>>

\* The heartbeat fails before that commit.
LoseHandOff ==
  /\ handoff # 0
  /\ faults < MaxFaults
  /\ faults' = faults + 1
  /\ handoff' = 0
  /\ UNCHANGED <<sessionVars, ckptVars, inputVars, rowVars, brokerVars, pc,
                 localVars, sweep, resealing>>

-----------------------------------------------------------------------------

\* What a worker that took a message does next.
WorkerStep(w) ==
  \/ Claim(w) \/ ClaimRefused(w)
  \/ ReuseChunk(w) \/ TakeChunk(w) \/ TakeLate(w)
  \/ WriteChunk(w) \/ WriteLate(w)
  \/ PassLastCheck(w) \/ CancelSession(w) \/ Fail(w)
  \/ FinalizeSuccess(w) \/ FinalizeLost(w) \/ FinalizeFails(w)
  \/ Kill(w)

Next ==
  \/ ResealRead
  \/ Reseal
  \/ Dispatch
  \/ EditPrompts
  \/ ChangeFiles
  \/ SweepRead
  \/ ResumeLost
  \/ HandOff
  \/ LoseHandOff
  \/ \E r \in Rows : Retry(r) \/ Stop(r) \/ Discard(r) \/ TimePasses(r)
  \/ \E w \in Workers :
       \/ Bind(w)
       \/ Deadlock(w)
       \/ Redeliver(w)
       \/ LoseWorker(w)
       \/ WorkerStep(w)

\* Workers run on, beat fires every minute and time passes.  Nobody has to
\* dispatch, and neither the broker nor a worker to pick a message up.
Fairness ==
  /\ \A w \in Workers : WF_vars(WorkerStep(w))
  /\ WF_vars(SweepRead)
  /\ WF_vars(ResumeLost)
  /\ WF_vars(HandOff)
  /\ \A r \in Rows : WF_vars(TimePasses(r))

Spec == Init /\ [][Next]_vars
FairSpec == Spec /\ Fairness

-----------------------------------------------------------------------------
(***************************************************************************)
(* Properties                                                              *)
(***************************************************************************)

\* Every variable has its type.
TypeOK ==
  /\ session \in SessionAnalysisStatus
  /\ events \subseteq Chunks
  /\ ckpt \in [Work -> CheckpointState]
  /\ fingerprint \in [Work -> Prompts]
  /\ prompts \in Prompts
  /\ files \in Runs
  /\ status \in [Rows -> ACTIVE \cup TERMINAL_TASK_STATUSES \cup {"absent"}]
  /\ attempt \in [Rows -> 0..(MaxAttempts + 1)]
  /\ generation \in [Rows -> 0..(MaxAttempts + 1)]
  /\ cancelReq \in [Rows -> BOOLEAN]
  /\ overdue \subseteq Rows
  /\ queue \in [Rows -> Nat]
  /\ revoked \subseteq Rows
  /\ pc \in [Workers -> Stages]
  /\ row \in [Workers -> Rows]
  /\ run \in [Workers -> Runs]
  /\ prompt \in [Workers -> Prompts]
  /\ gen \in [Workers -> 0..(MaxAttempts + 1)]
  /\ sawStop \in [Workers -> BOOLEAN]
  /\ next \in [Workers -> 1..(LastChunk + 1)]
  /\ sweep \in Rows \cup {NoRow}
  /\ handoff \in 0..MaxAttempts
  /\ resealing \in BOOLEAN
  /\ duplicates \in 0..MaxDuplicates
  /\ faults \in 0..MaxFaults

\* Whatever was lost, repeated, late or recovered: a session that says
\* success shows the events of every one of its files, as long as the
\* files on disk have not changed under a second run.  (finalize_session_
\* success publishes what the checkpoints hold, not what its loop did.)
SuccessIsComplete == session = "success" /\ files = 0 => events = Chunks

\* A chunk that was analysed stays analysed and is not paid for again for
\* the same input, until a claim that planned with other files drops the
\* whole run (get_or_create_checkpoint, purge_stale_checkpoints).
PaidWorkIsKept ==
  [][\A k \in Work :
       ckpt[k] = "success" /\ ckpt'[k] # "success" =>
         \/ ckpt'[k] # "absent" /\ fingerprint'[k] # fingerprint[k]
         \/ \E w \in Workers :
              pc[w] = "bound" /\ pc'[w] = "ready" /\ run[w] # k[1]]_vars

\* An analysis whose row is running ends: the session succeeds, fails, or is
\* sealed for another attempt, unless somebody asked for a stop or a refused
\* message wrote a row skipped.  (WorkerStep, and the heartbeat where the
\* worker was lost.)
AnalysisSettles ==
  session = "analyzing" /\ (\E r \in Rows : status[r] = "running") ~>
    \/ session # "analyzing"
    \/ \E r \in Rows : cancelReq[r] \/ status[r] = "skipped"

=============================================================================
