------------------------------- MODULE Webhook -------------------------------
(***************************************************************************)
(* The webhook of one subscriber: its configuration, the events that are   *)
(* enrolled for it (a finished analysis, a published daily summary, the    *)
(* test button), and send_webhook_task, which delivers them.               *)
(*                                                                         *)
(* An event has two task_log rows.  The producer enrols one, which the     *)
(* outbox command refers to.  The task computes another dedupe key, since  *)
(* its detail_json holds the payload, and so never finds that row: it      *)
(* inserts one of its own, whose queue_task_id is the command's event id.  *)
(* The enrolled row stays pending until the heartbeat times it out.        *)
(*                                                                         *)
(* The key is the text of the detail_json, in a column of bounded width;   *)
(* how long it gets for each kind of event is a constant of the model.     *)
(* What an outbox command promises is the subject of Outbox.               *)
(***************************************************************************)
EXTENDS Integers, FiniteSets

CONSTANTS
  Workers,            \* Celery worker processes
  Kinds,              \* event types, "test_event" among them
  Subjects,           \* what they are about: a session, a date's summary
  RuleLists,          \* lists of event types a request may ask for; the
                      \* empty one stands for a disabled hook as well
  KeyLength,          \* of each kind: characters of the task's dedupe key
  DEDUPE_KEY_WIDTH,   \* task_log.dedupe_key VARCHAR(n)
  MaxEvents,          \* bound on the events that are enrolled
  MaxRows,            \* bound on the rows the task inserts
  MaxRetries,         \* max_retries of the task
  MaxEdits,           \* bound on changes of the configuration
  MaxFaults           \* bound on messages delivered once more, workers lost
                      \* and commands written off, taken together

ASSUME BoundsAssumption ==
  /\ IsFiniteSet(Workers)
  /\ "test_event" \in Kinds /\ "none" \notin Kinds \cup Subjects
  /\ RuleLists \subseteq SUBSET Kinds
  /\ KeyLength \in [Kinds -> Nat]
  /\ DEDUPE_KEY_WIDTH \in Nat
  /\ MaxEvents \in Nat \ {0}
  /\ MaxRows \in Nat \ {0}
  /\ MaxRetries \in Nat
  /\ MaxEdits \in Nat
  /\ MaxFaults \in Nat

Events == 1..MaxEvents
Rows == 1..MaxRows
Tries == 0..MaxRetries
Messages == Events \X Tries

NoRow == 0
NoKind == "none"
NoSubject == "none"
NoMessage == <<1, 0>>
TERMINAL_TASK_STATUSES == {"success", "failed", "timeout"}
Stages ==
  {"idle", "fresh", "rebind", "bound", "posting", "delivered", "undelivered"}
\* The stages in which the transaction holds a delivery row of the hook.
Delivering == {"posting", "delivered", "undelivered"}

VARIABLES
  hook,        \* the webhook_config row
  logged,      \* a committed webhook_delivery_log row refers to the hook
  kind,        \* event type of each event, NoKind before it is enrolled
  subject,     \* what it is about
  enrolled,    \* status of the task_log row the producer enrolled for it
  owed,        \* events whose command the outbox still has to settle
  queue,       \* messages waiting for a worker: event and request.retries
  revoked,     \* events whose message a revoke(terminate=True) went out for
  event,       \* the event of each row the task inserted
  status,      \* its task_log.status, "absent" before the INSERT
  pc,          \* where each worker is in send_webhook_task
  message,     \* the message it works on
  row,         \* the row it is bound to
  attempts,    \* deliveries begun for each event
  edits,       \* changes of the configuration so far
  duplicates,  \* messages delivered once more so far
  faults       \* workers lost and commands written off so far

hookVars == <<hook, logged>>
eventVars == <<kind, subject, enrolled, owed>>
rowVars == <<event, status>>
workerVars == <<pc, message, row>>
boundVars == <<edits, duplicates, faults>>
vars == <<hookVars, eventVars, queue, revoked, rowVars, workerVars, attempts,
          boundVars>>

-----------------------------------------------------------------------------
(***************************************************************************)
(* Helpers                                                                 *)
(***************************************************************************)

NoHook == [exists |-> FALSE, wants |-> {}]

\* webhook_subscribes, of an enabled hook: a disabled one wants nothing.
Subscribes(k) == k \in hook.wants

NextEvent == {e \in Events : /\ kind[e] = NoKind
                             /\ \A f \in Events : f < e => kind[f] # NoKind}
NextRow == {r \in Rows : /\ status[r] = "absent"
                         /\ \A s \in Rows : s < r => status[s] # "absent"}

\* build_dedupe_key falls back to the text of the detail_json, payload and
\* all; an INSERT with a key wider than the column is refused.
KeyFits(k) == KeyLength[k] <= DEDUPE_KEY_WIDTH

\* The newest row with the message's queue_task_id.
RowsOf(e) == {r \in Rows : status[r] # "absent" /\ event[r] = e}
NewestRow(e) == {r \in RowsOf(e) : \A s \in RowsOf(e) : s <= r}

\* finalize_task_log: an UPDATE by primary key, whatever the row has become.
Finalize(r, final) == status' = [status EXCEPT ![r] = final]

\* The worker's task ends (what it knew of its message is forgotten).
Leave(w) ==
  /\ pc' = [pc EXCEPT ![w] = "idle"]
  /\ message' = [message EXCEPT ![w] = NoMessage]
  /\ row' = [row EXCEPT ![w] = NoRow]

-----------------------------------------------------------------------------
(***************************************************************************)
(* Configuration and subscriber                                            *)
(***************************************************************************)

\* No hook yet, or one configured earlier and subscribed to every event.
Init ==
  /\ hook \in {NoHook, [exists |-> TRUE, wants |-> Kinds]}
  /\ logged = FALSE
  /\ kind = [e \in Events |-> NoKind]
  /\ subject = [e \in Events |-> NoSubject]
  /\ enrolled = [e \in Events |-> "absent"]
  /\ owed = {}
  /\ queue = [m \in Messages |-> 0]
  /\ revoked = {}
  /\ event = [r \in Rows |-> 1]
  /\ status = [r \in Rows |-> "absent"]
  /\ pc = [w \in Workers |-> "idle"]
  /\ message = [w \in Workers |-> NoMessage]
  /\ row = [w \in Workers |-> NoRow]
  /\ attempts = [e \in Events |-> 0]
  /\ edits = 0
  /\ duplicates = 0
  /\ faults = 0

\* POST /webhooks: the URL is checked, the rules are normalised.
CreateWebhook ==
  /\ ~hook.exists
  /\ edits < MaxEdits
  /\ edits' = edits + 1
  /\ \E rules \in RuleLists :
       hook' = [exists |-> TRUE, wants |-> rules]
  /\ logged' = FALSE
  /\ UNCHANGED <<eventVars, queue, revoked, rowVars, workerVars,
                 attempts, duplicates, faults>>

\* PUT /webhooks/{id}.  The normaliser replaces rules that the request does
\* not name by the empty list: a change of anything else ends them all.
UpdateWebhook ==
  /\ hook.exists
  /\ edits < MaxEdits
  /\ edits' = edits + 1
  /\ \E rules \in RuleLists : hook' = [hook EXCEPT !.wants = rules]
  /\ UNCHANGED <<logged, eventVars, queue, revoked, rowVars, workerVars,
                 attempts, duplicates, faults>>

\* DELETE /webhooks/{id}: waits for a delivery that has referred to the row
\* in its transaction, and fails when one is logged (a foreign key).
DeleteWebhook ==
  /\ hook.exists
  /\ ~logged
  /\ \A w \in Workers : pc[w] \notin Delivering
  /\ edits < MaxEdits
  /\ edits' = edits + 1
  /\ hook' = NoHook
  /\ UNCHANGED <<logged, eventVars, queue, revoked, rowVars, workerVars,
                 attempts, duplicates, faults>>

-----------------------------------------------------------------------------
(***************************************************************************)
(* Producers                                                               *)
(***************************************************************************)

\* dispatch_webhook: a row of its own with no dedupe key, and the command.
DispatchWebhook(k) ==
  \E e \in NextEvent :
    /\ kind' = [kind EXCEPT ![e] = k]
    /\ enrolled' = [enrolled EXCEPT ![e] = "pending"]
    /\ owed' = owed \cup {e}
    /\ UNCHANGED subject

\* POST /webhooks/{id}/test: whatever the hook subscribes to.
TestWebhook ==
  /\ hook.exists
  /\ DispatchWebhook("test_event")
  /\ UNCHANGED <<hookVars, queue, revoked, rowVars, workerVars, attempts,
                 boundVars>>

\* The enrolled row's key holds the kind and the session_id, or the
\* summary_date and summary_id, and no payload.
Elder(k, about) ==
  {e \in Events : /\ kind[e] = k
                  /\ subject[e] = about
                  /\ enrolled[e] = "pending"}

\* Another event of the same key finds the row that is still pending.  It
\* adds no outbox row, since that one has its own: it is swallowed.
EnqueueCommand(k, about) ==
  \E e \in NextEvent :
    /\ kind' = [kind EXCEPT ![e] = k]
    /\ subject' = [subject EXCEPT ![e] = about]
    /\ \/ /\ Elder(k, about) = {}
          /\ enrolled' = [enrolled EXCEPT ![e] = "pending"]
          /\ owed' = owed \cup {e}
       \/ /\ Elder(k, about) # {}
          /\ enrolled' = [enrolled EXCEPT ![e] = "swallowed"]
          /\ UNCHANGED owed

\* A finished analysis enrols its event with its own commit.
EnrollSessionAnalyzed ==
  /\ "session_analyzed" \in Kinds
  /\ Subscribes("session_analyzed")
  /\ \E ss \in Subjects : EnqueueCommand("session_analyzed", ss)
  /\ UNCHANGED <<hookVars, queue, revoked, rowVars, workerVars, attempts,
                 boundVars>>

\* So does a published daily summary.
EnrollDailySummary ==
  /\ "daily_summary_generated" \in Kinds
  /\ Subscribes("daily_summary_generated")
  /\ \E date \in Subjects : EnqueueCommand("daily_summary_generated", date)
  /\ UNCHANGED <<hookVars, queue, revoked, rowVars, workerVars, attempts,
                 boundVars>>

\* Seeded fault: the command is marked as published and never sent.
HandOverNothing(e) ==
  /\ e \in owed
  /\ owed' = owed \ {e}
  /\ UNCHANGED <<hookVars, kind, subject, enrolled, queue, revoked, rowVars,
                 workerVars, attempts, boundVars>>

\* The outbox hands a command over, or writes it off.
HandOver(e) ==
  /\ e \in owed
  /\ owed' = owed \ {e}
  /\ queue' = [queue EXCEPT ![<<e, 0>>] = @ + 1]
  /\ UNCHANGED <<hookVars, kind, subject, enrolled, revoked, rowVars,
                 workerVars, attempts, boundVars>>

WriteOff(e) ==
  /\ e \in owed
  /\ duplicates + faults < MaxFaults
  /\ faults' = faults + 1
  /\ owed' = owed \ {e}
  /\ UNCHANGED <<hookVars, kind, subject, enrolled, queue, revoked, rowVars,
                 workerVars, attempts, edits, duplicates>>

\* The outbox sends a command twice, or the broker's visibility time-out
\* passes while a worker has the message.
Redeliver(e) ==
  /\ \/ queue[<<e, 0>>] > 0
     \/ \E w \in Workers : pc[w] # "idle" /\ message[w] = <<e, 0>>
  /\ duplicates + faults < MaxFaults
  /\ duplicates' = duplicates + 1
  /\ queue' = [queue EXCEPT ![<<e, 0>>] = @ + 1]
  /\ UNCHANGED <<hookVars, eventVars, revoked, rowVars, workerVars, attempts,
                 edits, faults>>

\* A worker drops a message whose task id is revoked.
Discard(m) ==
  /\ queue[m] > 0
  /\ m[1] \in revoked
  /\ queue' = [queue EXCEPT ![m] = @ - 1]
  /\ UNCHANGED <<hookVars, eventVars, revoked, rowVars, workerVars, attempts,
                 boundVars>>

-----------------------------------------------------------------------------
(***************************************************************************)
(* send_webhook_task                                                       *)
(***************************************************************************)

\* A worker that is free takes message m off the queue.
Take(w, m) ==
  /\ pc[w] = "idle"
  /\ queue[m] > 0
  /\ queue' = [queue EXCEPT ![m] = @ - 1]

\* The row of the message is final: a stale message, nothing is done.
Stale(w, m) ==
  /\ Take(w, m)
  /\ \E r \in NewestRow(m[1]) : status[r] \in TERMINAL_TASK_STATUSES
  /\ UNCHANGED <<hookVars, eventVars, revoked, rowVars, workerVars, attempts,
                 boundVars>>

\* Seeded fault: a final row is bound again.
BindReadBlind(w, m) ==
  /\ Take(w, m)
  /\ message' = [message EXCEPT ![w] = m]
  /\ \/ /\ NewestRow(m[1]) = {}
        /\ pc' = [pc EXCEPT ![w] = "fresh"]
        /\ UNCHANGED row
     \/ \E r \in NewestRow(m[1]) :
          /\ pc' = [pc EXCEPT ![w] = "rebind"]
          /\ row' = [row EXCEPT ![w] = r]
  /\ UNCHANGED <<hookVars, eventVars, revoked, rowVars, attempts, boundVars>>

\* The bind reads: no row of the message yet, or one that is running.
BindRead(w, m) ==
  /\ Take(w, m)
  /\ message' = [message EXCEPT ![w] = m]
  /\ \/ /\ NewestRow(m[1]) = {}
        /\ pc' = [pc EXCEPT ![w] = "fresh"]
        /\ UNCHANGED row
     \/ \E r \in NewestRow(m[1]) :
          /\ status[r] = "running"
          /\ pc' = [pc EXCEPT ![w] = "rebind"]
          /\ row' = [row EXCEPT ![w] = r]
  /\ UNCHANGED <<hookVars, eventVars, revoked, rowVars, attempts, boundVars>>

\* The key does not fit the column: the INSERT raises, and so does the task.
\* Celery acknowledges the message; no row tells of it.
KeyTooLong(w) ==
  /\ pc[w] = "fresh"
  /\ ~KeyFits(kind[message[w][1]])
  /\ Leave(w)
  /\ UNCHANGED <<hookVars, eventVars, queue, revoked, rowVars, attempts,
                 boundVars>>

\* ON CONFLICT DO NOTHING: another worker has bound the key since.
LoseTheKey(w) ==
  /\ pc[w] = "fresh"
  /\ KeyFits(kind[message[w][1]])
  /\ \E r \in RowsOf(message[w][1]) : status[r] = "running"
  /\ Leave(w)
  /\ UNCHANGED <<hookVars, eventVars, queue, revoked, rowVars, attempts,
                 boundVars>>

\* Seeded fault: the worker keeps no reference to the row it inserts.
InsertRowUnbound(w) ==
  LET e == message[w][1] IN
  /\ pc[w] = "fresh"
  /\ KeyFits(kind[e])
  /\ \A r \in RowsOf(e) : status[r] # "running"
  /\ \E r \in NextRow :
       /\ event' = [event EXCEPT ![r] = e]
       /\ status' = [status EXCEPT ![r] = "running"]
  /\ pc' = [pc EXCEPT ![w] = "bound"]
  /\ UNCHANGED <<hookVars, eventVars, queue, revoked, message, row, attempts,
                 boundVars>>

\* The INSERT commits a running row of the task's own.
InsertRow(w) ==
  LET e == message[w][1] IN
  /\ pc[w] = "fresh"
  /\ KeyFits(kind[e])
  /\ \A r \in RowsOf(e) : status[r] # "running"
  /\ \E r \in NextRow :
       /\ event' = [event EXCEPT ![r] = e]
       /\ status' = [status EXCEPT ![r] = "running"]
       /\ row' = [row EXCEPT ![w] = r]
  /\ pc' = [pc EXCEPT ![w] = "bound"]
  /\ UNCHANGED <<hookVars, eventVars, queue, revoked, message, attempts,
                 boundVars>>

\* A running row is bound again.  Its status was read as running and is not
\* written: a row that has ended since stays as it is, the work goes on.
Rebind(w) ==
  /\ pc[w] = "rebind"
  /\ pc' = [pc EXCEPT ![w] = "bound"]
  /\ UNCHANGED <<hookVars, eventVars, queue, revoked, rowVars, message, row,
                 attempts, boundVars>>

\* The hook is gone, disabled or not subscribed: the row ends as a success.
SkipDelivery(w) ==
  /\ pc[w] = "bound"
  /\ ~Subscribes(kind[message[w][1]])
  /\ Finalize(row[w], "success")
  /\ Leave(w)
  /\ UNCHANGED <<hookVars, eventVars, queue, revoked, event, attempts,
                 boundVars>>

\* _deliver_hook flushes the delivery row.
StartDelivery(w) ==
  LET e == message[w][1] IN
  /\ pc[w] = "bound"
  /\ Subscribes(kind[e])
  /\ attempts' = [attempts EXCEPT ![e] = @ + 1]
  /\ pc' = [pc EXCEPT ![w] = "posting"]
  /\ UNCHANGED <<hookVars, eventVars, queue, revoked, rowVars, message, row,
                 boundVars>>

\* validate_webhook_url resolves the address anew, and refuses it: the same
\* to the task as a subscriber that is down.
RefuseAddress(w) ==
  /\ pc[w] = "posting"
  /\ pc' = [pc EXCEPT ![w] = "undelivered"]
  /\ UNCHANGED <<hookVars, eventVars, queue, revoked, rowVars, message, row,
                 attempts, boundVars>>

\* The POST is sent: it is answered, or the subscriber is down, or late.
Post(w) ==
  /\ pc[w] = "posting"
  /\ \E outcome \in {"delivered", "undelivered"} :
       pc' = [pc EXCEPT ![w] = outcome]
  /\ UNCHANGED <<hookVars, eventVars, queue, revoked, rowVars, message, row,
                 attempts, boundVars>>

\* Delivery row and task_log row are committed.
Delivered(w) ==
  /\ pc[w] = "delivered"
  /\ logged' = TRUE
  /\ Finalize(row[w], "success")
  /\ Leave(w)
  /\ UNCHANGED <<hook, eventVars, queue, revoked, event, attempts,
                 boundVars>>

\* Seeded fault: the retry is raised before the failure is committed.
UndeliveredUnwritten(w) ==
  LET e == message[w][1]
      n == message[w][2]
  IN
  /\ pc[w] = "undelivered"
  /\ IF n < MaxRetries
     THEN queue' = [queue EXCEPT ![<<e, n + 1>>] = @ + 1]
     ELSE UNCHANGED queue
  /\ Leave(w)
  /\ UNCHANGED <<hookVars, eventVars, revoked, rowVars, attempts, boundVars>>

\* So they are after a failure, and then the task asks Celery for a retry:
\* the same message, delivered again after a while.
Undelivered(w) ==
  LET e == message[w][1]
      n == message[w][2]
  IN
  /\ pc[w] = "undelivered"
  /\ logged' = TRUE
  /\ Finalize(row[w], "failed")
  /\ IF n < MaxRetries
     THEN queue' = [queue EXCEPT ![<<e, n + 1>>] = @ + 1]
     ELSE UNCHANGED queue
  /\ Leave(w)
  /\ UNCHANGED <<hook, eventVars, revoked, event, attempts, boundVars>>

\* The process is lost: task_reject_on_worker_lost queues the message again.
LoseWorker(w) ==
  /\ pc[w] # "idle"
  /\ duplicates + faults < MaxFaults
  /\ faults' = faults + 1
  /\ queue' = [queue EXCEPT ![message[w]] = @ + 1]
  /\ Leave(w)
  /\ UNCHANGED <<hookVars, eventVars, revoked, rowVars, attempts, edits,
                 duplicates>>

\* A revocation terminates the process: the message is acknowledged.
Kill(w) ==
  /\ pc[w] # "idle"
  /\ message[w][1] \in revoked
  /\ Leave(w)
  /\ UNCHANGED <<hookVars, eventVars, queue, revoked, rowVars, attempts,
                 boundVars>>

-----------------------------------------------------------------------------
(***************************************************************************)
(* The heartbeat                                                           *)
(***************************************************************************)

\* The enrolled row was never bound: it is timed out.  Only the test's row
\* has a queue_task_id, whose message is revoked.
SweepEnrolled(e) ==
  /\ enrolled[e] = "pending"
  /\ enrolled' = [enrolled EXCEPT ![e] = "timeout"]
  /\ revoked' = IF kind[e] = "test_event" THEN revoked \cup {e} ELSE revoked
  /\ UNCHANGED <<hookVars, kind, subject, owed, queue, rowVars, workerVars,
                 attempts, boundVars>>

\* A running row whose lease has passed.  A POST takes ten seconds, so no
\* worker is at it any more.
SweepRunning(r) ==
  /\ status[r] = "running"
  /\ \A w \in Workers : row[w] # r
  /\ Finalize(r, "timeout")
  /\ revoked' = revoked \cup {event[r]}
  /\ UNCHANGED <<hookVars, eventVars, queue, event, workerVars, attempts,
                 boundVars>>

-----------------------------------------------------------------------------

\* What a worker does that is at a task, or to which a message comes.
Work(w) ==
  \/ \E m \in Messages : Stale(w, m) \/ BindRead(w, m)
  \/ KeyTooLong(w) \/ LoseTheKey(w) \/ InsertRow(w) \/ Rebind(w)
  \/ SkipDelivery(w) \/ StartDelivery(w) \/ RefuseAddress(w) \/ Post(w)
  \/ Delivered(w) \/ Undelivered(w) \/ Kill(w)

Next ==
  \/ CreateWebhook
  \/ UpdateWebhook
  \/ DeleteWebhook
  \/ TestWebhook
  \/ EnrollSessionAnalyzed
  \/ EnrollDailySummary
  \/ \E e \in Events :
       \/ HandOver(e)
       \/ WriteOff(e)
       \/ Redeliver(e)
       \/ SweepEnrolled(e)
  \/ \E m \in Messages : Discard(m)
  \/ \E w \in Workers :
       \/ \E m \in Messages : Stale(w, m) \/ BindRead(w, m)
       \/ KeyTooLong(w)
       \/ LoseTheKey(w)
       \/ InsertRow(w)
       \/ Rebind(w)
       \/ SkipDelivery(w)
       \/ StartDelivery(w)
       \/ RefuseAddress(w)
       \/ Post(w)
       \/ Delivered(w)
       \/ Undelivered(w)
       \/ LoseWorker(w)
       \/ Kill(w)
  \/ \E r \in Rows : SweepRunning(r)

\* The outbox settles what it owes (Outbox, EnrolledIsSettled); workers run
\* on and take the messages that wait.
Fairness ==
  /\ \A e \in Events : WF_vars(HandOver(e))
  /\ \A w \in Workers : WF_vars(Work(w))

Spec == Init /\ [][Next]_vars
FairSpec == Spec /\ Fairness

-----------------------------------------------------------------------------
(***************************************************************************)
(* Properties                                                              *)
(***************************************************************************)

\* Every variable has its type.
TypeOK ==
  /\ hook \in [exists : BOOLEAN, wants : SUBSET Kinds]
  /\ logged \in BOOLEAN
  /\ kind \in [Events -> Kinds \cup {NoKind}]
  /\ subject \in [Events -> Subjects \cup {NoSubject}]
  /\ enrolled \in
       [Events -> {"absent", "pending", "timeout", "swallowed"}]
  /\ owed \subseteq Events
  /\ queue \in [Messages -> Nat]
  /\ revoked \subseteq Events
  /\ event \in [Rows -> Events]
  /\ status \in [Rows -> {"absent", "running"} \cup TERMINAL_TASK_STATUSES]
  /\ pc \in [Workers -> Stages]
  /\ message \in [Workers -> Messages]
  /\ row \in [Workers -> Rows \cup {NoRow}]
  /\ \A w \in Workers : pc[w] \notin {"idle", "fresh"} => row[w] # NoRow
  /\ attempts \in [Events -> Nat]
  /\ edits \in 0..MaxEdits
  /\ duplicates \in 0..MaxFaults
  /\ faults \in 0..MaxFaults

\* At least once, and a bound on more: one delivery of an event, one for each
\* worker lost in it, and for each message delivered twice one of its own and
\* one of each retry, which may find the row that message inserted.
AttemptsArePaid ==
  \A e \in Events :
    attempts[e] <= 1 + faults + duplicates * (1 + MaxRetries)

\* The task's retries deliver nothing: the failure they follow has made the
\* row final, and their message is stale.  One that does POST found another
\* row of the event, which only a message delivered twice can have inserted.
RetriesNeedADuplicate ==
  \A w \in Workers :
    pc[w] \in Delivering /\ message[w][2] > 0 => duplicates > 0

\* An event whose key fits is delivered, or the code has a reason: the hook
\* does not want it, its command was written off or its worker lost, or the
\* heartbeat revoked it after five minutes without a row of its own.
FittingIsAttempted ==
  \A e \in Events :
    kind[e] # NoKind /\ KeyFits(kind[e]) ~>
      attempts[e] > 0 \/ ~Subscribes(kind[e]) \/ faults > 0 \/ e \in revoked

=============================================================================
