--------------------------- MODULE WebhookProofs ----------------------------
(***************************************************************************)
(* Theorems about the delivery of webhooks, for every number of workers,   *)
(* events, rows, retries and faults.                                       *)
(***************************************************************************)
EXTENDS Webhook, FiniteSetTheorems, FunctionTheorems, TLAPS

LEMMA Bounds ==
  /\ Events \subseteq Nat
  /\ Rows \subseteq Nat
  /\ NoRow \notin Rows
  /\ 1 \in Events
  /\ 1 \in Rows
  /\ NoMessage \in Messages
  BY BoundsAssumption DEF Events, Rows, NoRow, NoMessage, Messages, Tries

-----------------------------------------------------------------------------
(***************************************************************************)
(* Type correctness                                                        *)
(***************************************************************************)

\* The queue after a message is put on it or taken off it.
LEMMA Enqueued ==
  ASSUME TypeOK, NEW m \in Messages
  PROVE  [queue EXCEPT ![m] = @ + 1] \in [Messages -> Nat]
  BY DEF TypeOK

LEMMA Taken ==
  ASSUME TypeOK, NEW m \in Messages, queue[m] > 0
  PROVE  [queue EXCEPT ![m] = @ - 1] \in [Messages -> Nat]
  BY DEF TypeOK

WorkersTyped ==
  /\ pc \in [Workers -> Stages]
  /\ message \in [Workers -> Messages]
  /\ row \in [Workers -> Rows \cup {NoRow}]
  /\ \A w \in Workers : pc[w] \notin {"idle", "fresh"} => row[w] # NoRow

LEMMA LeaveTyped ==
  ASSUME TypeOK, NEW w \in Workers, Leave(w)
  PROVE  WorkersTyped'
  BY Bounds DEF TypeOK, Leave, Stages, WorkersTyped

\* A worker that is bound goes on to another stage with its row.
LEMMA GotoTyped ==
  ASSUME TypeOK, NEW w \in Workers, NEW stage \in Stages,
         pc[w] \notin {"idle", "fresh"},
         pc' = [pc EXCEPT ![w] = stage], UNCHANGED <<message, row>>
  PROVE  WorkersTyped'
  BY DEF TypeOK, WorkersTyped

LEMMA FinalizeTyped ==
  ASSUME TypeOK, NEW r, NEW final \in TERMINAL_TASK_STATUSES,
         Finalize(r, final)
  PROVE  status' \in [Rows -> {"absent", "running"} \cup TERMINAL_TASK_STATUSES]
  BY DEF TypeOK, Finalize

LEMMA ConfigurationTyped ==
  ASSUME TypeOK, CreateWebhook \/ UpdateWebhook \/ DeleteWebhook
  PROVE  TypeOK'
<1>1. edits' \in 0..MaxEdits
  BY BoundsAssumption DEF TypeOK, CreateWebhook, UpdateWebhook, DeleteWebhook
<1>2. hook' \in [exists : BOOLEAN, wants : SUBSET Kinds]
  <2>1. CASE CreateWebhook
    BY <2>1, BoundsAssumption DEF CreateWebhook
  <2>2. CASE UpdateWebhook
    <3>1. PICK rules \in RuleLists : hook' = [hook EXCEPT !.wants = rules]
      BY <2>2 DEF UpdateWebhook
    <3>2. rules \in SUBSET Kinds
      BY BoundsAssumption
    <3> QED
      BY <3>1, <3>2 DEF TypeOK
  <2>3. CASE DeleteWebhook
    BY <2>3 DEF DeleteWebhook, NoHook
  <2> QED
    BY <2>1, <2>2, <2>3
<1> QED
  BY <1>1, <1>2
  DEF TypeOK, CreateWebhook, UpdateWebhook, DeleteWebhook, eventVars, rowVars,
      workerVars

LEMMA ProducersTyped ==
  ASSUME TypeOK, TestWebhook \/ EnrollSessionAnalyzed \/ EnrollDailySummary
  PROVE  TypeOK'
<1>1. PICK e \in Events, k \in Kinds, about \in Subjects \cup {NoSubject} :
        /\ kind' = [kind EXCEPT ![e] = k]
        /\ subject' = subject \/ subject' = [subject EXCEPT ![e] = about]
        /\ \/ /\ enrolled' = [enrolled EXCEPT ![e] = "pending"]
              /\ owed' = owed \cup {e}
           \/ /\ enrolled' = [enrolled EXCEPT ![e] = "swallowed"]
              /\ UNCHANGED owed
  <2>1. CASE TestWebhook
    BY <2>1, BoundsAssumption DEF TestWebhook, DispatchWebhook, NextEvent
  <2>2. CASE EnrollSessionAnalyzed
    BY <2>2 DEF EnrollSessionAnalyzed, EnqueueCommand, NextEvent
  <2>3. CASE EnrollDailySummary
    BY <2>3 DEF EnrollDailySummary, EnqueueCommand, NextEvent
  <2> QED
    BY <2>1, <2>2, <2>3
<1>2. UNCHANGED <<hookVars, queue, revoked, rowVars, workerVars, attempts,
                  boundVars>>
  BY DEF TestWebhook, EnrollSessionAnalyzed, EnrollDailySummary
<1> QED
  BY <1>1, <1>2 DEF TypeOK, hookVars, rowVars, workerVars, boundVars

LEMMA BrokerTyped ==
  ASSUME TypeOK, NEW e \in Events, HandOver(e) \/ WriteOff(e) \/ Redeliver(e)
  PROVE  TypeOK'
<1>1. <<e, 0>> \in Messages
  BY BoundsAssumption DEF Messages, Tries
<1>2. [queue EXCEPT ![<<e, 0>>] = @ + 1] \in [Messages -> Nat]
  BY <1>1, Enqueued
<1>3. /\ duplicates' \in 0..MaxFaults
      /\ faults' \in 0..MaxFaults
      /\ edits' = edits
  BY BoundsAssumption
  DEF TypeOK, HandOver, WriteOff, Redeliver, boundVars
<1> QED
  BY <1>2, <1>3
  DEF TypeOK, HandOver, WriteOff, Redeliver, hookVars, eventVars, rowVars,
      workerVars

LEMMA TakeTyped ==
  ASSUME TypeOK, NEW m \in Messages,
         Discard(m) \/ \E w \in Workers : Stale(w, m) \/ BindRead(w, m)
  PROVE  TypeOK'
<1>1. queue' \in [Messages -> Nat]
  BY Taken DEF Discard, Stale, BindRead, Take
<1>2. CASE Discard(m) \/ \E w \in Workers : Stale(w, m)
  BY <1>1, <1>2
  DEF TypeOK, Discard, Stale, hookVars, eventVars, rowVars, workerVars,
      boundVars
<1>3. ASSUME NEW w \in Workers, BindRead(w, m)
      PROVE  TypeOK'
  <2>1. WorkersTyped'
    BY <1>3, Bounds
    DEF TypeOK, BindRead, WorkersTyped, Stages, NewestRow, RowsOf
  <2> QED
    BY <1>1, <1>3, <2>1
    DEF TypeOK, BindRead, WorkersTyped, hookVars, eventVars, rowVars,
        boundVars
<1> QED
  BY <1>2, <1>3

LEMMA BindTyped ==
  ASSUME TypeOK, NEW w \in Workers,
         KeyTooLong(w) \/ LoseTheKey(w) \/ InsertRow(w) \/ Rebind(w)
  PROVE  TypeOK'
<1> USE DEF TypeOK, hookVars, eventVars, rowVars, boundVars
<1>1. CASE KeyTooLong(w)
  BY <1>1, LeaveTyped DEF KeyTooLong, WorkersTyped
<1>2. CASE LoseTheKey(w)
  BY <1>2, LeaveTyped DEF LoseTheKey, WorkersTyped
<1>3. CASE InsertRow(w)
  <2>1. message[w][1] \in Events
    BY DEF Messages
  <2>2. PICK r \in Rows :
          /\ event' = [event EXCEPT ![r] = message[w][1]]
          /\ status' = [status EXCEPT ![r] = "running"]
          /\ row' = [row EXCEPT ![w] = r]
    BY <1>3 DEF InsertRow, NextRow
  <2>3. WorkersTyped'
    BY <1>3, <2>2, Bounds DEF InsertRow, WorkersTyped, Stages
  <2> QED
    BY <1>3, <2>1, <2>2, <2>3 DEF InsertRow, WorkersTyped
<1>4. CASE Rebind(w)
  BY <1>4, GotoTyped DEF Rebind, WorkersTyped, Stages
<1> QED
  BY <1>1, <1>2, <1>3, <1>4

LEMMA DeliveryTyped ==
  ASSUME TypeOK, NEW w \in Workers,
         SkipDelivery(w) \/ StartDelivery(w) \/ RefuseAddress(w) \/ Post(w)
           \/ Delivered(w)
  PROVE  TypeOK'
<1> USE DEF TypeOK, hookVars, eventVars, rowVars, boundVars
<1>1. CASE SkipDelivery(w)
  BY <1>1, LeaveTyped, FinalizeTyped
  DEF SkipDelivery, WorkersTyped, TERMINAL_TASK_STATUSES
<1>2. CASE StartDelivery(w)
  <2>1. WorkersTyped'
    BY <1>2, GotoTyped DEF StartDelivery, Stages
  <2>2. attempts' \in [Events -> Nat]
    BY <1>2 DEF StartDelivery, Messages
  <2> QED
    BY <1>2, <2>1, <2>2 DEF StartDelivery, WorkersTyped
<1>3. CASE RefuseAddress(w)
  BY <1>3, GotoTyped DEF RefuseAddress, WorkersTyped, Stages
<1>4. CASE Post(w)
  BY <1>4, GotoTyped DEF Post, WorkersTyped, Stages
<1>5. CASE Delivered(w)
  BY <1>5, LeaveTyped, FinalizeTyped
  DEF Delivered, WorkersTyped, TERMINAL_TASK_STATUSES
<1> QED
  BY <1>1, <1>2, <1>3, <1>4, <1>5

LEMMA EndTyped ==
  ASSUME TypeOK, NEW w \in Workers,
         Undelivered(w) \/ LoseWorker(w) \/ Kill(w)
  PROVE  TypeOK'
<1> USE DEF TypeOK, hookVars, eventVars, rowVars, boundVars
<1>1. CASE Undelivered(w)
  <2>1. message[w][2] < MaxRetries =>
          <<message[w][1], message[w][2] + 1>> \in Messages
    BY BoundsAssumption DEF Messages, Tries
  <2>2. queue' \in [Messages -> Nat]
    BY <1>1, <2>1, Enqueued DEF Undelivered
  <2> QED
    BY <1>1, <2>2, LeaveTyped, FinalizeTyped
    DEF Undelivered, WorkersTyped, TERMINAL_TASK_STATUSES
<1>2. CASE LoseWorker(w)
  <2>1. queue' \in [Messages -> Nat] /\ faults' \in 0..MaxFaults
    BY <1>2, Enqueued, BoundsAssumption DEF LoseWorker
  <2> QED
    BY <1>2, <2>1, LeaveTyped DEF LoseWorker, WorkersTyped
<1>3. CASE Kill(w)
  BY <1>3, LeaveTyped DEF Kill, WorkersTyped
<1> QED
  BY <1>1, <1>2, <1>3

LEMMA SweepTyped ==
  ASSUME TypeOK,
         (\E e \in Events : SweepEnrolled(e)) \/ \E r \in Rows : SweepRunning(r)
  PROVE  TypeOK'
<1>1. ASSUME NEW e \in Events, SweepEnrolled(e)
      PROVE  TypeOK'
  BY <1>1
  DEF TypeOK, SweepEnrolled, hookVars, rowVars, workerVars, boundVars
<1>2. ASSUME NEW r \in Rows, SweepRunning(r)
      PROVE  TypeOK'
  BY <1>2, FinalizeTyped
  DEF TypeOK, SweepRunning, hookVars, eventVars, workerVars, boundVars,
      TERMINAL_TASK_STATUSES
<1> QED
  BY <1>1, <1>2

LEMMA StepTyped == TypeOK /\ [Next]_vars => TypeOK'
<1> SUFFICES ASSUME TypeOK, [Next]_vars
             PROVE  TypeOK'
  OBVIOUS
<1>1. CASE UNCHANGED vars
  BY <1>1
  DEF TypeOK, vars, hookVars, eventVars, rowVars, workerVars, boundVars
<1>2. CASE Next
  BY <1>2, ConfigurationTyped, ProducersTyped, BrokerTyped, TakeTyped,
     BindTyped, DeliveryTyped, EndTyped, SweepTyped
  DEF Next
<1> QED
  BY <1>1, <1>2

LEMMA InitTyped == Init => TypeOK
<1> SUFFICES ASSUME Init
             PROVE  TypeOK
  OBVIOUS
<1>1. hook \in [exists : BOOLEAN, wants : SUBSET Kinds]
  <2>1. CASE hook = NoHook
    BY <2>1 DEF NoHook
  <2>2. CASE hook = [exists |-> TRUE, wants |-> Kinds]
    BY <2>2
  <2> QED
    BY <2>1, <2>2 DEF Init
<1>2. /\ WorkersTyped
      /\ queue \in [Messages -> Nat]
      /\ event \in [Rows -> Events]
      /\ attempts \in [Events -> Nat]
  BY Bounds DEF Init, WorkersTyped, Stages
<1>3. /\ edits \in 0..MaxEdits
      /\ duplicates \in 0..MaxFaults
      /\ faults \in 0..MaxFaults
  BY BoundsAssumption DEF Init
<1> QED
  BY <1>1, <1>2, <1>3 DEF Init, TypeOK, WorkersTyped

\* TypeOK holds in every reachable state.
THEOREM TypeCorrect == Spec => []TypeOK
  BY InitTyped, StepTyped, PTL DEF Spec

-----------------------------------------------------------------------------
(***************************************************************************)
(* Retries deliver nothing, unless a message was delivered twice.  As long *)
(* as none was, an event has one message in the system at a time, hence    *)
(* one row, and that row is final before a retry is asked for.             *)
(***************************************************************************)

\* A message of event e waits for a worker, or worker w is at one.
Waiting(e) == \E n \in Tries : queue[<<e, n>>] > 0
At(w, e) == pc[w] # "idle" /\ message[w][1] = e

\* At most one message of each event waits.
OneWaits ==
  /\ \A e \in Events, n \in Tries : queue[<<e, n>>] <= 1
  /\ \A e \in Events, n, k \in Tries :
       queue[<<e, n>>] > 0 /\ queue[<<e, k>>] > 0 => n = k

OneMessage ==
  /\ \A e \in Events : kind[e] = NoKind \/ e \in owed => ~Waiting(e)
  /\ \A e \in Events, w \in Workers :
       kind[e] = NoKind \/ e \in owed \/ Waiting(e) => ~At(w, e)
  /\ \A e \in Events : kind[e] = NoKind => e \notin owed
  /\ OneWaits
  /\ \A e \in Events, v, w \in Workers : At(v, e) /\ At(w, e) => v = w

OneRow ==
  \A r, s \in Rows :
    status[r] # "absent" /\ status[s] # "absent" /\ event[r] = event[s]
      => r = s

\* A worker has the row of its event, or there is none yet.
RowsAreOwn ==
  \A w \in Workers :
    /\ pc[w] = "fresh" => RowsOf(message[w][1]) = {}
    /\ pc[w] \notin {"idle", "fresh"} =>
         status[row[w]] # "absent" /\ event[row[w]] = message[w][1]

\* The event of a retry has a final row, so that no worker starts on it.
RetriesAreStale ==
  /\ \A e \in Events, n \in Tries :
       queue[<<e, n>>] > 0 /\ n > 0 =>
         \E r \in Rows : status[r] \in TERMINAL_TASK_STATUSES /\ event[r] = e
  /\ \A w \in Workers : pc[w] # "idle" => message[w][2] = 0

RetryInv ==
  duplicates = 0 => OneMessage /\ OneRow /\ RowsAreOwn /\ RetriesAreStale

\* A worker past its binding has a row, which is of its event.
Bound ==
  \A w \in Workers :
    pc[w] \notin {"idle", "fresh"} =>
      status[row[w]] # "absent" /\ event[row[w]] = message[w][1]

\* What a step does to the rows: nothing, it ends one, or it inserts one.
Ends(r) ==
  /\ \E final \in TERMINAL_TASK_STATUSES : Finalize(r, final)
  /\ status[r] # "absent"
  /\ UNCHANGED event

LEMMA RowSteps ==
  ASSUME TypeOK, Bound, [Next]_vars
  PROVE  \/ UNCHANGED rowVars
         \/ \E r \in Rows : Ends(r)
         \/ \E w \in Workers : InsertRow(w)
<1>1. ASSUME NEW w \in Workers,
             SkipDelivery(w) \/ Delivered(w) \/ Undelivered(w)
      PROVE  row[w] \in Rows /\ Ends(row[w])
  BY <1>1
  DEF TypeOK, Bound, SkipDelivery, Delivered, Undelivered, Ends,
      TERMINAL_TASK_STATUSES
<1>2. ASSUME NEW r \in Rows, SweepRunning(r)
      PROVE  Ends(r)
  BY <1>2 DEF SweepRunning, Ends, TERMINAL_TASK_STATUSES
<1>3. CASE UNCHANGED vars
  BY <1>3 DEF vars, rowVars
<1>4. CASE Next
  BY <1>1, <1>2, <1>4
  DEF Next, CreateWebhook, UpdateWebhook, DeleteWebhook, TestWebhook,
      EnrollSessionAnalyzed, EnrollDailySummary, HandOver, WriteOff,
      Redeliver, SweepEnrolled, Discard, Stale, BindRead, KeyTooLong,
      LoseTheKey, Rebind, StartDelivery, RefuseAddress, Post, LoseWorker,
      Kill, rowVars
<1> QED
  BY <1>3, <1>4

LEMMA OneRowKept ==
  ASSUME TypeOK, OneRow, RowsAreOwn, [Next]_vars
  PROVE  OneRow'
<1>1. CASE UNCHANGED rowVars
  BY <1>1 DEF OneRow, rowVars
<1>2. ASSUME NEW r \in Rows, Ends(r)
      PROVE  OneRow'
  BY <1>2 DEF TypeOK, OneRow, Ends, Finalize
<1>3. ASSUME NEW w \in Workers, InsertRow(w)
      PROVE  OneRow'
  <2>1. RowsOf(message[w][1]) = {}
    BY <1>3 DEF InsertRow, RowsAreOwn
  <2>2. PICK r \in Rows :
          /\ event' = [event EXCEPT ![r] = message[w][1]]
          /\ status' = [status EXCEPT ![r] = "running"]
    BY <1>3 DEF InsertRow, NextRow
  <2> QED
    BY <2>1, <2>2 DEF TypeOK, OneRow, RowsOf
<1> QED
  BY <1>1, <1>2, <1>3, RowSteps DEF RowsAreOwn, Bound

\* What a step does to the messages, as long as none is delivered twice.
PutOn(e, n) == queue' = [queue EXCEPT ![<<e, n>>] = @ + 1]
TakeOff(e, n) ==
  queue[<<e, n>>] > 0 /\ queue' = [queue EXCEPT ![<<e, n>>] = @ - 1]
Produce(e) ==
  /\ kind[e] = NoKind
  /\ \E k \in Kinds : kind' = [kind EXCEPT ![e] = k]
  /\ owed' \in {owed, owed \cup {e}}
Busy(w) == pc[w] # "idle"

MessageStep ==
  \/ /\ UNCHANGED <<kind, owed, queue, message>>
     /\ \A w \in Workers : Busy(w) <=> Busy(w)'
  \/ /\ \E e \in Events : Produce(e)
     /\ UNCHANGED <<queue, pc, message>>
  \/ /\ \E e \in Events :
          /\ e \in owed
          /\ owed' = owed \ {e}
          /\ PutOn(e, 0) \/ UNCHANGED queue
     /\ UNCHANGED <<kind, pc, message>>
  \/ /\ \E e \in Events, n \in Tries :
          /\ TakeOff(e, n)
          /\ \/ UNCHANGED <<pc, message>>
             \/ \E w \in Workers :
                  /\ message' = [message EXCEPT ![w] = <<e, n>>]
                  /\ ~Busy(w)
                  /\ \A v \in Workers \ {w} : Busy(v) <=> Busy(v)'
     /\ UNCHANGED <<kind, owed>>
  \/ /\ \E w \in Workers :
          /\ Busy(w)
          /\ Leave(w)
          /\ \/ UNCHANGED queue
             \/ \E n \in Tries : PutOn(message[w][1], n)
     /\ UNCHANGED <<kind, owed>>

LEMMA MessageSteps ==
  ASSUME TypeOK, [Next]_vars, duplicates' = 0
  PROVE  MessageStep
<1>1. CASE \/ UNCHANGED vars
           \/ CreateWebhook \/ UpdateWebhook \/ DeleteWebhook
           \/ \E e \in Events : SweepEnrolled(e)
           \/ \E r \in Rows : SweepRunning(r)
  BY <1>1
  DEF vars, eventVars, workerVars, CreateWebhook, UpdateWebhook,
      DeleteWebhook, SweepEnrolled, SweepRunning, MessageStep, Busy
<1>2. CASE TestWebhook \/ EnrollSessionAnalyzed \/ EnrollDailySummary
  <2>1. \E e \in Events : Produce(e)
    BY <1>2, BoundsAssumption
    DEF TestWebhook, DispatchWebhook, EnrollSessionAnalyzed,
        EnrollDailySummary, EnqueueCommand, NextEvent, Produce
  <2> QED
    BY <1>2, <2>1
    DEF TestWebhook, EnrollSessionAnalyzed, EnrollDailySummary, workerVars,
        MessageStep
<1>3. ASSUME NEW e \in Events, HandOver(e) \/ WriteOff(e)
      PROVE  MessageStep
  BY <1>3 DEF HandOver, WriteOff, workerVars, MessageStep, PutOn
<1>4. ASSUME NEW e \in Events, Redeliver(e)
      PROVE  FALSE
  BY <1>4 DEF TypeOK, Redeliver
<1>5. ASSUME NEW m \in Messages,
             Discard(m) \/ \E w \in Workers : Stale(w, m) \/ BindRead(w, m)
      PROVE  MessageStep
  <2>1. PICK e \in Events, n \in Tries : m = <<e, n>>
    BY DEF Messages
  <2>2. TakeOff(e, n)
    BY <1>5, <2>1 DEF Discard, Stale, BindRead, Take, TakeOff
  <2>3. CASE Discard(m) \/ \E w \in Workers : Stale(w, m)
    BY <2>2, <2>3 DEF Discard, Stale, eventVars, workerVars, MessageStep
  <2>4. ASSUME NEW w \in Workers, BindRead(w, m)
        PROVE  MessageStep
    <3>1. /\ message' = [message EXCEPT ![w] = <<e, n>>]
          /\ ~Busy(w)
          /\ \A v \in Workers \ {w} : Busy(v) <=> Busy(v)'
          /\ UNCHANGED <<kind, owed>>
      BY <2>1, <2>4 DEF TypeOK, BindRead, Take, Busy, eventVars
    <3> QED
      BY <2>2, <3>1 DEF MessageStep
  <2> QED
    BY <1>5, <2>3, <2>4
<1>6. ASSUME NEW w \in Workers,
             \/ KeyTooLong(w) \/ LoseTheKey(w) \/ SkipDelivery(w)
             \/ Delivered(w) \/ Kill(w)
      PROVE  MessageStep
  BY <1>6
  DEF KeyTooLong, LoseTheKey, SkipDelivery, Delivered, Kill, eventVars, Busy,
      MessageStep
<1>7. ASSUME NEW w \in Workers, LoseWorker(w) \/ Undelivered(w)
      PROVE  MessageStep
  <2>1. PICK e \in Events, n \in Tries : message[w] = <<e, n>>
    BY DEF TypeOK, Messages
  <2>2. n + 1 \in Tries \/ ~(n < MaxRetries)
    BY BoundsAssumption DEF Tries
  <2>3. UNCHANGED queue \/ \E k \in Tries : PutOn(e, k)
    BY <1>7, <2>1, <2>2 DEF LoseWorker, Undelivered, PutOn
  <2> QED
    BY <1>7, <2>1, <2>3
    DEF LoseWorker, Undelivered, eventVars, Busy, MessageStep
<1>8. ASSUME NEW w \in Workers,
             \/ InsertRow(w) \/ Rebind(w) \/ StartDelivery(w)
             \/ RefuseAddress(w) \/ Post(w)
      PROVE  MessageStep
  <2>1. UNCHANGED <<kind, owed, queue, message>>
    BY <1>8
    DEF InsertRow, Rebind, StartDelivery, RefuseAddress, Post, eventVars
  <2>2. \A v \in Workers : Busy(v) <=> Busy(v)'
    BY <1>8
    DEF TypeOK, InsertRow, Rebind, StartDelivery, RefuseAddress, Post, Busy
  <2> QED
    BY <2>1, <2>2 DEF MessageStep
<1> QED
  BY <1>1, <1>2, <1>3, <1>4, <1>5, <1>6, <1>7, <1>8 DEF Next

\* Such a step at one message leaves the others as they are.
LEMMA PutOnOne ==
  ASSUME TypeOK, NEW e \in Events, NEW n \in Tries, PutOn(e, n)
  PROVE  \A f \in Events, k \in Tries :
           queue'[<<f, k>>] = IF f = e /\ k = n THEN queue[<<f, k>>] + 1
                              ELSE queue[<<f, k>>]
  BY DEF TypeOK, PutOn, Messages

LEMMA TakeOffOne ==
  ASSUME TypeOK, NEW e \in Events, NEW n \in Tries, TakeOff(e, n)
  PROVE  /\ queue[<<e, n>>] > 0
         /\ \A f \in Events, k \in Tries :
              queue'[<<f, k>>] = IF f = e /\ k = n THEN queue[<<f, k>>] - 1
                                 ELSE queue[<<f, k>>]
  BY DEF TypeOK, TakeOff, Messages

LEMMA CountsAreNaturals ==
  ASSUME TypeOK
  PROVE  /\ \A e \in Events, n \in Tries : queue[<<e, n>>] \in Nat
         /\ \A w \in Workers : message[w][1] \in Events
  BY DEF TypeOK, Messages

LEMMA TakenIsGone ==
  ASSUME TypeOK, OneWaits, NEW e \in Events, NEW n \in Tries, TakeOff(e, n)
  PROVE  /\ Waiting(e) /\ ~Waiting(e)'
         /\ \A f \in Events : Waiting(f)' => Waiting(f)
         /\ OneWaits'
<1>0. /\ queue[<<e, n>>] > 0
      /\ \A f \in Events, k \in Tries :
           queue'[<<f, k>>] = IF f = e /\ k = n THEN queue[<<f, k>>] - 1
                              ELSE queue[<<f, k>>]
  BY TakeOffOne
<1>1. ASSUME NEW f \in Events, NEW k \in Tries
      PROVE  /\ queue[<<f, k>>] \in Nat
             /\ queue[<<f, k>>] <= 1
             /\ queue'[<<f, k>>] = IF f = e /\ k = n THEN queue[<<f, k>>] - 1
                                   ELSE queue[<<f, k>>]
  BY <1>0, CountsAreNaturals DEF OneWaits
<1>2. queue[<<e, n>>] > 0
  BY <1>0
<1>3. ASSUME NEW k \in Tries
      PROVE  ~(queue'[<<e, k>>] > 0)
  <2>1. CASE k = n
    BY <1>1, <1>2, <2>1
  <2>2. CASE k # n
    BY <1>1, <1>2, <2>2 DEF OneWaits
  <2> QED
    BY <2>1, <2>2
<1>4. ASSUME NEW f \in Events, f # e, NEW k \in Tries
      PROVE  queue'[<<f, k>>] = queue[<<f, k>>]
  BY <1>1, <1>4
<1>5. OneWaits'
  <2>1. ASSUME NEW f \in Events, NEW k \in Tries, NEW l \in Tries
        PROVE  /\ queue'[<<f, k>>] <= 1
               /\ queue'[<<f, k>>] > 0 /\ queue'[<<f, l>>] > 0 => k = l
    <3>1. CASE f = e
      BY <1>1, <1>3, <3>1
    <3>2. CASE f # e
      BY <1>4, <3>2 DEF OneWaits
    <3> QED
      BY <3>1, <3>2
  <2> QED
    BY <2>1 DEF OneWaits
<1> QED
  BY <1>2, <1>3, <1>4, <1>5 DEF Waiting

LEMMA PutIsOne ==
  ASSUME TypeOK, OneWaits, NEW e \in Events, NEW n \in Tries, PutOn(e, n),
         ~Waiting(e)
  PROVE  /\ \A f \in Events : Waiting(f)' => Waiting(f) \/ f = e
         /\ OneWaits'
<1>1. ASSUME NEW f \in Events, NEW k \in Tries
      PROVE  /\ queue[<<f, k>>] \in Nat
             /\ queue[<<f, k>>] <= 1
             /\ queue'[<<f, k>>] = IF f = e /\ k = n THEN queue[<<f, k>>] + 1
                                   ELSE queue[<<f, k>>]
  BY CountsAreNaturals, PutOnOne DEF OneWaits
<1>2. ASSUME NEW k \in Tries
      PROVE  queue[<<e, k>>] = 0 /\ queue'[<<e, k>>] = IF k = n THEN 1 ELSE 0
  BY <1>1 DEF Waiting
<1>3. ASSUME NEW f \in Events, f # e, NEW k \in Tries
      PROVE  queue'[<<f, k>>] = queue[<<f, k>>]
  BY <1>1, <1>3
<1>4. ASSUME NEW f \in Events, NEW k \in Tries, NEW l \in Tries
      PROVE  /\ queue'[<<f, k>>] <= 1
             /\ queue'[<<f, k>>] > 0 /\ queue'[<<f, l>>] > 0 => k = l
  <2>1. CASE f = e
    BY <1>2, <2>1
  <2>2. CASE f # e
    BY <1>3, <2>2 DEF OneWaits
  <2> QED
    BY <2>1, <2>2
<1> QED
  BY <1>3, <1>4 DEF Waiting, OneWaits

LEMMA LeavesAlone ==
  ASSUME TypeOK, NEW w \in Workers, Leave(w)
  PROVE  \A e \in Events, v \in Workers : At(v, e)' <=> v # w /\ At(v, e)
  BY DEF TypeOK, Leave, At

LEMMA OneMessageKept ==
  ASSUME TypeOK, OneMessage, MessageStep
  PROVE  OneMessage'
<1> USE CountsAreNaturals DEF OneMessage
<1>0. 0 \in Tries /\ owed \subseteq Events
  BY BoundsAssumption DEF TypeOK, Tries
<1>1. CASE /\ UNCHANGED <<kind, owed, queue, message>>
           /\ \A w \in Workers : Busy(w) <=> Busy(w)'
  BY <1>1 DEF At, Busy, Waiting, OneWaits
<1>2. ASSUME NEW e \in Events, Produce(e), UNCHANGED <<queue, pc, message>>
      PROVE  OneMessage'
  <2>1. \A f \in Events : f # e => kind'[f] = kind[f]
    BY <1>2 DEF Produce, TypeOK
  <2>2. kind'[e] # NoKind
    BY <1>2, BoundsAssumption DEF Produce, TypeOK, NoKind
  <2> QED
    BY <1>2, <2>1, <2>2 DEF Produce, At, Waiting, OneWaits
<1>3. ASSUME NEW e \in Events, e \in owed, owed' = owed \ {e},
             PutOn(e, 0) \/ UNCHANGED queue, UNCHANGED <<kind, pc, message>>
      PROVE  OneMessage'
  <2>1. CASE UNCHANGED queue
    BY <1>3, <2>1 DEF At, Waiting, OneWaits
  <2>2. CASE PutOn(e, 0)
    BY <1>0, <1>3, <2>2, PutIsOne DEF At
  <2> QED
    BY <1>3, <2>1, <2>2
<1>4. ASSUME NEW e \in Events, NEW n \in Tries, TakeOff(e, n),
             UNCHANGED <<kind, owed, pc, message>>
      PROVE  OneMessage'
  BY <1>4, TakenIsGone DEF At
<1>5. ASSUME NEW e \in Events, NEW n \in Tries, TakeOff(e, n),
             UNCHANGED <<kind, owed>>, NEW w \in Workers, ~Busy(w),
             message' = [message EXCEPT ![w] = <<e, n>>],
             \A v \in Workers \ {w} : Busy(v) <=> Busy(v)'
      PROVE  OneMessage'
  <2>1. /\ Waiting(e) /\ ~Waiting(e)'
        /\ \A f \in Events : Waiting(f)' => Waiting(f)
        /\ OneWaits'
    BY <1>5, TakenIsGone
  <2>2. ASSUME NEW f \in Events, NEW v \in Workers, At(v, f)'
        PROVE  At(v, f) \/ (v = w /\ f = e)
    <3>1. CASE v = w
      BY <1>5, <2>2, <3>1 DEF At, TypeOK
    <3>2. CASE v # w
      BY <1>5, <2>2, <3>2 DEF At, Busy, TypeOK
    <3> QED
      BY <3>1, <3>2
  <2>3. /\ kind[e] # NoKind /\ e \notin owed
        /\ \A v \in Workers : ~At(v, e)
    BY <2>1
  <2>4. \A f \in Events, u, v \in Workers : At(u, f)' /\ At(v, f)' => u = v
    BY <2>2, <2>3
  <2> QED
    BY <1>5, <2>1, <2>2, <2>3, <2>4
<1>6. ASSUME NEW w \in Workers, Busy(w), Leave(w), UNCHANGED queue,
             UNCHANGED <<kind, owed>>
      PROVE  OneMessage'
  BY <1>6, LeavesAlone DEF Waiting, OneWaits
<1>7. ASSUME NEW w \in Workers, Busy(w), Leave(w), NEW n \in Tries,
             PutOn(message[w][1], n), UNCHANGED <<kind, owed>>
      PROVE  OneMessage'
  <2> DEFINE e == message[w][1]
  <2>1. At(w, e) /\ e \in Events
    BY <1>7 DEF At, Busy
  <2>2. /\ kind[e] # NoKind /\ e \notin owed /\ ~Waiting(e)
        /\ \A v \in Workers : At(v, e) => v = w
    BY <2>1
  <2>3. OneWaits' /\ \A f \in Events : Waiting(f)' => Waiting(f) \/ f = e
    BY <1>7, <2>1, <2>2, PutIsOne
  <2>4. \A f \in Events, v \in Workers : At(v, f)' => At(v, f) /\ v # w
    BY <1>7, LeavesAlone
  <2> QED
    BY <1>7, <2>2, <2>3, <2>4
<1> QED
  BY <1>1, <1>2, <1>3, <1>4, <1>5, <1>6, <1>7 DEF MessageStep

LEMMA NoNewestRow ==
  ASSUME TypeOK, OneRow, NEW e
  PROVE  NewestRow(e) = {} => RowsOf(e) = {}
  BY Bounds DEF OneRow, NewestRow, RowsOf

LEMMA RowsAreOwnKept ==
  ASSUME TypeOK, OneMessage, OneRow, RowsAreOwn, [Next]_vars, duplicates' = 0
  PROVE  RowsAreOwn'
<1> USE DEF RowsAreOwn
<1>1. ASSUME UNCHANGED <<rowVars, message, row>>,
             \A w \in Workers :
               /\ pc'[w] = "fresh" => pc[w] = "fresh"
               /\ pc'[w] \notin {"idle", "fresh"} =>
                    pc[w] \notin {"idle", "fresh"}
      PROVE  RowsAreOwn'
  BY <1>1 DEF rowVars, RowsOf
<1>2. ASSUME NEW r \in Rows, Ends(r)
      PROVE  /\ event' = event
             /\ \A s \in Rows : status'[s] = "absent" <=> status[s] = "absent"
  BY <1>2 DEF TypeOK, Ends, Finalize, TERMINAL_TASK_STATUSES
<1>3. ASSUME UNCHANGED event,
             \A s \in Rows : status'[s] = "absent" <=> status[s] = "absent",
             \/ UNCHANGED <<pc, message, row>>
             \/ \E w \in Workers : Leave(w)
      PROVE  RowsAreOwn'
  BY <1>3 DEF TypeOK, Leave, RowsOf
<1>4. ASSUME NEW w \in Workers, NEW m \in Messages, BindRead(w, m)
      PROVE  RowsAreOwn'
  <2>1. UNCHANGED rowVars
    BY <1>4 DEF BindRead
  <2>2. /\ message' = [message EXCEPT ![w] = m]
        /\ \/ RowsOf(m[1]) = {} /\ pc' = [pc EXCEPT ![w] = "fresh"]
              /\ UNCHANGED row
           \/ \E r \in RowsOf(m[1]) :
                /\ pc' = [pc EXCEPT ![w] = "rebind"]
                /\ row' = [row EXCEPT ![w] = r]
    BY <1>4, NoNewestRow DEF BindRead, NewestRow
  <2> QED
    BY <2>1, <2>2 DEF TypeOK, rowVars, RowsOf
<1>5. ASSUME NEW w \in Workers, InsertRow(w)
      PROVE  RowsAreOwn'
  <2>1. PICK r \in Rows :
          /\ status[r] = "absent"
          /\ event' = [event EXCEPT ![r] = message[w][1]]
          /\ status' = [status EXCEPT ![r] = "running"]
          /\ row' = [row EXCEPT ![w] = r]
          /\ pc' = [pc EXCEPT ![w] = "bound"]
          /\ UNCHANGED message
    BY <1>5 DEF InsertRow, NextRow
  <2>2. \A v \in Workers :
          v # w /\ pc[v] # "idle" => message[v][1] # message[w][1]
    BY <1>5, CountsAreNaturals DEF InsertRow, OneMessage, At
  <2> QED
    BY <1>5, <2>1, <2>2 DEF TypeOK, InsertRow, RowsOf
<1>6. CASE \E w \in Workers, m \in Messages : BindRead(w, m)
  BY <1>4, <1>6
<1>7. CASE \E w \in Workers : InsertRow(w)
  BY <1>5, <1>7
<1>8. ASSUME NEW w \in Workers,
             Rebind(w) \/ StartDelivery(w) \/ RefuseAddress(w) \/ Post(w)
      PROVE  RowsAreOwn'
  <2>1. /\ UNCHANGED <<rowVars, message, row>>
        /\ \E stage \in Stages \ {"idle", "fresh"} :
             pc' = [pc EXCEPT ![w] = stage]
        /\ pc[w] \notin {"idle", "fresh"}
    BY <1>8 DEF Rebind, StartDelivery, RefuseAddress, Post, Stages, rowVars
  <2> QED
    BY <1>1, <2>1 DEF TypeOK
<1>9. ASSUME NEW w \in Workers,
             \/ SkipDelivery(w) \/ Delivered(w) \/ Undelivered(w)
             \/ KeyTooLong(w) \/ LoseTheKey(w) \/ LoseWorker(w) \/ Kill(w)
      PROVE  RowsAreOwn'
  <2>1. Leave(w) /\ ~InsertRow(w)
    BY <1>9
    DEF SkipDelivery, Delivered, Undelivered, KeyTooLong, LoseTheKey,
        LoseWorker, Kill, InsertRow, Leave, TypeOK
  <2>2. UNCHANGED rowVars \/ \E r \in Rows : Ends(r)
    BY <1>9
    DEF TypeOK, SkipDelivery, Delivered, Undelivered, KeyTooLong, LoseTheKey,
        LoseWorker, Kill, Ends, TERMINAL_TASK_STATUSES, rowVars
  <2> QED
    BY <1>2, <1>3, <2>1, <2>2 DEF rowVars
<1>10. ASSUME NEW r \in Rows, SweepRunning(r)
       PROVE  RowsAreOwn'
  <2>1. Ends(r) /\ UNCHANGED <<pc, message, row>>
    BY <1>10 DEF SweepRunning, Ends, TERMINAL_TASK_STATUSES, workerVars
  <2> QED
    BY <1>2, <1>3, <2>1
<1>11. CASE \/ UNCHANGED vars
            \/ CreateWebhook \/ UpdateWebhook \/ DeleteWebhook
            \/ TestWebhook \/ EnrollSessionAnalyzed \/ EnrollDailySummary
            \/ \E e \in Events : \/ HandOver(e) \/ WriteOff(e)
                                \/ Redeliver(e) \/ SweepEnrolled(e)
            \/ \E m \in Messages : Discard(m)
            \/ \E w \in Workers, m \in Messages : Stale(w, m)
  <2>1. UNCHANGED <<rowVars, workerVars>>
    BY <1>11
    DEF vars, CreateWebhook, UpdateWebhook, DeleteWebhook, TestWebhook,
        EnrollSessionAnalyzed, EnrollDailySummary, HandOver, WriteOff,
        Redeliver, SweepEnrolled, Discard, Stale
  <2> QED
    BY <1>1, <2>1 DEF workerVars
<1> QED
  BY <1>6, <1>7, <1>8, <1>9, <1>10, <1>11 DEF Next

LEMMA RetriesAreStaleKept ==
  ASSUME TypeOK, OneRow, RowsAreOwn, RetriesAreStale, [Next]_vars,
         duplicates' = 0
  PROVE  RetriesAreStale'
<1> DEFINE Final(e) ==
      \E r \in Rows : status[r] \in TERMINAL_TASK_STATUSES /\ event[r] = e
<1>1. \A e \in Events : Final(e) => Final(e)'
  <2>1. ASSUME NEW r \in Rows, status[r] \in TERMINAL_TASK_STATUSES
        PROVE  status'[r] \in TERMINAL_TASK_STATUSES /\ event'[r] = event[r]
    <3>1. CASE UNCHANGED rowVars
      BY <2>1, <3>1 DEF rowVars
    <3>2. ASSUME NEW s \in Rows, Ends(s)
          PROVE  status'[r] \in TERMINAL_TASK_STATUSES /\ event'[r] = event[r]
      BY <2>1, <3>2 DEF TypeOK, Ends, Finalize
    <3>3. ASSUME NEW w \in Workers, InsertRow(w)
          PROVE  status'[r] \in TERMINAL_TASK_STATUSES /\ event'[r] = event[r]
      BY <2>1, <3>3 DEF TypeOK, InsertRow, NextRow, TERMINAL_TASK_STATUSES
    <3> QED
      BY <3>1, <3>2, <3>3, RowSteps DEF RowsAreOwn, Bound
  <2> QED
    BY <2>1
<1>2. ASSUME \A e \in Events, n \in Tries :
               queue'[<<e, n>>] > 0 /\ n > 0 => queue[<<e, n>>] > 0 \/ Final(e)',
             \A w \in Workers :
               pc'[w] # "idle" => pc[w] # "idle" /\ message'[w] = message[w]
      PROVE  RetriesAreStale'
  BY <1>1, <1>2 DEF RetriesAreStale
<1>3. ASSUME NEW w \in Workers, LoseWorker(w) \/ Undelivered(w)
      PROVE  RetriesAreStale'
  <2>1. PICK e \in Events : message[w] = <<e, 0>>
    BY <1>3
    DEF TypeOK, RetriesAreStale, LoseWorker, Undelivered, Messages
  <2>2. \A v \in Workers :
          pc'[v] # "idle" => pc[v] # "idle" /\ message'[v] = message[v]
    BY <1>3 DEF TypeOK, LoseWorker, Undelivered, Leave
  <2>3. CASE LoseWorker(w)
    <3>1. 0 \in Tries /\ PutOn(e, 0)
      BY <2>1, <2>3, BoundsAssumption DEF LoseWorker, PutOn, Tries
    <3> QED
      BY <1>2, <2>2, <3>1, PutOnOne
  <2>4. CASE Undelivered(w)
    <3>1. Final(e)'
      BY <2>1, <2>4
      DEF TypeOK, RowsAreOwn, Undelivered, Finalize, TERMINAL_TASK_STATUSES
    <3>2. (1 \in Tries /\ PutOn(e, 1)) \/ UNCHANGED queue
      BY <2>1, <2>4, BoundsAssumption DEF Undelivered, PutOn, Tries
    <3>3. \A f \in Events, n \in Tries :
            queue'[<<f, n>>] > 0 => queue[<<f, n>>] > 0 \/ f = e
      BY <3>2, PutOnOne
    <3> QED
      BY <1>2, <2>2, <3>1, <3>3
  <2> QED
    BY <1>3, <2>3, <2>4
<1>4. ASSUME NEW w \in Workers, NEW m \in Messages, BindRead(w, m)
      PROVE  RetriesAreStale'
  <2>1. PICK e \in Events, n \in Tries : m = <<e, n>>
    BY DEF Messages
  <2>2. TakeOff(e, n)
    BY <1>4, <2>1 DEF BindRead, Take, TakeOff
  <2>3. n = 0
    <3>1. SUFFICES ASSUME n > 0 PROVE FALSE
      BY DEF Tries
    <3>2. PICK r \in Rows :
            status[r] \in TERMINAL_TASK_STATUSES /\ event[r] = e
      BY <2>2, <3>1, TakeOffOne DEF RetriesAreStale
    <3>3. r \in RowsOf(e)
      BY <3>2 DEF RowsOf, TERMINAL_TASK_STATUSES
    <3>4. PICK s \in RowsOf(e) : status[s] = "running"
      BY <1>4, <2>1, <3>3, NoNewestRow DEF BindRead, NewestRow
    <3> QED
      BY <3>2, <3>3, <3>4 DEF OneRow, RowsOf, TERMINAL_TASK_STATUSES
  <2>4. \A f \in Events, k \in Tries :
          queue'[<<f, k>>] > 0 => queue[<<f, k>>] > 0
    BY <2>2, TakeOffOne, CountsAreNaturals
  <2>5. \A v \in Workers : pc'[v] # "idle" => message'[v][2] = 0
    BY <1>4, <2>1, <2>3 DEF TypeOK, BindRead, RetriesAreStale
  <2> QED
    BY <1>1, <2>4, <2>5 DEF RetriesAreStale
<1>5. ASSUME NEW m \in Messages, Discard(m) \/ \E w \in Workers : Stale(w, m)
      PROVE  RetriesAreStale'
  <2>1. PICK e \in Events, n \in Tries : m = <<e, n>>
    BY DEF Messages
  <2>2. TakeOff(e, n) /\ UNCHANGED <<pc, message>>
    BY <1>5, <2>1 DEF Discard, Stale, Take, TakeOff, workerVars
  <2> QED
    BY <1>2, <2>2, TakeOffOne, CountsAreNaturals
<1>6. ASSUME NEW e \in Events, HandOver(e)
      PROVE  RetriesAreStale'
  <2>1. 0 \in Tries /\ PutOn(e, 0) /\ UNCHANGED <<pc, message>>
    BY <1>6, BoundsAssumption DEF HandOver, PutOn, Tries, workerVars
  <2> QED
    BY <1>2, <2>1, PutOnOne
<1>7. ASSUME NEW e \in Events, Redeliver(e)
      PROVE  FALSE
  BY <1>7 DEF TypeOK, Redeliver
<1>8. ASSUME NEW w \in Workers,
             \/ SkipDelivery(w) \/ Delivered(w) \/ KeyTooLong(w)
             \/ LoseTheKey(w) \/ Kill(w) \/ InsertRow(w) \/ Rebind(w)
             \/ StartDelivery(w) \/ RefuseAddress(w) \/ Post(w)
      PROVE  RetriesAreStale'
  <2>1. UNCHANGED queue
    BY <1>8
    DEF SkipDelivery, Delivered, KeyTooLong, LoseTheKey, Kill, InsertRow,
        Rebind, StartDelivery, RefuseAddress, Post
  <2>2. \A v \in Workers :
          pc'[v] # "idle" => pc[v] # "idle" /\ message'[v] = message[v]
    BY <1>8
    DEF TypeOK, SkipDelivery, Delivered, KeyTooLong, LoseTheKey, Kill,
        InsertRow, Rebind, StartDelivery, RefuseAddress, Post, Leave
  <2> QED
    BY <1>2, <2>1, <2>2
<1>9. CASE \/ UNCHANGED vars
           \/ CreateWebhook \/ UpdateWebhook \/ DeleteWebhook
           \/ TestWebhook \/ EnrollSessionAnalyzed \/ EnrollDailySummary
           \/ \E e \in Events : WriteOff(e) \/ SweepEnrolled(e)
           \/ \E r \in Rows : SweepRunning(r)
  <2>1. UNCHANGED <<queue, pc, message>>
    BY <1>9
    DEF vars, CreateWebhook, UpdateWebhook, DeleteWebhook, TestWebhook,
        EnrollSessionAnalyzed, EnrollDailySummary, WriteOff, SweepEnrolled,
        SweepRunning, workerVars
  <2> QED
    BY <1>2, <2>1
<1> QED
  BY <1>3, <1>4, <1>5, <1>6, <1>7, <1>8, <1>9 DEF Next

-----------------------------------------------------------------------------

LEMMA RetryInvInit == Init => RetryInv
<1> SUFFICES ASSUME Init
             PROVE  RetryInv
  OBVIOUS
<1>1. \A e \in Events, n \in Tries : queue[<<e, n>>] = 0
  BY DEF Init, Messages
<1>2. /\ \A e \in Events : ~Waiting(e) /\ e \notin owed
      /\ \A e \in Events, w \in Workers : ~At(w, e)
      /\ OneWaits
  <2>1. \A e \in Events : ~Waiting(e) /\ e \notin owed
    <3>1. owed = {}
      BY DEF Init
    <3>2. ASSUME NEW e \in Events, NEW n \in Tries
          PROVE  ~(queue[<<e, n>>] > 0)
      BY <1>1
    <3> QED
      BY <3>1, <3>2 DEF Waiting
  <2>2. \A e \in Events, w \in Workers : ~At(w, e)
    BY DEF Init, At
  <2>3. OneWaits
    BY <1>1 DEF OneWaits
  <2> QED
    BY <2>1, <2>2, <2>3
<1>3. OneRow /\ RowsAreOwn
  BY DEF Init, OneRow, RowsAreOwn
<1>4. RetriesAreStale
  BY <1>1 DEF Init, RetriesAreStale
<1> QED
  BY <1>2, <1>3, <1>4 DEF RetryInv, OneMessage

LEMMA DuplicatesGrow ==
  ASSUME TypeOK, [Next]_vars
  PROVE  duplicates' = 0 => duplicates = 0
<1>1. UNCHANGED duplicates \/ duplicates' = duplicates + 1
  BY DEF Next, vars, boundVars, CreateWebhook, UpdateWebhook, DeleteWebhook,
     TestWebhook, EnrollSessionAnalyzed, EnrollDailySummary, HandOver,
     WriteOff, Redeliver, SweepEnrolled, Discard, Stale, BindRead, KeyTooLong,
     LoseTheKey, InsertRow, Rebind, SkipDelivery, StartDelivery,
     RefuseAddress, Post, Delivered, Undelivered, LoseWorker, Kill,
     SweepRunning
<1> QED
  BY <1>1 DEF TypeOK

LEMMA RetryInvStep == TypeOK /\ RetryInv /\ [Next]_vars => RetryInv'
<1> SUFFICES ASSUME TypeOK, RetryInv, [Next]_vars, duplicates' = 0
             PROVE  OneMessage' /\ OneRow' /\ RowsAreOwn' /\ RetriesAreStale'
  BY DEF RetryInv
<1>1. OneMessage /\ OneRow /\ RowsAreOwn /\ RetriesAreStale
  BY DuplicatesGrow DEF RetryInv
<1> QED
  BY <1>1, MessageSteps, OneMessageKept, OneRowKept, RowsAreOwnKept,
     RetriesAreStaleKept

\* A retry delivers only after some message was delivered twice
\* (send_webhook_task commits the failure before it asks for the retry).
THEOREM RetriesDeliverNothing == Spec => []RetriesNeedADuplicate
<1>1. TypeOK /\ RetryInv => RetriesNeedADuplicate
  BY DEF TypeOK, RetryInv, RetriesAreStale, RetriesNeedADuplicate, Delivering
<1> QED
  BY <1>1, InitTyped, StepTyped, RetryInvInit, RetryInvStep, PTL DEF Spec

-----------------------------------------------------------------------------
(***************************************************************************)
(* Sums over a finite set.  A sum is the number of units that its          *)
(* elements count for, so that it needs no induction.                      *)
(***************************************************************************)

\* The sum of f over S, as the number of pairs of an element and one of the
\* units it counts for.
Units(f, x) == {x} \X (1..f[x])
Total(f, S) == Cardinality(UNION {Units(f, x) : x \in S})

LEMMA UnitsAre ==
  ASSUME NEW S, NEW f \in [S -> Nat], NEW x \in S
  PROVE  IsFiniteSet(Units(f, x)) /\ Cardinality(Units(f, x)) = f[x]
<1> DEFINE n == f[x]
<1>1. n \in Nat
  OBVIOUS
<1> HIDE DEF n
<1>2. IsFiniteSet(1..n) /\ Cardinality(1..n) = n
  <2>1. /\ IsFiniteSet(1..n)
        /\ Cardinality(1..n) = IF 1 > n THEN 0 ELSE n - 1 + 1
    BY <1>1, FS_Interval
  <2> QED
    BY <1>1, <2>1
<1>3. IsFiniteSet({x}) /\ Cardinality({x}) = 1
  BY FS_Singleton
<1> DEFINE own == {x}
           count == 1..n
<1>4. IsFiniteSet(own) /\ IsFiniteSet(count)
  BY <1>2, <1>3
<1>5. Units(f, x) = own \X count
  BY DEF Units, n
<1>6. Cardinality(own) = 1 /\ Cardinality(count) = n
  BY <1>2, <1>3
<1> HIDE DEF own, count
<1>7. /\ IsFiniteSet(own \X count)
      /\ Cardinality(own \X count) = Cardinality(own) * Cardinality(count)
  BY <1>4, FS_Product
<1> QED
  BY <1>1, <1>5, <1>6, <1>7 DEF n

LEMMA UnitsAreFinite ==
  ASSUME NEW S, IsFiniteSet(S), NEW f \in [S -> Nat], NEW T \in SUBSET S
  PROVE  IsFiniteSet(UNION {Units(f, x) : x \in T})
<1> DEFINE units == [x \in T |-> Units(f, x)]
           parts == {Units(f, x) : x \in T}
<1>1. units \in Surjection(T, parts)
  BY DEF Surjection
<1>2. IsFiniteSet(T)
  BY FS_Subset
<1>3. \A part \in parts : IsFiniteSet(part)
  BY UnitsAre
<1> HIDE DEF units, parts
<1>4. IsFiniteSet(parts)
  BY <1>1, <1>2, FS_Surjection
<1>5. IsFiniteSet(UNION parts)
  BY <1>3, <1>4, FS_UNION
<1> QED
  BY <1>5 DEF parts

LEMMA TotalSplits ==
  ASSUME NEW S, IsFiniteSet(S), NEW f \in [S -> Nat], NEW p \in S
  PROVE  /\ Total(f, S \ {p}) \in Nat
         /\ Total(f, S) = Total(f, S \ {p}) + f[p]
<1> DEFINE rest == UNION {Units(f, x) : x \in S \ {p}}
           own == Units(f, p)
<1>1. IsFiniteSet(rest)
  <2>1. S \ {p} \in SUBSET S
    OBVIOUS
  <2> QED
    BY <2>1, UnitsAreFinite
<1>2. IsFiniteSet(own) /\ Cardinality(own) = f[p]
  BY UnitsAre
<1>3. UNION {Units(f, x) : x \in S} = rest \cup own
  OBVIOUS
<1>4. rest \cap own = {}
  BY DEF Units
<1>5. f[p] \in Nat
  OBVIOUS
<1>6. Total(f, S) = Cardinality(rest \cup own)
      /\ Total(f, S \ {p}) = Cardinality(rest)
  BY <1>3 DEF Total
<1> HIDE DEF rest, own
<1>7. Cardinality(rest \cup own) = Cardinality(rest) + f[p] - Cardinality({})
  BY <1>1, <1>2, <1>4, FS_Union
<1>8. Cardinality(rest) \in Nat
  BY <1>1, FS_CardinalityType
<1> QED
  BY <1>5, <1>6, <1>7, <1>8, FS_EmptySet

LEMMA TotalDiffers ==
  ASSUME NEW S, IsFiniteSet(S), NEW f \in [S -> Nat], NEW g \in [S -> Nat],
         NEW p \in S, \A x \in S : x # p => g[x] = f[x]
  PROVE  Total(g, S) = Total(f, S) - f[p] + g[p]
<1>1. Total(g, S \ {p}) = Total(f, S \ {p})
  <2>1. \A x \in S \ {p} : Units(g, x) = Units(f, x)
    BY DEF Units
  <2>2. {Units(g, x) : x \in S \ {p}} = {Units(f, x) : x \in S \ {p}}
    BY <2>1
  <2> QED
    BY <2>2 DEF Total
<1>2. /\ Total(f, S \ {p}) \in Nat
      /\ Total(f, S) = Total(f, S \ {p}) + f[p]
      /\ Total(g, S) = Total(g, S \ {p}) + g[p]
  BY TotalSplits
<1>3. f[p] \in Nat /\ g[p] \in Nat
  OBVIOUS
<1> QED
  BY <1>1, <1>2, <1>3

LEMMA TotalGrows ==
  ASSUME NEW S, IsFiniteSet(S), NEW f \in [S -> Nat], NEW g \in [S -> Nat],
         \A x \in S : f[x] <= g[x]
  PROVE  /\ Total(f, S) \in Nat /\ Total(g, S) \in Nat
         /\ Total(f, S) <= Total(g, S)
         /\ \A p \in S : Total(f, S) - f[p] <= Total(g, S) - g[p]
<1> DEFINE sum(h, T) == UNION {Units(h, x) : x \in T}
<1>1. ASSUME NEW T \in SUBSET S
      PROVE  /\ Total(f, T) \in Nat /\ Total(g, T) \in Nat
             /\ Total(f, T) <= Total(g, T)
  <2>1. \A x \in T : Units(f, x) \subseteq Units(g, x)
    <3>1. SUFFICES ASSUME NEW x \in T
                   PROVE  1..f[x] \subseteq 1..g[x]
      BY DEF Units
    <3>2. f[x] \in Nat /\ g[x] \in Nat /\ f[x] <= g[x]
      OBVIOUS
    <3> QED
      BY <3>2
  <2>2. sum(f, T) \subseteq sum(g, T)
    BY <2>1
  <2>3. IsFiniteSet(sum(f, T)) /\ IsFiniteSet(sum(g, T))
    BY UnitsAreFinite
  <2> HIDE DEF sum
  <2>4. Cardinality(sum(f, T)) <= Cardinality(sum(g, T))
    BY <2>2, <2>3, FS_Subset
  <2>5. Cardinality(sum(f, T)) \in Nat /\ Cardinality(sum(g, T)) \in Nat
    BY <2>3, FS_CardinalityType
  <2> QED
    BY <2>4, <2>5 DEF Total, sum
<1>2. ASSUME NEW p \in S
      PROVE  Total(f, S) - f[p] <= Total(g, S) - g[p]
  <2>1. /\ Total(f, S) = Total(f, S \ {p}) + f[p]
        /\ Total(g, S) = Total(g, S \ {p}) + g[p]
    BY TotalSplits
  <2>2. S \ {p} \in SUBSET S
    OBVIOUS
  <2>3. /\ Total(f, S \ {p}) \in Nat /\ Total(g, S \ {p}) \in Nat
        /\ Total(f, S \ {p}) <= Total(g, S \ {p})
    BY <1>1, <2>2
  <2>4. f[p] \in Nat /\ g[p] \in Nat
    OBVIOUS
  <2> QED
    BY <2>1, <2>3, <2>4
<1>3. S \in SUBSET S
  OBVIOUS
<1> QED
  BY <1>1, <1>2, <1>3

LEMMA TotalOfNothing ==
  ASSUME NEW S, NEW f, \A x \in S : f[x] = 0
  PROVE  Total(f, S) = 0
<1>1. \A x \in S : Units(f, x) = {}
  BY DEF Units
<1>2. UNION {Units(f, x) : x \in S} = {}
  BY <1>1
<1> QED
  BY <1>2, FS_EmptySet DEF Total

-----------------------------------------------------------------------------
(***************************************************************************)
(* Rows in order.  The next row of an event is inserted when the last one  *)
(* is final, and a message that found no row is no retry: a retry follows  *)
(* a delivery, and so a row.                                               *)
(***************************************************************************)

\* Rows are inserted in order, and the next one of an event not before the
\* last one is final.
RowOrder ==
  /\ \A r, s \in Rows :
       s < r /\ status[r] # "absent" => status[s] # "absent"
  /\ \A r, s \in Rows :
       /\ r < s /\ event[r] = event[s]
       /\ status[r] # "absent" /\ status[s] # "absent"
       => status[r] # "running"
  /\ \A e \in Events : RowsOf(e) # {} => NewestRow(e) # {}

\* A message that no row was found for is not a retry.
FreshIsFirst ==
  /\ \A w \in Workers : pc[w] = "fresh" => message[w][2] = 0
  /\ \A e \in Events, n \in Tries :
       queue[<<e, n>>] > 0 /\ n > 0 => RowsOf(e) # {}

OwedAreKnown == \A e \in owed : kind[e] # NoKind

HistoryInv == RowOrder /\ Bound /\ FreshIsFirst /\ OwedAreKnown

LEMMA HistoryInvInit == Init => HistoryInv
  BY DEF Init, HistoryInv, RowOrder, Bound, FreshIsFirst, OwedAreKnown, RowsOf,
     Messages

\* To end a row leaves it where it is.
LEMMA SamePresence ==
  ASSUME TypeOK, UNCHANGED rowVars \/ \E r \in Rows : Ends(r)
  PROVE  /\ UNCHANGED event
         /\ \A r \in Rows : status'[r] = "absent" <=> status[r] = "absent"
         /\ \A r \in Rows :
              status'[r] = status[r] \/ status'[r] \in TERMINAL_TASK_STATUSES
         /\ \A e : RowsOf(e)' = RowsOf(e) /\ NewestRow(e)' = NewestRow(e)
<1>1. /\ UNCHANGED event
      /\ \A r \in Rows : status'[r] = "absent" <=> status[r] = "absent"
      /\ \A r \in Rows :
           status'[r] = status[r] \/ status'[r] \in TERMINAL_TASK_STATUSES
  BY DEF TypeOK, Ends, Finalize, TERMINAL_TASK_STATUSES, rowVars
<1>2. \A e : RowsOf(e)' = RowsOf(e)
  BY <1>1 DEF RowsOf
<1>3. \A e : NewestRow(e)' = NewestRow(e)
  BY <1>2 DEF NewestRow
<1> QED
  BY <1>1, <1>2, <1>3

\* What an insertion does: the new row is the newest of its event.
LEMMA Inserted ==
  ASSUME TypeOK, RowOrder, NEW w \in Workers, InsertRow(w)
  PROVE  \E r \in Rows, f \in Events :
           /\ f = message[w][1] /\ message'[w][1] = f
           /\ status[r] = "absent"
           /\ event' = [event EXCEPT ![r] = f]
           /\ status' = [status EXCEPT ![r] = "running"]
           /\ row' = [row EXCEPT ![w] = r]
           /\ \A s \in Rows : status[s] # "absent" <=> s < r
           /\ \A s \in RowsOf(f) : status[s] # "running"
           /\ NewestRow(f)' = {r}
           /\ \A s \in Rows : s # r =>
                (status'[s] = status[s] /\ event'[s] = event[s])
           /\ \A e : e # f =>
                RowsOf(e)' = RowsOf(e) /\ NewestRow(e)' = NewestRow(e)
<1>1. PICK f \in Events : f = message[w][1] /\ message'[w][1] = f
  BY CountsAreNaturals DEF InsertRow
<1>2. PICK r \in Rows :
        /\ status[r] = "absent"
        /\ event' = [event EXCEPT ![r] = f]
        /\ status' = [status EXCEPT ![r] = "running"]
        /\ row' = [row EXCEPT ![w] = r]
        /\ \A s \in Rows : s < r => status[s] # "absent"
        /\ \A s \in RowsOf(f) : status[s] # "running"
  BY <1>1 DEF InsertRow, NextRow
<1>3. \A s \in Rows : status[s] # "absent" <=> s < r
  BY <1>2, Bounds DEF RowOrder
<1>4. /\ status'[r] = "running" /\ event'[r] = f
      /\ \A s \in Rows : s # r =>
           status'[s] = status[s] /\ event'[s] = event[s]
  BY <1>2 DEF TypeOK
<1>5. RowsOf(f)' = RowsOf(f) \cup {r}
  BY <1>2, <1>4 DEF RowsOf
<1>6. NewestRow(f)' = {r}
  <2>1. \A s \in RowsOf(f) : s < r /\ s \in Nat
    BY <1>3, Bounds DEF RowsOf
  <2>2. r \in Nat
    BY Bounds
  <2> QED
    BY <1>5, <2>1, <2>2 DEF NewestRow
<1>7. ASSUME NEW e, e # f
      PROVE  RowsOf(e)' = RowsOf(e) /\ NewestRow(e)' = NewestRow(e)
  <2>1. RowsOf(e)' = RowsOf(e)
    BY <1>2, <1>4, <1>7 DEF RowsOf
  <2> QED
    BY <2>1 DEF NewestRow
<1> QED
  BY <1>1, <1>2, <1>3, <1>4, <1>6, <1>7

LEMMA RowOrderKept ==
  ASSUME TypeOK, RowOrder, Bound, [Next]_vars
  PROVE  RowOrder'
<1>1. CASE UNCHANGED rowVars \/ \E r \in Rows : Ends(r)
  BY <1>1, SamePresence DEF RowOrder, TERMINAL_TASK_STATUSES
<1>2. ASSUME NEW w \in Workers, InsertRow(w)
      PROVE  RowOrder'
  <2>1. PICK r \in Rows, f \in Events :
          /\ status' = [status EXCEPT ![r] = "running"]
          /\ event' = [event EXCEPT ![r] = f]
          /\ \A s \in Rows : status[s] # "absent" <=> s < r
          /\ \A s \in RowsOf(f) : status[s] # "running"
          /\ NewestRow(f)' = {r}
          /\ \A s \in Rows : s # r =>
               status'[s] = status[s] /\ event'[s] = event[s]
          /\ \A e : e # f =>
               RowsOf(e)' = RowsOf(e) /\ NewestRow(e)' = NewestRow(e)
    BY <1>2, Inserted
  <2>2. status'[r] = "running" /\ event'[r] = f
    BY <2>1 DEF TypeOK
  <2>3. \A s \in Rows : status[s] = "running" => event[s] # f
    BY <2>1 DEF RowsOf
  <2>4. ASSUME NEW s \in Rows, NEW t \in Rows
        PROVE  /\ t < s /\ status'[s] # "absent" => status'[t] # "absent"
               /\ /\ s < t /\ event'[s] = event'[t]
                  /\ status'[s] # "absent" /\ status'[t] # "absent"
                  => status'[s] # "running"
    <3>1. CASE s # r /\ t # r
      BY <2>1, <3>1 DEF RowOrder
    <3>2. CASE s = r
      BY <2>1, <2>2, <3>2, Bounds
    <3>3. CASE s # r /\ t = r
      BY <2>1, <2>2, <2>3, <3>3, Bounds
    <3> QED
      BY <3>1, <3>2, <3>3
  <2>5. \A e \in Events : RowsOf(e)' # {} => NewestRow(e)' # {}
    BY <2>1 DEF RowOrder
  <2> QED
    BY <2>4, <2>5 DEF RowOrder
<1> QED
  BY <1>1, <1>2, RowSteps

\* What a step does to the workers.
LEMMA WorkerSteps ==
  ASSUME TypeOK, [Next]_vars
  PROVE  \/ UNCHANGED workerVars
         \/ \E w \in Workers : Busy(w) /\ Leave(w)
         \/ \E w \in Workers, m \in Messages : BindRead(w, m)
         \/ \E w \in Workers : InsertRow(w)
         \/ \E w \in Workers, stage \in Stages \ {"idle", "fresh"} :
              /\ pc[w] \notin {"idle", "fresh"}
              /\ pc' = [pc EXCEPT ![w] = stage]
              /\ UNCHANGED <<message, row>>
<1>1. CASE UNCHANGED vars
  BY <1>1 DEF vars
<1>2. ASSUME NEW w \in Workers,
             \/ KeyTooLong(w) \/ LoseTheKey(w) \/ SkipDelivery(w)
             \/ Delivered(w) \/ Undelivered(w) \/ LoseWorker(w) \/ Kill(w)
      PROVE  Busy(w) /\ Leave(w)
  BY <1>2
  DEF KeyTooLong, LoseTheKey, SkipDelivery, Delivered, Undelivered, LoseWorker,
      Kill, Busy
<1>3. ASSUME NEW w \in Workers,
             Rebind(w) \/ StartDelivery(w) \/ RefuseAddress(w) \/ Post(w)
      PROVE  \E stage \in Stages \ {"idle", "fresh"} :
               /\ pc[w] \notin {"idle", "fresh"}
               /\ pc' = [pc EXCEPT ![w] = stage]
               /\ UNCHANGED <<message, row>>
  BY <1>3 DEF Rebind, StartDelivery, RefuseAddress, Post, Stages
<1>4. CASE \/ CreateWebhook \/ UpdateWebhook \/ DeleteWebhook
           \/ TestWebhook \/ EnrollSessionAnalyzed \/ EnrollDailySummary
           \/ \E e \in Events : \/ HandOver(e) \/ WriteOff(e)
                               \/ Redeliver(e) \/ SweepEnrolled(e)
           \/ \E m \in Messages : Discard(m)
           \/ \E w \in Workers, m \in Messages : Stale(w, m)
           \/ \E r \in Rows : SweepRunning(r)
  BY <1>4
  DEF CreateWebhook, UpdateWebhook, DeleteWebhook, TestWebhook,
      EnrollSessionAnalyzed, EnrollDailySummary, HandOver, WriteOff,
      Redeliver, SweepEnrolled, Discard, Stale, SweepRunning
<1> QED
  BY <1>1, <1>2, <1>3, <1>4 DEF Next

\* A row stays, with its event.
LEMMA RowsStay ==
  ASSUME TypeOK, RowOrder, Bound, [Next]_vars
  PROVE  /\ \A r \in Rows : status[r] # "absent" =>
              status'[r] # "absent" /\ event'[r] = event[r]
         /\ \A e : RowsOf(e) # {} => RowsOf(e)' # {}
<1>1. ASSUME NEW r \in Rows, status[r] # "absent"
      PROVE  status'[r] # "absent" /\ event'[r] = event[r]
  <2>1. CASE UNCHANGED rowVars \/ \E s \in Rows : Ends(s)
    BY <1>1, <2>1, SamePresence
  <2>2. ASSUME NEW w \in Workers, InsertRow(w)
        PROVE  status'[r] # "absent" /\ event'[r] = event[r]
    BY <1>1, <2>2, Inserted
  <2> QED
    BY <2>1, <2>2, RowSteps
<1> QED
  BY <1>1 DEF RowsOf

LEMMA BoundKept ==
  ASSUME TypeOK, RowOrder, Bound, [Next]_vars
  PROVE  Bound'
<1> USE DEF Bound
<1>1. \A r \in Rows : status[r] # "absent" =>
        status'[r] # "absent" /\ event'[r] = event[r]
  BY RowsStay
<1>2. \A w \in Workers : pc[w] \notin {"idle", "fresh"} => row[w] \in Rows
  BY DEF TypeOK, NoRow
<1>3. CASE UNCHANGED workerVars
  BY <1>1, <1>2, <1>3 DEF workerVars
<1>4. ASSUME NEW w \in Workers, Leave(w)
      PROVE  Bound'
  BY <1>1, <1>2, <1>4 DEF Leave, TypeOK
<1>5. ASSUME NEW w \in Workers, NEW m \in Messages, BindRead(w, m)
      PROVE  Bound'
  <2>1. /\ UNCHANGED rowVars /\ message' = [message EXCEPT ![w] = m]
        /\ \/ pc' = [pc EXCEPT ![w] = "fresh"] /\ UNCHANGED row
           \/ \E r \in RowsOf(m[1]) :
                /\ pc' = [pc EXCEPT ![w] = "rebind"]
                /\ row' = [row EXCEPT ![w] = r]
    BY <1>5 DEF BindRead, NewestRow
  <2> QED
    BY <2>1 DEF TypeOK, RowsOf, rowVars
<1>6. ASSUME NEW w \in Workers, InsertRow(w)
      PROVE  Bound'
  <2>1. PICK r \in Rows, f \in Events :
          /\ f = message[w][1] /\ message'[w][1] = f
          /\ event' = [event EXCEPT ![r] = f]
          /\ status' = [status EXCEPT ![r] = "running"]
          /\ row' = [row EXCEPT ![w] = r]
    BY <1>6, Inserted
  <2>2. pc' = [pc EXCEPT ![w] = "bound"] /\ UNCHANGED message
    BY <1>6 DEF InsertRow
  <2>3. ASSUME NEW v \in Workers, pc'[v] \notin {"idle", "fresh"}
        PROVE  status'[row'[v]] # "absent" /\ event'[row'[v]] = message'[v][1]
    <3>1. CASE v = w
      BY <2>1, <3>1 DEF TypeOK
    <3>2. CASE v # w
      <4>1. pc[v] \notin {"idle", "fresh"} /\ row'[v] = row[v]
        BY <2>1, <2>2, <2>3, <3>2 DEF TypeOK
      <4> QED
        BY <1>1, <1>2, <2>2, <4>1
    <3> QED
      BY <3>1, <3>2
  <2> QED
    BY <2>3
<1>7. ASSUME NEW w \in Workers, NEW stage, pc[w] \notin {"idle", "fresh"},
             pc' = [pc EXCEPT ![w] = stage], UNCHANGED <<message, row>>
      PROVE  Bound'
  BY <1>1, <1>2, <1>7 DEF TypeOK
<1> QED
  BY <1>3, <1>4, <1>5, <1>6, <1>7, WorkerSteps

\* What a step puts on the queue is no retry, or its event has a row.
LEMMA QueueSteps ==
  ASSUME TypeOK, Bound, FreshIsFirst, [Next]_vars
  PROVE  \A e \in Events, n \in Tries :
           queue'[<<e, n>>] > 0 /\ n > 0 =>
             queue[<<e, n>>] > 0 \/ RowsOf(e) # {}
<1> DEFINE Goal == \A e \in Events, n \in Tries :
             queue'[<<e, n>>] > 0 /\ n > 0 =>
               queue[<<e, n>>] > 0 \/ RowsOf(e) # {}
<1> SUFFICES Goal
  OBVIOUS
<1>1. ASSUME NEW f \in Events, NEW k \in Tries, PutOn(f, k),
             k = 0 \/ RowsOf(f) # {}
      PROVE  Goal
  BY <1>1, PutOnOne
<1>2. ASSUME NEW f \in Events, NEW k \in Tries, TakeOff(f, k)
      PROVE  Goal
  BY <1>2, TakeOffOne, CountsAreNaturals
<1>3. CASE UNCHANGED queue
  BY <1>3
<1>4. 0 \in Tries
  BY BoundsAssumption DEF Tries
<1>5. ASSUME NEW w \in Workers, LoseWorker(w) \/ Undelivered(w)
      PROVE  Goal
  <2>1. PICK f \in Events, k \in Tries : message[w] = <<f, k>>
    BY DEF TypeOK, Messages
  <2>2. pc[w] # "idle" /\ (pc[w] # "fresh" => RowsOf(f) # {})
    BY <1>5, <2>1 DEF LoseWorker, Undelivered, Bound, RowsOf, TypeOK, NoRow
  <2>3. CASE LoseWorker(w)
    <3>1. PutOn(f, k) /\ (k = 0 \/ RowsOf(f) # {})
      BY <2>1, <2>2, <2>3 DEF LoseWorker, PutOn, FreshIsFirst
    <3> QED
      BY <1>1, <3>1
  <2>4. CASE Undelivered(w)
    <3>1. UNCHANGED queue \/ (k + 1 \in Tries /\ PutOn(f, k + 1))
      BY <2>1, <2>4, BoundsAssumption DEF Undelivered, PutOn, Tries
    <3>2. RowsOf(f) # {}
      BY <2>2, <2>4 DEF Undelivered
    <3> QED
      BY <1>1, <1>3, <3>1, <3>2
  <2> QED
    BY <1>5, <2>3, <2>4
<1>6. ASSUME NEW m \in Messages,
             Discard(m) \/ \E w \in Workers : Stale(w, m) \/ BindRead(w, m)
      PROVE  Goal
  <2>1. PICK f \in Events, k \in Tries : m = <<f, k>>
    BY DEF Messages
  <2>2. TakeOff(f, k)
    BY <1>6, <2>1 DEF Discard, Stale, BindRead, Take, TakeOff
  <2> QED
    BY <1>2, <2>2
<1>7. ASSUME NEW f \in Events, HandOver(f) \/ Redeliver(f)
      PROVE  Goal
  BY <1>1, <1>4, <1>7 DEF HandOver, Redeliver, PutOn
<1>8. CASE \/ UNCHANGED vars
           \/ CreateWebhook \/ UpdateWebhook \/ DeleteWebhook
           \/ TestWebhook \/ EnrollSessionAnalyzed \/ EnrollDailySummary
           \/ \E f \in Events : WriteOff(f) \/ SweepEnrolled(f)
           \/ \E r \in Rows : SweepRunning(r)
           \/ \E w \in Workers :
                \/ SkipDelivery(w) \/ Delivered(w) \/ KeyTooLong(w)
                \/ LoseTheKey(w) \/ Kill(w) \/ InsertRow(w) \/ Rebind(w)
                \/ StartDelivery(w) \/ RefuseAddress(w) \/ Post(w)
  BY <1>3, <1>8
  DEF vars, CreateWebhook, UpdateWebhook, DeleteWebhook, TestWebhook,
      EnrollSessionAnalyzed, EnrollDailySummary, WriteOff, SweepEnrolled,
      SweepRunning, SkipDelivery, Delivered, KeyTooLong, LoseTheKey, Kill,
      InsertRow, Rebind, StartDelivery, RefuseAddress, Post
<1> QED
  BY <1>5, <1>6, <1>7, <1>8 DEF Next

LEMMA FreshIsFirstKept ==
  ASSUME TypeOK, RowOrder, Bound, FreshIsFirst, [Next]_vars
  PROVE  FreshIsFirst'
<1>1. \A e \in Events, n \in Tries :
        queue'[<<e, n>>] > 0 /\ n > 0 => RowsOf(e)' # {}
  <2>1. \A e : RowsOf(e) # {} => RowsOf(e)' # {}
    BY RowsStay
  <2> QED
    BY <2>1, QueueSteps DEF FreshIsFirst
<1>2. ASSUME NEW w \in Workers, pc'[w] = "fresh"
      PROVE  message'[w][2] = 0
  <2>1. CASE UNCHANGED workerVars
    BY <1>2, <2>1 DEF workerVars, FreshIsFirst
  <2>2. ASSUME NEW v \in Workers, Leave(v) \/ InsertRow(v)
        PROVE  message'[w][2] = 0
    BY <1>2, <2>2 DEF Leave, InsertRow, FreshIsFirst, TypeOK
  <2>3. ASSUME NEW v \in Workers, NEW stage \in Stages \ {"idle", "fresh"},
               pc' = [pc EXCEPT ![v] = stage], UNCHANGED <<message, row>>
        PROVE  message'[w][2] = 0
    BY <1>2, <2>3 DEF FreshIsFirst, TypeOK
  <2>4. ASSUME NEW v \in Workers, NEW m \in Messages, BindRead(v, m)
        PROVE  message'[w][2] = 0
    <3>1. CASE v # w
      BY <1>2, <2>4, <3>1 DEF BindRead, FreshIsFirst, TypeOK
    <3>2. CASE v = w
      <4>1. NewestRow(m[1]) = {} /\ queue[m] > 0 /\ message'[w] = m
        BY <1>2, <2>4, <3>2 DEF BindRead, Take, TypeOK
      <4>2. PICK e \in Events, n \in Tries : m = <<e, n>>
        BY DEF Messages
      <4>3. RowsOf(e) = {}
        BY <4>1, <4>2 DEF RowOrder
      <4>4. n \in Nat /\ ~(n > 0)
        BY <4>1, <4>2, <4>3 DEF FreshIsFirst, Tries
      <4> QED
        BY <4>1, <4>2, <4>4
    <3> QED
      BY <3>1, <3>2
  <2> QED
    BY <2>1, <2>2, <2>3, <2>4, WorkerSteps
<1> QED
  BY <1>1, <1>2 DEF FreshIsFirst

LEMMA OwedAreKnownKept ==
  ASSUME TypeOK, OwedAreKnown, [Next]_vars
  PROVE  OwedAreKnown'
<1>1. CASE TestWebhook \/ EnrollSessionAnalyzed \/ EnrollDailySummary
  <2>1. PICK e \in Events : Produce(e)
    BY <1>1, BoundsAssumption
    DEF TestWebhook, DispatchWebhook, EnrollSessionAnalyzed,
        EnrollDailySummary, EnqueueCommand, NextEvent, Produce
  <2> QED
    BY <2>1, BoundsAssumption DEF TypeOK, OwedAreKnown, Produce, NoKind
<1>2. ASSUME UNCHANGED kind, owed' \subseteq owed
      PROVE  OwedAreKnown'
  BY <1>2 DEF OwedAreKnown
<1>3. CASE \E e \in Events : HandOver(e) \/ WriteOff(e)
  BY <1>2, <1>3 DEF HandOver, WriteOff
<1>4. CASE \/ UNCHANGED vars
           \/ CreateWebhook \/ UpdateWebhook \/ DeleteWebhook
           \/ \E e \in Events : Redeliver(e) \/ SweepEnrolled(e)
           \/ \E m \in Messages : Discard(m)
           \/ \E w \in Workers, m \in Messages : Stale(w, m) \/ BindRead(w, m)
           \/ \E r \in Rows : SweepRunning(r)
           \/ \E w \in Workers :
                \/ SkipDelivery(w) \/ Delivered(w) \/ KeyTooLong(w)
                \/ LoseTheKey(w) \/ Kill(w) \/ InsertRow(w) \/ Rebind(w)
                \/ StartDelivery(w) \/ RefuseAddress(w) \/ Post(w)
                \/ Undelivered(w) \/ LoseWorker(w)
  <2>1. UNCHANGED <<kind, owed>>
    BY <1>4
    DEF vars, eventVars, CreateWebhook, UpdateWebhook, DeleteWebhook,
      Redeliver, SweepEnrolled, Discard, Stale, BindRead, SweepRunning,
      SkipDelivery, Delivered, KeyTooLong, LoseTheKey, Kill, InsertRow,
      Rebind, StartDelivery, RefuseAddress, Post, Undelivered, LoseWorker
  <2> QED
    BY <1>2, <2>1
<1> QED
  BY <1>1, <1>3, <1>4 DEF Next

LEMMA HistoryInvStep == TypeOK /\ HistoryInv /\ [Next]_vars => HistoryInv'
  BY RowOrderKept, BoundKept, FreshIsFirstKept, OwedAreKnownKept
  DEF HistoryInv

-----------------------------------------------------------------------------
(***************************************************************************)
(* What an event may still cost.  Every message of an event, and every     *)
(* worker at one, has chances: the deliveries that it and its retries may  *)
(* still begin.  A duplicate brings a full set of them, a lost worker brings *)
(* one back.  The chances alone would allow an event one delivery for each *)
(* retry; but a failure makes the newest row final, and an event whose     *)
(* newest row is final is closed for its retries.  The chances of those    *)
(* retries are the reserve of the message that is not a retry, and PaidInv *)
(* gives them back when the event is closed.                               *)
(***************************************************************************)

\* The deliveries that a message with n retries may still make.
Chances(n) == 1 + MaxRetries - n

Unsent(e) == kind[e] = NoKind \/ e \in owed
Waits(e) == [n \in Tries |-> queue[<<e, n>>] * Chances(n)]
ChancesAt(w, e) ==
  IF ~At(w, e) THEN 0
  ELSE IF pc[w] \in Delivering THEN Chances(message[w][2]) - 1
  ELSE Chances(message[w][2])
Works(e) == [w \in Workers |-> ChancesAt(w, e)]

\* The deliveries of an event that are still to come, at most.
Left(e) ==
  (IF Unsent(e) THEN Chances(0) ELSE 0)
    + Total(Waits(e), Tries) + Total(Works(e), Workers)

\* Those that have begun but for the POST.
DueAt(w, e) == IF At(w, e) /\ pc[w] \in {"rebind", "bound"} THEN 1 ELSE 0
Dues(e) == [w \in Workers |-> DueAt(w, e)]
Due(e) == Total(Dues(e), Workers)

\* No message of the event finds a row to work on any more.
Closed(e) ==
  /\ \E r \in NewestRow(e) : status[r] \in TERMINAL_TASK_STATUSES
  /\ \A w \in Workers : ~(pc[w] = "fresh" /\ message[w][1] = e)

\* A first message of the event, whose retries the event will be closed for:
\* it is not at a row that another one has followed.
First(w, e) ==
  /\ At(w, e) /\ message[w][2] = 0
  /\ pc[w] = "fresh" \/ row[w] \in NewestRow(e)
Reserve(e) ==
  Unsent(e) \/ queue[<<e, 0>>] > 0 \/ \E w \in Workers : First(w, e)
Short(e) == IF Reserve(e) THEN 0 ELSE MaxRetries

\* What pays for deliveries beyond the first.
Credit == faults + duplicates * (1 + MaxRetries)

PaidInv ==
  \A e \in Events :
    /\ Closed(e) => attempts[e] + Due(e) <= 1 + Credit
    /\ ~Closed(e) =>
         attempts[e] + Left(e) + Short(e) <= 1 + MaxRetries + Credit

LEMMA ChancesType ==
  /\ 0 \in Tries /\ Tries \subseteq Nat /\ IsFiniteSet(Tries)
  /\ MaxRetries \in Nat
  /\ \A n \in Tries : Chances(n) \in Nat /\ 1 <= Chances(n)
  /\ \A n \in Tries : n < MaxRetries =>
       n + 1 \in Tries /\ Chances(n + 1) = Chances(n) - 1
  /\ \A n \in Tries : ~(n < MaxRetries) => Chances(n) = 1
  /\ Chances(0) = 1 + MaxRetries
<1>1. IsFiniteSet(0..MaxRetries)
  BY BoundsAssumption, FS_Interval
<1> QED
  BY <1>1, BoundsAssumption DEF Chances, Tries

Counted(e) ==
  /\ Waits(e) \in [Tries -> Nat]
  /\ Works(e) \in [Workers -> Nat]
  /\ Dues(e) \in [Workers -> Nat]
  /\ Total(Waits(e), Tries) \in Nat
  /\ Total(Works(e), Workers) \in Nat
  /\ Due(e) \in Nat /\ Left(e) \in Nat
  /\ Short(e) \in Nat /\ Short(e) <= MaxRetries
  /\ attempts[e] \in Nat /\ Credit \in Nat

AllCounted == \A e \in Events : Counted(e)

LEMMA CountsTyped == TypeOK => AllCounted
<1> SUFFICES ASSUME TypeOK, NEW e \in Events
             PROVE  Counted(e)
  BY DEF AllCounted
<1>1. Waits(e) \in [Tries -> Nat]
  <2>1. ASSUME NEW n \in Tries
        PROVE  queue[<<e, n>>] * Chances(n) \in Nat
    <3>1. queue[<<e, n>>] \in Nat /\ Chances(n) \in Nat
      BY CountsAreNaturals, ChancesType
    <3> QED
      BY <3>1
  <2> QED
    BY <2>1 DEF Waits
<1>2. Works(e) \in [Workers -> Nat]
  <2>1. ASSUME NEW w \in Workers
        PROVE  ChancesAt(w, e) \in Nat
    <3>1. message[w][2] \in Tries
      BY DEF TypeOK, Messages
    <3>2. Chances(message[w][2]) \in Nat /\ 1 <= Chances(message[w][2])
      BY <3>1, ChancesType
    <3> QED
      BY <3>2 DEF ChancesAt
  <2> QED
    BY <2>1 DEF Works
<1>3. Dues(e) \in [Workers -> Nat]
  BY DEF Dues, DueAt
<1>4. /\ Total(Waits(e), Tries) \in Nat
      /\ Total(Works(e), Workers) \in Nat
      /\ Total(Dues(e), Workers) \in Nat
  <2>1. ASSUME NEW S, IsFiniteSet(S), NEW f \in [S -> Nat]
        PROVE  Total(f, S) \in Nat
    <3>1. \A x \in S : f[x] <= f[x]
      OBVIOUS
    <3> QED
      BY <2>1, <3>1, TotalGrows
  <2> QED
    BY <1>1, <1>2, <1>3, <2>1, ChancesType, BoundsAssumption
<1>5. Left(e) \in Nat
  <2>1. Chances(0) \in Nat
    BY ChancesType
  <2> QED
    BY <1>4, <2>1 DEF Left
<1>6. Short(e) \in Nat /\ Short(e) <= MaxRetries
  BY ChancesType DEF Short
<1>7. attempts[e] \in Nat /\ Credit \in Nat
  <2>1. /\ attempts[e] \in Nat /\ faults \in Nat /\ duplicates \in Nat
        /\ 1 + MaxRetries \in Nat
    BY BoundsAssumption DEF TypeOK
  <2>2. duplicates * (1 + MaxRetries) \in Nat
    BY <2>1
  <2> QED
    BY <2>1, <2>2 DEF Credit
<1> QED
  BY <1>1, <1>2, <1>3, <1>4, <1>5, <1>6, <1>7 DEF Due, Counted

LEMMA CountsTypedNext == TypeOK' => AllCounted'
  BY CountsTyped, PTL

LEMMA OneMore ==
  ASSUME NEW k \in Nat, NEW c \in Nat
  PROVE  (k + 1) * c = k * c + c
  OBVIOUS

\* What is put on the queue or taken off it counts for its event.
LEMMA PutCounts ==
  ASSUME TypeOK, TypeOK', NEW e \in Events, NEW n \in Tries, PutOn(e, n)
  PROVE  \A f \in Events :
           Total(Waits(f), Tries)'
             = Total(Waits(f), Tries) + (IF f = e THEN Chances(n) ELSE 0)
<1>1. \A f \in Events, k \in Tries :
        queue'[<<f, k>>] = IF f = e /\ k = n THEN queue[<<f, k>>] + 1
                           ELSE queue[<<f, k>>]
  BY PutOnOne
<1>2. ASSUME NEW f \in Events, f # e
      PROVE  Waits(f)' = Waits(f)
  BY <1>1, <1>2 DEF Waits
<1>3. Total(Waits(e)', Tries) = Total(Waits(e), Tries) + Chances(n)
  <2>1. /\ Waits(e) \in [Tries -> Nat] /\ Waits(e)' \in [Tries -> Nat]
        /\ Total(Waits(e), Tries) \in Nat
    BY CountsTyped, CountsTypedNext DEF AllCounted, Counted
  <2>2. \A k \in Tries : k # n => Waits(e)'[k] = Waits(e)[k]
    BY <1>1 DEF Waits
  <2>3. Waits(e)'[n] = Waits(e)[n] + Chances(n)
    <3>1. queue[<<e, n>>] \in Nat /\ Chances(n) \in Nat
      BY CountsAreNaturals, ChancesType
    <3>2. queue'[<<e, n>>] * Chances(n)
            = queue[<<e, n>>] * Chances(n) + Chances(n)
      BY <1>1, <3>1, OneMore
    <3> QED
      BY <3>2 DEF Waits
  <2>4. Total(Waits(e)', Tries)
          = Total(Waits(e), Tries) - Waits(e)[n] + Waits(e)'[n]
    <3> DEFINE f == Waits(e)
               g == Waits(e)'
    <3>1. /\ f \in [Tries -> Nat] /\ g \in [Tries -> Nat]
          /\ \A k \in Tries : k # n => g[k] = f[k]
          /\ IsFiniteSet(Tries)
      BY <2>1, <2>2, ChancesType
    <3> HIDE DEF f, g
    <3>2. Total(g, Tries) = Total(f, Tries) - f[n] + g[n]
      BY <3>1, TotalDiffers
    <3> QED
      BY <3>2 DEF f, g
  <2>5. Waits(e)[n] \in Nat /\ Chances(n) \in Nat
    BY <2>1, ChancesType
  <2> QED
    BY <2>1, <2>3, <2>4, <2>5
<1>4. \A f \in Events : Total(Waits(f), Tries) \in Nat
  BY CountsTyped DEF AllCounted, Counted
<1> QED
  BY <1>2, <1>3, <1>4

LEMMA TakeCounts ==
  ASSUME TypeOK, TypeOK', NEW e \in Events, NEW n \in Tries, TakeOff(e, n)
  PROVE  \A f \in Events :
           Total(Waits(f), Tries)
             = Total(Waits(f), Tries)' + (IF f = e THEN Chances(n) ELSE 0)
<1>1. /\ queue[<<e, n>>] > 0
      /\ \A f \in Events, k \in Tries :
           queue'[<<f, k>>] = IF f = e /\ k = n THEN queue[<<f, k>>] - 1
                              ELSE queue[<<f, k>>]
  BY TakeOffOne
<1>2. ASSUME NEW f \in Events, f # e
      PROVE  Waits(f)' = Waits(f)
  BY <1>1, <1>2 DEF Waits
<1>3. Total(Waits(e), Tries) = Total(Waits(e)', Tries) + Chances(n)
  <2>1. /\ Waits(e) \in [Tries -> Nat] /\ Waits(e)' \in [Tries -> Nat]
        /\ Total(Waits(e), Tries) \in Nat
    BY CountsTyped, CountsTypedNext DEF AllCounted, Counted
  <2>2. \A k \in Tries : k # n => Waits(e)'[k] = Waits(e)[k]
    BY <1>1 DEF Waits
  <2>3. Waits(e)[n] = Waits(e)'[n] + Chances(n)
    <3>1. queue[<<e, n>>] \in Nat /\ Chances(n) \in Nat
      BY CountsAreNaturals, ChancesType
    <3>2. queue[<<e, n>>] * Chances(n)
            = queue'[<<e, n>>] * Chances(n) + Chances(n)
      <4>1. queue[<<e, n>>] = queue'[<<e, n>>] + 1 /\ queue'[<<e, n>>] \in Nat
        BY <1>1, <3>1
      <4> QED
        BY <3>1, <4>1, OneMore
    <3> QED
      BY <3>2 DEF Waits
  <2>4. Total(Waits(e)', Tries)
          = Total(Waits(e), Tries) - Waits(e)[n] + Waits(e)'[n]
    <3> DEFINE f == Waits(e)
               g == Waits(e)'
    <3>1. /\ f \in [Tries -> Nat] /\ g \in [Tries -> Nat]
          /\ \A k \in Tries : k # n => g[k] = f[k]
          /\ IsFiniteSet(Tries)
      BY <2>1, <2>2, ChancesType
    <3> HIDE DEF f, g
    <3>2. Total(g, Tries) = Total(f, Tries) - f[n] + g[n]
      BY <3>1, TotalDiffers
    <3> QED
      BY <3>2 DEF f, g
  <2>5. Waits(e)'[n] \in Nat /\ Chances(n) \in Nat
    BY <2>1, ChancesType
  <2> QED
    BY <2>1, <2>3, <2>4, <2>5
<1>4. \A f \in Events : Total(Waits(f), Tries) \in Nat
  BY CountsTyped DEF AllCounted, Counted
<1> QED
  BY <1>2, <1>3, <1>4

\* All workers but w stay where they are.
OthersStay(w) ==
  \A v \in Workers : v # w =>
    pc'[v] = pc[v] /\ message'[v] = message[v] /\ row'[v] = row[v]

LEMMA WorkerCounts ==
  ASSUME TypeOK, TypeOK', NEW w \in Workers, OthersStay(w), NEW e \in Events
  PROVE  /\ Total(Works(e), Workers)'
              = Total(Works(e), Workers) - ChancesAt(w, e) + ChancesAt(w, e)'
         /\ Due(e)' = Due(e) - DueAt(w, e) + DueAt(w, e)'
         /\ ChancesAt(w, e) \in Nat /\ ChancesAt(w, e)' \in Nat
         /\ DueAt(w, e) \in Nat /\ DueAt(w, e)' \in Nat
<1>1. /\ Works(e) \in [Workers -> Nat] /\ Works(e)' \in [Workers -> Nat]
      /\ Dues(e) \in [Workers -> Nat] /\ Dues(e)' \in [Workers -> Nat]
  BY CountsTyped, CountsTypedNext DEF AllCounted, Counted
<1>2. \A v \in Workers : v # w =>
        Works(e)'[v] = Works(e)[v] /\ Dues(e)'[v] = Dues(e)[v]
  BY DEF OthersStay, Works, Dues, ChancesAt, DueAt, At
<1>3. /\ Works(e)[w] = ChancesAt(w, e) /\ Works(e)'[w] = ChancesAt(w, e)'
      /\ Dues(e)[w] = DueAt(w, e) /\ Dues(e)'[w] = DueAt(w, e)'
  BY DEF Works, Dues
<1>4. Total(Works(e)', Workers)
        = Total(Works(e), Workers) - Works(e)[w] + Works(e)'[w]
  BY <1>1, <1>2, TotalDiffers, BoundsAssumption
<1>5. Total(Dues(e)', Workers)
        = Total(Dues(e), Workers) - Dues(e)[w] + Dues(e)'[w]
  BY <1>1, <1>2, TotalDiffers, BoundsAssumption
<1> QED
  BY <1>1, <1>3, <1>4, <1>5 DEF Due

\* A first message keeps the chances of its retries in reserve.
LEMMA Compare ==
  ASSUME TypeOK, NEW e \in Events
  PROVE  Due(e) + MaxRetries <= Left(e) + Short(e)
<1>1. /\ Works(e) \in [Workers -> Nat] /\ Dues(e) \in [Workers -> Nat]
      /\ Waits(e) \in [Tries -> Nat]
      /\ Total(Waits(e), Tries) \in Nat /\ Total(Works(e), Workers) \in Nat
      /\ Due(e) \in Nat /\ Left(e) \in Nat /\ Short(e) \in Nat
  BY CountsTyped DEF AllCounted, Counted
<1>2. ASSUME NEW w \in Workers
      PROVE  Dues(e)[w] <= Works(e)[w]
  <2>1. message[w][2] \in Tries
    BY DEF TypeOK, Messages
  <2>2. Chances(message[w][2]) \in Nat /\ 1 <= Chances(message[w][2])
    BY <2>1, ChancesType
  <2> QED
    BY <2>2 DEF Dues, DueAt, Works, ChancesAt, Delivering
<1>3. /\ Due(e) <= Total(Works(e), Workers)
      /\ \A w \in Workers :
           Due(e) - DueAt(w, e) <= Total(Works(e), Workers) - ChancesAt(w, e)
  <2>1. /\ Total(Dues(e), Workers) <= Total(Works(e), Workers)
        /\ \A w \in Workers :
             Total(Dues(e), Workers) - Dues(e)[w]
               <= Total(Works(e), Workers) - Works(e)[w]
    BY <1>1, <1>2, TotalGrows, BoundsAssumption
  <2> QED
    BY <2>1 DEF Due, Dues, Works
<1>4. MaxRetries \in Nat /\ Chances(0) = 1 + MaxRetries
  BY ChancesType
<1>5. CASE ~Reserve(e)
  BY <1>1, <1>3, <1>4, <1>5 DEF Short, Left
<1>6. CASE Unsent(e)
  BY <1>1, <1>3, <1>4, <1>6 DEF Left
<1>7. CASE queue[<<e, 0>>] > 0
  <2>1. Chances(0) <= Waits(e)[0]
    <3>1. queue[<<e, 0>>] \in Nat
      BY CountsAreNaturals, ChancesType
    <3>2. 1 * Chances(0) <= queue[<<e, 0>>] * Chances(0)
      <4> DEFINE k == queue[<<e, 0>>] - 1
      <4>1. k \in Nat /\ queue[<<e, 0>>] = k + 1
        BY <1>7, <3>1
      <4>2. k * Chances(0) \in Nat
        BY <1>4, <4>1
      <4>3. (k + 1) * Chances(0) = k * Chances(0) + Chances(0)
        BY <1>4, <4>1
      <4> HIDE DEF k
      <4> QED
        BY <1>4, <4>1, <4>2, <4>3
    <3> QED
      BY <1>4, <3>2, ChancesType DEF Waits
  <2>2. Waits(e)[0] <= Total(Waits(e), Tries)
    <3>1. /\ Total(Waits(e), Tries \ {0}) \in Nat
          /\ Total(Waits(e), Tries) = Total(Waits(e), Tries \ {0}) + Waits(e)[0]
      BY <1>1, TotalSplits, ChancesType
    <3>2. Waits(e)[0] \in Nat
      BY <1>1, ChancesType
    <3> QED
      BY <3>1, <3>2
  <2>3. Waits(e)[0] \in Nat
    BY <1>1, ChancesType
  <2> QED
    BY <1>1, <1>3, <1>4, <2>1, <2>2, <2>3 DEF Left
<1>8. ASSUME NEW w \in Workers, First(w, e)
      PROVE  Due(e) + MaxRetries <= Left(e) + Short(e)
  <2>1. DueAt(w, e) + MaxRetries <= ChancesAt(w, e)
    BY <1>4, <1>8 DEF First, DueAt, ChancesAt, Delivering
  <2>2. Due(e) - DueAt(w, e) <= Total(Works(e), Workers) - ChancesAt(w, e)
    BY <1>3
  <2>3. DueAt(w, e) \in Nat /\ ChancesAt(w, e) \in Nat
    <3>1. Works(e)[w] \in Nat /\ Dues(e)[w] \in Nat
      BY <1>1
    <3> QED
      BY <3>1 DEF Works, Dues
  <2> QED
    BY <1>1, <1>4, <2>1, <2>2, <2>3 DEF Left
<1> QED
  BY <1>5, <1>6, <1>7, <1>8 DEF Reserve

-----------------------------------------------------------------------------
(***************************************************************************)
(* Every step pays.  One lemma for each way in which a step moves messages, *)
(* workers and rows.                                                       *)
(***************************************************************************)

\* A step pays for the deliveries of an event that it begins or allows.
PaysDue(e) ==
  Closed(e)' =>
    attempts'[e] + Due(e)' + Credit <= attempts[e] + Due(e) + Credit'
PaysLeft(e) ==
  ~Closed(e)' =>
    attempts'[e] + Left(e)' + Short(e)' + Credit
      <= attempts[e] + Left(e) + Short(e) + Credit'
Pays(e) == PaysDue(e) /\ PaysLeft(e)

\* Of the newest row there is one.
LEMMA OneNewest ==
  ASSUME NEW e, NEW r \in NewestRow(e), NEW s \in NewestRow(e)
  PROVE  r = s
<1>1. r \in Nat /\ s \in Nat /\ r <= s /\ s <= r
  BY Bounds DEF NewestRow, RowsOf
<1> QED
  BY <1>1

\* An event that no message finds a row to work on for stays so.
LEMMA ClosedStays ==
  ASSUME TypeOK, HistoryInv, [Next]_vars, NEW e \in Events, Closed(e)
  PROVE  Closed(e)'
<1>1. PICK r \in NewestRow(e) : status[r] \in TERMINAL_TASK_STATUSES
  BY DEF Closed
<1>2. r \in Rows /\ status[r] # "absent"
  BY <1>1 DEF NewestRow, RowsOf
<1>3. r \in NewestRow(e)' /\ status'[r] \in TERMINAL_TASK_STATUSES
  <2>1. CASE UNCHANGED rowVars \/ \E s \in Rows : Ends(s)
    BY <1>1, <1>2, <2>1, SamePresence
  <2>2. ASSUME NEW w \in Workers, InsertRow(w)
        PROVE  r \in NewestRow(e)' /\ status'[r] \in TERMINAL_TASK_STATUSES
    <3>1. PICK s \in Rows, f \in Events :
            /\ f = message[w][1]
            /\ status[s] = "absent"
            /\ \A t \in Rows : t # s =>
                 (status'[t] = status[t] /\ event'[t] = event[t])
            /\ \A g : g # f =>
                 RowsOf(g)' = RowsOf(g) /\ NewestRow(g)' = NewestRow(g)
      BY <2>2, Inserted DEF HistoryInv
    <3>2. f # e
      BY <2>2, <3>1 DEF InsertRow, Closed
    <3> QED
      BY <1>1, <1>2, <3>1, <3>2
  <2> QED
    BY <2>1, <2>2, RowSteps DEF HistoryInv
<1>4. ASSUME NEW v \in Workers, pc'[v] = "fresh", message'[v][1] = e
      PROVE  FALSE
  <2>1. CASE UNCHANGED workerVars
    BY <1>4, <2>1 DEF workerVars, Closed
  <2>2. ASSUME NEW w \in Workers, Leave(w) \/ InsertRow(w)
        PROVE  FALSE
    BY <1>4, <2>2 DEF Leave, InsertRow, Closed, TypeOK
  <2>3. ASSUME NEW w \in Workers, NEW stage \in Stages \ {"idle", "fresh"},
               pc' = [pc EXCEPT ![w] = stage], UNCHANGED <<message, row>>
        PROVE  FALSE
    BY <1>4, <2>3 DEF Closed, TypeOK
  <2>4. ASSUME NEW w \in Workers, NEW m \in Messages, BindRead(w, m)
        PROVE  FALSE
    <3>1. CASE v # w
      BY <1>4, <2>4, <3>1 DEF BindRead, Closed, TypeOK
    <3>2. CASE v = w
      BY <1>1, <1>4, <2>4, <3>2 DEF BindRead, TypeOK
    <3> QED
      BY <3>1, <3>2
  <2> QED
    BY <2>1, <2>2, <2>3, <2>4, WorkerSteps
<1> QED
  BY <1>3, <1>4 DEF Closed

LEMMA CreditSteps ==
  ASSUME TypeOK
  PROVE  /\ UNCHANGED <<faults, duplicates>> => Credit' = Credit
         /\ faults' = faults + 1 /\ UNCHANGED duplicates =>
              Credit' = Credit + 1
         /\ duplicates' = duplicates + 1 /\ UNCHANGED faults =>
              Credit' = Credit + 1 + MaxRetries
<1>1. duplicates \in Nat /\ 1 + MaxRetries \in Nat /\ faults \in Nat
  BY BoundsAssumption DEF TypeOK
<1>2. (duplicates + 1) * (1 + MaxRetries)
        = duplicates * (1 + MaxRetries) + (1 + MaxRetries)
  BY <1>1, OneMore
<1>3. duplicates * (1 + MaxRetries) \in Nat
  BY <1>1
<1>4. MaxRetries \in Nat
  BY BoundsAssumption
<1> DEFINE d == duplicates * (1 + MaxRetries)
<1>5. duplicates' = duplicates + 1 =>
        duplicates' * (1 + MaxRetries) = d + (1 + MaxRetries)
  BY <1>2
<1>6. UNCHANGED duplicates => duplicates' * (1 + MaxRetries) = d
  OBVIOUS
<1>7. d \in Nat /\ Credit = faults + d
  BY <1>3 DEF Credit
<1>8. Credit' = faults' + duplicates' * (1 + MaxRetries)
  BY DEF Credit
<1> HIDE DEF d
<1> QED
  BY <1>1, <1>4, <1>5, <1>6, <1>7, <1>8

\* What follows from nothing happening to the workers or to the queue.
LEMMA WorkersSame ==
  ASSUME UNCHANGED workerVars, NEW e, NewestRow(e)' = NewestRow(e)
  PROVE  /\ Total(Works(e), Workers)' = Total(Works(e), Workers)
         /\ Due(e)' = Due(e)
         /\ \A v \in Workers : First(v, e)' <=> First(v, e)
<1>1. UNCHANGED <<pc, message, row>>
  BY DEF workerVars
<1>2. Works(e)' = Works(e) /\ Dues(e)' = Dues(e)
  BY <1>1 DEF Works, Dues, ChancesAt, DueAt, At
<1>3. \A v \in Workers : First(v, e)' <=> First(v, e)
  BY <1>1 DEF First, At
<1> QED
  BY <1>2, <1>3 DEF Due

LEMMA QueueSame ==
  ASSUME UNCHANGED queue, NEW e
  PROVE  Total(Waits(e), Tries)' = Total(Waits(e), Tries)
<1>1. Waits(e)' = Waits(e)
  BY DEF Waits
<1> QED
  BY <1>1

LEMMA OthersFirst ==
  ASSUME NEW w \in Workers, OthersStay(w), NEW e, NewestRow(e)' = NewestRow(e)
  PROVE  \A v \in Workers : v # w => (First(v, e)' <=> First(v, e))
  BY DEF OthersStay, First, At

\* The sums of an event that the proofs calculate with.
LEMMA Sums ==
  ASSUME TypeOK, TypeOK', NEW e \in Events
  PROVE  /\ Total(Waits(e), Tries) \in Nat /\ Total(Waits(e), Tries)' \in Nat
         /\ Total(Works(e), Workers) \in Nat
         /\ Total(Works(e), Workers)' \in Nat
         /\ Due(e) \in Nat /\ Due(e)' \in Nat
         /\ Left(e) \in Nat /\ Left(e)' \in Nat
         /\ Short(e) \in Nat /\ Short(e)' \in Nat
         /\ Short(e) <= MaxRetries /\ Short(e)' <= MaxRetries
         /\ attempts[e] \in Nat /\ attempts'[e] \in Nat
         /\ Credit \in Nat /\ Credit' \in Nat
         /\ MaxRetries \in Nat /\ Chances(0) = 1 + MaxRetries
  BY CountsTyped, CountsTypedNext, ChancesType DEF AllCounted, Counted

\* No row is inserted.
RowsQuiet == UNCHANGED rowVars \/ \E r \in Rows : Ends(r)

\* Configuration and heartbeat.
LEMMA QuietPays ==
  ASSUME TypeOK, TypeOK', RowsQuiet, NEW e \in Events,
         UNCHANGED <<kind, owed, queue, workerVars, attempts, duplicates,
                     faults>>
  PROVE  Pays(e)
<1>1. NewestRow(e)' = NewestRow(e)
  BY SamePresence DEF RowsQuiet
<1>2. /\ Total(Works(e), Workers)' = Total(Works(e), Workers)
      /\ Due(e)' = Due(e)
      /\ \A v \in Workers : First(v, e)' <=> First(v, e)
  BY <1>1, WorkersSame
<1>3. Total(Waits(e), Tries)' = Total(Waits(e), Tries)
  BY QueueSame
<1>4. Unsent(e)' <=> Unsent(e)
  BY DEF Unsent
<1>5. Left(e)' = Left(e)
  BY <1>2, <1>3, <1>4 DEF Left
<1>6. Short(e)' = Short(e)
  BY <1>2, <1>4 DEF Short, Reserve
<1>7. Credit' = Credit
  BY CreditSteps
<1> QED
  BY <1>2, <1>5, <1>6, <1>7, Sums DEF Pays, PaysDue, PaysLeft

\* Producers, and the outbox as it writes a command off.
LEMMA SettlePays ==
  ASSUME TypeOK, TypeOK', NEW f \in Events, Unsent(f),
         \A g \in Events : g # f => (Unsent(g)' <=> Unsent(g)),
         UNCHANGED <<rowVars, workerVars, queue, attempts, duplicates>>,
         \/ faults' = faults + 1
         \/ UNCHANGED faults,
         NEW e \in Events
  PROVE  Pays(e)
<1>1. NewestRow(e)' = NewestRow(e)
  BY SamePresence
<1>2. /\ Total(Works(e), Workers)' = Total(Works(e), Workers)
      /\ Due(e)' = Due(e)
      /\ \A v \in Workers : First(v, e)' <=> First(v, e)
  BY <1>1, WorkersSame
<1>3. Total(Waits(e), Tries)' = Total(Waits(e), Tries)
  BY QueueSame
<1>4. Credit' = Credit \/ Credit' = Credit + 1
  BY CreditSteps
<1>5. Left(e)' + Short(e)' <= Left(e) + Short(e)
  <2>1. CASE Unsent(e)' <=> Unsent(e)
    <3>1. Left(e)' = Left(e)
      BY <1>2, <1>3, <2>1 DEF Left
    <3>2. Short(e)' = Short(e)
      BY <1>2, <2>1 DEF Short, Reserve
    <3> QED
      BY <3>1, <3>2, Sums
  <2>2. CASE Unsent(e) /\ ~Unsent(e)'
    <3>1. Left(e) = Left(e)' + Chances(0)
      BY <1>2, <1>3, <2>2, Sums DEF Left
    <3> QED
      BY <3>1, Sums
  <2> QED
    BY <2>1, <2>2
<1> QED
  BY <1>2, <1>4, <1>5, Sums DEF Pays, PaysDue, PaysLeft

\* The outbox as it hands a command over.
LEMMA HandOverPays ==
  ASSUME TypeOK, TypeOK', OwedAreKnown, NEW f \in Events, HandOver(f),
         NEW e \in Events
  PROVE  Pays(e)
<1>1. NewestRow(e)' = NewestRow(e)
  BY SamePresence DEF HandOver
<1>2. /\ Total(Works(e), Workers)' = Total(Works(e), Workers)
      /\ Due(e)' = Due(e)
      /\ \A v \in Workers : First(v, e)' <=> First(v, e)
  BY <1>1, WorkersSame DEF HandOver
<1>3. 0 \in Tries /\ PutOn(f, 0)
  BY ChancesType DEF HandOver, PutOn
<1>4. Total(Waits(e), Tries)'
        = Total(Waits(e), Tries) + (IF e = f THEN Chances(0) ELSE 0)
  BY <1>3, PutCounts
<1>5. \A k \in Tries :
        queue'[<<e, k>>] = IF e = f /\ k = 0 THEN queue[<<e, k>>] + 1
                           ELSE queue[<<e, k>>]
  BY <1>3, PutOnOne
<1>6. /\ e = f => Unsent(e) /\ ~Unsent(e)'
      /\ e # f => (Unsent(e)' <=> Unsent(e))
  BY DEF HandOver, Unsent, OwedAreKnown
<1>7. Left(e)' = Left(e)
  BY <1>2, <1>4, <1>6, Sums DEF Left
<1>8. Short(e)' <= Short(e)
  <2>1. Reserve(e) => Reserve(e)'
    BY <1>2, <1>3, <1>5, <1>6, CountsAreNaturals DEF Reserve
  <2>2. Short(e)' = IF Reserve(e)' THEN 0 ELSE MaxRetries
    BY DEF Short
  <2>3. Short(e) = IF Reserve(e) THEN 0 ELSE MaxRetries
    BY DEF Short
  <2> QED
    BY <2>1, <2>2, <2>3, ChancesType
<1>9. Credit' = Credit /\ UNCHANGED attempts
  BY CreditSteps DEF HandOver, boundVars
<1> QED
  BY <1>2, <1>7, <1>8, <1>9, Sums DEF Pays, PaysDue, PaysLeft

LEMMA RedeliverPays ==
  ASSUME TypeOK, TypeOK', NEW f \in Events, Redeliver(f), NEW e \in Events
  PROVE  Pays(e)
<1>1. NewestRow(e)' = NewestRow(e)
  BY SamePresence DEF Redeliver
<1>2. /\ Total(Works(e), Workers)' = Total(Works(e), Workers)
      /\ Due(e)' = Due(e)
      /\ \A v \in Workers : First(v, e)' <=> First(v, e)
  BY <1>1, WorkersSame DEF Redeliver
<1>3. 0 \in Tries /\ PutOn(f, 0)
  BY ChancesType DEF Redeliver, PutOn
<1>4. Total(Waits(e), Tries)'
        = Total(Waits(e), Tries) + (IF e = f THEN Chances(0) ELSE 0)
  BY <1>3, PutCounts
<1>5. \A k \in Tries :
        queue'[<<e, k>>] = IF e = f /\ k = 0 THEN queue[<<e, k>>] + 1
                           ELSE queue[<<e, k>>]
  BY <1>3, PutOnOne
<1>6. Unsent(e)' <=> Unsent(e)
  BY DEF Redeliver, Unsent, eventVars
<1>7. Left(e)' = Left(e) + (IF e = f THEN Chances(0) ELSE 0)
  BY <1>2, <1>4, <1>6, Sums DEF Left
<1>8. Short(e)' <= Short(e)
  <2>1. Reserve(e) => Reserve(e)'
    BY <1>2, <1>3, <1>5, <1>6, CountsAreNaturals DEF Reserve
  <2>2. Short(e)' = IF Reserve(e)' THEN 0 ELSE MaxRetries
    BY DEF Short
  <2>3. Short(e) = IF Reserve(e) THEN 0 ELSE MaxRetries
    BY DEF Short
  <2> QED
    BY <2>1, <2>2, <2>3, ChancesType
<1>9. Credit' = Credit + 1 + MaxRetries /\ UNCHANGED attempts
  BY CreditSteps DEF Redeliver
<1> QED
  BY <1>2, <1>7, <1>8, <1>9, Sums DEF Pays, PaysDue, PaysLeft

\* A message that is dropped: it is revoked, or stale.
LEMMA DropPays ==
  ASSUME TypeOK, TypeOK', NEW f \in Events, NEW n \in Tries, TakeOff(f, n),
         UNCHANGED <<eventVars, rowVars, workerVars, attempts, boundVars>>,
         NEW e \in Events
  PROVE  Pays(e)
<1>1. NewestRow(e)' = NewestRow(e)
  BY SamePresence
<1>2. /\ Total(Works(e), Workers)' = Total(Works(e), Workers)
      /\ Due(e)' = Due(e)
      /\ \A v \in Workers : First(v, e)' <=> First(v, e)
  BY <1>1, WorkersSame
<1>3. Total(Waits(e), Tries)
        = Total(Waits(e), Tries)' + (IF e = f THEN Chances(n) ELSE 0)
  BY TakeCounts
<1>4. \A k \in Tries :
        queue'[<<e, k>>] = IF e = f /\ k = n THEN queue[<<e, k>>] - 1
                           ELSE queue[<<e, k>>]
  <2>1. \A g \in Events, k \in Tries :
          queue'[<<g, k>>] = IF g = f /\ k = n THEN queue[<<g, k>>] - 1
                             ELSE queue[<<g, k>>]
    BY TakeOffOne
  <2> QED
    BY <2>1
<1>5. Unsent(e)' <=> Unsent(e)
  BY DEF Unsent, eventVars
<1>6. Left(e) = Left(e)' + (IF e = f THEN Chances(n) ELSE 0)
  BY <1>2, <1>3, <1>5, ChancesType, Sums DEF Left
<1>7. (e = f /\ n = 0) \/ Short(e)' = Short(e)
  BY <1>2, <1>4, <1>5, ChancesType DEF Short, Reserve
<1>8. Left(e)' + Short(e)' <= Left(e) + Short(e)
  <2>1. Chances(n) \in Nat
    BY ChancesType
  <2> QED
    BY <1>6, <1>7, <2>1, Sums
<1>9. Credit' = Credit
  BY CreditSteps DEF boundVars
<1> QED
  BY <1>2, <1>8, <1>9, Sums DEF Pays, PaysDue, PaysLeft

LEMMA NoCounts ==
  ASSUME NEW w \in Workers, NEW e, ~At(w, e)
  PROVE  ChancesAt(w, e) = 0 /\ DueAt(w, e) = 0 /\ ~First(w, e)
  BY DEF ChancesAt, DueAt, First

\* A worker that is free takes a message for which there is work.
LEMMA BindReadPays ==
  ASSUME TypeOK, TypeOK', HistoryInv, NEW w \in Workers, NEW m \in Messages,
         BindRead(w, m), NEW e \in Events
  PROVE  Pays(e)
<1>1. PICK f \in Events, n \in Tries : m = <<f, n>>
  BY DEF Messages
<1>2. TakeOff(f, n)
  BY <1>1 DEF BindRead, Take, TakeOff
<1>3. NewestRow(e)' = NewestRow(e)
  BY SamePresence DEF BindRead
<1>4. OthersStay(w)
  BY DEF BindRead, OthersStay, TypeOK
<1>5. /\ Total(Works(e), Workers)'
           = Total(Works(e), Workers) - ChancesAt(w, e) + ChancesAt(w, e)'
      /\ Due(e)' = Due(e) - DueAt(w, e) + DueAt(w, e)'
      /\ \A v \in Workers : v # w => (First(v, e)' <=> First(v, e))
  BY <1>3, <1>4, WorkerCounts, OthersFirst
<1>6. ~At(w, e)
  BY DEF BindRead, Take, At
<1>7. /\ message'[w] = <<f, n>> /\ pc'[w] \in {"fresh", "rebind"}
      /\ At(w, f)'
      /\ pc'[w] = "fresh" \/ row'[w] \in NewestRow(f)
      /\ pc'[w] = "rebind" => \E r \in NewestRow(f) : status[r] = "running"
  BY <1>1 DEF BindRead, TypeOK, At
<1>8. Total(Waits(e), Tries)
        = Total(Waits(e), Tries)' + (IF e = f THEN Chances(n) ELSE 0)
  BY <1>2, TakeCounts
<1>9. \A k \in Tries :
        queue'[<<e, k>>] = IF e = f /\ k = n THEN queue[<<e, k>>] - 1
                           ELSE queue[<<e, k>>]
  <2>1. \A g \in Events, k \in Tries :
          queue'[<<g, k>>] = IF g = f /\ k = n THEN queue[<<g, k>>] - 1
                             ELSE queue[<<g, k>>]
    BY <1>2, TakeOffOne
  <2> QED
    BY <2>1
<1>10. (Unsent(e)' <=> Unsent(e)) /\ UNCHANGED attempts
  BY DEF BindRead, Unsent, eventVars
<1>11. ChancesAt(w, e)' = IF e = f THEN Chances(n) ELSE 0
  BY <1>7 DEF ChancesAt, At, Delivering
<1>12. Left(e)' = Left(e)
  BY <1>5, <1>6, <1>8, <1>10, <1>11, NoCounts, ChancesType, Sums DEF Left
<1>13. Short(e)' <= Short(e)
  <2>1. (e = f /\ n = 0) => First(w, e)'
    BY <1>3, <1>7 DEF First
  <2>2. Reserve(e) => Reserve(e)'
    BY <1>5, <1>6, <1>9, <1>10, <2>1, NoCounts, ChancesType DEF Reserve
  <2>3. Short(e)' = IF Reserve(e)' THEN 0 ELSE MaxRetries
    BY DEF Short
  <2>4. Short(e) = IF Reserve(e) THEN 0 ELSE MaxRetries
    BY DEF Short
  <2> QED
    BY <2>2, <2>3, <2>4, ChancesType
<1>14. Closed(e)' => Due(e)' = Due(e)
  <2>1. CASE e = f
    <3>1. ~Closed(e)'
      <4>1. CASE pc'[w] = "fresh"
        BY <1>7, <2>1, <4>1 DEF Closed
      <4>2. CASE pc'[w] = "rebind"
        <5>1. PICK r \in NewestRow(e)' : status'[r] = "running"
          BY <1>3, <1>7, <2>1, <4>2 DEF BindRead, rowVars
        <5>2. ASSUME NEW s \in NewestRow(e)', status'[s] # "running"
              PROVE  FALSE
          BY <1>3, <5>1, <5>2, OneNewest
        <5> QED
          BY <5>2 DEF Closed, TERMINAL_TASK_STATUSES
      <4> QED
        BY <1>7, <4>1, <4>2
    <3> QED
      BY <3>1
  <2>2. CASE e # f
    <3>1. DueAt(w, e)' = 0
      BY <1>7, <2>2 DEF DueAt, At
    <3> QED
      BY <1>5, <1>6, <3>1, NoCounts, Sums
  <2> QED
    BY <2>1, <2>2
<1>15. Credit' = Credit
  BY CreditSteps DEF BindRead, boundVars
<1> QED
  BY <1>10, <1>12, <1>13, <1>14, <1>15, Sums DEF Pays, PaysDue, PaysLeft

\* What a worker's leaving takes off the sums.
LEMMA LeaveCounts ==
  ASSUME TypeOK, TypeOK', RowsQuiet, NEW w \in Workers, Leave(w),
         NEW e \in Events
  PROVE  /\ Total(Works(e), Workers)
              = Total(Works(e), Workers)' + ChancesAt(w, e)
         /\ Due(e)' <= Due(e)
         /\ \A v \in Workers : v # w => (First(v, e)' <=> First(v, e))
         /\ ChancesAt(w, e) \in Nat
         /\ First(w, e) => MaxRetries <= ChancesAt(w, e)
<1>1. NewestRow(e)' = NewestRow(e)
  BY SamePresence DEF RowsQuiet
<1>2. OthersStay(w) /\ pc'[w] = "idle"
  BY DEF Leave, OthersStay, TypeOK
<1>3. ChancesAt(w, e)' = 0 /\ DueAt(w, e)' = 0
  BY <1>2 DEF ChancesAt, DueAt, At
<1>4. /\ Total(Works(e), Workers)'
           = Total(Works(e), Workers) - ChancesAt(w, e) + ChancesAt(w, e)'
      /\ Due(e)' = Due(e) - DueAt(w, e) + DueAt(w, e)'
      /\ ChancesAt(w, e) \in Nat /\ DueAt(w, e) \in Nat
  BY <1>2, WorkerCounts
<1>5. \A v \in Workers : v # w => (First(v, e)' <=> First(v, e))
  BY <1>1, <1>2, OthersFirst
<1>6. First(w, e) => MaxRetries <= ChancesAt(w, e)
  BY ChancesType DEF First, ChancesAt
<1> QED
  BY <1>3, <1>4, <1>5, <1>6, Sums

\* A worker that ends its task for good, whatever became of its row.
LEMMA EndPays ==
  ASSUME TypeOK, TypeOK', RowsQuiet, NEW w \in Workers, Leave(w),
         UNCHANGED <<kind, owed, queue, attempts, duplicates, faults>>,
         NEW e \in Events
  PROVE  Pays(e)
<1>1. /\ Total(Works(e), Workers)
           = Total(Works(e), Workers)' + ChancesAt(w, e)
      /\ Due(e)' <= Due(e)
      /\ \A v \in Workers : v # w => (First(v, e)' <=> First(v, e))
      /\ ChancesAt(w, e) \in Nat
      /\ First(w, e) => MaxRetries <= ChancesAt(w, e)
  BY LeaveCounts
<1>2. Total(Waits(e), Tries)' = Total(Waits(e), Tries)
  BY QueueSame
<1>3. Unsent(e)' <=> Unsent(e)
  BY DEF Unsent
<1>4. Left(e) = Left(e)' + ChancesAt(w, e)
  BY <1>1, <1>2, <1>3, Sums DEF Left
<1>5. First(w, e) \/ Short(e)' <= Short(e)
  <2>1. ~First(w, e) => (Reserve(e) => Reserve(e)')
    BY <1>1, <1>3 DEF Reserve
  <2>2. Short(e)' = IF Reserve(e)' THEN 0 ELSE MaxRetries
    BY DEF Short
  <2>3. Short(e) = IF Reserve(e) THEN 0 ELSE MaxRetries
    BY DEF Short
  <2> QED
    BY <2>1, <2>2, <2>3, ChancesType
<1>6. Left(e)' + Short(e)' <= Left(e) + Short(e)
  BY <1>1, <1>4, <1>5, Sums
<1>7. Credit' = Credit
  BY CreditSteps
<1> QED
  BY <1>1, <1>6, <1>7, Sums DEF Pays, PaysDue, PaysLeft

LEMMA LosePays ==
  ASSUME TypeOK, TypeOK', NEW w \in Workers, LoseWorker(w), NEW e \in Events
  PROVE  Pays(e)
<1>1. PICK f \in Events, n \in Tries : message[w] = <<f, n>>
  BY DEF TypeOK, Messages
<1>2. PutOn(f, n) /\ Leave(w) /\ RowsQuiet
  BY <1>1 DEF LoseWorker, PutOn, RowsQuiet
<1>3. /\ Total(Works(e), Workers)
           = Total(Works(e), Workers)' + ChancesAt(w, e)
      /\ Due(e)' <= Due(e)
      /\ \A v \in Workers : v # w => (First(v, e)' <=> First(v, e))
      /\ ChancesAt(w, e) \in Nat
  BY <1>2, LeaveCounts
<1>4. Total(Waits(e), Tries)'
        = Total(Waits(e), Tries) + (IF e = f THEN Chances(n) ELSE 0)
  BY <1>2, PutCounts
<1>5. \A k \in Tries :
        queue'[<<e, k>>] = IF e = f /\ k = n THEN queue[<<e, k>>] + 1
                           ELSE queue[<<e, k>>]
  <2>1. \A g \in Events, k \in Tries :
          queue'[<<g, k>>] = IF g = f /\ k = n THEN queue[<<g, k>>] + 1
                             ELSE queue[<<g, k>>]
    BY <1>2, PutOnOne
  <2> QED
    BY <2>1
<1>6. (Unsent(e)' <=> Unsent(e)) /\ UNCHANGED attempts
  BY DEF LoseWorker, Unsent, eventVars
<1>7. e = f => Chances(n) <= ChancesAt(w, e) + 1
  BY <1>1, ChancesType DEF LoseWorker, ChancesAt, At
<1>8. Left(e)' <= Left(e) + 1
  BY <1>3, <1>4, <1>6, <1>7, ChancesType, Sums DEF Left
<1>9. Short(e)' <= Short(e)
  <2>1. First(w, e) => e = f /\ n = 0
    BY <1>1 DEF First, At
  <2>2. Reserve(e) => Reserve(e)'
    BY <1>3, <1>5, <1>6, <2>1, CountsAreNaturals, ChancesType DEF Reserve
  <2>3. Short(e)' = IF Reserve(e)' THEN 0 ELSE MaxRetries
    BY DEF Short
  <2>4. Short(e) = IF Reserve(e) THEN 0 ELSE MaxRetries
    BY DEF Short
  <2> QED
    BY <2>2, <2>3, <2>4, ChancesType
<1>10. Credit' = Credit + 1
  BY CreditSteps DEF LoseWorker
<1> QED
  BY <1>3, <1>6, <1>8, <1>9, <1>10, Sums DEF Pays, PaysDue, PaysLeft

\* A failed delivery, with a retry left for its message or none.
LEMMA UndeliveredPays ==
  ASSUME TypeOK, TypeOK', HistoryInv, NEW w \in Workers, Undelivered(w),
         NEW e \in Events
  PROVE  Pays(e)
<1>1. PICK f \in Events, n \in Tries : message[w] = <<f, n>>
  BY DEF TypeOK, Messages
<1>2. /\ Leave(w) /\ row[w] \in Rows /\ Ends(row[w])
      /\ status'[row[w]] = "failed"
  BY DEF Undelivered, Ends, TypeOK, HistoryInv, Bound,
     TERMINAL_TASK_STATUSES, Finalize
<1>3. RowsQuiet
  BY <1>2 DEF RowsQuiet
<1>4. UNCHANGED <<kind, owed, attempts, duplicates, faults>>
  BY DEF Undelivered, eventVars, boundVars
<1>5. CASE ~(n < MaxRetries)
  BY <1>1, <1>2, <1>3, <1>4, <1>5, EndPays DEF Undelivered
<1>6. CASE n < MaxRetries
  <2>1. n + 1 \in Tries /\ Chances(n + 1) = Chances(n) - 1
    BY <1>6, ChancesType
  <2>2. PutOn(f, n + 1)
    BY <1>1, <1>6 DEF Undelivered, PutOn
  <2>3. /\ Total(Works(e), Workers)
             = Total(Works(e), Workers)' + ChancesAt(w, e)
        /\ Due(e)' <= Due(e)
        /\ \A v \in Workers : v # w => (First(v, e)' <=> First(v, e))
        /\ ChancesAt(w, e) \in Nat
    BY <1>2, <1>3, LeaveCounts
  <2>4. Total(Waits(e), Tries)'
          = Total(Waits(e), Tries) + (IF e = f THEN Chances(n + 1) ELSE 0)
    BY <2>1, <2>2, PutCounts
  <2>5. \A k \in Tries :
          queue'[<<e, k>>] = IF e = f /\ k = n + 1 THEN queue[<<e, k>>] + 1
                             ELSE queue[<<e, k>>]
    <3>1. \A g \in Events, k \in Tries :
            queue'[<<g, k>>] = IF g = f /\ k = n + 1 THEN queue[<<g, k>>] + 1
                               ELSE queue[<<g, k>>]
      BY <2>1, <2>2, PutOnOne
    <3> QED
      BY <3>1
  <2>6. Unsent(e)' <=> Unsent(e)
    BY <1>4 DEF Unsent
  <2>7. ChancesAt(w, e) = IF e = f THEN Chances(n + 1) ELSE 0
    BY <1>1, <2>1 DEF Undelivered, ChancesAt, At, Delivering
  <2>8. Left(e)' = Left(e)
    BY <2>1, <2>3, <2>4, <2>6, <2>7, ChancesType, Sums DEF Left
  <2>9. ~Closed(e)' => Short(e)' <= Short(e)
    <3>1. ASSUME Reserve(e), ~Reserve(e)'
          PROVE  Closed(e)'
      <4>1. ~(n + 1 = 0)
        BY ChancesType
      <4>2. First(w, e)
        BY <2>3, <2>5, <2>6, <3>1, <4>1, ChancesType DEF Reserve
      <4>3. row[w] \in NewestRow(e)
        BY <4>2 DEF Undelivered, First
      <4>4. row[w] \in NewestRow(e)'
        BY <1>3, <4>3, SamePresence DEF RowsQuiet
      <4>5. ASSUME NEW v \in Workers, pc'[v] = "fresh", message'[v][1] = e
            PROVE  FALSE
        <5>1. v # w /\ pc[v] = "fresh" /\ message[v][1] = e
          BY <1>2, <4>5 DEF Leave, TypeOK
        <5>2. First(v, e)
          BY <5>1 DEF First, At, HistoryInv, FreshIsFirst
        <5> QED
          BY <2>3, <3>1, <5>1, <5>2 DEF Reserve
      <4> QED
        BY <1>2, <4>4, <4>5 DEF Closed, TERMINAL_TASK_STATUSES
    <3>2. Short(e)' = IF Reserve(e)' THEN 0 ELSE MaxRetries
      BY DEF Short
    <3>3. Short(e) = IF Reserve(e) THEN 0 ELSE MaxRetries
      BY DEF Short
    <3> QED
      BY <3>1, <3>2, <3>3, ChancesType
  <2>10. Credit' = Credit
    BY <1>4, CreditSteps
  <2> QED
    BY <1>4, <2>3, <2>8, <2>9, <2>10, Sums DEF Pays, PaysDue, PaysLeft
<1> QED
  BY <1>5, <1>6

\* A worker that inserts the row of its message.
LEMMA InsertRowPays ==
  ASSUME TypeOK, TypeOK', HistoryInv, NEW w \in Workers, InsertRow(w),
         NEW e \in Events
  PROVE  Pays(e)
<1>1. PICK r \in Rows, f \in Events :
        /\ f = message[w][1] /\ message'[w][1] = f
        /\ status' = [status EXCEPT ![r] = "running"]
        /\ row' = [row EXCEPT ![w] = r]
        /\ NewestRow(f)' = {r}
        /\ \A g : g # f =>
             RowsOf(g)' = RowsOf(g) /\ NewestRow(g)' = NewestRow(g)
  BY Inserted DEF HistoryInv
<1>2. /\ pc[w] = "fresh" /\ pc'[w] = "bound" /\ row'[w] = r
      /\ message'[w] = message[w] /\ message[w][2] = 0
      /\ status'[r] = "running"
      /\ UNCHANGED <<kind, owed, queue, attempts, duplicates, faults>>
  BY <1>1
  DEF InsertRow, TypeOK, HistoryInv, FreshIsFirst, eventVars, boundVars
<1>3. OthersStay(w)
  BY <1>1 DEF InsertRow, OthersStay, TypeOK
<1>4. /\ Total(Works(e), Workers)'
           = Total(Works(e), Workers) - ChancesAt(w, e) + ChancesAt(w, e)'
      /\ Due(e)' = Due(e) - DueAt(w, e) + DueAt(w, e)'
      /\ ChancesAt(w, e) \in Nat
  BY <1>3, WorkerCounts
<1>5. ChancesAt(w, e)' = ChancesAt(w, e)
  BY <1>2 DEF ChancesAt, At, Delivering
<1>6. Total(Waits(e), Tries)' = Total(Waits(e), Tries)
  BY <1>2, QueueSame
<1>7. Unsent(e)' <=> Unsent(e)
  BY <1>2 DEF Unsent
<1>8. Left(e)' = Left(e)
  BY <1>4, <1>5, <1>6, <1>7, Sums DEF Left
<1>9. Credit' = Credit
  BY <1>2, CreditSteps
<1>10. CASE e = f
  <2>1. First(w, e)'
    BY <1>1, <1>2, <1>10 DEF First, At
  <2>2. Short(e)' = 0
    BY <2>1 DEF Short, Reserve
  <2>3. ~Closed(e)'
    BY <1>1, <1>2, <1>10 DEF Closed, TERMINAL_TASK_STATUSES
  <2> QED
    BY <1>2, <1>8, <1>9, <2>2, <2>3, Sums DEF Pays, PaysDue, PaysLeft
<1>11. CASE e # f
  <2>1. ~At(w, e) /\ ~At(w, e)'
    BY <1>1, <1>11 DEF At
  <2>2. DueAt(w, e) = 0 /\ DueAt(w, e)' = 0
    BY <2>1 DEF DueAt
  <2>3. \A v \in Workers : First(v, e)' <=> First(v, e)
    <3>1. \A v \in Workers : v # w => (First(v, e)' <=> First(v, e))
      BY <1>1, <1>3, <1>11, OthersFirst
    <3> QED
      BY <2>1, <3>1 DEF First
  <2>4. Short(e)' = Short(e)
    BY <1>2, <1>7, <2>3 DEF Short, Reserve
  <2> QED
    BY <1>2, <1>4, <1>8, <1>9, <2>2, <2>4, Sums
    DEF Pays, PaysDue, PaysLeft
<1> QED
  BY <1>10, <1>11

\* A worker that goes on with its row, and may begin a delivery.
LEMMA GoOnPays ==
  ASSUME TypeOK, TypeOK', NEW w \in Workers, NEW stage,
         pc[w] \notin {"idle", "fresh"},
         stage \in Stages \ {"idle", "fresh", "rebind"},
         pc' = [pc EXCEPT ![w] = stage],
         UNCHANGED <<kind, owed, queue, message, row, rowVars, duplicates,
                     faults>>,
         \/ /\ UNCHANGED attempts
            /\ \/ pc[w] = "rebind" /\ stage = "bound"
               \/ pc[w] \in Delivering /\ stage \in Delivering
         \/ /\ pc[w] = "bound" /\ stage = "posting"
            /\ attempts' = [attempts EXCEPT ![message[w][1]] = @ + 1],
         NEW e \in Events
  PROVE  Pays(e)
<1>1. PICK f \in Events, n \in Tries : message[w] = <<f, n>>
  BY DEF TypeOK, Messages
<1>2. /\ pc'[w] = stage /\ message'[w] = message[w] /\ row'[w] = row[w]
      /\ OthersStay(w)
  BY DEF TypeOK, OthersStay
<1>3. NewestRow(e)' = NewestRow(e)
  BY SamePresence
<1>4. /\ Total(Works(e), Workers)'
           = Total(Works(e), Workers) - ChancesAt(w, e) + ChancesAt(w, e)'
      /\ Due(e)' = Due(e) - DueAt(w, e) + DueAt(w, e)'
      /\ ChancesAt(w, e) \in Nat /\ ChancesAt(w, e)' \in Nat
      /\ DueAt(w, e) \in Nat /\ DueAt(w, e)' \in Nat
      /\ \A v \in Workers : v # w => (First(v, e)' <=> First(v, e))
  BY <1>2, <1>3, WorkerCounts, OthersFirst
<1>5. First(w, e)' <=> First(w, e)
  BY <1>2, <1>3 DEF First, At
<1>6. /\ attempts'[e] + ChancesAt(w, e)' = attempts[e] + ChancesAt(w, e)
      /\ attempts'[e] + DueAt(w, e)' = attempts[e] + DueAt(w, e)
  <2>1. Chances(n) \in Nat /\ attempts[e] \in Nat
    BY ChancesType, Sums
  <2>2. CASE e # f
    <3>1. attempts'[e] = attempts[e]
      BY <1>1, <2>2 DEF TypeOK
    <3>2. ~At(w, e) /\ ~At(w, e)'
      BY <1>1, <1>2, <2>2 DEF At
    <3> QED
      BY <3>1, <3>2 DEF ChancesAt, DueAt
  <2>3. CASE e = f
    <3>1. At(w, e) /\ At(w, e)'
      BY <1>1, <1>2, <2>3 DEF At
    <3>2. CASE /\ UNCHANGED attempts
               /\ pc[w] = "rebind" /\ stage = "bound"
      BY <1>2, <3>1, <3>2 DEF ChancesAt, DueAt, Delivering
    <3>3. CASE /\ UNCHANGED attempts
               /\ pc[w] \in Delivering /\ stage \in Delivering
      BY <1>2, <3>1, <3>3 DEF ChancesAt, DueAt, Delivering
    <3>4. CASE /\ pc[w] = "bound" /\ stage = "posting"
               /\ attempts' = [attempts EXCEPT ![message[w][1]] = @ + 1]
      <4>1. attempts'[e] = attempts[e] + 1
        BY <1>1, <2>3, <3>4 DEF TypeOK
      <4>2. ChancesAt(w, e) = Chances(n) /\ ChancesAt(w, e)' = Chances(n) - 1
        BY <1>1, <1>2, <3>1, <3>4 DEF ChancesAt, Delivering
      <4>3. DueAt(w, e) = 1 /\ DueAt(w, e)' = 0
        BY <1>2, <3>1, <3>4 DEF DueAt
      <4> QED
        BY <2>1, <4>1, <4>2, <4>3
    <3> QED
      BY <3>2, <3>3, <3>4
  <2> QED
    BY <2>2, <2>3
<1>7. Total(Waits(e), Tries)' = Total(Waits(e), Tries)
  BY QueueSame
<1>8. Unsent(e)' <=> Unsent(e)
  BY DEF Unsent
<1>9. attempts'[e] + Left(e)' = attempts[e] + Left(e)
  BY <1>4, <1>6, <1>7, <1>8, Sums DEF Left
<1>10. Short(e)' = Short(e)
  BY <1>4, <1>5, <1>8 DEF Short, Reserve
<1>11. Credit' = Credit
  BY CreditSteps
<1> QED
  BY <1>4, <1>6, <1>9, <1>10, <1>11, Sums DEF Pays, PaysDue, PaysLeft

\* All steps.
LEMMA StepPays ==
  ASSUME TypeOK, TypeOK', HistoryInv, [Next]_vars, NEW e \in Events
  PROVE  Pays(e)
<1>1. CASE \/ UNCHANGED vars
           \/ CreateWebhook \/ UpdateWebhook \/ DeleteWebhook
           \/ \E f \in Events : SweepEnrolled(f)
           \/ \E r \in Rows : SweepRunning(r)
  <2>1. RowsQuiet
    BY <1>1
    DEF vars, CreateWebhook, UpdateWebhook, DeleteWebhook, SweepEnrolled,
        SweepRunning, RowsQuiet, Ends, TERMINAL_TASK_STATUSES
  <2>2. UNCHANGED <<kind, owed, queue, workerVars, attempts, duplicates,
                    faults>>
    BY <1>1
    DEF vars, eventVars, boundVars, CreateWebhook, UpdateWebhook,
        DeleteWebhook, SweepEnrolled, SweepRunning
  <2> QED
    BY <2>1, <2>2, QuietPays
<1>2. CASE TestWebhook \/ EnrollSessionAnalyzed \/ EnrollDailySummary
  <2>1. PICK f \in Events : Produce(f)
    BY <1>2, BoundsAssumption
    DEF TestWebhook, DispatchWebhook, EnrollSessionAnalyzed,
        EnrollDailySummary, EnqueueCommand, NextEvent, Produce
  <2>2. Unsent(f) /\ \A g \in Events : g # f => (Unsent(g)' <=> Unsent(g))
    BY <2>1 DEF Produce, Unsent, TypeOK
  <2>3. UNCHANGED <<rowVars, workerVars, queue, attempts, duplicates, faults>>
    BY <1>2
    DEF TestWebhook, EnrollSessionAnalyzed, EnrollDailySummary, boundVars
  <2> QED
    BY <2>2, <2>3, SettlePays
<1>3. ASSUME NEW f \in Events, WriteOff(f)
      PROVE  Pays(e)
  <2>1. Unsent(f) /\ \A g \in Events : g # f => (Unsent(g)' <=> Unsent(g))
    BY <1>3 DEF WriteOff, Unsent
  <2> QED
    BY <1>3, <2>1, SettlePays DEF WriteOff
<1>4. ASSUME NEW f \in Events, HandOver(f) \/ Redeliver(f)
      PROVE  Pays(e)
  BY <1>4, HandOverPays, RedeliverPays DEF HistoryInv
<1>5. ASSUME NEW m \in Messages, Discard(m) \/ \E w \in Workers : Stale(w, m)
      PROVE  Pays(e)
  <2>1. PICK f \in Events, n \in Tries : m = <<f, n>>
    BY DEF Messages
  <2>2. TakeOff(f, n)
    BY <1>5, <2>1 DEF Discard, Stale, Take, TakeOff
  <2> QED
    BY <1>5, <2>2, DropPays DEF Discard, Stale
<1>6. ASSUME NEW w \in Workers,
             \/ \E m \in Messages : BindRead(w, m)
             \/ Undelivered(w) \/ LoseWorker(w) \/ InsertRow(w)
      PROVE  Pays(e)
  BY <1>6, BindReadPays, UndeliveredPays, LosePays, InsertRowPays
<1>7. ASSUME NEW w \in Workers,
             \/ KeyTooLong(w) \/ LoseTheKey(w) \/ SkipDelivery(w)
             \/ Delivered(w) \/ Kill(w)
      PROVE  Pays(e)
  <2>1. RowsQuiet
    BY <1>7
    DEF KeyTooLong, LoseTheKey, SkipDelivery, Delivered, Kill, RowsQuiet,
        Ends, TERMINAL_TASK_STATUSES, TypeOK, HistoryInv, Bound
  <2>2. /\ Leave(w)
        /\ UNCHANGED <<kind, owed, queue, attempts, duplicates, faults>>
    BY <1>7
    DEF KeyTooLong, LoseTheKey, SkipDelivery, Delivered, Kill, eventVars,
        boundVars
  <2> QED
    BY <2>1, <2>2, EndPays
<1>8. ASSUME NEW w \in Workers,
             Rebind(w) \/ StartDelivery(w) \/ RefuseAddress(w) \/ Post(w)
      PROVE  Pays(e)
  <2>1. UNCHANGED <<kind, owed, queue, message, row, rowVars, duplicates,
                    faults>>
    BY <1>8
    DEF Rebind, StartDelivery, RefuseAddress, Post, eventVars, boundVars
  <2>2. PICK stage \in Stages \ {"idle", "fresh", "rebind"} :
          /\ pc[w] \notin {"idle", "fresh"}
          /\ pc' = [pc EXCEPT ![w] = stage]
          /\ \/ /\ UNCHANGED attempts
                /\ \/ pc[w] = "rebind" /\ stage = "bound"
                   \/ pc[w] \in Delivering /\ stage \in Delivering
             \/ /\ pc[w] = "bound" /\ stage = "posting"
                /\ attempts' = [attempts EXCEPT ![message[w][1]] = @ + 1]
    BY <1>8
    DEF Rebind, StartDelivery, RefuseAddress, Post, Stages, Delivering
  <2> QED
    BY <2>1, <2>2, GoOnPays
<1> QED
  BY <1>1, <1>2, <1>3, <1>4, <1>5, <1>6, <1>7, <1>8 DEF Next

LEMMA PaidInvStep ==
  ASSUME TypeOK, TypeOK', HistoryInv, [Next]_vars, PaidInv
  PROVE  PaidInv'
<1>1. ASSUME NEW e \in Events
      PROVE  /\ Closed(e)' => attempts'[e] + Due(e)' <= 1 + Credit'
             /\ ~Closed(e)' =>
                  attempts'[e] + Left(e)' + Short(e)'
                    <= 1 + MaxRetries + Credit'
  <2>1. Pays(e)
    BY StepPays
  <2>2. Due(e) + MaxRetries <= Left(e) + Short(e)
    BY Compare
  <2>3. Closed(e) => Closed(e)'
    BY ClosedStays
  <2>4. /\ Closed(e) => attempts[e] + Due(e) <= 1 + Credit
        /\ ~Closed(e) =>
             attempts[e] + Left(e) + Short(e) <= 1 + MaxRetries + Credit
    BY DEF PaidInv
  <2>5. attempts[e] + Due(e) <= 1 + Credit
    BY <2>2, <2>4, Sums
  <2> QED
    BY <2>1, <2>3, <2>4, <2>5, Sums DEF Pays, PaysDue, PaysLeft
<1> QED
  BY <1>1 DEF PaidInv

LEMMA PaidInvInit == Init => PaidInv
<1> SUFFICES ASSUME Init, NEW e \in Events
             PROVE  /\ ~Closed(e)
                    /\ attempts[e] + Left(e) + Short(e)
                         <= 1 + MaxRetries + Credit
  BY DEF PaidInv
<1>1. ~Closed(e)
  BY DEF Init, Closed, NewestRow, RowsOf, TERMINAL_TASK_STATUSES
<1>2. Total(Waits(e), Tries) = 0
  <2>1. \A n \in Tries : Waits(e)[n] = 0
    BY ChancesType DEF Waits, Init, Messages
  <2> QED
    BY <2>1, TotalOfNothing
<1>3. Total(Works(e), Workers) = 0
  <2>1. \A w \in Workers : Works(e)[w] = 0
    BY DEF Works, ChancesAt, At, Init
  <2> QED
    BY <2>1, TotalOfNothing
<1>4. Unsent(e) /\ Short(e) = 0
  BY DEF Init, Unsent, Short, Reserve
<1>5. attempts[e] = 0 /\ Credit = 0
  BY BoundsAssumption DEF Init, Credit
<1> QED
  BY <1>1, <1>2, <1>3, <1>4, <1>5, ChancesType DEF Left

\* An event is delivered once, once more for each worker lost in it, and as
\* often as a message has tries for each that is delivered twice: however
\* deliveries, retries, rows and the heartbeat's time-outs fall
\* (send_webhook_task and bind_or_create_running_task_log).
THEOREM AttemptsPaid == Spec => []AttemptsArePaid
<1> DEFINE Inv == TypeOK /\ HistoryInv /\ PaidInv
<1>1. Init => Inv
  BY InitTyped, HistoryInvInit, PaidInvInit
<1>2. Inv /\ [Next]_vars => Inv'
  BY StepTyped, HistoryInvStep, PaidInvStep
<1>3. Inv => AttemptsArePaid
  <2>1. ASSUME Inv, NEW e \in Events
        PROVE  attempts[e] <= 1 + faults + duplicates * (1 + MaxRetries)
    <3>1. Due(e) + MaxRetries <= Left(e) + Short(e)
      BY <2>1, Compare
    <3>2. /\ Due(e) \in Nat /\ Left(e) \in Nat /\ Short(e) \in Nat
          /\ attempts[e] \in Nat /\ Credit \in Nat /\ MaxRetries \in Nat
      BY <2>1, CountsTyped, ChancesType DEF AllCounted, Counted
    <3>3. attempts[e] <= 1 + Credit
      BY <2>1, <3>1, <3>2 DEF PaidInv
    <3>4. 1 + Credit = 1 + faults + duplicates * (1 + MaxRetries)
      <4>1. faults \in Nat /\ duplicates \in Nat /\ 1 + MaxRetries \in Nat
        BY <2>1, BoundsAssumption DEF TypeOK
      <4>2. duplicates * (1 + MaxRetries) \in Nat
        BY <4>1
      <4> QED
        BY <4>1, <4>2 DEF Credit
    <3> QED
      BY <3>3, <3>4
  <2> QED
    BY <2>1 DEF AttemptsArePaid
<1> QED
  BY <1>1, <1>2, <1>3, PTL DEF Spec

=============================================================================
