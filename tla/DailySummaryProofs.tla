------------------------ MODULE DailySummaryProofs --------------------------
(***************************************************************************)
(* Theorems about the daily summary of a date, for every number of rows,   *)
(* attempts, workers, duplicate deliveries and faults.                     *)
(***************************************************************************)
EXTENDS DailySummary, TLAPS

LEMMA FirstRow == 1 \in Rows
  BY BoundsAssumption DEF Rows

LEMMA Bounds ==
  /\ Rows \subseteq Nat
  /\ Attempts \subseteq Nat
  /\ Attempts \subseteq 0..MaxAttempts
  /\ 0 \in 0..MaxAttempts
  /\ 0 \notin Attempts
  BY BoundsAssumption DEF Rows, Attempts

-----------------------------------------------------------------------------
(***************************************************************************)
(* Type correctness                                                        *)
(***************************************************************************)

WorkersTyped ==
  /\ pc \in [Workers -> Stages]
  /\ row \in [Workers -> Rows]
  /\ att \in [Workers -> 0..MaxAttempts]
  /\ \A w \in Workers :
       pc[w] \in {"claimed", "asking", "publishing"} => att[w] \in Attempts

LEMMA LeaveTyped ==
  ASSUME TypeOK, NEW w \in Workers, Leave(w)
  PROVE  WorkersTyped'
  BY FirstRow, Bounds DEF TypeOK, Leave, Stages, WorkersTyped

LEMMA GotoTyped ==
  ASSUME TypeOK, NEW w \in Workers, NEW stage \in Stages, Goto(w, stage),
         stage = "looked" \/ pc[w] \in {"claimed", "asking"}
  PROVE  WorkersTyped'
  BY DEF TypeOK, Goto, Stages, WorkersTyped

LEMMA FinalizeTyped ==
  ASSUME TypeOK, NEW r, NEW final \in TERMINAL_TASK_STATUSES,
         Finalize(r, final)
  PROVE  status' \in [Rows -> TaskStatus \cup {"absent"}]
  BY DEF TypeOK, Finalize, TaskStatus

LEMMA MarkFailedTyped ==
  ASSUME TypeOK, NEW a, MarkFailed(a)
  PROVE  attempt' \in [Attempts -> AttemptStatus]
  BY DEF TypeOK, MarkFailed, AttemptStatus, TERMINAL_STATUSES

LEMMA DispatchTyped ==
  ASSUME TypeOK, (\E d \in BOOLEAN : Dispatch(d)) \/ Schedule
  PROVE  TypeOK'
<1>1. PICK r \in Rows : \E d \in BOOLEAN : InsertPending(r, d)
  BY DEF Dispatch, Schedule, NextRow
<1>2. PICK d \in BOOLEAN : InsertPending(r, d)
  BY <1>1
<1>3. guard' \in BOOLEAN
  BY DEF Dispatch, Schedule, TypeOK
<1>4. /\ status' \in [Rows -> TaskStatus \cup {"absent"}]
      /\ queue' \in [Rows -> Nat]
      /\ dated' \subseteq Rows
  BY <1>2 DEF TypeOK, InsertPending, TaskStatus, ACTIVE
<1> QED
  BY <1>2, <1>3, <1>4
  DEF TypeOK, InsertPending, attemptVars, summaryVars, workerVars

LEMMA BrokerTyped ==
  ASSUME TypeOK,
         NEW r \in Rows, Redeliver(r) \/ Discard(r) \/ Stop(r) \/ TimeOut(r)
  PROVE  TypeOK'
<1> USE DEF TypeOK, rowVars, attemptVars, summaryVars, workerVars
<1>1. CASE Redeliver(r)
  <2>1. queue' \in [Rows -> Nat] /\ duplicates' \in 0..MaxDuplicates
    BY <1>1, BoundsAssumption DEF Redeliver
  <2> QED
    BY <1>1, <2>1 DEF Redeliver
<1>2. CASE Discard(r)
  <2>1. queue' \in [Rows -> Nat]
    BY <1>2 DEF Discard
  <2> QED
    BY <1>2, <2>1 DEF Discard
<1>3. CASE Stop(r)
  <2>1. status' \in [Rows -> TaskStatus \cup {"absent"}]
    BY <1>3, FinalizeTyped DEF Stop, TERMINAL_TASK_STATUSES
  <2> QED
    BY <1>3, <2>1 DEF Stop
<1>4. CASE TimeOut(r)
  <2>1. status' \in [Rows -> TaskStatus \cup {"absent"}]
    BY <1>4, FinalizeTyped DEF TimeOut, TERMINAL_TASK_STATUSES
  <2> QED
    BY <1>4, <2>1 DEF TimeOut
<1> QED
  BY <1>1, <1>2, <1>3, <1>4

LEMMA BindTyped ==
  ASSUME TypeOK, NEW w \in Workers, Bind(w)
  PROVE  TypeOK'
<1> USE DEF TypeOK, attemptVars, summaryVars, workerVars
<1>1. PICK r \in Rows :
        /\ queue[r] > 0
        /\ queue' = [queue EXCEPT ![r] = @ - 1]
        /\ IF Terminal(r) \/ Blocking(r) # {}
           THEN UNCHANGED <<status, dated, workerVars>>
           ELSE /\ status' = [s \in Rows |->
                                IF s = r THEN "running"
                                ELSE IF s \in Superseded(r) THEN "cancelled"
                                ELSE status[s]]
                /\ dated' = dated \cup {r}
                /\ pc' = [pc EXCEPT ![w] = "bound"]
                /\ row' = [row EXCEPT ![w] = r]
                /\ UNCHANGED att
  BY DEF Bind
<1>2. queue' \in [Rows -> Nat]
  BY <1>1
<1>3. CASE Terminal(r) \/ Blocking(r) # {}
  BY <1>1, <1>2, <1>3 DEF Bind
<1>4. CASE ~(Terminal(r) \/ Blocking(r) # {})
  <2>1. status' \in [Rows -> TaskStatus \cup {"absent"}]
    BY <1>1, <1>4 DEF TaskStatus, ACTIVE, TERMINAL_TASK_STATUSES
  <2>2. WorkersTyped'
    BY <1>1, <1>4 DEF WorkersTyped, Stages
  <2> QED
    BY <1>1, <1>2, <1>4, <2>1, <2>2 DEF Bind, WorkersTyped
<1> QED
  BY <1>3, <1>4

LEMMA ClaimTyped ==
  ASSUME TypeOK, NEW w \in Workers,
         NoTimezone(w) \/ Look(w) \/ Claim(w) \/ Cancelled(w) \/ ClaimCommit(w)
           \/ GiveUp(w)
  PROVE  TypeOK'
<1> USE DEF TypeOK, rowVars, attemptVars, summaryVars
<1>1. CASE NoTimezone(w)
  BY <1>1, LeaveTyped, FinalizeTyped
  DEF NoTimezone, WorkersTyped, TERMINAL_TASK_STATUSES
<1>2. CASE Look(w)
  <2>1. CASE Running # {}
    BY <1>2, <2>1, LeaveTyped, FinalizeTyped
    DEF Look, WorkersTyped, TERMINAL_TASK_STATUSES
  <2>2. CASE Running = {}
    BY <1>2, <2>2, GotoTyped DEF Look, WorkersTyped, Stages
  <2> QED
    BY <2>1, <2>2
<1>3. CASE Claim(w)
  <2>1. PICK a \in Attempts : att' = [att EXCEPT ![w] = a]
    BY <1>3 DEF Claim, Running, NextAttempt
  <2>2. WorkersTyped'
    BY <1>3, <2>1, Bounds DEF Claim, WorkersTyped, Stages
  <2> QED
    BY <1>3, <2>2 DEF Claim, WorkersTyped
<1>4. CASE Cancelled(w)
  BY <1>4, LeaveTyped, FinalizeTyped, Bounds
  DEF Cancelled, WorkersTyped, TERMINAL_TASK_STATUSES
<1>5. CASE ClaimCommit(w)
  <2>1. WorkersTyped'
    BY <1>5, GotoTyped DEF ClaimCommit, Stages
  <2>2. /\ attempt' \in [Attempts -> AttemptStatus]
        /\ owner' \in [Attempts -> Rows]
    BY <1>5 DEF ClaimCommit, AttemptStatus
  <2> QED
    BY <1>5, <2>1, <2>2 DEF ClaimCommit, WorkersTyped
<1>6. CASE GiveUp(w)
  BY <1>6, LeaveTyped DEF GiveUp, WorkersTyped
<1> QED
  BY <1>1, <1>2, <1>3, <1>4, <1>5, <1>6

LEMMA PublicationTyped ==
  ASSUME TypeOK, NEW w \in Workers,
         Fails(w) \/ LoadAttempt(w) \/ Mismatch(w) \/ Rejected(w) \/ Publish(w)
           \/ LoseWorker(w) \/ Kill(w)
  PROVE  TypeOK'
<1> USE DEF TypeOK, rowVars, attemptVars, summaryVars
<1>1. CASE Fails(w)
  BY <1>1, LeaveTyped, FinalizeTyped, MarkFailedTyped
  DEF Fails, WorkersTyped, TERMINAL_TASK_STATUSES
<1>2. CASE LoadAttempt(w)
  BY <1>2, GotoTyped DEF LoadAttempt, WorkersTyped, Stages
<1>3. CASE Mismatch(w)
  BY <1>3, LeaveTyped, FinalizeTyped, MarkFailedTyped
  DEF Mismatch, WorkersTyped, TERMINAL_TASK_STATUSES
<1>4. CASE Rejected(w)
  BY <1>4, LeaveTyped, FinalizeTyped
  DEF Rejected, WorkersTyped, TERMINAL_TASK_STATUSES
<1>5. CASE Publish(w)
  <2>1. WorkersTyped' /\ status' \in [Rows -> TaskStatus \cup {"absent"}]
    BY <1>5, LeaveTyped, FinalizeTyped DEF Publish, TERMINAL_TASK_STATUSES
  <2>2. /\ attempt' \in [Attempts -> AttemptStatus]
        /\ notified' \in [Attempts -> Nat]
        /\ summary' \in 0..MaxAttempts
    BY <1>5, Bounds DEF Publish, AttemptStatus, TERMINAL_STATUSES
  <2> QED
    BY <1>5, <2>1, <2>2 DEF Publish, WorkersTyped
<1>6. CASE LoseWorker(w)
  <2>1. queue' \in [Rows -> Nat] /\ faults' \in 0..MaxFaults
    BY <1>6, BoundsAssumption DEF LoseWorker
  <2> QED
    BY <1>6, <2>1, LeaveTyped DEF LoseWorker, WorkersTyped
<1>7. CASE Kill(w)
  BY <1>7, LeaveTyped DEF Kill, WorkersTyped
<1> QED
  BY <1>1, <1>2, <1>3, <1>4, <1>5, <1>6, <1>7

LEMMA TypeOKInit == Init => TypeOK
<1> SUFFICES ASSUME Init
             PROVE  TypeOK
  OBVIOUS
<1>1. /\ status \in [Rows -> TaskStatus \cup {"absent"}]
      /\ queue \in [Rows -> Nat]
      /\ dated \subseteq Rows /\ cancelReq \subseteq Rows
      /\ revoked \subseteq Rows
  BY DEF Init
<1>2. /\ attempt \in [Attempts -> AttemptStatus]
      /\ owner \in [Attempts -> Rows]
      /\ notified \in [Attempts -> Nat]
  BY FirstRow DEF Init, AttemptStatus
<1>3. /\ summary \in 0..MaxAttempts /\ duplicates \in 0..MaxDuplicates
      /\ faults \in 0..MaxFaults
  BY BoundsAssumption DEF Init
<1>4. WorkersTyped
  BY FirstRow, Bounds DEF Init, WorkersTyped, Stages
<1> QED
  BY <1>1, <1>2, <1>3, <1>4 DEF TypeOK, WorkersTyped, Init

LEMMA TypeOKStep == TypeOK /\ [Next]_vars => TypeOK'
<1> SUFFICES ASSUME TypeOK, [Next]_vars
             PROVE  TypeOK'
  OBVIOUS
<1>1. CASE UNCHANGED vars
  BY <1>1
  DEF TypeOK, vars, rowVars, attemptVars, summaryVars, workerVars
<1>2. CASE Next
  BY <1>2, DispatchTyped, BrokerTyped, BindTyped, ClaimTyped,
     PublicationTyped DEF Next
<1> QED
  BY <1>1, <1>2

\* Every variable keeps its type.
THEOREM TypeCorrect == Spec => []TypeOK
<1> QED
  BY TypeOKInit, TypeOKStep, PTL DEF Spec

-----------------------------------------------------------------------------
(***************************************************************************)
(* The inductive invariant.  Attempts follow one another: all before one   *)
(* that exists are finished, so only the latest can be running.  An insert *)
(* that is not committed yet is the next attempt, and the only one; and a  *)
(* worker that publishes works on its own row's attempt.                   *)
(***************************************************************************)
AttemptsInOrder ==
  \A a, b \in Attempts :
    b < a /\ attempt[a] # "none" => attempt[b] \in TERMINAL_STATUSES

OneClaim ==
  \A w \in Workers :
    Claiming(w) =>
      /\ \A b \in Attempts : b < att[w] => attempt[b] \in TERMINAL_STATUSES
      /\ \A v \in Workers : Claiming(v) => v = w

PublishersOwn ==
  \A w \in Workers :
    /\ pc[w] \in {"asking", "publishing"} => attempt[att[w]] # "none"
    /\ pc[w] = "publishing" => owner[att[w]] = row[w]

SlotInv == AttemptsInOrder /\ OneClaim /\ PublishersOwn
OutcomeInv == NotifiedOnce /\ SummaryIsLatest /\ SuccessIsOwn
IInv == TypeOK /\ SlotInv /\ OutcomeInv

-----------------------------------------------------------------------------
(***************************************************************************)
(* Steps that change no attempt                                            *)
(***************************************************************************)

\* A worker that stays where it was, or goes where it holds no attempt.
HoldsNoMore(v) ==
  \/ pc'[v] = pc[v] /\ row'[v] = row[v] /\ att'[v] = att[v]
  \/ pc'[v] \in {"idle", "bound", "looked"}

\* Workers who let go of their attempts disturb nobody.
LEMMA QuietSlots ==
  ASSUME TypeOK, TypeOK', SlotInv, UNCHANGED attemptVars,
         \A v \in Workers : HoldsNoMore(v)
  PROVE  SlotInv'
<1>1. AttemptsInOrder'
  BY DEF SlotInv, AttemptsInOrder, attemptVars
<1>2. OneClaim'
  BY DEF SlotInv, OneClaim, Claiming, HoldsNoMore, attemptVars, TypeOK
<1>3. PublishersOwn'
  BY DEF SlotInv, PublishersOwn, HoldsNoMore, attemptVars, TypeOK
<1> QED
  BY <1>1, <1>2, <1>3 DEF SlotInv

\* No row reports a success that did not report it before.
NoNewSuccess ==
  \A r \in Rows : status'[r] = "success" => status[r] = "success"

LEMMA QuietOutcome ==
  ASSUME TypeOK, TypeOK', OutcomeInv, UNCHANGED attemptVars,
         UNCHANGED notified, summary' \in {0, summary}, NoNewSuccess
  PROVE  OutcomeInv'
<1>1. NotifiedOnce'
  BY DEF OutcomeInv, NotifiedOnce, attemptVars
<1>2. SummaryIsLatest'
  BY DEF OutcomeInv, SummaryIsLatest, attemptVars
<1>3. SuccessIsOwn'
  BY DEF OutcomeInv, SuccessIsOwn, NoNewSuccess, attemptVars
<1> QED
  BY <1>1, <1>2, <1>3 DEF OutcomeInv

LEMMA LeaveHoldsNoMore ==
  ASSUME TypeOK, NEW w \in Workers, Leave(w)
  PROVE  \A v \in Workers : HoldsNoMore(v)
  BY DEF TypeOK, Leave, HoldsNoMore

LEMMA FinalizeNoSuccess ==
  ASSUME TypeOK, NEW r \in Rows, NEW final, final # "success",
         Finalize(r, final)
  PROVE  NoNewSuccess
  BY DEF TypeOK, Finalize, NoNewSuccess

\* Steps of which only the workers' stages and the rows' statuses matter.
Quiet ==
  /\ UNCHANGED attemptVars
  /\ UNCHANGED notified
  /\ summary' \in {0, summary}
  /\ NoNewSuccess
  /\ \A v \in Workers : HoldsNoMore(v)

LEMMA StaysQuiet ==
  ASSUME UNCHANGED workerVars
  PROVE  \A v \in Workers : HoldsNoMore(v)
  BY DEF HoldsNoMore, workerVars

LEMMA SameStatus ==
  ASSUME UNCHANGED status
  PROVE  NoNewSuccess
  BY DEF NoNewSuccess

LEMMA DispatchQuiet ==
  ASSUME TypeOK, (\E d \in BOOLEAN : Dispatch(d)) \/ Schedule
  PROVE  Quiet
<1>1. PICK r \in Rows : \E d \in BOOLEAN : InsertPending(r, d)
  BY DEF Dispatch, Schedule, NextRow
<1>2. PICK d \in BOOLEAN : InsertPending(r, d)
  BY <1>1
<1>3. NoNewSuccess
  BY <1>2 DEF InsertPending, NoNewSuccess, TypeOK
<1> QED
  BY <1>2, <1>3, StaysQuiet DEF InsertPending, Quiet, summaryVars

LEMMA BrokerQuiet ==
  ASSUME TypeOK,
         NEW r \in Rows, Redeliver(r) \/ Discard(r) \/ Stop(r) \/ TimeOut(r)
  PROVE  Quiet
<1>1. NoNewSuccess
  BY SameStatus, FinalizeNoSuccess DEF Redeliver, Discard, Stop, TimeOut, rowVars
<1>2. UNCHANGED <<attemptVars, summaryVars, workerVars>>
  BY DEF Redeliver, Discard, Stop, TimeOut
<1> QED
  BY <1>1, <1>2, StaysQuiet DEF Quiet, summaryVars

LEMMA BindQuiet ==
  ASSUME TypeOK, NEW w \in Workers, Bind(w)
  PROVE  Quiet
<1>1. PICK r \in Rows :
        IF Terminal(r) \/ Blocking(r) # {}
        THEN UNCHANGED <<status, dated, workerVars>>
        ELSE /\ status' = [s \in Rows |->
                             IF s = r THEN "running"
                             ELSE IF s \in Superseded(r) THEN "cancelled"
                             ELSE status[s]]
             /\ pc' = [pc EXCEPT ![w] = "bound"]
             /\ row' = [row EXCEPT ![w] = r]
             /\ UNCHANGED att
  BY DEF Bind
<1>2. NoNewSuccess
  BY <1>1 DEF NoNewSuccess
<1>3. \A v \in Workers : HoldsNoMore(v)
  BY <1>1 DEF HoldsNoMore, TypeOK, workerVars
<1> QED
  BY <1>2, <1>3 DEF Bind, Quiet, summaryVars

LEMMA TaskQuiet ==
  ASSUME TypeOK, NEW w \in Workers,
         \/ NoTimezone(w) \/ Look(w) \/ Cancelled(w) \/ GiveUp(w)
         \/ Rejected(w) \/ LoseWorker(w) \/ Kill(w)
  PROVE  Quiet
<1>1. row[w] \in Rows
  BY DEF TypeOK
<1>2. NoNewSuccess
  BY <1>1, SameStatus, FinalizeNoSuccess
  DEF NoTimezone, Look, Cancelled, GiveUp, Rejected, LoseWorker, Kill, rowVars
<1>3. Leave(w) \/ (Look(w) /\ Goto(w, "looked"))
  BY DEF NoTimezone, Look, Cancelled, GiveUp, Rejected, LoseWorker, Kill
<1>4. \A v \in Workers : HoldsNoMore(v)
  BY <1>3, LeaveHoldsNoMore DEF Goto, HoldsNoMore, TypeOK
<1>5. /\ UNCHANGED attemptVars
      /\ UNCHANGED notified
      /\ summary' \in {0, summary}
  BY DEF NoTimezone, Look, Cancelled, GiveUp, Rejected, LoseWorker, Kill,
     summaryVars
<1> QED
  BY <1>2, <1>4, <1>5 DEF Quiet

LEMMA QuietInv ==
  ASSUME IInv, TypeOK', Quiet
  PROVE  SlotInv' /\ OutcomeInv'
  BY QuietSlots, QuietOutcome DEF IInv, Quiet

-----------------------------------------------------------------------------
(***************************************************************************)
(* Steps that claim, fail or finish an attempt                             *)
(***************************************************************************)

\* The claim's insert: no attempt is running and no other insert is open,
\* so every earlier attempt is finished.
LEMMA ClaimInv ==
  ASSUME IInv, TypeOK', NEW w \in Workers, Claim(w)
  PROVE  SlotInv' /\ OutcomeInv'
<1> USE DEF IInv, TypeOK
<1>1. PICK a \in Attempts : /\ att' = [att EXCEPT ![w] = a]
                            /\ attempt[a] = "running" \/ a \in NextAttempt
  BY DEF Claim, Running, NextAttempt
<1>2. /\ UNCHANGED <<attempt, owner, summary, notified, status, row>>
      /\ pc' = [pc EXCEPT ![w] = "claimed"]
  BY DEF Claim, attemptVars, summaryVars, rowVars
<1>3. OutcomeInv'
  BY <1>2, QuietOutcome, SameStatus DEF attemptVars
<1>4. AttemptsInOrder'
  BY <1>2 DEF SlotInv, AttemptsInOrder
<1>5. PublishersOwn'
  BY <1>1, <1>2 DEF SlotInv, PublishersOwn
<1>6. ASSUME NEW v \in Workers, Claiming(v)'
      PROVE  /\ v = w
             /\ \A b \in Attempts : b < att'[v] => attempt'[b] \in TERMINAL_STATUSES
  <2>1. v = w
    BY <1>1, <1>2, <1>6 DEF Claim, Claiming
  <2>2. att'[w] = a /\ attempt[a] = "none"
    BY <1>1, <1>2, <1>6, <2>1 DEF Claiming
  <2>3. a \in NextAttempt /\ Running = {}
    <3>1. a \in NextAttempt
      BY <1>1, <2>2
    <3>2. att'[w] \in IF Running # {} THEN Running ELSE NextAttempt
      BY DEF Claim
    <3> QED
      BY <2>2, <3>1, <3>2 DEF Running
  <2>4. \A b \in Attempts : b < a => attempt[b] \in TERMINAL_STATUSES
    BY <2>3 DEF NextAttempt, Running, AttemptStatus
  <2> QED
    BY <1>2, <2>1, <2>2, <2>4
<1>7. OneClaim'
  BY <1>6 DEF OneClaim
<1> QED
  BY <1>3, <1>4, <1>5, <1>7 DEF SlotInv

LEMMA ClaimCommitInv ==
  ASSUME IInv, TypeOK', NEW w \in Workers, ClaimCommit(w)
  PROVE  SlotInv' /\ OutcomeInv'
<1> USE DEF IInv, TypeOK
<1> DEFINE a == att[w]
<1>1. /\ a \in Attempts
      /\ pc[w] = "claimed"
      /\ pc' = [pc EXCEPT ![w] = "asking"]
      /\ UNCHANGED <<row, att, summary, notified, status>>
  BY DEF ClaimCommit, Goto, summaryVars, rowVars
<1>2. CASE attempt[a] # "none"
  <2>1. UNCHANGED attemptVars
    BY <1>2 DEF ClaimCommit
  <2>2. OutcomeInv'
    BY <1>1, <2>1, QuietOutcome, SameStatus
  <2>3. AttemptsInOrder'
    BY <2>1 DEF SlotInv, AttemptsInOrder, attemptVars
  <2>4. OneClaim'
    BY <1>1, <2>1 DEF SlotInv, OneClaim, Claiming, attemptVars
  <2>5. PublishersOwn'
    BY <1>1, <1>2, <2>1 DEF SlotInv, PublishersOwn, attemptVars
  <2> QED
    BY <2>2, <2>3, <2>4, <2>5 DEF SlotInv
<1>3. CASE attempt[a] = "none"
  <2>1. /\ attempt' = [attempt EXCEPT ![a] = "running"]
        /\ owner' = [owner EXCEPT ![a] = row[w]]
    BY <1>3 DEF ClaimCommit
  <2>2. Claiming(w)
    BY <1>1, <1>3 DEF Claiming
  <2>3. \A b \in Attempts : b < a => attempt[b] \in TERMINAL_STATUSES
    BY <2>2 DEF SlotInv, OneClaim
  <2>4. \A b \in Attempts : attempt[b] = "succeeded" => attempt'[b] = "succeeded"
    BY <1>1, <1>3, <2>1
  <2>5. \A b \in Attempts : attempt'[b] = "succeeded" => attempt[b] = "succeeded"
    BY <1>1, <1>3, <2>1
  <2>6. NotifiedOnce'
    BY <1>1, <2>4, <2>5 DEF OutcomeInv, NotifiedOnce
  <2>7. SummaryIsLatest'
    BY <1>1, <2>4, <2>5 DEF OutcomeInv, SummaryIsLatest, Attempts
  <2>8. SuccessIsOwn'
    <3>1. \A b \in Attempts : attempt[b] = "succeeded" => owner'[b] = owner[b]
      BY <1>1, <1>3, <2>1
    <3> QED
      BY <1>1, <2>4, <3>1 DEF OutcomeInv, SuccessIsOwn
  <2>9. AttemptsInOrder'
    <3> SUFFICES ASSUME NEW c \in Attempts, NEW b \in Attempts,
                        b < c, attempt'[c] # "none"
                 PROVE  attempt'[b] \in TERMINAL_STATUSES
      BY DEF AttemptsInOrder
    <3>1. CASE c = a
      BY <1>1, <2>1, <2>3, <3>1, Bounds
    <3>2. CASE c # a
      BY <1>1, <1>3, <2>1, <3>2 DEF SlotInv, AttemptsInOrder, TERMINAL_STATUSES
    <3> QED
      BY <3>1, <3>2
  <2>10. OneClaim'
    BY <1>1, <2>1, <2>2 DEF SlotInv, OneClaim, Claiming
  <2>11. PublishersOwn'
    <3> SUFFICES ASSUME NEW v \in Workers
                 PROVE  /\ pc'[v] \in {"asking", "publishing"} =>
                             attempt'[att'[v]] # "none"
                        /\ pc'[v] = "publishing" => owner'[att'[v]] = row'[v]
      BY DEF PublishersOwn
    <3>1. CASE v = w
      BY <1>1, <2>1, <3>1
    <3>2. CASE v # w
      BY <1>1, <1>3, <2>1, <3>2 DEF SlotInv, PublishersOwn
    <3> QED
      BY <3>1, <3>2
  <2> QED
    BY <2>6, <2>7, <2>8, <2>9, <2>10, <2>11 DEF SlotInv, OutcomeInv
<1> QED
  BY <1>2, <1>3

LEMMA LoadAttemptInv ==
  ASSUME IInv, TypeOK', NEW w \in Workers, LoadAttempt(w)
  PROVE  SlotInv' /\ OutcomeInv'
<1> USE DEF IInv, TypeOK
<1>1. /\ pc' = [pc EXCEPT ![w] = "publishing"]
      /\ attempt[att[w]] = "running" /\ owner[att[w]] = row[w]
      /\ UNCHANGED <<row, att, attempt, owner, summary, notified, status>>
  BY DEF LoadAttempt, Goto, attemptVars, summaryVars, rowVars
<1>2. OutcomeInv'
  BY <1>1, QuietOutcome, SameStatus DEF attemptVars
<1>3. AttemptsInOrder'
  BY <1>1 DEF SlotInv, AttemptsInOrder
<1>4. OneClaim'
  BY <1>1 DEF SlotInv, OneClaim, Claiming
<1>5. PublishersOwn'
  BY <1>1 DEF SlotInv, PublishersOwn
<1> QED
  BY <1>2, <1>3, <1>4, <1>5 DEF SlotInv

\* An attempt ends when its worker leaves: no other attempt's place changes.
Ends(w, final) ==
  LET a == att[w] IN
  /\ a \in Attempts
  /\ pc[w] \in {"asking", "publishing"}
  /\ final \in TERMINAL_STATUSES
  /\ attempt' = [attempt EXCEPT ![a] = IF @ = "running" THEN final ELSE @]
  /\ Leave(w)
  /\ UNCHANGED owner

LEMMA EndsSlots ==
  ASSUME TypeOK, TypeOK', SlotInv, NEW w \in Workers, NEW final, Ends(w, final)
  PROVE  SlotInv'
<1> USE DEF TypeOK
<1> DEFINE a == att[w]
<1>1. \A b \in Attempts : /\ attempt'[b] = "none" <=> attempt[b] = "none"
                          /\ attempt[b] \in TERMINAL_STATUSES =>
                               attempt'[b] \in TERMINAL_STATUSES
  BY DEF Ends, TERMINAL_STATUSES
<1>2. \A v \in Workers : HoldsNoMore(v)
  BY LeaveHoldsNoMore DEF Ends
<1>3. AttemptsInOrder'
  BY <1>1 DEF SlotInv, AttemptsInOrder
<1>4. \A v \in Workers : Claiming(v)' => Claiming(v) /\ att'[v] = att[v]
  BY <1>1, <1>2 DEF Claiming, HoldsNoMore
<1>5. OneClaim'
  BY <1>1, <1>4 DEF SlotInv, OneClaim
<1>6. PublishersOwn'
  BY <1>1, <1>2 DEF SlotInv, PublishersOwn, HoldsNoMore, Ends
<1> QED
  BY <1>3, <1>5, <1>6 DEF SlotInv

LEMMA FailureInv ==
  ASSUME IInv, TypeOK', NEW w \in Workers, Fails(w) \/ Mismatch(w)
  PROVE  SlotInv' /\ OutcomeInv'
<1> USE DEF IInv, TypeOK
<1>1. Ends(w, "failed") /\ UNCHANGED <<summary, notified>>
  BY DEF Fails, Mismatch, MarkFailed, Ends, TERMINAL_STATUSES, summaryVars
<1>2. NoNewSuccess
  BY FinalizeNoSuccess DEF Fails, Mismatch
<1>3. SlotInv'
  BY <1>1, EndsSlots
<1>4. \A b \in Attempts : attempt'[b] = "succeeded" <=> attempt[b] = "succeeded"
  BY <1>1 DEF Ends
<1>5. NotifiedOnce' /\ SummaryIsLatest'
  BY <1>1, <1>4 DEF OutcomeInv, NotifiedOnce, SummaryIsLatest, Attempts
<1>6. SuccessIsOwn'
  BY <1>1, <1>2, <1>4 DEF OutcomeInv, SuccessIsOwn, NoNewSuccess, Ends
<1> QED
  BY <1>3, <1>5, <1>6 DEF OutcomeInv

\* Nothing came after the attempt that is published: it was running.
LEMMA PublishInv ==
  ASSUME IInv, TypeOK', NEW w \in Workers, Publish(w)
  PROVE  SlotInv' /\ OutcomeInv'
<1> USE DEF IInv, TypeOK
<1> DEFINE a == att[w]
<1>1. /\ a \in Attempts /\ attempt[a] = "running"
      /\ pc[w] = "publishing" /\ row[w] \in Rows
      /\ attempt' = [attempt EXCEPT ![a] = "succeeded"]
      /\ summary' = a
      /\ notified' = [notified EXCEPT ![a] = @ + 1]
      /\ status' = [status EXCEPT ![row[w]] = "success"]
      /\ UNCHANGED owner
      /\ Leave(w)
  BY DEF Publish, Finalize
<1>2. SlotInv'
  <2>1. Ends(w, "succeeded")
    BY <1>1 DEF Ends, TERMINAL_STATUSES
  <2> QED
    BY <2>1, EndsSlots
<1>3. NotifiedOnce'
  BY <1>1 DEF OutcomeInv, NotifiedOnce
<1>4. SummaryIsLatest'
  <2>1. \A b \in Attempts : b > a => attempt[b] = "none"
    BY <1>1, Bounds DEF SlotInv, AttemptsInOrder, TERMINAL_STATUSES
  <2> QED
    BY <1>1, <2>1, Bounds DEF SummaryIsLatest
<1>5. SuccessIsOwn'
  <2> SUFFICES ASSUME NEW r \in Rows, status'[r] = "success"
               PROVE  \E b \in Attempts :
                        attempt'[b] = "succeeded" /\ owner'[b] = r
    BY DEF SuccessIsOwn
  <2>1. CASE r = row[w]
    BY <1>1, <2>1 DEF SlotInv, PublishersOwn
  <2>2. CASE r # row[w]
    BY <1>1, <2>2 DEF OutcomeInv, SuccessIsOwn
  <2> QED
    BY <2>1, <2>2
<1> QED
  BY <1>2, <1>3, <1>4, <1>5 DEF OutcomeInv

-----------------------------------------------------------------------------
(***************************************************************************)
(* The invariant holds                                                     *)
(***************************************************************************)

\* The steps the theorems below tell apart.
LEMMA StepKinds ==
  ASSUME TypeOK, Next
  PROVE  \/ Quiet
         \/ \E w \in Workers :
              \/ Claim(w) \/ ClaimCommit(w) \/ LoadAttempt(w)
              \/ Fails(w) \/ Mismatch(w) \/ Publish(w)
  BY DispatchQuiet, BrokerQuiet, BindQuiet, TaskQuiet DEF Next

LEMMA IInvInit == Init => IInv
<1> SUFFICES ASSUME Init
             PROVE  IInv
  OBVIOUS
<1>1. TypeOK
  BY TypeOKInit
<1>2. SlotInv
  BY DEF Init, SlotInv, AttemptsInOrder, OneClaim, Claiming, PublishersOwn
<1>3. OutcomeInv
  BY DEF Init, OutcomeInv, NotifiedOnce, SummaryIsLatest, SuccessIsOwn
<1> QED
  BY <1>1, <1>2, <1>3 DEF IInv

LEMMA IInvStep == IInv /\ [Next]_vars => IInv'
<1> SUFFICES ASSUME IInv, [Next]_vars
             PROVE  IInv'
  OBVIOUS
<1>1. TypeOK'
  BY TypeOKStep DEF IInv
<1>2. CASE UNCHANGED vars
  BY <1>2
  DEF IInv, TypeOK, SlotInv, OutcomeInv, AttemptsInOrder, OneClaim, Claiming,
      PublishersOwn, NotifiedOnce, SummaryIsLatest, SuccessIsOwn, vars,
      rowVars, attemptVars, summaryVars, workerVars
<1>3. CASE Next
  BY <1>1, <1>3, StepKinds, QuietInv, ClaimInv, ClaimCommitInv,
     LoadAttemptInv, FailureInv, PublishInv DEF IInv
<1> QED
  BY <1>2, <1>3

LEMMA IInvInvariant == Spec => []IInv
  BY IInvInit, IInvStep, PTL DEF Spec

\* Subscribers are told exactly once of each success, and of nothing else.
THEOREM SubscribersToldOnce == Spec => []NotifiedOnce
<1>1. IInv => NotifiedOnce
  BY DEF IInv, OutcomeInv
<1> QED
  BY <1>1, IInvInvariant, PTL

\* Readers never see the text of an attempt that a later one has replaced.
THEOREM LatestIsShown == Spec => []SummaryIsLatest
<1>1. IInv => SummaryIsLatest
  BY DEF IInv, OutcomeInv
<1> QED
  BY <1>1, IInvInvariant, PTL

\* A row reports a generated summary only for an attempt of its own.
THEOREM ReportsAreOwn == Spec => []SuccessIsOwn
<1>1. IInv => SuccessIsOwn
  BY DEF IInv, OutcomeInv
<1> QED
  BY <1>1, IInvInvariant, PTL

\* No later step touches the outcome or the row of a finished attempt.
THEOREM FinishedAttemptsStay == Spec => TerminalAttemptsStay
<1> DEFINE Stay == \A a \in Attempts :
                     attempt[a] \in TERMINAL_STATUSES =>
                       attempt'[a] = attempt[a] /\ owner'[a] = owner[a]
<1>1. ASSUME IInv, [Next]_vars
      PROVE  Stay
  <2> USE <1>1 DEF IInv, TypeOK, TERMINAL_STATUSES
  <2>1. CASE UNCHANGED vars
    BY <2>1 DEF vars, attemptVars
  <2>2. CASE Quiet
    BY <2>2 DEF Quiet, attemptVars
  <2>3. ASSUME NEW w \in Workers, Claim(w) \/ LoadAttempt(w)
        PROVE  Stay
    BY <2>3 DEF Claim, LoadAttempt, attemptVars
  <2>4. ASSUME NEW w \in Workers, ClaimCommit(w)
        PROVE  Stay
    BY <2>4 DEF ClaimCommit, attemptVars
  <2>5. ASSUME NEW w \in Workers, Fails(w) \/ Mismatch(w)
        PROVE  Stay
    BY <2>5 DEF Fails, Mismatch, MarkFailed
  <2>6. ASSUME NEW w \in Workers, Publish(w)
        PROVE  Stay
    BY <2>6 DEF Publish
  <2> QED
    BY <1>1, <2>1, <2>2, <2>3, <2>4, <2>5, <2>6, StepKinds
<1> QED
  BY <1>1, IInvInvariant, PTL DEF Spec, TerminalAttemptsStay

\* Of all that can go wrong with a generation, nothing takes a published
\* summary away: a newer one does, or the handler of a stop request.
THEOREM FailureKeepsSummary == Spec => SummarySurvivesFailure
<1> DEFINE Survives ==
      summary' # summary =>
        \/ summary' > summary /\ attempt'[summary'] = "succeeded"
        \/ summary' = 0 /\ \E r \in cancelReq : status'[r] = "cancelled"
<1>1. ASSUME IInv, [Next]_vars
      PROVE  Survives
  <2> USE <1>1 DEF IInv, TypeOK
  <2>1. ASSUME NEW w \in Workers, Cancelled(w)
        PROVE  Survives
    BY <2>1 DEF Cancelled, Finalize
  <2>2. ASSUME NEW w \in Workers, Publish(w)
        PROVE  Survives
    <3>1. att[w] \in Attempts /\ attempt[att[w]] = "running"
      BY <2>2 DEF Publish
    <3>2. summary' = att[w] /\ attempt'[att[w]] = "succeeded"
      BY <2>2, <3>1 DEF Publish
    <3>3. summary # 0 => summary \in Attempts /\ attempt[summary] = "succeeded"
      BY DEF OutcomeInv, SummaryIsLatest, Attempts
    <3>4. summary < att[w]
      BY <3>1, <3>3, Bounds
      DEF SlotInv, AttemptsInOrder, TERMINAL_STATUSES, Attempts
    <3> QED
      BY <3>2, <3>4
  <2>3. CASE UNCHANGED vars
    BY <2>3 DEF vars, summaryVars
  <2>4. CASE (\E d \in BOOLEAN : Dispatch(d)) \/ Schedule
    BY <2>4 DEF Dispatch, Schedule, InsertPending, summaryVars
  <2>5. ASSUME NEW r \in Rows, Redeliver(r) \/ Discard(r) \/ Stop(r) \/ TimeOut(r)
        PROVE  Survives
    BY <2>5 DEF Redeliver, Discard, Stop, TimeOut, summaryVars
  <2>6. ASSUME NEW w \in Workers,
               \/ Bind(w) \/ NoTimezone(w) \/ Look(w) \/ Claim(w)
               \/ ClaimCommit(w) \/ GiveUp(w) \/ Fails(w) \/ LoadAttempt(w)
               \/ Mismatch(w) \/ Rejected(w) \/ LoseWorker(w) \/ Kill(w)
        PROVE  Survives
    BY <2>6 DEF Bind, NoTimezone, Look, Claim, ClaimCommit, GiveUp, Fails,
       LoadAttempt, Mismatch, Rejected, LoseWorker, Kill, summaryVars
  <2> QED
    BY <1>1, <2>1, <2>2, <2>3, <2>4, <2>5, <2>6 DEF Next
<1> QED
  BY <1>1, IInvInvariant, PTL DEF Spec, SummarySurvivesFailure

\* After a stop request that comes in before the model is asked, the row's
\* generation never publishes.
Stopped(r) ==
  /\ r \in cancelReq
  /\ status[r] # "success"
  /\ \A w \in Workers : row[w] = r => pc[w] \notin {"asking", "publishing"}

LEMMA StoppedStep ==
  ASSUME NEW r \in Rows
  PROVE  TypeOK /\ Stopped(r) /\ [Next]_vars => Stopped(r)'
<1> SUFFICES ASSUME TypeOK, Stopped(r), [Next]_vars
             PROVE  Stopped(r)'
  OBVIOUS
<1> USE DEF TypeOK, Stopped
<1>1. ASSUME NEW w \in Workers, Leave(w),
             cancelReq' = cancelReq, status'[r] # "success"
      PROVE  Stopped(r)'
  BY <1>1 DEF Leave
<1>2. CASE UNCHANGED vars
  BY <1>2 DEF vars, rowVars, workerVars
<1>3. CASE (\E d \in BOOLEAN : Dispatch(d)) \/ Schedule
  <2>1. PICK s \in Rows : \E d \in BOOLEAN : InsertPending(s, d)
    BY <1>3 DEF Dispatch, Schedule, NextRow
  <2>2. PICK d \in BOOLEAN : InsertPending(s, d)
    BY <2>1
  <2> QED
    BY <2>2 DEF InsertPending, workerVars
<1>4. ASSUME NEW s \in Rows, Redeliver(s) \/ Discard(s) \/ Stop(s) \/ TimeOut(s)
      PROVE  Stopped(r)'
  BY <1>4 DEF Redeliver, Discard, Stop, TimeOut, Finalize, rowVars, workerVars
<1>5. ASSUME NEW w \in Workers, Bind(w)
      PROVE  Stopped(r)'
  <2>1. NoNewSuccess /\ cancelReq' = cancelReq
    BY <1>5, BindQuiet DEF Quiet, Bind
  <2>2. \A v \in Workers : HoldsNoMore(v)
    BY <1>5, BindQuiet DEF Quiet
  <2> QED
    BY <2>1, <2>2 DEF NoNewSuccess, HoldsNoMore
<1>6. ASSUME NEW w \in Workers,
             \/ NoTimezone(w) \/ Look(w) \/ Cancelled(w) \/ GiveUp(w)
             \/ Rejected(w) \/ LoseWorker(w) \/ Kill(w)
      PROVE  Stopped(r)'
  <2>1. NoNewSuccess /\ \A v \in Workers : HoldsNoMore(v)
    BY <1>6, TaskQuiet DEF Quiet
  <2>2. cancelReq' = cancelReq
    BY <1>6 DEF NoTimezone, Look, Cancelled, GiveUp, Rejected, LoseWorker,
       Kill, rowVars
  <2> QED
    BY <2>1, <2>2 DEF NoNewSuccess, HoldsNoMore
<1>7. ASSUME NEW w \in Workers, Claim(w) \/ ClaimCommit(w) \/ LoadAttempt(w)
      PROVE  Stopped(r)'
  <2>1. UNCHANGED <<status, cancelReq, row>>
    BY <1>7 DEF Claim, ClaimCommit, LoadAttempt, Goto, rowVars
  <2>2. \A v \in Workers :
          v # w \/ row[w] # r => pc'[v] = pc[v] \/ row[v] # r
    BY <1>7 DEF Claim, ClaimCommit, LoadAttempt, Goto
  <2>3. row[w] = r => pc'[w] \notin {"asking", "publishing"}
    BY <1>7 DEF Claim, ClaimCommit, LoadAttempt, Goto
  <2> QED
    BY <2>1, <2>2, <2>3
<1>8. ASSUME NEW w \in Workers, Fails(w) \/ Mismatch(w)
      PROVE  Stopped(r)'
  BY <1>1, <1>8 DEF Fails, Mismatch, Finalize
<1>9. ASSUME NEW w \in Workers, Publish(w)
      PROVE  Stopped(r)'
  <2>1. row[w] # r
    BY <1>9 DEF Publish
  <2> QED
    BY <1>1, <1>9, <2>1 DEF Publish, Finalize
<1> QED
  BY <1>2, <1>3, <1>4, <1>5, <1>6, <1>7, <1>8, <1>9 DEF Next

\* A stop request is honoured for ever.
THEOREM StopsAreHonoured == Spec => StopIsHonoured
<1>1. ASSUME NEW r \in Rows
      PROVE  Spec => [](Stopped(r) => [](status[r] # "success"))
  <2>1. TypeOK /\ Stopped(r) /\ [Next]_vars => Stopped(r)'
    BY StoppedStep
  <2>2. Stopped(r) => status[r] # "success"
    BY DEF Stopped
  <2> QED
    BY <2>1, <2>2, TypeCorrect, PTL DEF Spec
<1> QED
  BY <1>1 DEF StopIsHonoured, Stopped

=============================================================================
