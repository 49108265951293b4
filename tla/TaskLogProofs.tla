--------------------------- MODULE TaskLogProofs ----------------------------
(***************************************************************************)
(* Theorems about the task_log rows of one dedupe key, for every number of *)
(* rows, workers, duplicate deliveries and faults.                         *)
(***************************************************************************)
EXTENDS TaskLog, TLAPS

LEMMA FirstRow == 1 \in Rows
  BY BoundsAssumption DEF Rows

\* A worker that leaves its task forgets it, and keeps its types.
LEMMA LeaveTyped ==
  ASSUME TypeOK, NEW w \in Workers, Leave(w)
  PROVE  /\ pc' \in [Workers -> Stages]
         /\ row' \in [Workers -> Rows]
         /\ seen' \in [Workers -> ACTIVE]
  BY FirstRow DEF TypeOK, Leave, Stages, ACTIVE

\* A finalisation writes a terminal status.
LEMMA FinalizeTyped ==
  ASSUME TypeOK, NEW r, NEW final \in TERMINAL_TASK_STATUSES,
         Finalize(r, final)
  PROVE  /\ status' \in [Rows -> TaskStatus \cup {"absent"}]
         /\ overdue' \subseteq Rows
  BY DEF TypeOK, Finalize, TaskStatus

-----------------------------------------------------------------------------
(***************************************************************************)
(* A command is sent for a committed row only: what makes the status that  *)
(* a bind reads an active one.                                             *)
(***************************************************************************)
CommandsHaveRows ==
  \A r \in Rows :
    status[r] = "absent" =>
      /\ r \notin owed
      /\ queue[r] = 0
      /\ \A w \in Workers : pc[w] # "idle" => row[w] # r

-----------------------------------------------------------------------------
(***************************************************************************)
(* Type correctness, one lemma per group of actions                        *)
(***************************************************************************)

LEMMA DispatchTyped ==
  ASSUME TypeOK,
         \/ \E m \in Modes : Dispatch(m)
         \/ DeferHot \/ SupersedeRead \/ SupersedeCommit
  PROVE  TypeOK'
<1> USE DEF TypeOK, TaskStatus, ACTIVE, TERMINAL_TASK_STATUSES, Modes
<1>1. ASSUME NEW m \in Modes, Dispatch(m)
      PROVE  TypeOK'
  <2>1. PICK r \in Rows : InsertPending(r, m)
    BY <1>1 DEF Dispatch, NextRow
  <2> QED
    BY <1>1, <2>1 DEF Dispatch, InsertPending, workerVars
<1>2. CASE DeferHot
  <2>1. PICK r \in Rows : /\ status' = [status EXCEPT ![r] = "skipped"]
                          /\ mode' = [mode EXCEPT ![r] = "hot"]
    BY <1>2 DEF DeferHot, NextRow
  <2> QED
    BY <1>2, <2>1 DEF DeferHot, workerVars, brokerVars
<1>3. CASE SupersedeRead
  <2>1. client' \in Requests
    BY <1>3 DEF SupersedeRead, ActiveRows, Requests
  <2> QED
    BY <1>3, <2>1 DEF SupersedeRead, rowVars, workerVars, brokerVars
<1>4. CASE SupersedeCommit
  <2>1. client' \in Requests
    BY <1>4 DEF SupersedeCommit, Requests
  <2>2. /\ status' \in [Rows -> TaskStatus \cup {"absent"}]
        /\ mode' \in [Rows -> Modes]
        /\ overdue' \subseteq Rows
        /\ owed' \subseteq Rows
    <3>1. CASE ActiveRows \subseteq {client.target}
      <4>1. PICK r \in Rows :
              /\ status' = [status EXCEPT ![client.target] = "cancelled",
                                          ![r] = "pending"]
              /\ mode' = [mode EXCEPT ![r] = "full"]
              /\ overdue' = overdue \ {client.target}
              /\ owed' = owed \cup {r}
        BY <1>4, <3>1 DEF SupersedeCommit, NextRow
      <4> QED
        BY <4>1
    <3>2. CASE ~(ActiveRows \subseteq {client.target})
      BY <1>4, <3>2 DEF SupersedeCommit
    <3> QED
      BY <3>1, <3>2
  <2> QED
    BY <1>4, <2>1, <2>2 DEF SupersedeCommit, workerVars
<1> QED
  BY <1>1, <1>2, <1>3, <1>4

LEMMA BrokerTyped ==
  ASSUME TypeOK,
         \/ \E r \in Rows : HandOver(r) \/ Discard(r) \/ TimePasses(r)
         \/ \E w \in Workers : Redeliver(w) \/ LoseWorker(w)
  PROVE  TypeOK'
<1> USE BoundsAssumption DEF TypeOK, rowVars, workerVars, brokerVars
<1>1. ASSUME NEW r \in Rows, HandOver(r)
      PROVE  TypeOK'
  <2>1. duplicates' \in 0..MaxDuplicates /\ owed' \subseteq Rows
    BY <1>1 DEF HandOver
  <2>2. queue' \in [Rows -> Nat]
    BY <1>1 DEF HandOver
  <2> QED
    BY <1>1, <2>1, <2>2 DEF HandOver
<1>2. ASSUME NEW r \in Rows, Discard(r)
      PROVE  TypeOK'
  BY <1>2 DEF Discard
<1>3. ASSUME NEW r \in Rows, TimePasses(r)
      PROVE  TypeOK'
  BY <1>3 DEF TimePasses
<1>4. ASSUME NEW w \in Workers, Redeliver(w)
      PROVE  TypeOK'
  <2>1. queue' \in [Rows -> Nat] /\ duplicates' \in 0..MaxDuplicates
    BY <1>4 DEF Redeliver
  <2> QED
    BY <1>4, <2>1 DEF Redeliver
<1>5. ASSUME NEW w \in Workers, LoseWorker(w)
      PROVE  TypeOK'
  <2>1. queue' \in [Rows -> Nat] /\ faults' \in 0..MaxFaults
    BY <1>5 DEF LoseWorker
  <2>2. /\ pc' \in [Workers -> Stages]
        /\ row' \in [Workers -> Rows]
        /\ seen' \in [Workers -> ACTIVE]
    BY <1>5, LeaveTyped DEF LoseWorker
  <2> QED
    BY <1>5, <2>1, <2>2 DEF LoseWorker
<1> QED
  BY <1>1, <1>2, <1>3, <1>4, <1>5

LEMMA WorkerTyped ==
  ASSUME TypeOK, CommandsHaveRows, NEW w \in Workers, BindRead(w) \/ Work(w)
  PROVE  TypeOK'
<1>1. CASE BindRead(w)
  <2>1. PICK r \in Rows :
          /\ queue[r] > 0
          /\ queue' = [queue EXCEPT ![r] = @ - 1]
          /\ IF Terminal(r)
             THEN UNCHANGED workerVars
             ELSE /\ pc' = [pc EXCEPT ![w] = "read"]
                  /\ row' = [row EXCEPT ![w] = r]
                  /\ seen' = [seen EXCEPT ![w] = status[r]]
    BY <1>1 DEF BindRead
  <2>2. /\ pc' \in [Workers -> Stages]
        /\ row' \in [Workers -> Rows]
        /\ seen' \in [Workers -> ACTIVE]
    <3>1. CASE Terminal(r)
      BY <2>1, <3>1 DEF TypeOK, workerVars
    <3>2. CASE ~Terminal(r)
      <4>1. status[r] \in ACTIVE
        BY <2>1, <3>2
           DEF TypeOK, CommandsHaveRows, Terminal, TaskStatus
      <4> QED
        BY <2>1, <3>2, <4>1 DEF TypeOK, Stages
    <3> QED
      BY <3>1, <3>2
  <2>3. queue' \in [Rows -> Nat]
    BY <2>1 DEF TypeOK
  <2> QED
    BY <1>1, <2>2, <2>3 DEF BindRead, TypeOK, rowVars
<1>2. CASE BindCommit(w)
  <2>1. /\ status' \in [Rows -> TaskStatus \cup {"absent"}]
        /\ overdue' \subseteq Rows
    BY <1>2 DEF BindCommit, Superseded, TypeOK, TaskStatus, ACTIVE, TERMINAL_TASK_STATUSES
  <2>2. /\ pc' \in [Workers -> Stages]
        /\ row' \in [Workers -> Rows]
        /\ seen' \in [Workers -> ACTIVE]
    <3>1. CASE Leave(w)
      BY <3>1, LeaveTyped
    <3>2. CASE /\ pc' = [pc EXCEPT ![w] = "running"]
               /\ UNCHANGED <<row, seen>>
      BY <3>2 DEF TypeOK, Stages
    <3> QED
      BY <1>2, <3>1, <3>2 DEF BindCommit, Superseded
  <2> QED
    BY <1>2, <2>1, <2>2 DEF BindCommit, Superseded, TypeOK, brokerVars
<1>3. CASE Skip(w) \/ Kill(w)
  <2>1. /\ pc' \in [Workers -> Stages]
        /\ row' \in [Workers -> Rows]
        /\ seen' \in [Workers -> ACTIVE]
    BY <1>3, LeaveTyped DEF Skip, Kill
  <2> QED
    BY <1>3, <2>1 DEF Skip, Kill, TypeOK, rowVars, brokerVars
<1>4. CASE PassCheck(w) \/ TakeLock(w)
  BY <1>4 DEF PassCheck, TakeLock, TypeOK, Stages, rowVars, brokerVars
<1>5. CASE Finish(w) \/ Cancelled(w) \/ Fail(w)
  <2>1. /\ \E final \in TERMINAL_TASK_STATUSES : Finalize(row[w], final)
        /\ Leave(w)
        /\ UNCHANGED <<mode, cancelReq, brokerVars, client, sweep, faults>>
    BY <1>5 DEF Finish, Cancelled, Fail, TERMINAL_TASK_STATUSES
  <2>2. /\ status' \in [Rows -> TaskStatus \cup {"absent"}]
        /\ overdue' \subseteq Rows
    BY <2>1, FinalizeTyped
  <2>3. /\ pc' \in [Workers -> Stages]
        /\ row' \in [Workers -> Rows]
        /\ seen' \in [Workers -> ACTIVE]
    BY <2>1, LeaveTyped
  <2> QED
    BY <2>1, <2>2, <2>3 DEF TypeOK, brokerVars
<1> QED
  BY <1>1, <1>2, <1>3, <1>4, <1>5 DEF Work

LEMMA RequestTyped ==
  ASSUME TypeOK,
         \/ \E r \in Rows : StopRead(r)
         \/ StopCommit \/ SweepRead \/ SweepCommit \/ SweepRollback
  PROVE  TypeOK'
<1> USE BoundsAssumption DEF rowVars, workerVars, brokerVars
<1>1. ASSUME NEW r \in Rows, StopRead(r)
      PROVE  TypeOK'
  <2>1. client' \in Requests
    BY <1>1 DEF StopRead, Requests, Active
  <2> QED
    BY <1>1, <2>1 DEF StopRead, TypeOK
<1>2. CASE StopCommit
  <2>1. client' \in Requests
    BY <1>2 DEF StopCommit, Requests
  <2>2. /\ status' \in [Rows -> TaskStatus \cup {"absent"}]
        /\ overdue' \subseteq Rows
    <3>1. CASE client.saw = "pending"
      <4>1. "cancelled" \in TERMINAL_TASK_STATUSES
        BY DEF TERMINAL_TASK_STATUSES
      <4> QED
        BY <1>2, <3>1, <4>1, FinalizeTyped DEF StopCommit
    <3>2. CASE client.saw # "pending"
      BY <1>2, <3>2 DEF StopCommit, TypeOK
    <3> QED
      BY <3>1, <3>2
  <2>3. cancelReq' \in [Rows -> BOOLEAN]
    BY <1>2 DEF StopCommit, TypeOK
  <2> QED
    BY <1>2, <2>1, <2>2, <2>3 DEF StopCommit, TypeOK
<1>3. CASE SweepRead
  BY <1>3 DEF SweepRead, Sweepable, TypeOK
<1>4. CASE SweepCommit
  <2>1. status' \in [Rows -> TaskStatus \cup {"absent"}]
    BY <1>4 DEF SweepCommit, TypeOK, TaskStatus, TERMINAL_TASK_STATUSES
  <2> QED
    BY <1>4, <2>1 DEF SweepCommit, TypeOK
<1>5. CASE SweepRollback
  <2>1. faults' \in 0..MaxFaults
    BY <1>5 DEF SweepRollback, TypeOK
  <2> QED
    BY <1>5, <2>1 DEF SweepRollback, TypeOK
<1> QED
  BY <1>1, <1>2, <1>3, <1>4, <1>5

LEMMA TypeOKInit == Init => TypeOK
  BY FirstRow, BoundsAssumption
     DEF Init, TypeOK, TaskStatus, ACTIVE, TERMINAL_TASK_STATUSES, Modes,
         Stages, Requests

LEMMA TypeOKStep == TypeOK /\ CommandsHaveRows /\ [Next]_vars => TypeOK'
<1>1. CASE UNCHANGED vars
  BY <1>1 DEF vars, rowVars, brokerVars, workerVars, TypeOK
<1> QED
  BY <1>1, DispatchTyped, BrokerTyped, WorkerTyped, RequestTyped
     DEF Next, Work

\* No step takes a row back out of the table.
LEMMA RowsStay ==
  ASSUME TypeOK, [Next]_vars, NEW r \in Rows, status'[r] = "absent"
  PROVE  status[r] = "absent"
<1> USE DEF TypeOK
<1>1. ASSUME NEW m \in Modes, Dispatch(m)
      PROVE  status[r] = "absent"
  BY <1>1 DEF Dispatch, InsertPending
<1>2. CASE DeferHot \/ SupersedeCommit
  BY <1>2 DEF DeferHot, SupersedeCommit
<1>3. ASSUME NEW w \in Workers, BindCommit(w)
      PROVE  status[r] = "absent"
  BY <1>3 DEF BindCommit, Superseded
<1>4. ASSUME NEW w \in Workers, Finish(w) \/ Cancelled(w) \/ Fail(w)
      PROVE  status[r] = "absent"
  BY <1>4 DEF Finish, Cancelled, Fail, Finalize
<1>5. CASE StopCommit \/ SweepCommit
  BY <1>5 DEF StopCommit, SweepCommit, Finalize
<1>6. CASE UNCHANGED status
  BY <1>6
<1> QED
  BY <1>1, <1>2, <1>3, <1>4, <1>5, <1>6
     DEF Next, vars, rowVars, SupersedeRead, SweepRead, SweepRollback,
         HandOver, Discard, StopRead, TimePasses, Redeliver, BindRead, Skip,
         PassCheck, TakeLock, LoseWorker, Kill

LEMMA CommandsHaveRowsStep ==
  TypeOK /\ CommandsHaveRows /\ [Next]_vars => CommandsHaveRows'
<1> SUFFICES ASSUME TypeOK, CommandsHaveRows, [Next]_vars,
                    NEW r \in Rows, status'[r] = "absent"
             PROVE  /\ r \notin owed'
                    /\ queue'[r] = 0
                    /\ \A w \in Workers : pc'[w] # "idle" => row'[w] # r
  BY DEF CommandsHaveRows
<1>1. /\ status[r] = "absent"
      /\ r \notin owed
      /\ queue[r] = 0
      /\ \A w \in Workers : pc[w] # "idle" => row[w] # r
  BY RowsStay DEF CommandsHaveRows
<1>2. r \notin owed'
  <2>1. CASE owed' \subseteq owed
    BY <1>1, <2>1
  <2>2. ASSUME NEW m \in Modes, Dispatch(m)
        PROVE  r \notin owed'
    BY <1>1, <2>2 DEF Dispatch, InsertPending, TypeOK
  <2>3. CASE SupersedeCommit
    BY <1>1, <2>3 DEF SupersedeCommit, TypeOK
  <2> QED
    BY <2>1, <2>2, <2>3
       DEF Next, vars, rowVars, brokerVars, DeferHot, SupersedeRead,
           SweepRead, SweepCommit, SweepRollback, HandOver, Discard, StopRead,
           StopCommit, TimePasses, Redeliver, BindRead, BindCommit, Superseded, Skip,
           PassCheck, TakeLock, Finish, Cancelled, Fail, LoseWorker, Kill
<1>3. queue'[r] = 0
  <2>1. CASE UNCHANGED queue
    BY <1>1, <2>1
  <2>2. ASSUME NEW s \in Rows, HandOver(s) \/ Discard(s)
        PROVE  queue'[r] = 0
    BY <1>1, <2>2 DEF HandOver, Discard, TypeOK
  <2>3. ASSUME NEW w \in Workers,
               BindRead(w) \/ Redeliver(w) \/ LoseWorker(w)
        PROVE  queue'[r] = 0
    BY <1>1, <2>3 DEF BindRead, Redeliver, LoseWorker, TypeOK
  <2> QED
    BY <2>1, <2>2, <2>3
       DEF Next, vars, rowVars, brokerVars, Dispatch, InsertPending, DeferHot,
           SupersedeRead, SupersedeCommit, SweepRead, SweepCommit,
           SweepRollback, StopRead, StopCommit, TimePasses, BindCommit, Superseded, Skip,
           PassCheck, TakeLock, Finish, Cancelled, Fail, Kill
<1>4. ASSUME NEW w \in Workers, pc'[w] # "idle"
      PROVE  row'[w] # r
  <2>1. CASE pc[w] # "idle" /\ row'[w] = row[w]
    BY <1>1, <2>1
  <2>2. ASSUME NEW v \in Workers, BindRead(v)
        PROVE  row'[w] # r
    BY <1>1, <1>4, <2>2 DEF BindRead, TypeOK, workerVars
  <2>3. ASSUME NEW v \in Workers, Leave(v)
        PROVE  row'[w] # r
    BY <1>1, <1>4, <2>3 DEF Leave, TypeOK
  <2>4. ASSUME NEW v \in Workers,
               BindCommit(v) \/ PassCheck(v) \/ TakeLock(v)
        PROVE  row'[w] # r
    BY <1>1, <1>4, <2>3, <2>4 DEF BindCommit, Superseded, PassCheck, TakeLock, TypeOK
  <2>5. CASE UNCHANGED workerVars
    BY <1>1, <1>4, <2>5 DEF workerVars
  <2> QED
    BY <2>2, <2>3, <2>4, <2>5
       DEF Next, vars, workerVars, Dispatch, DeferHot, SupersedeRead,
           SupersedeCommit, SweepRead, SweepCommit, SweepRollback, HandOver,
           Discard, StopRead, StopCommit, TimePasses, Redeliver, Skip,
           Finish, Cancelled, Fail, LoseWorker, Kill
<1> QED
  BY <1>2, <1>3, <1>4

TypedInv == TypeOK /\ CommandsHaveRows

LEMMA TypedInvariant == Spec => []TypedInv
<1>1. Init => TypedInv
  BY TypeOKInit DEF TypedInv, Init, CommandsHaveRows
<1>2. TypedInv /\ [Next]_vars => TypedInv'
  BY TypeOKStep, CommandsHaveRowsStep DEF TypedInv
<1> QED
  BY <1>1, <1>2, PTL DEF Spec

\* Every variable keeps its type: a bind, in particular, only ever works
\* from an active status, because a message is only sent for a row whose
\* INSERT committed with its command.
THEOREM TypeCorrect == Spec => []TypeOK
<1>1. TypedInv => TypeOK
  BY DEF TypedInv
<1> QED
  BY <1>1, TypedInvariant, PTL

-----------------------------------------------------------------------------
(***************************************************************************)
(* The dedupe key                                                          *)
(***************************************************************************)

\* A step makes a row active only if no other row is left active by it.
LEMMA ActivationIsExclusive ==
  ASSUME TypeOK, [Next]_vars, NEW r \in Rows, ~Active(r), Active(r)'
  PROVE  ActiveRows' \subseteq {r}
<1> USE DEF TypeOK, ACTIVE, TERMINAL_TASK_STATUSES, Active, ActiveRows
<1>1. ASSUME NEW m \in Modes, Dispatch(m)
      PROVE  ActiveRows' \subseteq {r}
  BY <1>1 DEF Dispatch, InsertPending
<1>2. CASE SupersedeCommit
  <2>1. PICK n \in Rows :
          status' = [status EXCEPT ![client.target] = "cancelled",
                                   ![n] = "pending"]
    BY <1>2 DEF SupersedeCommit, NextRow
  <2>2. ActiveRows \subseteq {client.target}
    BY <1>2 DEF SupersedeCommit
  <2> QED
    BY <2>1, <2>2
<1>3. ASSUME NEW w \in Workers, BindCommit(w)
      PROVE  ActiveRows' \subseteq {r}
  BY <1>3 DEF BindCommit, Superseded
<1>4. ASSUME NEW w \in Workers, Finish(w) \/ Cancelled(w) \/ Fail(w)
      PROVE  FALSE
  BY <1>4 DEF Finish, Cancelled, Fail, Finalize
<1>5. CASE StopCommit \/ SweepCommit \/ DeferHot
  BY <1>5 DEF StopCommit, SweepCommit, DeferHot, Finalize
<1>6. CASE UNCHANGED status
  BY <1>6
<1> QED
  BY <1>1, <1>2, <1>3, <1>4, <1>5, <1>6
     DEF Next, vars, rowVars, SupersedeRead, SweepRead, SweepRollback,
         HandOver, Discard, StopRead, TimePasses, Redeliver, BindRead, Skip,
         PassCheck, TakeLock, LoseWorker, Kill

\* The dedupe key has one holder at most: the partial unique index refuses
\* the write that would make a second row active.
OneActiveRow ==
  \A r, s \in Rows : Active(r) /\ Active(s) => r = s

LEMMA OneActiveRowInvariant == Spec => []OneActiveRow
<1>1. Init => OneActiveRow
  BY DEF Init, OneActiveRow, Active, ACTIVE
<1>2. TypedInv /\ OneActiveRow /\ [Next]_vars => OneActiveRow'
  <2> SUFFICES ASSUME TypeOK, OneActiveRow, [Next]_vars,
                      NEW r \in Rows, NEW s \in Rows, Active(r)', Active(s)'
               PROVE  r = s
    BY DEF OneActiveRow, TypedInv
  <2>1. CASE Active(r) /\ Active(s)
    BY <2>1 DEF OneActiveRow
  <2>2. CASE ~Active(r)
    BY <2>2, ActivationIsExclusive DEF ActiveRows
  <2>3. CASE ~Active(s)
    BY <2>3, ActivationIsExclusive DEF ActiveRows
  <2> QED
    BY <2>1, <2>2, <2>3
<1> QED
  BY <1>1, <1>2, TypedInvariant, PTL DEF Spec

-----------------------------------------------------------------------------
(***************************************************************************)
(* The two races of the bind                                               *)
(***************************************************************************)

\* Only the stale half of a bind brings a finalised row back: every other
\* path to an active status starts from a row that is being inserted.
THEOREM ResurrectionIsARace == Spec => ResurrectionNeedsStaleBind
<1> DEFINE A == \A r \in Rows :
                  Terminal(r) /\ Active(r)' =>
                    \E w \in Workers :
                      pc[w] = "read" /\ row[w] = r /\ seen[w] = "pending"
<1>1. TypedInv /\ [Next]_vars => [A]_vars
  <2> SUFFICES ASSUME TypeOK, Next, NEW r \in Rows, Terminal(r), Active(r)'
               PROVE  \E w \in Workers :
                        pc[w] = "read" /\ row[w] = r /\ seen[w] = "pending"
    BY DEF TypedInv
  <2> USE DEF TypeOK, Terminal, Active, ACTIVE, TERMINAL_TASK_STATUSES
  <2>1. ASSUME NEW m \in Modes, Dispatch(m)
        PROVE  FALSE
    BY <2>1 DEF Dispatch, InsertPending, NextRow
  <2>2. CASE SupersedeCommit \/ DeferHot \/ StopCommit \/ SweepCommit
    BY <2>2 DEF SupersedeCommit, DeferHot, StopCommit, SweepCommit, NextRow,
                Finalize
  <2>3. ASSUME NEW w \in Workers, BindCommit(w)
        PROVE  pc[w] = "read" /\ row[w] = r /\ seen[w] = "pending"
    BY <2>3 DEF BindCommit, Superseded
  <2>4. ASSUME NEW w \in Workers, Finish(w) \/ Cancelled(w) \/ Fail(w)
        PROVE  FALSE
    BY <2>4 DEF Finish, Cancelled, Fail, Finalize
  <2>5. CASE UNCHANGED status
    BY <2>5
  <2> QED
    BY <2>1, <2>2, <2>3, <2>4, <2>5
       DEF Next, rowVars, SupersedeRead, SweepRead, SweepRollback, HandOver,
           Discard, StopRead, TimePasses, Redeliver, BindRead, Skip,
           PassCheck, TakeLock, LoseWorker, Kill
<1> QED
  BY <1>1, TypedInvariant, PTL DEF Spec, ResurrectionNeedsStaleBind

\* What a FULL request found, and will cancel, is a HOT row.
SupersedesHot ==
  client.op = "supersede" =>
    /\ client.target \in Rows
    /\ status[client.target] # "absent"
    /\ mode[client.target] = "hot"

\* The mode of a row is set when the row is inserted.
LEMMA ModeIsFixed ==
  ASSUME TypeOK, [Next]_vars, NEW r \in Rows, status[r] # "absent"
  PROVE  mode'[r] = mode[r]
<1> USE DEF TypeOK
<1>1. ASSUME NEW m \in Modes, Dispatch(m)
      PROVE  mode'[r] = mode[r]
  BY <1>1 DEF Dispatch, InsertPending, NextRow
<1>2. CASE DeferHot \/ SupersedeCommit
  BY <1>2 DEF DeferHot, SupersedeCommit, NextRow
<1>3. CASE UNCHANGED mode
  BY <1>3
<1> QED
  BY <1>1, <1>2, <1>3
     DEF Next, vars, rowVars, SupersedeRead, SweepRead, SweepRollback,
         SweepCommit, HandOver, Discard, StopRead, StopCommit, TimePasses,
         Redeliver, BindRead, BindCommit, Superseded, Skip, PassCheck, TakeLock, Finish,
         Cancelled, Fail, LoseWorker, Kill

LEMMA SupersedesHotInvariant == Spec => []SupersedesHot
<1>1. Init => SupersedesHot
  BY DEF Init, SupersedesHot, NoRequest
<1>2. TypedInv /\ SupersedesHot /\ [Next]_vars => SupersedesHot'
  <2> SUFFICES ASSUME TypeOK, SupersedesHot, [Next]_vars,
                      client'.op = "supersede"
               PROVE  /\ client'.target \in Rows
                      /\ status'[client'.target] # "absent"
                      /\ mode'[client'.target] = "hot"
    BY DEF TypedInv, SupersedesHot
  <2>1. /\ client'.target \in Rows
        /\ status[client'.target] # "absent"
        /\ mode[client'.target] = "hot"
    <3>1. CASE SupersedeRead
      BY <3>1 DEF SupersedeRead, ActiveRows, Active, ACTIVE
    <3>2. ASSUME NEW r \in Rows, StopRead(r)
          PROVE  FALSE
      BY <3>2 DEF StopRead
    <3>3. CASE SupersedeCommit \/ StopCommit
      BY <3>3 DEF SupersedeCommit, StopCommit, NoRequest
    <3>4. CASE UNCHANGED client
      BY <3>4 DEF SupersedesHot
    <3> QED
      BY <3>1, <3>2, <3>3, <3>4
         DEF Next, vars, Dispatch, DeferHot, SweepRead, SweepRollback,
             SweepCommit, HandOver, Discard, TimePasses, Redeliver, BindRead,
             BindCommit, Superseded, Skip, PassCheck, TakeLock, Finish, Cancelled, Fail,
             LoseWorker, Kill
  <2>2. status'[client'.target] # "absent"
    BY <2>1, RowsStay
  <2>3. mode'[client'.target] = "hot"
    BY <2>1, ModeIsFixed
  <2> QED
    BY <2>1, <2>2, <2>3
<1> QED
  BY <1>1, <1>2, TypedInvariant, PTL DEF Spec

\* A FULL row is cancelled by the user, or by the bind of another row of the
\* source that its worker had read running, and by nothing else.
THEOREM FullYieldsRarely == Spec => FullYieldsOnlyToStop
<1> DEFINE A == \A r \in Rows :
                  mode[r] = "full" /\ Active(r) /\ status'[r] = "cancelled" =>
                    \/ cancelReq'[r]
                    \/ \E w \in Workers :
                         /\ pc[w] = "read" /\ pc'[w] = "running"
                         /\ row[w] # r /\ seen[w] = "running"
<1>1. TypedInv /\ SupersedesHot /\ [Next]_vars => [A]_vars
  <2> SUFFICES ASSUME TypeOK, SupersedesHot, Next, NEW r \in Rows,
                      mode[r] = "full", Active(r), status'[r] = "cancelled"
               PROVE  \/ cancelReq'[r]
                      \/ \E w \in Workers :
                           /\ pc[w] = "read" /\ pc'[w] = "running"
                           /\ row[w] # r /\ seen[w] = "running"
    BY DEF TypedInv
  <2> USE DEF TypeOK, Active, ACTIVE
  <2>1. ASSUME NEW m \in Modes, Dispatch(m)
        PROVE  FALSE
    BY <2>1 DEF Dispatch, InsertPending
  <2>2. CASE SupersedeCommit
    BY <2>2 DEF SupersedeCommit, SupersedesHot
  <2>3. CASE DeferHot \/ SweepCommit
    BY <2>3 DEF DeferHot, SweepCommit, NextRow
  <2>4. CASE StopCommit
    BY <2>4 DEF StopCommit, Finalize
  <2>5. ASSUME NEW w \in Workers, BindCommit(w)
        PROVE  /\ pc[w] = "read" /\ pc'[w] = "running"
               /\ row[w] # r /\ seen[w] = "running"
    <3>1. status'[r] # status[r]
      OBVIOUS
    <3>2. /\ ~(seen[w] = "pending" /\ ~(ActiveRows \subseteq {row[w]}))
          /\ pc' = [pc EXCEPT ![w] = "running"]
          /\ status' = [s \in Rows |->
               IF s = row[w] /\ seen[w] = "pending" THEN "running"
               ELSE IF s \in {t \in Rows \ {row[w]} : status[t] = "pending"}
                    THEN "cancelled"
               ELSE status[s]]
      BY <2>5, <3>1 DEF BindCommit, Superseded
    <3>3. r # row[w] /\ status[r] = "pending"
      BY <3>1, <3>2
    <3>4. seen[w] # "pending"
      BY <3>2, <3>3 DEF ActiveRows
    <3> QED
      BY <2>5, <3>2, <3>3, <3>4 DEF BindCommit, Superseded
  <2>6. ASSUME NEW w \in Workers, Finish(w) \/ Cancelled(w) \/ Fail(w)
        PROVE  cancelReq'[r]
    BY <2>6 DEF Finish, Cancelled, Fail, Finalize
  <2>7. CASE UNCHANGED status
    BY <2>7
  <2> QED
    BY <2>1, <2>2, <2>3, <2>4, <2>5, <2>6, <2>7
       DEF Next, rowVars, SupersedeRead, SweepRead, SweepRollback, HandOver,
           Discard, StopRead, TimePasses, Redeliver, BindRead, Skip,
           PassCheck, TakeLock, LoseWorker, Kill
<1> QED
  BY <1>1, TypedInvariant, SupersedesHotInvariant, PTL
     DEF Spec, FullYieldsOnlyToStop

-----------------------------------------------------------------------------
(***************************************************************************)
(* Builds that overlap.  Without a duplicate, a row's command is in one    *)
(* place at a time, so a worker that acts for a row is the only one that   *)
(* can end it; whatever else ends it takes it away.                        *)
(***************************************************************************)

Holds(w, r) == pc[w] # "idle" /\ row[w] = r
Spent == {"absent", "success", "failed", "skipped"}

\* The command of a row is with the outbox, the broker or one worker, and
\* with nobody once its worker has reported.
OnePlace(r) ==
  /\ queue[r] <= 1
  /\ r \in owed => queue[r] = 0 /\ \A w \in Workers : ~Holds(w, r)
  /\ queue[r] = 1 => \A w \in Workers : ~Holds(w, r)
  /\ \A v, w \in Workers : Holds(v, r) /\ Holds(w, r) => v = w
  /\ status[r] \in Spent =>
       /\ r \notin owed
       /\ queue[r] = 0
       /\ \A w \in Workers : ~Holds(w, r)

Single == duplicates = 0 => \A r \in Rows : OnePlace(r)

\* The worker will not write its row running any more.
Bound(w) == AtWork(w) \/ (pc[w] = "read" /\ seen[w] = "running")

\* The row of a worker that is past that point runs or was taken away.
BoundRowsRun ==
  duplicates = 0 =>
    \A w \in Workers :
      Bound(w) => status[row[w]] = "running" \/ TakenAway(row[w])

LEMMA LeaveReleases ==
  ASSUME TypeOK, NEW w \in Workers, Leave(w), NEW v \in Workers, NEW r \in Rows
  PROVE  Holds(v, r)' <=> v # w /\ Holds(v, r)
  BY DEF TypeOK, Leave, Holds

LEMMA SingleStep ==
  ASSUME TypeOK, [Next]_vars, Single
  PROVE  Single'
<1> USE DEF TypeOK
<1> SUFFICES ASSUME duplicates' = 0, NEW r \in Rows
             PROVE  OnePlace(r)'
  BY DEF Single
<1>1. duplicates = 0
  BY DEF Next, vars, brokerVars, Dispatch, InsertPending, DeferHot,
         SupersedeRead, SupersedeCommit, SweepRead, SweepCommit,
         SweepRollback, HandOver, Discard, StopRead, StopCommit, TimePasses,
         Redeliver, BindRead, BindCommit, Skip, PassCheck, TakeLock, Finish,
         Cancelled, Fail, LoseWorker, Kill
<1>2. OnePlace(r)
  BY <1>1 DEF Single
<1> USE DEF Spent
<1>3. ASSUME NEW m \in Modes, Dispatch(m)
      PROVE  OnePlace(r)'
  BY <1>2, <1>3
     DEF Dispatch, InsertPending, NextRow, OnePlace, Holds, workerVars
<1>4. CASE DeferHot
  BY <1>2, <1>4 DEF DeferHot, NextRow, OnePlace, Holds, workerVars, brokerVars
<1>5. CASE SupersedeCommit
  <2>1. CASE ActiveRows \subseteq {client.target}
    <3>1. PICK n \in NextRow :
            /\ status' = [status EXCEPT ![client.target] = "cancelled",
                                        ![n] = "pending"]
            /\ owed' = owed \cup {n}
      BY <1>5, <2>1 DEF SupersedeCommit
    <3>2. UNCHANGED <<queue, pc, row>>
      BY <1>5 DEF SupersedeCommit, workerVars
    <3>3. n \in Rows /\ status[n] = "absent"
      BY <3>1 DEF NextRow
    <3> QED
      BY <1>2, <3>1, <3>2, <3>3 DEF OnePlace, Holds
  <2>2. CASE ~(ActiveRows \subseteq {client.target})
    BY <1>2, <1>5, <2>2 DEF SupersedeCommit, OnePlace, Holds, workerVars
  <2> QED
    BY <2>1, <2>2
<1>6. ASSUME NEW s \in Rows, HandOver(s)
      PROVE  OnePlace(r)'
  BY <1>1, <1>2, <1>6
     DEF HandOver, OnePlace, Holds, workerVars, rowVars
<1>7. ASSUME NEW s \in Rows, Discard(s)
      PROVE  OnePlace(r)'
  BY <1>2, <1>7 DEF Discard, OnePlace, Holds, workerVars, rowVars
<1>8. ASSUME NEW w \in Workers, BindRead(w)
      PROVE  OnePlace(r)'
  <2>1. PICK s \in Rows :
          /\ queue[s] > 0
          /\ queue' = [queue EXCEPT ![s] = @ - 1]
          /\ IF Terminal(s)
             THEN UNCHANGED workerVars
             ELSE /\ pc' = [pc EXCEPT ![w] = "read"]
                  /\ row' = [row EXCEPT ![w] = s]
                  /\ seen' = [seen EXCEPT ![w] = status[s]]
    BY <1>8 DEF BindRead
  <2>2. UNCHANGED <<status, owed>> /\ pc[w] = "idle"
    BY <1>8 DEF BindRead, rowVars
  <2>3. OnePlace(s)
    BY <1>1 DEF Single
  <2>4. CASE Terminal(s)
    BY <1>2, <2>1, <2>2, <2>4 DEF OnePlace, Holds, workerVars
  <2>5. CASE ~Terminal(s) /\ r = s
    <3>1. \A v \in Workers : Holds(v, r)' => v = w
      BY <2>1, <2>2, <2>3, <2>5 DEF OnePlace, Holds
    <3>2. queue'[r] = 0 /\ r \notin owed' /\ status'[r] \notin Spent
      BY <2>1, <2>2, <2>3, <2>5 DEF OnePlace
    <3> QED
      BY <3>1, <3>2 DEF OnePlace
  <2>6. CASE ~Terminal(s) /\ r # s
    <3>1. \A v \in Workers : Holds(v, r)' => Holds(v, r)
      BY <2>1, <2>2, <2>6 DEF Holds
    <3>2. queue'[r] = queue[r] /\ UNCHANGED <<status, owed>>
      BY <2>1, <2>2, <2>6
    <3> QED
      BY <1>2, <3>1, <3>2 DEF OnePlace
  <2> QED
    BY <2>4, <2>5, <2>6
<1>9. ASSUME NEW w \in Workers, BindCommit(w)
      PROVE  OnePlace(r)'
  <2>1. \A v \in Workers : Holds(v, r)' => Holds(v, r)
    <3>1. CASE Leave(w)
      BY <3>1, LeaveReleases
    <3>2. CASE pc' = [pc EXCEPT ![w] = "running"] /\ UNCHANGED row
      BY <1>9, <3>2 DEF BindCommit, Holds
    <3> QED
      BY <1>9, <3>1, <3>2 DEF BindCommit
  <2>2. status'[r] \in Spent => status'[r] = status[r]
    BY <1>9 DEF BindCommit, Superseded
  <2>3. UNCHANGED <<owed, queue>>
    BY <1>9 DEF BindCommit, brokerVars
  <2> QED
    BY <1>2, <2>1, <2>2, <2>3 DEF OnePlace
<1>10. ASSUME NEW w \in Workers, Skip(w) \/ Kill(w)
       PROVE  OnePlace(r)'
  <2>1. \A v \in Workers : Holds(v, r)' => Holds(v, r)
    BY <1>10, LeaveReleases DEF Skip, Kill
  <2>2. UNCHANGED <<status, owed, queue>>
    BY <1>10 DEF Skip, Kill, rowVars, brokerVars
  <2> QED
    BY <1>2, <2>1, <2>2 DEF OnePlace
<1>11. ASSUME NEW w \in Workers, PassCheck(w) \/ TakeLock(w)
       PROVE  OnePlace(r)'
  <2>1. \A v \in Workers : Holds(v, r)' => Holds(v, r)
    BY <1>11 DEF PassCheck, TakeLock, Holds
  <2>2. UNCHANGED <<status, owed, queue>>
    BY <1>11 DEF PassCheck, TakeLock, rowVars, brokerVars
  <2> QED
    BY <1>2, <2>1, <2>2 DEF OnePlace
<1>12. ASSUME NEW w \in Workers, Finish(w) \/ Cancelled(w) \/ Fail(w)
       PROVE  OnePlace(r)'
  <2>1. /\ \E final \in TaskStatus : Finalize(row[w], final)
        /\ Leave(w)
        /\ pc[w] # "idle"
        /\ UNCHANGED <<owed, queue>>
    BY <1>12 DEF Finish, Cancelled, Fail, brokerVars, TaskStatus,
                 TERMINAL_TASK_STATUSES
  <2>2. \A v \in Workers : Holds(v, r)' <=> v # w /\ Holds(v, r)
    BY <2>1, LeaveReleases
  <2>3. CASE row[w] = r
    <3>1. Holds(w, r)
      BY <2>1, <2>3 DEF Holds
    <3>2. \A v \in Workers : ~Holds(v, r)'
      BY <1>2, <2>2, <3>1 DEF OnePlace
    <3>3. queue'[r] = 0 /\ r \notin owed'
      BY <1>2, <2>1, <3>1 DEF OnePlace
    <3> QED
      BY <3>2, <3>3 DEF OnePlace
  <2>4. CASE row[w] # r
    <3>1. status'[r] = status[r]
      BY <2>1, <2>4 DEF Finalize
    <3> QED
      BY <1>2, <2>1, <2>2, <3>1 DEF OnePlace
  <2> QED
    BY <2>3, <2>4
<1>13. ASSUME NEW w \in Workers, LoseWorker(w)
       PROVE  OnePlace(r)'
  <2>1. \A v \in Workers : Holds(v, r)' <=> v # w /\ Holds(v, r)
    BY <1>13, LeaveReleases DEF LoseWorker
  <2>2. UNCHANGED <<status, owed>>
    BY <1>13 DEF LoseWorker, rowVars
  <2>3. CASE row[w] = r
    <3>1. Holds(w, r)
      BY <1>13, <2>3 DEF LoseWorker, Holds
    <3>2. \A v \in Workers : ~Holds(v, r)'
      BY <1>2, <2>1, <3>1 DEF OnePlace
    <3>3. queue'[r] = 1 /\ r \notin owed' /\ status'[r] \notin Spent
      BY <1>2, <1>13, <2>2, <2>3, <3>1 DEF OnePlace, LoseWorker
    <3> QED
      BY <3>2, <3>3 DEF OnePlace
  <2>4. CASE row[w] # r
    <3>1. queue'[r] = queue[r]
      BY <1>13, <2>4 DEF LoseWorker
    <3> QED
      BY <1>2, <2>1, <2>2, <3>1 DEF OnePlace
  <2> QED
    BY <2>3, <2>4
<1>14. CASE StopCommit \/ SweepCommit
  <2>1. status'[r] \in Spent => status'[r] = status[r]
    BY <1>14 DEF StopCommit, SweepCommit, Finalize
  <2>2. UNCHANGED <<owed, queue, pc, row>>
    BY <1>14 DEF StopCommit, SweepCommit, brokerVars, workerVars
  <2> QED
    BY <1>2, <2>1, <2>2 DEF OnePlace, Holds
<1>15. CASE UNCHANGED <<status, owed, queue, pc, row>>
  BY <1>2, <1>15 DEF OnePlace, Holds
<1>16. ASSUME NEW w \in Workers, Redeliver(w)
       PROVE  FALSE
  BY <1>1, <1>16 DEF Redeliver
<1> QED
  BY <1>3, <1>4, <1>5, <1>6, <1>7, <1>8, <1>9, <1>10, <1>11, <1>12, <1>13,
     <1>14, <1>15, <1>16
     DEF Next, vars, rowVars, brokerVars, workerVars, SupersedeRead,
         SweepRead, SweepRollback, StopRead, TimePasses

\* A worker past the point of writing its row running got there by a bind
\* of that row, and was so before unless this step is the bind.
LEMMA BoundStep ==
  ASSUME TypeOK, [Next]_vars, NEW w \in Workers, Bound(w)'
  PROVE  \/ Bound(w) /\ row'[w] = row[w]
         \/ BindRead(w) /\ status'[row'[w]] = "running"
         \/ BindCommit(w) /\ row'[w] = row[w] /\ status'[row[w]] = "running"
<1> USE DEF TypeOK, Bound, AtWork
<1>1. ASSUME NEW v \in Workers, Leave(v)
      PROVE  Bound(w) /\ row'[w] = row[w]
  BY <1>1 DEF Leave, ACTIVE
<1>2. ASSUME NEW v \in Workers, BindRead(v)
      PROVE  \/ Bound(w) /\ row'[w] = row[w]
             \/ BindRead(w) /\ status'[row'[w]] = "running"
  <2>1. PICK r \in Rows :
          \/ UNCHANGED workerVars
          \/ /\ pc' = [pc EXCEPT ![v] = "read"]
             /\ row' = [row EXCEPT ![v] = r]
             /\ seen' = [seen EXCEPT ![v] = status[r]]
    BY <1>2 DEF BindRead
  <2>2. UNCHANGED status
    BY <1>2 DEF BindRead, rowVars
  <2>3. CASE UNCHANGED workerVars
    BY <2>3 DEF workerVars
  <2>4. CASE ~UNCHANGED workerVars
    <3>1. CASE v = w
      BY <1>2, <2>1, <2>2, <2>4, <3>1
    <3>2. CASE v # w
      BY <2>1, <2>4, <3>2
    <3> QED
      BY <3>1, <3>2
  <2> QED
    BY <2>3, <2>4
<1>3. ASSUME NEW v \in Workers, BindCommit(v)
      PROVE  \/ Bound(w) /\ row'[w] = row[w]
             \/ BindCommit(w) /\ row'[w] = row[w]
                              /\ status'[row[w]] = "running"
  <2>1. CASE Leave(v)
    BY <1>1, <2>1
  <2>2. CASE /\ pc' = [pc EXCEPT ![v] = "running"]
             /\ UNCHANGED <<row, seen>>
             /\ seen[v] = "pending" => status'[row[v]] = "running"
    <3>1. CASE v = w
      BY <1>3, <2>2, <3>1 DEF BindCommit, ACTIVE
    <3>2. CASE v # w
      BY <2>2, <3>2
    <3> QED
      BY <3>1, <3>2
  <2> QED
    BY <1>3, <2>1, <2>2 DEF BindCommit
<1>4. ASSUME NEW v \in Workers, PassCheck(v) \/ TakeLock(v)
      PROVE  Bound(w) /\ row'[w] = row[w]
  BY <1>4 DEF PassCheck, TakeLock
<1>5. CASE UNCHANGED workerVars
  BY <1>5 DEF workerVars
<1> QED
  BY <1>1, <1>2, <1>3, <1>4, <1>5
     DEF Next, vars, Dispatch, DeferHot, SupersedeRead, SupersedeCommit,
         SweepRead, SweepCommit, SweepRollback, HandOver, Discard, StopRead,
         StopCommit, TimePasses, Redeliver, Skip, Finish, Cancelled, Fail,
         LoseWorker, Kill

\* The row of a bound worker that is the only one at it is not brought back,
\* and stops running only by being taken away.
LEMMA BoundRowStep ==
  ASSUME TypeOK, SupersedesHot, [Next]_vars, NEW r \in Rows,
         NEW w \in Workers, Holds(w, r), Bound(w),
         Holds(w, r)', Bound(w)',
         \A v \in Workers : Holds(v, r) => v = w,
         status[r] = "running" \/ TakenAway(r)
  PROVE  status'[r] = "running" \/ TakenAway(r)'
<1> USE DEF TypeOK, TakenAway
<1>1. mode'[r] = mode[r]
  BY ModeIsFixed
<1>2. cancelReq[r] => cancelReq'[r]
  BY DEF Next, vars, rowVars, Dispatch, InsertPending, DeferHot,
         SupersedeRead, SupersedeCommit, SweepRead, SweepCommit,
         SweepRollback, HandOver, Discard, StopRead, StopCommit, TimePasses,
         Redeliver, BindRead, BindCommit, Skip, PassCheck, TakeLock, Finish,
         Cancelled, Fail, LoseWorker, Kill
<1>3. ASSUME NEW m \in Modes, Dispatch(m)
      PROVE  status'[r] = status[r]
  BY <1>3 DEF Dispatch, InsertPending, NextRow
<1>4. CASE DeferHot
  BY <1>1, <1>2, <1>4 DEF DeferHot, NextRow
<1>5. CASE SupersedeCommit
  <2>1. CASE status'[r] = status[r]
    BY <1>1, <1>2, <2>1
  <2>2. CASE status'[r] # status[r]
    <3>1. r = client.target /\ status'[r] = "cancelled"
      BY <1>5, <2>2 DEF SupersedeCommit, NextRow
    <3>2. mode[r] = "hot"
      BY <1>5, <3>1 DEF SupersedeCommit, SupersedesHot
    <3> QED
      BY <1>1, <3>1, <3>2
  <2> QED
    BY <2>1, <2>2
<1>6. ASSUME NEW v \in Workers, BindCommit(v)
      PROVE  status'[r] = status[r] \/ status'[r] = "running"
  BY <1>6 DEF BindCommit, Superseded
<1>7. ASSUME NEW v \in Workers, Finish(v) \/ Cancelled(v) \/ Fail(v)
      PROVE  status'[r] = status[r]
  <2>1. /\ \E final \in TaskStatus : Finalize(row[v], final)
        /\ Leave(v)
        /\ pc[v] # "idle"
    BY <1>7 DEF Finish, Cancelled, Fail, TaskStatus, TERMINAL_TASK_STATUSES
  <2>2. v # w
    BY <2>1, LeaveReleases
  <2>3. row[v] # r
    BY <2>1, <2>2 DEF Holds
  <2> QED
    BY <2>1, <2>3 DEF Finalize
<1>8. CASE StopCommit
  <2>1. \/ status'[r] = status[r]
        \/ status'[r] = "cancelled" /\ cancelReq'[r]
    BY <1>8 DEF StopCommit, Finalize
  <2> QED
    BY <1>1, <1>2, <2>1
<1>9. CASE SweepCommit
  BY <1>1, <1>2, <1>9 DEF SweepCommit
<1>10. CASE UNCHANGED status
  BY <1>1, <1>2, <1>10
<1> QED
  BY <1>1, <1>2, <1>3, <1>4, <1>5, <1>6, <1>7, <1>8, <1>9, <1>10
     DEF Next, vars, rowVars, SupersedeRead, SweepRead, SweepRollback,
         HandOver, Discard, StopRead, TimePasses, Redeliver, BindRead, Skip,
         PassCheck, TakeLock, LoseWorker, Kill

LEMMA BoundRowsRunStep ==
  ASSUME TypeOK, SupersedesHot, [Next]_vars, Single, BoundRowsRun
  PROVE  BoundRowsRun'
<1> SUFFICES ASSUME duplicates' = 0, NEW w \in Workers, Bound(w)'
             PROVE  status'[row'[w]] = "running" \/ TakenAway(row[w])'
  BY DEF BoundRowsRun, TakenAway
<1>1. duplicates = 0
  BY DEF TypeOK, Next, vars, brokerVars, Dispatch, InsertPending, DeferHot,
         SupersedeRead, SupersedeCommit, SweepRead, SweepCommit,
         SweepRollback, HandOver, Discard, StopRead, StopCommit, TimePasses,
         Redeliver, BindRead, BindCommit, Skip, PassCheck, TakeLock, Finish,
         Cancelled, Fail, LoseWorker, Kill
<1>2. CASE Bound(w) /\ row'[w] = row[w]
  <2>1. row[w] \in Rows /\ Holds(w, row[w]) /\ Holds(w, row[w])'
    BY <1>2 DEF TypeOK, Holds, Bound, AtWork
  <2>2. \A v \in Workers : Holds(v, row[w]) => v = w
    BY <1>1, <2>1 DEF Single, OnePlace
  <2>3. status[row[w]] = "running" \/ TakenAway(row[w])
    BY <1>1, <1>2 DEF BoundRowsRun
  <2> DEFINE r == row[w]
  <2> HIDE DEF r
  <2>4. status'[r] = "running" \/ TakenAway(r)'
    BY <1>2, <2>1, <2>2, <2>3, BoundRowStep DEF r
  <2> QED
    BY <1>2, <2>4 DEF r, TakenAway
<1>3. CASE status'[row'[w]] = "running"
  BY <1>3
<1> QED
  BY <1>2, <1>3, BoundStep

SingleBuilds == Single /\ BoundRowsRun

LEMMA SingleBuildsInvariant == Spec => []SingleBuilds
<1>1. Init => SingleBuilds
  BY DEF Init, SingleBuilds, Single, OnePlace, Holds, BoundRowsRun, Bound,
         AtWork
<1>2. TypedInv /\ SupersedesHot /\ SingleBuilds /\ [Next]_vars => SingleBuilds'
  BY SingleStep, BoundRowsRunStep DEF TypedInv, SingleBuilds
<1> QED
  BY <1>1, <1>2, TypedInvariant, SupersedesHotInvariant, PTL DEF Spec

\* Two workers act for the source at once only after a duplicate delivery,
\* or when the heartbeat, a stop or a FULL request has ended the row of one
\* of them: nothing else, and no order of these, makes two builds overlap.
THEOREM OverlapsAreExplained == Spec => []OverlapIsExplained
<1>1. TypeOK /\ SingleBuilds /\ OneActiveRow => OverlapIsExplained
  <2> SUFFICES ASSUME TypeOK, Single, BoundRowsRun, OneActiveRow,
                      NEW v \in Workers, NEW w \in Workers, v # w,
                      AtWork(v), AtWork(w), duplicates = 0
               PROVE  /\ row[v] # row[w]
                      /\ TakenAway(row[v]) \/ TakenAway(row[w])
    BY DEF TypeOK, SingleBuilds, OverlapIsExplained
  <2>1. row[v] \in Rows /\ row[w] \in Rows
    BY DEF TypeOK
  <2>2. row[v] # row[w]
    BY <2>1 DEF Single, OnePlace, Holds, AtWork
  <2>3. /\ status[row[v]] = "running" \/ TakenAway(row[v])
        /\ status[row[w]] = "running" \/ TakenAway(row[w])
    BY DEF BoundRowsRun, Bound
  <2>4. ~(status[row[v]] = "running" /\ status[row[w]] = "running")
    BY <2>1, <2>2 DEF OneActiveRow, Active, ACTIVE
  <2> QED
    BY <2>2, <2>3, <2>4
<1> QED
  BY <1>1, TypeCorrect, SingleBuildsInvariant, OneActiveRowInvariant, PTL

-----------------------------------------------------------------------------
(***************************************************************************)
(* The stop request                                                        *)
(***************************************************************************)

\* The row has its stop request, and no build of it is past the check.
Stopped(r) ==
  /\ cancelReq[r]
  /\ status[r] # "success"
  /\ \A w \in Workers : row[w] = r => pc[w] \notin {"waiting", "building"}

LEMMA StoppedStep ==
  ASSUME NEW r \in Rows
  PROVE  TypeOK /\ Stopped(r) /\ [Next]_vars => Stopped(r)'
<1> SUFFICES ASSUME TypeOK, Stopped(r), [Next]_vars
             PROVE  Stopped(r)'
  OBVIOUS
<1> USE DEF TypeOK, Stopped
<1>1. cancelReq'[r]
  <2>1. CASE StopCommit
    BY <2>1 DEF StopCommit
  <2>2. CASE UNCHANGED cancelReq
    BY <2>2
  <2> QED
    BY <2>1, <2>2
       DEF Next, vars, rowVars, Dispatch, InsertPending, DeferHot,
           SupersedeRead, SupersedeCommit, SweepRead, SweepCommit,
           SweepRollback, HandOver, Discard, StopRead, TimePasses, Redeliver,
           BindRead, BindCommit, Skip, PassCheck, TakeLock, Finish, Cancelled,
           Fail, LoseWorker, Kill
<1>2. status'[r] # "success"
  <2>1. ASSUME NEW m \in Modes, Dispatch(m)
        PROVE  status'[r] # "success"
    BY <2>1 DEF Dispatch, InsertPending
  <2>2. CASE DeferHot \/ SupersedeCommit
    BY <2>2 DEF DeferHot, SupersedeCommit
  <2>3. CASE StopCommit \/ SweepCommit
    BY <2>3 DEF StopCommit, SweepCommit, Finalize
  <2>4. ASSUME NEW w \in Workers, BindCommit(w)
        PROVE  status'[r] # "success"
    BY <2>4 DEF BindCommit, Superseded
  <2>5. ASSUME NEW w \in Workers, Finish(w) \/ Cancelled(w) \/ Fail(w)
        PROVE  status'[r] # "success"
    BY <2>5 DEF Finish, Cancelled, Fail, Finalize
  <2>6. CASE UNCHANGED status
    BY <2>6
  <2> QED
    BY <2>1, <2>2, <2>3, <2>4, <2>5, <2>6
       DEF Next, vars, rowVars, SupersedeRead, SweepRead, SweepRollback,
           HandOver, Discard, StopRead, TimePasses, Redeliver, BindRead, Skip,
           PassCheck, TakeLock, LoseWorker, Kill
<1>3. ASSUME NEW v \in Workers, row'[v] = r
      PROVE  pc'[v] \notin {"waiting", "building"}
  <2>1. ASSUME NEW w \in Workers, Leave(w)
        PROVE  pc'[v] \notin {"waiting", "building"}
    BY <1>3, <2>1 DEF Leave
  <2>2. ASSUME NEW w \in Workers, BindRead(w) \/ BindCommit(w)
        PROVE  pc'[v] \notin {"waiting", "building"}
    BY <1>3, <2>1, <2>2 DEF BindRead, BindCommit, Superseded, workerVars
  <2>3. ASSUME NEW w \in Workers, PassCheck(w) \/ TakeLock(w)
        PROVE  pc'[v] \notin {"waiting", "building"}
    BY <1>3, <2>3 DEF PassCheck, TakeLock
  <2>4. CASE UNCHANGED workerVars
    BY <1>3, <2>4 DEF workerVars
  <2> QED
    BY <2>1, <2>2, <2>3, <2>4
       DEF Next, vars, workerVars, Dispatch, DeferHot, SupersedeRead,
           SupersedeCommit, SweepRead, SweepCommit, SweepRollback, HandOver,
           Discard, StopRead, StopCommit, TimePasses, Redeliver, Skip,
           Finish, Cancelled, Fail, LoseWorker, Kill
<1> QED
  BY <1>1, <1>2, <1>3

\* A stop request that is committed before any build of the row has passed
\* its check keeps the row from ever reporting success, whoever re-binds it.
THEOREM StopsAreHonoured == Spec => StopIsHonoured
<1>1. ASSUME NEW r \in Rows
      PROVE  Spec => [](Stopped(r) => [](status[r] # "success"))
  <2>1. TypeOK /\ Stopped(r) /\ [Next]_vars => Stopped(r)'
    BY StoppedStep
  <2>2. Stopped(r) => status[r] # "success"
    BY DEF Stopped
  <2> QED
    BY <2>1, <2>2, TypeCorrect, PTL DEF Spec
<1> QED
  BY <1>1 DEF StopIsHonoured, Stopped

=============================================================================
