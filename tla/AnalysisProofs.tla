--------------------------- MODULE AnalysisProofs ---------------------------
(***************************************************************************)
(* Theorems about the analysis of one session, for every number of         *)
(* workers, files, task_log rows, duplicates and faults, and for every     *)
(* recovery budget.                                                        *)
(***************************************************************************)
EXTENDS Analysis, TLAPS

LEMMA SmallTypes ==
  /\ 1 \in Rows
  /\ 1 \in 1..(LastChunk + 1)
  /\ 0 \in Runs
  /\ 0 \in Prompts
  /\ 0 \in 0..MaxAttempts
  /\ 0 \in 0..(MaxAttempts + 1)
  BY BoundsAssumption DEF Rows, Runs, Prompts

-----------------------------------------------------------------------------
(***************************************************************************)
(* A row that may still be worked on has an attempt left of the budget:    *)
(* what keeps the recovery's increment within its type.                    *)
(***************************************************************************)
Budget == \A r \in Rows : ~Terminal(r) => attempt[r] <= MaxAttempts

\* The model is called for a chunk of the session.
CallsAChunk == \A w \in Workers : pc[w] = "calling" => next[w] <= LastChunk

\* The parts of TypeOK that belong together.
SessionTypes == session \in SessionAnalysisStatus /\ events \subseteq Chunks
CkptTypes ==
  ckpt \in [Work -> CheckpointState] /\ fingerprint \in [Work -> Prompts]
InputTypes == prompts \in Prompts /\ files \in Runs
RowTypes ==
  /\ status \in [Rows -> ACTIVE \cup TERMINAL_TASK_STATUSES \cup {"absent"}]
  /\ attempt \in [Rows -> 0..(MaxAttempts + 1)]
  /\ generation \in [Rows -> 0..(MaxAttempts + 1)]
  /\ cancelReq \in [Rows -> BOOLEAN]
  /\ overdue \subseteq Rows
BrokerTypes ==
  /\ queue \in [Rows -> Nat]
  /\ revoked \subseteq Rows
  /\ duplicates \in 0..MaxDuplicates
LocalTypes ==
  /\ pc \in [Workers -> Stages]
  /\ row \in [Workers -> Rows]
  /\ run \in [Workers -> Runs]
  /\ prompt \in [Workers -> Prompts]
  /\ gen \in [Workers -> 0..(MaxAttempts + 1)]
  /\ sawStop \in [Workers -> BOOLEAN]
  /\ next \in [Workers -> 1..(LastChunk + 1)]
BeatTypes == sweep \in Rows \cup {NoRow} /\ handoff \in 0..MaxAttempts
RequestTypes == resealing \in BOOLEAN

LEMMA TypeParts ==
  TypeOK <=> /\ SessionTypes /\ CkptTypes /\ InputTypes /\ RowTypes
             /\ BrokerTypes /\ LocalTypes /\ BeatTypes /\ RequestTypes
             /\ faults \in 0..MaxFaults
  BY DEF TypeOK, SessionTypes, CkptTypes, InputTypes, RowTypes, BrokerTypes,
         LocalTypes, BeatTypes, RequestTypes

LEMMA TypePartsNext ==
  TypeOK' <=> /\ SessionTypes' /\ CkptTypes' /\ InputTypes' /\ RowTypes'
              /\ BrokerTypes' /\ LocalTypes' /\ BeatTypes' /\ RequestTypes'
              /\ (faults \in 0..MaxFaults)'
  BY DEF TypeOK, SessionTypes, CkptTypes, InputTypes, RowTypes, BrokerTypes,
         LocalTypes, BeatTypes, RequestTypes

\* What a step leaves alone keeps its types.
LEMMA Unchanged ==
  /\ SessionTypes /\ UNCHANGED sessionVars => SessionTypes'
  /\ CkptTypes /\ UNCHANGED ckptVars => CkptTypes'
  /\ InputTypes /\ UNCHANGED inputVars => InputTypes'
  /\ RowTypes /\ UNCHANGED rowVars => RowTypes'
  /\ BrokerTypes /\ UNCHANGED brokerVars => BrokerTypes'
  /\ LocalTypes /\ UNCHANGED <<pc, localVars>> => LocalTypes'
  /\ BeatTypes /\ UNCHANGED beatVars => BeatTypes'
  /\ RequestTypes /\ UNCHANGED resealing => RequestTypes'
  /\ faults \in 0..MaxFaults /\ UNCHANGED faults => (faults \in 0..MaxFaults)'
  /\ Budget /\ UNCHANGED rowVars => Budget'
  /\ CallsAChunk /\ UNCHANGED <<pc, localVars>> => CallsAChunk'
<1>1. SessionTypes /\ UNCHANGED sessionVars => SessionTypes'
  BY DEF SessionTypes, sessionVars
<1>2. CkptTypes /\ UNCHANGED ckptVars => CkptTypes'
  BY DEF CkptTypes, ckptVars
<1>3. InputTypes /\ UNCHANGED inputVars => InputTypes'
  BY DEF InputTypes, inputVars
<1>4. RowTypes /\ UNCHANGED rowVars => RowTypes'
  BY DEF RowTypes, rowVars
<1>5. BrokerTypes /\ UNCHANGED brokerVars => BrokerTypes'
  BY DEF BrokerTypes, brokerVars
<1>6. LocalTypes /\ UNCHANGED <<pc, localVars>> => LocalTypes'
  BY DEF LocalTypes, localVars
<1>7. BeatTypes /\ UNCHANGED beatVars => BeatTypes'
  BY DEF BeatTypes, beatVars
<1>8. Budget /\ UNCHANGED rowVars => Budget'
  BY DEF Budget, rowVars, Terminal
<1>9. CallsAChunk /\ UNCHANGED <<pc, localVars>> => CallsAChunk'
  BY DEF CallsAChunk, localVars
<1>10. RequestTypes /\ UNCHANGED resealing => RequestTypes'
  BY DEF RequestTypes
<1> QED
  BY <1>1, <1>2, <1>3, <1>4, <1>5, <1>6, <1>7, <1>8, <1>9, <1>10

\* transition_session keeps the session's type.
LEMMA MoveTyped ==
  ASSUME SessionTypes, NEW from, NEW to \in SessionAnalysisStatus,
         Move(from, to), UNCHANGED events
  PROVE  SessionTypes'
  BY DEF SessionTypes, Move

\* The marking of a failed run keeps the checkpoints' types.
LEMMA MarkOpenTyped ==
  ASSUME CkptTypes, NEW f \in Runs, MarkOpen(f), UNCHANGED fingerprint
  PROVE  CkptTypes'
<1>1. CASE UNCHANGED ckpt
  BY <1>1 DEF CkptTypes
<1>2. ASSUME NEW c \in Chunks, ckpt' = [ckpt EXCEPT ![<<f, c>>] = "error"]
      PROVE  CkptTypes'
  BY <1>2 DEF CkptTypes, CheckpointState
<1> QED
  BY <1>1, <1>2 DEF MarkOpen, Processing

\* A worker that leaves its task forgets it, and keeps its types.
LEMMA LeaveTyped ==
  ASSUME LocalTypes, CallsAChunk, NEW w \in Workers, Leave(w)
  PROVE  LocalTypes' /\ CallsAChunk'
  BY SmallTypes DEF LocalTypes, CallsAChunk, Leave, Stages

\* A finalisation writes a terminal status, which needs no budget.
LEMMA FinalizeTyped ==
  ASSUME RowTypes, Budget, NEW r, NEW final \in TERMINAL_TASK_STATUSES,
         Finalize(r, final), UNCHANGED <<attempt, generation, cancelReq>>
  PROVE  RowTypes' /\ Budget'
<1>1. RowTypes'
  BY DEF RowTypes, Finalize
<1>2. Budget'
  BY DEF Budget, RowTypes, Finalize, Terminal
<1> QED
  BY <1>1, <1>2

\* A dispatched row gets its message and the attempt it stands for.
LEMMA InsertTyped ==
  ASSUME RowTypes, Budget, BrokerTypes, NEW n \in 0..MaxAttempts,
         InsertPending(n)
  PROVE  RowTypes' /\ Budget' /\ BrokerTypes'
<1>1. PICK r \in Rows :
        /\ status' = [status EXCEPT ![r] = "pending"]
        /\ attempt' = [attempt EXCEPT ![r] = n]
        /\ queue' = [queue EXCEPT ![r] = @ + 1]
        /\ UNCHANGED <<generation, cancelReq, overdue, revoked, duplicates>>
  BY DEF InsertPending, NextRow
<1>2. RowTypes'
  BY <1>1, BoundsAssumption DEF RowTypes, ACTIVE
<1>3. Budget'
  BY <1>1, BoundsAssumption DEF Budget, RowTypes, Terminal
<1>4. BrokerTypes'
  BY <1>1 DEF BrokerTypes
<1> QED
  BY <1>2, <1>3, <1>4

-----------------------------------------------------------------------------
(***************************************************************************)
(* Type correctness, one lemma per group of actions                        *)
(***************************************************************************)
TypeInv == TypeOK /\ Budget /\ CallsAChunk

LEMMA InputTyped ==
  ASSUME TypeInv,
         \/ ResealRead \/ Reseal \/ Dispatch \/ EditPrompts \/ ChangeFiles
         \/ \E r \in Rows : Retry(r) \/ Stop(r)
  PROVE  TypeInv'
<1> USE TypeParts, TypePartsNext, Unchanged DEF TypeInv
<1>1. CASE Reseal
  <2>1. SessionTypes'
    BY <1>1 DEF Reseal, SessionTypes, SessionAnalysisStatus
  <2>2. RequestTypes'
    BY <1>1 DEF Reseal, RequestTypes
  <2> QED
    BY <1>1, <2>1, <2>2 DEF Reseal
<1>2. CASE Dispatch
  BY <1>2, InsertTyped, SmallTypes DEF Dispatch
<1>3. CASE EditPrompts
  <2>1. InputTypes'
    BY <1>3, BoundsAssumption DEF EditPrompts, InputTypes, Prompts
  <2> QED
    BY <1>3, <2>1 DEF EditPrompts, inputVars, ckptVars
<1>4. CASE ChangeFiles
  <2>1. InputTypes'
    BY <1>4, BoundsAssumption DEF ChangeFiles, InputTypes, Runs
  <2> QED
    BY <1>4, <2>1 DEF ChangeFiles
<1>5. ASSUME NEW r \in Rows, Retry(r)
      PROVE  TypeInv'
  <2>1. SessionTypes'
    BY <1>5 DEF Retry, SessionTypes, SessionAnalysisStatus
  <2>2. RowTypes' /\ Budget' /\ BrokerTypes'
    BY <1>5, InsertTyped, SmallTypes DEF Retry
  <2> QED
    BY <1>5, <2>1, <2>2 DEF Retry
<1>6. ASSUME NEW r \in Rows, Stop(r)
      PROVE  TypeInv'
  <2>1. RowTypes'
    BY <1>6 DEF Stop, RowTypes, Finalize, TERMINAL_TASK_STATUSES
  <2>2. Budget'
    BY <1>6 DEF Stop, Budget, RowTypes, Finalize, Terminal,
                TERMINAL_TASK_STATUSES
  <2>3. BrokerTypes'
    BY <1>6 DEF Stop, BrokerTypes
  <2> QED
    BY <1>6, <2>1, <2>2, <2>3 DEF Stop
<1>7. CASE ResealRead
  <2>1. RequestTypes'
    BY <1>7 DEF ResealRead, RequestTypes
  <2> QED
    BY <1>7, <2>1 DEF ResealRead
<1> QED
  BY <1>1, <1>2, <1>3, <1>4, <1>5, <1>6, <1>7

LEMMA ClaimTyped ==
  ASSUME TypeInv, NEW w \in Workers,
         Bind(w) \/ Claim(w) \/ ClaimRefused(w)
  PROVE  TypeInv'
<1> USE TypeParts, TypePartsNext, Unchanged DEF TypeInv
<1>1. CASE Bind(w)
  <2>1. PICK r \in Rows :
          /\ queue[r] > 0
          /\ queue' = [queue EXCEPT ![r] = @ - 1]
          /\ IF Terminal(r)
             THEN UNCHANGED <<status, overdue, pc, row, run>>
             ELSE /\ status' = [s \in Rows |->
                                  IF s = r THEN "running"
                                  ELSE IF status[s] = "pending"
                                       THEN "cancelled"
                                  ELSE status[s]]
                  /\ overdue' = overdue \ {r}
                  /\ pc' = [pc EXCEPT ![w] = "bound"]
                  /\ row' = [row EXCEPT ![w] = r]
                  /\ run' = [run EXCEPT ![w] = files]
    BY <1>1 DEF Bind
  <2>2. BrokerTypes'
    BY <1>1, <2>1 DEF Bind, BrokerTypes
  <2>3. LocalTypes' /\ CallsAChunk'
    BY <1>1, <2>1 DEF Bind, LocalTypes, CallsAChunk, InputTypes, Stages
  <2>4. RowTypes'
    BY <1>1, <2>1 DEF Bind, RowTypes, ACTIVE, TERMINAL_TASK_STATUSES
  <2>5. Budget'
    BY <1>1, <2>1 DEF Bind, RowTypes, Budget, Terminal,
                      TERMINAL_TASK_STATUSES
  <2> QED
    BY <1>1, <2>2, <2>3, <2>4, <2>5 DEF Bind
<1>2. CASE Claim(w)
  <2> DEFINE g == IF generation[row[w]] > 0 THEN generation[row[w]]
                  ELSE attempt[row[w]]
  <2>1. g \in 0..(MaxAttempts + 1) /\ row[w] \in Rows
    BY DEF RowTypes, LocalTypes
  <2>2. SessionTypes'
    BY <1>2 DEF Claim, SessionTypes, SessionAnalysisStatus
  <2>3. CkptTypes'
    BY <1>2, SmallTypes DEF Claim, CkptTypes, CheckpointState
  <2>4. /\ generation' = [generation EXCEPT ![row[w]] = g]
        /\ gen' = [gen EXCEPT ![w] = g]
    BY <1>2 DEF Claim
  <2> HIDE DEF g
  <2>5. RowTypes' /\ Budget'
    BY <1>2, <2>1, <2>4 DEF Claim, RowTypes, Budget, Terminal
  <2>6. LocalTypes' /\ CallsAChunk'
    BY <1>2, <2>1, <2>4 DEF Claim, LocalTypes, CallsAChunk, RowTypes,
                            InputTypes, Stages
  <2> QED
    BY <1>2, <2>2, <2>3, <2>5, <2>6 DEF Claim
<1>3. CASE ClaimRefused(w)
  <2>1. PICK r \in Newest : Finalize(r, "skipped")
    BY <1>3 DEF ClaimRefused
  <2>2. RowTypes' /\ Budget'
    BY <1>3, <2>1, FinalizeTyped DEF ClaimRefused, TERMINAL_TASK_STATUSES
  <2> QED
    BY <1>3, <2>2, LeaveTyped DEF ClaimRefused
<1> QED
  BY <1>1, <1>2, <1>3

LEMMA LoopTyped ==
  ASSUME TypeInv, NEW w \in Workers,
         \/ ReuseChunk(w) \/ TakeChunk(w) \/ TakeLate(w)
         \/ WriteChunk(w) \/ WriteLate(w) \/ PassLastCheck(w)
  PROVE  TypeInv'
<1> USE TypeParts, TypePartsNext, Unchanged, BoundsAssumption DEF TypeInv
<1>2. CASE ReuseChunk(w)
  <2>1. LocalTypes' /\ CallsAChunk'
    BY <1>2 DEF ReuseChunk, AtChunk, LocalTypes, CallsAChunk
  <2> QED
    BY <1>2, <2>1 DEF ReuseChunk
<1>3. CASE TakeChunk(w)
  <2>1. CkptTypes'
    BY <1>3 DEF TakeChunk, CkptTypes, LocalTypes, CheckpointState
  <2>2. RowTypes' /\ Budget'
    BY <1>3 DEF TakeChunk, RenewLease, RowTypes, Budget, Terminal
  <2>3. LocalTypes' /\ CallsAChunk'
    BY <1>3 DEF TakeChunk, AtChunk, LocalTypes, CallsAChunk, Stages, localVars
  <2> QED
    BY <1>3, <2>1, <2>2, <2>3 DEF TakeChunk
<1>4. CASE TakeLate(w)
  BY <1>4, LeaveTyped DEF TakeLate
<1>5. CASE WriteChunk(w)
  <2>1. CkptTypes'
    BY <1>5 DEF WriteChunk, CkptTypes, CheckpointState
  <2>2. RowTypes' /\ Budget'
    BY <1>5 DEF WriteChunk, RenewLease, RowTypes, Budget, Terminal
  <2>3. LocalTypes' /\ CallsAChunk'
    BY <1>5 DEF WriteChunk, LocalTypes, CallsAChunk, Stages
  <2> QED
    BY <1>5, <2>1, <2>2, <2>3 DEF WriteChunk
<1>6. CASE WriteLate(w)
  BY <1>6, LeaveTyped DEF WriteLate
<1>7. CASE PassLastCheck(w)
  <2>1. LocalTypes' /\ CallsAChunk'
    BY <1>7 DEF PassLastCheck, LocalTypes, CallsAChunk, Stages, localVars
  <2> QED
    BY <1>7, <2>1 DEF PassLastCheck
<1> QED
  BY <1>2, <1>3, <1>4, <1>5, <1>6, <1>7

LEMMA EndTyped ==
  ASSUME TypeInv, NEW w \in Workers,
         \/ CancelSession(w) \/ Fail(w)
         \/ FinalizeSuccess(w) \/ FinalizeLost(w) \/ FinalizeFails(w)
  PROVE  TypeInv'
<1> USE TypeParts, TypePartsNext, Unchanged DEF TypeInv
<1>1. {"sealed", "partial", "failed", "success"} \subseteq SessionAnalysisStatus
  BY DEF SessionAnalysisStatus
<1>2. {"cancelled", "failed", "success"} \subseteq TERMINAL_TASK_STATUSES
  BY DEF TERMINAL_TASK_STATUSES
<1>3. CASE CancelSession(w)
  <2>1. SessionTypes'
    BY <1>1, <1>3, MoveTyped DEF CancelSession
  <2>2. RowTypes' /\ Budget'
    BY <1>2, <1>3, FinalizeTyped DEF CancelSession
  <2> QED
    BY <1>3, <2>1, <2>2, LeaveTyped DEF CancelSession
<1>4. CASE Fail(w)
  <2>1. CkptTypes'
    BY <1>4, MarkOpenTyped DEF Fail, LocalTypes
  <2>2. SessionTypes'
    BY <1>1, <1>4 DEF Fail, Move, SessionTypes
  <2>3. RowTypes' /\ Budget'
    BY <1>2, <1>4, FinalizeTyped DEF Fail
  <2> QED
    BY <1>4, <2>1, <2>2, <2>3, LeaveTyped DEF Fail
<1>5. CASE FinalizeSuccess(w)
  <2>1. SessionTypes'
    BY <1>1, <1>5 DEF FinalizeSuccess, SessionTypes, Done
  <2>2. RowTypes' /\ Budget'
    BY <1>2, <1>5, FinalizeTyped DEF FinalizeSuccess
  <2> QED
    BY <1>5, <2>1, <2>2, LeaveTyped DEF FinalizeSuccess
<1>6. CASE FinalizeLost(w)
  BY <1>6, LeaveTyped DEF FinalizeLost
<1>7. CASE FinalizeFails(w)
  <2>1. SessionTypes'
    BY <1>1, <1>7 DEF FinalizeFails, SessionTypes, Done
  <2>2. CkptTypes'
    BY <1>7, MarkOpenTyped DEF FinalizeFails, LocalTypes
  <2>3. RowTypes' /\ Budget'
    BY <1>2, <1>7, FinalizeTyped DEF FinalizeFails
  <2> QED
    BY <1>7, <2>1, <2>2, <2>3, LeaveTyped DEF FinalizeFails
<1> QED
  BY <1>3, <1>4, <1>5, <1>6, <1>7

\* A message goes back to the queue.
LEMMA QueuedAgain ==
  ASSUME TypeInv, NEW w \in Workers,
         queue' = [queue EXCEPT ![row[w]] = @ + 1]
  PROVE  queue' \in [Rows -> Nat]
<1>1. row[w] \in Rows /\ queue \in [Rows -> Nat]
  BY DEF TypeInv, TypeOK
<1>2. queue[row[w]] + 1 \in Nat
  BY <1>1
<1> QED
  BY <1>1, <1>2

LEMMA BrokerTyped ==
  ASSUME TypeInv,
         \/ \E r \in Rows : Discard(r) \/ TimePasses(r)
         \/ \E w \in Workers :
              Deadlock(w) \/ Redeliver(w) \/ LoseWorker(w) \/ Kill(w)
  PROVE  TypeInv'
<1> USE TypeParts, TypePartsNext, Unchanged, BoundsAssumption DEF TypeInv
<1>1. ASSUME NEW r \in Rows, Discard(r)
      PROVE  TypeInv'
  <2>1. BrokerTypes'
    BY <1>1 DEF Discard, BrokerTypes
  <2> QED
    BY <1>1, <2>1 DEF Discard
<1>2. ASSUME NEW r \in Rows, TimePasses(r)
      PROVE  TypeInv'
  <2>1. RowTypes' /\ Budget'
    BY <1>2 DEF TimePasses, RowTypes, Budget, Terminal
  <2> QED
    BY <1>2, <2>1 DEF TimePasses
<1>3. ASSUME NEW w \in Workers, Deadlock(w)
      PROVE  TypeInv'
  <2>1. SessionTypes'
    BY <1>3, MoveTyped DEF Deadlock, SessionAnalysisStatus
  <2>2. queue' \in [Rows -> Nat]
    BY <1>3, QueuedAgain DEF Deadlock
  <2>3. faults' \in 0..MaxFaults
    BY <1>3 DEF Deadlock
  <2>4. BrokerTypes'
    BY <1>3, <2>2 DEF Deadlock, BrokerTypes
  <2> QED
    BY <1>3, <2>1, <2>3, <2>4, LeaveTyped DEF Deadlock
<1>4. ASSUME NEW w \in Workers, Redeliver(w)
      PROVE  TypeInv'
  <2>1. queue' \in [Rows -> Nat]
    BY <1>4, QueuedAgain DEF Redeliver
  <2>2. duplicates' \in 0..MaxDuplicates
    BY <1>4 DEF Redeliver, BrokerTypes
  <2>3. BrokerTypes'
    BY <1>4, <2>1, <2>2 DEF Redeliver, BrokerTypes
  <2> QED
    BY <1>4, <2>3 DEF Redeliver
<1>5. ASSUME NEW w \in Workers, LoseWorker(w)
      PROVE  TypeInv'
  <2>1. queue' \in [Rows -> Nat]
    BY <1>5, QueuedAgain DEF LoseWorker
  <2>2. faults' \in 0..MaxFaults
    BY <1>5 DEF LoseWorker
  <2>3. BrokerTypes'
    BY <1>5, <2>1 DEF LoseWorker, BrokerTypes
  <2> QED
    BY <1>5, <2>2, <2>3, LeaveTyped DEF LoseWorker
<1>6. ASSUME NEW w \in Workers, Kill(w)
      PROVE  TypeInv'
  BY <1>6, LeaveTyped DEF Kill
<1> QED
  BY <1>1, <1>2, <1>3, <1>4, <1>5, <1>6

LEMMA BeatTyped ==
  ASSUME TypeInv, SweepRead \/ ResumeLost \/ HandOff \/ LoseHandOff
  PROVE  TypeInv'
<1> USE TypeParts, TypePartsNext, Unchanged, BoundsAssumption DEF TypeInv
<1>1. CASE SweepRead
  <2>1. PICK r \in overdue : sweep' = r /\ revoked' = revoked \cup {r}
    BY <1>1 DEF SweepRead
  <2>2. r \in Rows
    BY DEF RowTypes
  <2>3. BrokerTypes' /\ BeatTypes'
    BY <1>1, <2>1, <2>2 DEF SweepRead, BrokerTypes, BeatTypes
  <2> QED
    BY <1>1, <2>3 DEF SweepRead
<1>2. CASE ResumeLost
  <2>1. sweep \in Rows
    BY <1>2 DEF ResumeLost, BeatTypes
  <2>2. SessionTypes'
    BY <1>2 DEF ResumeLost, Move, SessionTypes, SessionAnalysisStatus
  <2>3. RowTypes' /\ Budget' /\ BeatTypes'
    <3>1. CASE status[sweep] # "running"
      BY <1>2, <3>1
      DEF ResumeLost, RowTypes, Budget, Terminal, BeatTypes
    <3>2. CASE status[sweep] = "running"
      <4>1. ~Terminal(sweep) /\ attempt[sweep] \in 0..MaxAttempts
        BY <2>1, <3>2 DEF Terminal, TERMINAL_TASK_STATUSES, Budget, RowTypes
      <4>2. /\ status' = [status EXCEPT ![sweep] = "timeout"]
            /\ overdue' = overdue \ {sweep}
            /\ attempt' = [attempt EXCEPT ![sweep] = @ + 1]
            /\ handoff' = IF attempt[sweep] < MaxAttempts
                          THEN attempt[sweep] + 1 ELSE 0
            /\ sweep' = NoRow
            /\ UNCHANGED <<generation, cancelReq>>
        BY <1>2, <3>2 DEF ResumeLost, Finalize
      <4>3. RowTypes'
        <5>1. attempt[sweep] + 1 \in 0..(MaxAttempts + 1)
          BY <4>1
        <5>2. attempt' \in [Rows -> 0..(MaxAttempts + 1)]
          BY <2>1, <4>2, <5>1 DEF RowTypes
        <5> QED
          BY <4>2, <5>2 DEF RowTypes, TERMINAL_TASK_STATUSES
      <4>4. Budget'
        BY <4>1, <4>2 DEF RowTypes, Budget, Terminal, TERMINAL_TASK_STATUSES
      <4>5. BeatTypes'
        BY <4>1, <4>2 DEF BeatTypes
      <4> QED
        BY <4>3, <4>4, <4>5
    <3> QED
      BY <3>1, <3>2
  <2> QED
    BY <1>2, <2>2, <2>3 DEF ResumeLost
<1>3. CASE HandOff
  <2>1. BeatTypes' /\ handoff \in 0..MaxAttempts
    BY <1>3 DEF HandOff, BeatTypes
  <2>2. RowTypes' /\ Budget' /\ BrokerTypes'
    BY <1>3, <2>1, InsertTyped DEF HandOff
  <2> QED
    BY <1>3, <2>1, <2>2 DEF HandOff
<1>4. CASE LoseHandOff
  <2>1. BeatTypes' /\ faults' \in 0..MaxFaults
    BY <1>4 DEF LoseHandOff, BeatTypes
  <2> QED
    BY <1>4, <2>1 DEF LoseHandOff
<1> QED
  BY <1>1, <1>2, <1>3, <1>4

LEMMA TypeInit == Init => TypeInv
<1> SUFFICES ASSUME Init
             PROVE  TypeInv
  OBVIOUS
<1> USE SmallTypes, BoundsAssumption DEF Init
<1>1. SessionTypes /\ InputTypes /\ BeatTypes /\ faults \in 0..MaxFaults
  BY DEF SessionTypes, InputTypes, BeatTypes, SessionAnalysisStatus
<1>6. RequestTypes
  BY DEF RequestTypes
<1>2. CkptTypes
  BY DEF CkptTypes, CheckpointState
<1>3. RowTypes /\ Budget
  BY DEF RowTypes, Budget, Terminal, ACTIVE
<1>4. BrokerTypes
  BY DEF BrokerTypes
<1>5. LocalTypes /\ CallsAChunk
  BY DEF LocalTypes, CallsAChunk, Stages
<1> QED
  BY <1>1, <1>2, <1>3, <1>4, <1>5, <1>6, TypeParts DEF TypeInv

LEMMA TypeStep == TypeInv /\ [Next]_vars => TypeInv'
<1> SUFFICES ASSUME TypeInv, [Next]_vars
             PROVE  TypeInv'
  OBVIOUS
<1>1. CASE UNCHANGED vars
  BY <1>1, TypeParts, TypePartsNext, Unchanged DEF TypeInv, vars
<1>2. CASE Next
  BY <1>2, InputTyped, ClaimTyped, LoopTyped, EndTyped, BrokerTyped, BeatTyped
  DEF Next, WorkerStep
<1> QED
  BY <1>1, <1>2

THEOREM TypeInvariant == Spec => []TypeInv
  BY TypeInit, TypeStep, PTL DEF Spec

\* Every variable keeps its type; in particular no row is ever recovered
\* beyond the budget (resume_lost_analysis).
THEOREM TypeCorrect == Spec => []TypeOK
<1>1. TypeInv => TypeOK
  BY DEF TypeInv
<1> QED
  BY <1>1, TypeInvariant, PTL

-----------------------------------------------------------------------------
(***************************************************************************)
(* Paid work                                                               *)
(***************************************************************************)

\* A step on one checkpoint only makes it processing when it was not a
\* success, or makes it a success, or leaves it; the marking of a failure
\* takes an open one; a claim drops the checkpoints of other runs.
LEMMA SuccessStays ==
  ASSUME TypeInv, [Next]_vars, NEW k \in Work,
         ckpt[k] = "success", ckpt'[k] # "success"
  PROVE  \E w \in Workers : Claim(w) /\ run[w] # k[1]
<1> USE DEF TypeInv, TypeOK
<1>1. ckpt' # ckpt
  OBVIOUS
<1>2. PICK w \in Workers :
        \/ Claim(w) \/ TakeChunk(w) \/ WriteChunk(w)
        \/ Fail(w) \/ FinalizeFails(w)
  <2>1. CASE UNCHANGED vars
    BY <1>1, <2>1 DEF vars, ckptVars
  <2>2. CASE ResealRead \/ Reseal \/ Dispatch \/ EditPrompts \/ ChangeFiles
             \/ SweepRead \/ ResumeLost \/ HandOff \/ LoseHandOff
    BY <1>1, <2>2
    DEF ResealRead, Reseal, Dispatch, EditPrompts, ChangeFiles, SweepRead,
        ResumeLost, HandOff, LoseHandOff, ckptVars
  <2>3. CASE \E r \in Rows : Retry(r) \/ Stop(r) \/ Discard(r) \/ TimePasses(r)
    BY <1>1, <2>3 DEF Retry, Stop, Discard, TimePasses, ckptVars
  <2>4. ASSUME NEW w \in Workers,
               \/ Bind(w) \/ Deadlock(w) \/ Redeliver(w) \/ LoseWorker(w)
               \/ ClaimRefused(w) \/ ReuseChunk(w) \/ TakeLate(w)
               \/ WriteLate(w) \/ PassLastCheck(w) \/ CancelSession(w)
               \/ FinalizeSuccess(w) \/ FinalizeLost(w) \/ Kill(w)
        PROVE  FALSE
    BY <1>1, <2>4
    DEF Bind, Deadlock, Redeliver, LoseWorker, ClaimRefused, ReuseChunk,
        TakeLate, WriteLate, PassLastCheck, CancelSession, FinalizeSuccess,
        FinalizeLost, Kill, ckptVars
  <2> QED
    BY <2>1, <2>2, <2>3, <2>4 DEF Next, WorkerStep
<1>3. CASE Claim(w)
  BY <1>3 DEF Claim, Work
<1>4. CASE TakeChunk(w)
  <2>1. ckpt[At(w)] # "success"
    BY <1>4 DEF TakeChunk, Takeable, RESUMABLE_STATES
  <2> QED
    BY <1>4, <2>1 DEF TakeChunk
<1>5. CASE WriteChunk(w)
  BY <1>5 DEF WriteChunk
<1>6. CASE Fail(w) \/ FinalizeFails(w)
  <2>1. PICK c \in Processing(run[w]) :
          ckpt' = [ckpt EXCEPT ![<<run[w], c>>] = "error"]
    BY <1>1, <1>6 DEF Fail, FinalizeFails, MarkOpen
  <2>2. ckpt[<<run[w], c>>] # "success"
    BY DEF Processing
  <2> QED
    BY <2>1, <2>2
<1> QED
  BY <1>2, <1>3, <1>4, <1>5, <1>6

\* An analysed chunk is not analysed again for the same input, whoever is
\* late, lost, retried or recovered.
THEOREM PaidWork == Spec => PaidWorkIsKept
<1>1. TypeInv /\ [Next]_vars =>
        [\A k \in Work :
           ckpt[k] = "success" /\ ckpt'[k] # "success" =>
             \/ ckpt'[k] # "absent" /\ fingerprint'[k] # fingerprint[k]
             \/ \E w \in Workers :
                  pc[w] = "bound" /\ pc'[w] = "ready" /\ run[w] # k[1]]_vars
  <2> SUFFICES ASSUME TypeInv, [Next]_vars, NEW k \in Work,
                      ckpt[k] = "success", ckpt'[k] # "success"
               PROVE  \E w \in Workers :
                        pc[w] = "bound" /\ pc'[w] = "ready" /\ run[w] # k[1]
    OBVIOUS
  <2>1. PICK w \in Workers : Claim(w) /\ run[w] # k[1]
    BY SuccessStays
  <2>2. pc[w] = "bound" /\ pc'[w] = "ready"
    BY <2>1 DEF Claim, TypeInv, TypeOK
  <2> QED
    BY <2>1, <2>2
<1> QED
  BY <1>1, TypeInvariant, PTL DEF Spec, PaidWorkIsKept

-----------------------------------------------------------------------------
(***************************************************************************)
(* What a step may be, as far as the workers and the events are concerned  *)
(***************************************************************************)

LEMMA StepKinds ==
  ASSUME [Next]_vars
  PROVE  \/ UNCHANGED <<pc, localVars>>
         \/ \E w \in Workers :
              \/ Bind(w) \/ Claim(w) \/ ReuseChunk(w) \/ TakeChunk(w)
              \/ WriteChunk(w) \/ PassLastCheck(w)
         \/ \E w \in Workers : Leave(w)
<1>1. CASE UNCHANGED vars
  BY <1>1 DEF vars
<1>2. CASE \/ ResealRead \/ Reseal \/ Dispatch \/ EditPrompts \/ ChangeFiles
           \/ SweepRead \/ ResumeLost \/ HandOff \/ LoseHandOff
           \/ \E r \in Rows : Retry(r) \/ Stop(r) \/ Discard(r) \/ TimePasses(r)
           \/ \E w \in Workers : Redeliver(w)
  BY <1>2
  DEF ResealRead, Reseal, Dispatch, EditPrompts, ChangeFiles, SweepRead,
      ResumeLost, HandOff, LoseHandOff, Retry, Stop, Discard, TimePasses, Redeliver
<1>3. ASSUME NEW w \in Workers,
             \/ Deadlock(w) \/ LoseWorker(w) \/ ClaimRefused(w)
             \/ TakeLate(w) \/ WriteLate(w) \/ CancelSession(w) \/ Fail(w)
             \/ FinalizeSuccess(w) \/ FinalizeLost(w)
             \/ FinalizeFails(w) \/ Kill(w)
      PROVE  Leave(w)
  BY <1>3
  DEF Deadlock, LoseWorker, ClaimRefused, TakeLate, WriteLate,
      CancelSession, Fail, FinalizeSuccess, FinalizeLost, FinalizeFails, Kill
<1> QED
  BY <1>1, <1>2, <1>3 DEF Next, WorkerStep

\* A session becomes success, and its events change, in the finalisation.
LEMMA Publishes ==
  ASSUME [Next]_vars, session' = "success"
  PROVE  \/ UNCHANGED events /\ session = "success"
         \/ \E w \in Workers : FinalizeSuccess(w) \/ FinalizeFails(w)
<1>1. CASE UNCHANGED vars
  BY <1>1 DEF vars, sessionVars
<1>2. CASE ResealRead \/ Reseal \/ Dispatch \/ EditPrompts \/ ChangeFiles
           \/ SweepRead \/ ResumeLost \/ HandOff \/ LoseHandOff
  BY <1>2
  DEF ResealRead, Reseal, Dispatch, EditPrompts, ChangeFiles, SweepRead,
      ResumeLost, HandOff, LoseHandOff, Move, sessionVars
<1>3. ASSUME NEW r \in Rows,
             Retry(r) \/ Stop(r) \/ Discard(r) \/ TimePasses(r)
      PROVE  UNCHANGED events /\ session = "success"
  BY <1>3 DEF Retry, Stop, Discard, TimePasses, sessionVars
<1>4. ASSUME NEW w \in Workers,
             \/ Bind(w) \/ Claim(w) \/ ClaimRefused(w) \/ ReuseChunk(w)
             \/ TakeChunk(w) \/ TakeLate(w) \/ WriteChunk(w) \/ WriteLate(w)
             \/ PassLastCheck(w) \/ CancelSession(w) \/ Fail(w)
             \/ Deadlock(w) \/ FinalizeLost(w) \/ Redeliver(w)
             \/ LoseWorker(w) \/ Kill(w)
      PROVE  UNCHANGED events /\ session = "success"
  BY <1>4
  DEF Bind, Claim, ClaimRefused, ReuseChunk, TakeChunk, TakeLate, WriteChunk,
      WriteLate, PassLastCheck, CancelSession, Fail, Deadlock, FinalizeLost,
      Redeliver, LoseWorker, Kill, Move, sessionVars
<1> QED
  BY <1>1, <1>2, <1>3, <1>4 DEF Next, WorkerStep

-----------------------------------------------------------------------------
(***************************************************************************)
(* Completeness of a success.  A worker at a chunk has the chunks before   *)
(* it analysed, by itself or by whoever held the checkpoints before; while *)
(* the files do not change there is one run and no claim drops it.         *)
(***************************************************************************)
OneRun == \A w \in Workers : run[w] <= files
Behind(w) == \A c \in Chunks : c < next[w] => ckpt[<<0, c>>] = "success"
FinalizesAtTheEnd ==
  \A w \in Workers : pc[w] = "finalizing" => next[w] > LastChunk
CompleteInv ==
  /\ TypeInv
  /\ OneRun
  /\ FinalizesAtTheEnd
  /\ files = 0 => \A w \in Workers : Behind(w)
  /\ SuccessIsComplete

\* The run ids of the workers are ids of plans made so far.
LEMMA OneRunStep ==
  ASSUME TypeInv, OneRun, [Next]_vars
  PROVE  OneRun' /\ files <= files'
<1> USE DEF TypeInv, TypeOK, OneRun
<1>1. CASE UNCHANGED vars
  BY <1>1 DEF vars, inputVars, localVars, Runs
<1>2. CASE \/ ResealRead \/ Reseal \/ Dispatch \/ EditPrompts
           \/ SweepRead \/ ResumeLost \/ HandOff \/ LoseHandOff
  BY <1>2
  DEF ResealRead, Reseal, Dispatch, EditPrompts, SweepRead, ResumeLost,
      HandOff, LoseHandOff, inputVars, localVars, Runs
<1>3. CASE ChangeFiles
  BY <1>3, BoundsAssumption DEF ChangeFiles, localVars, Runs
<1>4. CASE \E r \in Rows : Retry(r) \/ Stop(r) \/ Discard(r) \/ TimePasses(r)
  BY <1>4 DEF Retry, Stop, Discard, TimePasses, inputVars, localVars, Runs
<1>5. ASSUME NEW w \in Workers, Bind(w)
      PROVE  OneRun' /\ files <= files'
  <2>1. files' = files /\ files \in Nat
    BY <1>5 DEF Bind, inputVars, Runs
  <2>2. run' = run \/ run' = [run EXCEPT ![w] = files]
    BY <1>5 DEF Bind
  <2> QED
    BY <2>1, <2>2
<1>6. ASSUME NEW w \in Workers,
             \/ Claim(w) \/ ReuseChunk(w) \/ TakeChunk(w) \/ WriteChunk(w)
             \/ PassLastCheck(w) \/ Redeliver(w)
      PROVE  OneRun' /\ files <= files'
  BY <1>6
  DEF Claim, ReuseChunk, TakeChunk, WriteChunk, PassLastCheck, Redeliver,
      inputVars, localVars, Runs
<1>7. ASSUME NEW w \in Workers,
             \/ Deadlock(w) \/ LoseWorker(w) \/ ClaimRefused(w)
             \/ TakeLate(w) \/ WriteLate(w) \/ CancelSession(w) \/ Fail(w)
             \/ FinalizeSuccess(w) \/ FinalizeLost(w)
             \/ FinalizeFails(w) \/ Kill(w)
      PROVE  OneRun' /\ files <= files'
  <2>1. Leave(w) /\ UNCHANGED inputVars
    BY <1>7
    DEF Deadlock, LoseWorker, ClaimRefused, TakeLate, WriteLate,
        CancelSession, Fail, FinalizeSuccess, FinalizeLost, FinalizeFails, Kill
  <2> QED
    BY <2>1 DEF Leave, inputVars, Runs
<1> HIDE DEF TypeInv, TypeOK, OneRun
<1> QED
  BY <1>1, <1>2, <1>3, <1>4, <1>5, <1>6, <1>7 DEF Next, WorkerStep

\* The loop ends at the last chunk.
LEMMA EndStep ==
  ASSUME TypeInv, FinalizesAtTheEnd, [Next]_vars
  PROVE  FinalizesAtTheEnd'
<1> USE BoundsAssumption DEF TypeInv, TypeOK, FinalizesAtTheEnd
<1>1. CASE UNCHANGED <<pc, localVars>>
  BY <1>1 DEF localVars
<1>2. ASSUME NEW w \in Workers,
             \/ Bind(w) \/ Claim(w) \/ ReuseChunk(w) \/ TakeChunk(w)
             \/ WriteChunk(w) \/ PassLastCheck(w)
      PROVE  FinalizesAtTheEnd'
  BY <1>2
  DEF Bind, Claim, ReuseChunk, TakeChunk, AtChunk, WriteChunk, PassLastCheck,
      localVars
<1>3. ASSUME NEW w \in Workers, Leave(w)
      PROVE  FinalizesAtTheEnd'
  BY <1>3 DEF Leave
<1> HIDE DEF TypeInv, TypeOK, FinalizesAtTheEnd
<1> QED
  BY <1>1, <1>2, <1>3, StepKinds

\* While the files stay as they are, the chunks behind a worker are
\* analysed.
LEMMA BehindStep ==
  ASSUME CompleteInv, [Next]_vars, files' = 0, NEW w \in Workers
  PROVE  Behind(w)'
<1> USE BoundsAssumption DEF CompleteInv
<1>1. files = 0 /\ files' = files
  BY OneRunStep DEF TypeInv, TypeOK, Runs
<1>2. run[w] = 0 /\ Behind(w)
  BY <1>1 DEF OneRun, TypeInv, TypeOK, Runs
<1>3. ASSUME NEW c \in Chunks, ckpt[<<0, c>>] = "success"
      PROVE  ckpt'[<<0, c>>] = "success"
  <2>1. <<0, c>> \in Work
    BY SmallTypes DEF Work
  <2>2. \A v \in Workers : run[v] = 0
    BY <1>1 DEF OneRun, TypeInv, TypeOK, Runs
  <2> QED
    BY <1>3, <2>1, <2>2, SuccessStays
<1>4. CASE next'[w] = next[w] \/ next'[w] = 1
  BY <1>2, <1>3, <1>4 DEF Behind, Chunks
<1>5. CASE ReuseChunk(w) \/ WriteChunk(w)
  <2>1. /\ next'[w] = next[w] + 1
        /\ next[w] \in Chunks
        /\ ckpt'[<<0, next[w]>>] = "success"
    <3>1. next[w] \in Chunks
      BY <1>5
      DEF ReuseChunk, AtChunk, WriteChunk, TypeInv, TypeOK, CallsAChunk, Chunks
    <3>2. next'[w] = next[w] + 1
      BY <1>5 DEF ReuseChunk, WriteChunk, TypeInv, TypeOK
    <3>3. <<0, next[w]>> \in Work /\ At(w) = <<0, next[w]>>
      BY <1>2, <3>1, SmallTypes DEF Work, At
    <3>4. ckpt'[<<0, next[w]>>] = "success"
      BY <1>5, <3>3
      DEF ReuseChunk, Reusable, WriteChunk, ckptVars, TypeInv, TypeOK
    <3> QED
      BY <3>1, <3>2, <3>4
  <2> QED
    BY <1>2, <1>3, <2>1 DEF Behind, Chunks
<1>6. next'[w] = next[w] \/ next'[w] = 1 \/ ReuseChunk(w) \/ WriteChunk(w)
  <2>1. CASE UNCHANGED <<pc, localVars>>
    BY <2>1 DEF localVars
  <2>2. ASSUME NEW v \in Workers,
               Bind(v) \/ Claim(v) \/ TakeChunk(v) \/ PassLastCheck(v)
        PROVE  next' = next
    BY <2>2 DEF Bind, Claim, TakeChunk, PassLastCheck, localVars
  <2>3. ASSUME NEW v \in Workers, ReuseChunk(v) \/ WriteChunk(v)
        PROVE  next'[w] = next[w] \/ v = w
    BY <2>3 DEF ReuseChunk, WriteChunk, TypeInv, TypeOK
  <2>4. ASSUME NEW v \in Workers, Leave(v)
        PROVE  next'[w] = next[w] \/ next'[w] = 1
    BY <2>4 DEF Leave, TypeInv, TypeOK
  <2> HIDE DEF CompleteInv
  <2> QED
    BY <2>1, <2>2, <2>3, <2>4, StepKinds
<1> QED
  BY <1>4, <1>5, <1>6

\* Only a worker that is through with the chunks publishes a success.
LEMMA CompleteStep ==
  ASSUME CompleteInv, [Next]_vars
  PROVE  SuccessIsComplete'
<1> SUFFICES ASSUME session' = "success", files' = 0
             PROVE  events' = Chunks
  BY DEF SuccessIsComplete
<1> USE BoundsAssumption DEF CompleteInv
<1>1. files = 0
  BY OneRunStep DEF TypeInv, TypeOK, Runs
<1>2. CASE UNCHANGED events /\ session = "success"
  BY <1>1, <1>2 DEF SuccessIsComplete
<1>3. ASSUME NEW w \in Workers, FinalizeSuccess(w) \/ FinalizeFails(w)
      PROVE  events' = Chunks
  <2>1. events' = Done(run[w]) /\ next[w] > LastChunk
    BY <1>3 DEF FinalizeSuccess, FinalizeFails, FinalizesAtTheEnd
  <2>2. run[w] = 0 /\ Behind(w) /\ next[w] \in 1..(LastChunk + 1)
    BY <1>1 DEF OneRun, TypeInv, TypeOK, Runs
  <2>3. Done(0) = Chunks
    BY <2>1, <2>2 DEF Done, Behind, Chunks
  <2> QED
    BY <2>1, <2>2, <2>3
<1>4. \/ UNCHANGED events /\ session = "success"
      \/ \E w \in Workers : FinalizeSuccess(w) \/ FinalizeFails(w)
  BY Publishes
<1> QED
  BY <1>2, <1>3, <1>4

LEMMA CompleteInit == Init => CompleteInv
<1> SUFFICES ASSUME Init
             PROVE  CompleteInv
  OBVIOUS
<1>1. OneRun /\ FinalizesAtTheEnd /\ \A w \in Workers : Behind(w)
  BY DEF Init, OneRun, FinalizesAtTheEnd, Behind, Chunks
<1>2. SuccessIsComplete
  BY DEF Init, SuccessIsComplete
<1> QED
  BY <1>1, <1>2, TypeInit DEF CompleteInv

\* A session that says success shows the events of all its files, however
\* many workers were lost, late, stopped or recovered on the way, as long
\* as the files did not change.
THEOREM SuccessComplete == Spec => []SuccessIsComplete
<1>1. CompleteInv /\ [Next]_vars => CompleteInv'
  <2> SUFFICES ASSUME CompleteInv, [Next]_vars
               PROVE  CompleteInv'
    OBVIOUS
  <2>1. TypeInv' /\ OneRun' /\ FinalizesAtTheEnd' /\ SuccessIsComplete'
    BY TypeStep, OneRunStep, EndStep, CompleteStep DEF CompleteInv
  <2>2. files' = 0 => \A w \in Workers : Behind(w)'
    BY BehindStep
  <2> QED
    BY <2>1, <2>2 DEF CompleteInv
<1>2. CompleteInv => SuccessIsComplete
  BY DEF CompleteInv
<1> QED
  BY CompleteInit, <1>1, <1>2, PTL DEF Spec

=============================================================================
