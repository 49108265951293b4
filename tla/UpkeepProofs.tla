---------------------------- MODULE UpkeepProofs ----------------------------
(***************************************************************************)
(* Theorems about a source, its tasks and the heartbeat, for every number  *)
(* of clients, sessions, builds, recoveries and faults.                    *)
(***************************************************************************)
EXTENDS Upkeep, TLAPS

Statuses == {"absent", "draft", "success", "failed", "timeout"} \cup ACTIVE
SessionStatuses == {"none", "sealed", "analyzing", "success", "failed"}
Sources ==
  [life : {"new", "there", "gone"}, enabled : BOOLEAN, paused : BOOLEAN,
   config : Configs, verdict : ValidationStatus]
SeenSources ==
  [life : {"new", "there"}, enabled : BOOLEAN, paused : BOOLEAN,
   config : Configs, verdict : ValidationStatus]

\* Between two beats nothing is left open.
NothingOpen ==
  /\ phase # "running" => todo = {} /\ relost = NoRow
  /\ phase = "idle" => doomed = {} /\ \A r \in Rows : status[r] # "draft"

LEMMA Bounds ==
  /\ 1 \in Configs
  /\ NewSource \in Sources
  /\ NewSource \in SeenSources
  /\ Builds \subseteq Rows
  /\ Analyses \subseteq Rows
<1>1. 1 \in Configs
  BY BoundsAssumption DEF Configs
<1> QED
  BY <1>1 DEF NewSource, Sources, SeenSources, Rows, ValidationStatus

-----------------------------------------------------------------------------
(***************************************************************************)
(* Type correctness                                                        *)
(***************************************************************************)

LEMMA RolledBackTyped ==
  ASSUME TypeOK
  PROVE  /\ RolledBack \in [Rows -> Statuses]
         /\ \A r \in Rows : RolledBack[r] # "draft"
  BY DEF TypeOK, RolledBack, Statuses, ACTIVE

LEMMA CommittedTyped ==
  ASSUME TypeOK, NEW ended
  PROVE  /\ Committed(ended) \in [Rows -> Statuses]
         /\ \A r \in Rows : Committed(ended)[r] # "draft"
         /\ Resealed(ended) \in [Sessions -> SessionStatuses]
  BY DEF TypeOK, Committed, Resealed, Statuses, SessionStatuses, ACTIVE

LEMMA AnswerTyped ==
  ASSUME TypeOK, NEW c \in Clients, Answer(c)
  PROVE  /\ client' \in [Clients -> Requests]
         /\ seen' \in [Clients -> SeenSources]
         /\ overrun' \subseteq Clients
         /\ requests' = requests
  BY Bounds DEF TypeOK, Answer, Requests, SeenSources

LEMMA RequestTyped ==
  ASSUME TypeOK, NEW c \in Clients, NEW op \in Requests, Request(c, op)
  PROVE  /\ client' \in [Clients -> Requests]
         /\ requests' \in 0..MaxRequests
         /\ source \in SeenSources
  BY BoundsAssumption DEF TypeOK, Request, There, SeenSources

LEMMA ClientsTyped ==
  ASSUME TypeOK, NEW c \in Clients,
         \/ ReadSource(c) \/ UpdateSource(c) \/ TestSource(c)
         \/ DeleteCheck(c) \/ DeleteSource(c)
  PROVE  TypeOK'
<1> USE DEF TypeOK, sessionVars, rowVars, beatVars
<1>1. CASE ReadSource(c)
  <2>1. /\ client' \in [Clients -> Requests]
        /\ requests' \in 0..MaxRequests
        /\ source \in SeenSources
    BY <1>1, RequestTyped DEF ReadSource, Requests
  <2> QED
    BY <1>1, <2>1 DEF ReadSource, sourceVars, SeenSources
<1>2. CASE UpdateSource(c)
  <2>1. source' \in Sources
    <3>1. PICK config \in Configs, enabled \in BOOLEAN :
            source' =
              IF There
              THEN [source EXCEPT
                      !.enabled =
                        IF enabled = seen[c].enabled THEN @ ELSE enabled,
                      !.config = IF config = seen[c].config THEN @ ELSE config,
                      !.verdict =
                        IF config = seen[c].config \/ seen[c].verdict = "none"
                        THEN @ ELSE "none"]
              ELSE source
      BY <1>2 DEF UpdateSource
    <3>2. CASE There
      <4>1. /\ source'.life = source.life /\ source'.paused = source.paused
            /\ source'.enabled \in {source.enabled, enabled}
            /\ source'.config \in {source.config, config}
            /\ source'.verdict \in {source.verdict, "none"}
            /\ DOMAIN source' = DOMAIN source
        BY <3>1, <3>2
      <4>2. source \in Sources /\ "none" \in ValidationStatus
        BY DEF Sources, ValidationStatus
      <4>3. source' = [life |-> source'.life, enabled |-> source'.enabled,
                       paused |-> source'.paused, config |-> source'.config,
                       verdict |-> source'.verdict]
        BY <3>1, <3>2, <4>2 DEF Sources
      <4>4. /\ source'.life \in {"new", "there", "gone"}
            /\ source'.enabled \in BOOLEAN /\ source'.paused \in BOOLEAN
            /\ source'.config \in Configs
            /\ source'.verdict \in ValidationStatus
        BY <4>1, <4>2 DEF Sources
      <4> QED
        BY <4>3, <4>4 DEF Sources
    <3>3. CASE ~There
      BY <3>1, <3>3 DEF Sources
    <3> QED
      BY <3>2, <3>3
  <2>2. judged' \in Configs /\ overtaken' \in BOOLEAN
    BY <1>2, Bounds DEF UpdateSource, ReadByAnother
  <2> QED
    BY <1>2, <2>1, <2>2, AnswerTyped DEF UpdateSource, Sources, SeenSources
<1>3. CASE TestSource(c)
  <2>1. source' \in Sources /\ judged' \in Configs
    BY <1>3 DEF TestSource, Sources, Verdicts, ValidationStatus
  <2>2. overtaken' \in BOOLEAN
    BY <1>3 DEF TestSource, ReadByAnother
  <2> QED
    BY <1>3, <2>1, <2>2, AnswerTyped DEF TestSource, Sources, SeenSources
<1>4. CASE DeleteCheck(c)
  BY <1>4, RequestTyped DEF DeleteCheck, Requests, sourceVars
<1>5. CASE DeleteSource(c)
  <2>1. source' \in Sources /\ judged' \in Configs
    BY <1>5, Bounds DEF DeleteSource, NewSource, Sources, ValidationStatus
  <2>2. /\ session' \in [Sessions -> SessionStatuses]
        /\ history' \subseteq Sessions
    BY <1>5 DEF DeleteSource, SessionStatuses
  <2> QED
    BY <1>5, <2>1, <2>2, AnswerTyped
    DEF DeleteSource, Sources, SeenSources, SessionStatuses
<1> QED
  BY <1>1, <1>2, <1>3, <1>4, <1>5

LEMMA SourceTyped ==
  ASSUME TypeOK, CreateSource \/ PauseOrResume
  PROVE  TypeOK'
<1>1. CASE CreateSource
  <2>1. source' \in Sources
    BY <1>1 DEF TypeOK, CreateSource, Sources
  <2> QED
    BY <1>1, <2>1
    DEF TypeOK, CreateSource, Sources, sessionVars, rowVars, clientVars,
        beatVars
<1>2. CASE PauseOrResume
  <2>1. requests' \in 0..MaxRequests
    BY <1>2, BoundsAssumption DEF TypeOK, PauseOrResume
  <2>2. source' \in Sources
    <3>1. source' = [source EXCEPT !.paused = ~source.paused]
      BY <1>2 DEF PauseOrResume
    <3>2. (~source.paused) \in BOOLEAN
      OBVIOUS
    <3>3. ASSUME NEW b \in BOOLEAN
          PROVE  [source EXCEPT !.paused = b] \in Sources
      BY DEF TypeOK, Sources
    <3> QED
      BY <3>1, <3>2, <3>3
  <2> QED
    BY <1>2, <2>1, <2>2
    DEF TypeOK, PauseOrResume, Sources, sessionVars, rowVars, beatVars
<1> QED
  BY <1>1, <1>2

\* What a worker does to the rows keeps their types.
WorkTyped ==
  /\ session' \in [Sessions -> SessionStatuses]
  /\ history' \subseteq Sessions
  /\ status' \in [Rows -> Statuses]
  /\ \A r \in Rows : status'[r] = "draft" => status[r] = "draft"
  /\ overdue' \subseteq Rows
  /\ silent' \subseteq Rows
  /\ alive' \subseteq Rows
  /\ overrun' \subseteq Clients
  /\ faults' \in 0..MaxFaults

LEMMA WorkIsTyped ==
  ASSUME TypeOK, WorkTyped,
         UNCHANGED <<sourceVars, client, seen, requests, beatVars, aged>>
  PROVE  TypeOK'
  BY DEF TypeOK, WorkTyped, sourceVars, beatVars, Statuses, SessionStatuses

LEMMA BuildsTyped ==
  ASSUME TypeOK, NEW b \in Builds,
         BindBuild(b) \/ SkipBuild(b) \/ FailBuild(b) \/ FinishBuild(b)
  PROVE  TypeOK'
<1>1. UNCHANGED <<sourceVars, client, seen, requests, beatVars, aged>>
  BY DEF BindBuild, SkipBuild, FailBuild, FinishBuild, clientVars
<1>2. b \in Rows
  BY Bounds
<1>3. CASE BindBuild(b) \/ SkipBuild(b) \/ FailBuild(b)
  <2>1. WorkTyped
    BY <1>2, <1>3
    DEF TypeOK, BindBuild, SkipBuild, FailBuild, WorkTyped, sessionVars,
        clientVars, Statuses, SessionStatuses, ACTIVE
  <2> QED
    BY <1>1, <2>1, WorkIsTyped
<1>4. CASE FinishBuild(b)
  <2>1. session' \in [Sessions -> SessionStatuses]
    BY <1>4 DEF TypeOK, FinishBuild, SessionStatuses
  <2>2. /\ status' \in [Rows -> Statuses]
        /\ \A r \in Rows : status'[r] = "draft" => status[r] = "draft"
        /\ faults' \in 0..MaxFaults
    <3>1. CASE /\ status' = [r \in Rows |->
                    CASE r = b -> "success"
                      [] r[1] \in Stuck(session') /\ r[2] = 0 -> "pending"
                      [] OTHER -> status[r]]
               /\ UNCHANGED faults
      <4>1. ASSUME NEW r \in Rows
            PROVE  status'[r] \in {"success", "pending", status[r]}
        BY <3>1
      <4> QED
        BY <3>1, <4>1 DEF TypeOK, Statuses, ACTIVE
    <3>2. CASE /\ status' = [status EXCEPT ![b] = "success"]
               /\ faults < MaxFaults
               /\ faults' = faults + 1
      <4>1. faults' \in 0..MaxFaults
        BY <3>2, BoundsAssumption DEF TypeOK
      <4>2. \A r \in Rows : status'[r] \in {"success", status[r]}
        BY <3>2 DEF TypeOK
      <4> QED
        BY <3>2, <4>1, <4>2 DEF TypeOK, Statuses, ACTIVE
    <3> QED
      BY <1>4, <3>1, <3>2 DEF FinishBuild
  <2>3. WorkTyped
    BY <1>4, <2>1, <2>2 DEF TypeOK, FinishBuild, WorkTyped, clientVars
  <2> QED
    BY <1>1, <2>3, WorkIsTyped
<1> QED
  BY <1>3, <1>4

LEMMA AnalysesTyped ==
  ASSUME TypeOK, NEW r \in Analyses,
         ClaimAnalysis(r) \/ FinishAnalysis(r) \/ LoseClaim(r)
  PROVE  TypeOK'
<1>1. UNCHANGED <<sourceVars, client, seen, requests, beatVars, aged, faults>>
  BY DEF ClaimAnalysis, FinishAnalysis, LoseClaim, clientVars
<1>2. r \in Rows /\ r[1] \in Sessions
  BY Bounds DEF Analyses
<1>3. WorkTyped
  BY <1>1, <1>2
  DEF TypeOK, ClaimAnalysis, FinishAnalysis, LoseClaim, WorkTyped,
      sessionVars, clientVars, Statuses, SessionStatuses, ACTIVE
<1> QED
  BY <1>1, <1>3, WorkIsTyped

LEMMA FaultsTyped ==
  ASSUME TypeOK, NEW r \in Rows,
         Kill(r) \/ LoseWorker(r) \/ LoseMessage(r) \/ TimePasses(r)
  PROVE  TypeOK'
<1>1. UNCHANGED <<sourceVars, client, seen, requests, beatVars, aged>>
  BY DEF Kill, LoseWorker, LoseMessage, TimePasses, clientVars
<1>2. WorkTyped
  BY BoundsAssumption
  DEF TypeOK, Kill, LoseWorker, LoseMessage, TimePasses, WorkTyped,
      sessionVars, clientVars, Statuses, SessionStatuses
<1> QED
  BY <1>1, <1>2, WorkIsTyped

\* What the beat does keeps its types.
BeatTyped ==
  /\ session' \in [Sessions -> SessionStatuses]
  /\ status' \in [Rows -> Statuses]
  /\ overdue' \subseteq Rows
  /\ silent' \subseteq Rows
  /\ phase' \in Phases
  /\ hourly' \in BOOLEAN
  /\ todo' \subseteq Rows
  /\ doomed' \subseteq Rows
  /\ relost' \in Analyses \cup {NoRow}
  /\ relost' # NoRow => relost'[2] < MAX_ATTEMPTS
  /\ NothingOpen'
  /\ faults' \in 0..MaxFaults

LEMMA BeatIsTyped ==
  ASSUME TypeOK, BeatTyped, UNCHANGED <<sourceVars, history, alive,
                                        clientVars, aged>>
  PROVE  TypeOK'
  BY DEF TypeOK, BeatTyped, NothingOpen, sourceVars, clientVars, Statuses,
         SessionStatuses

LEMMA SweepsTyped ==
  ASSUME TypeOK,
         \/ \E b \in Builds : TimeOutBuild(b)
         \/ \E r \in Analyses : GiveUpAnalysis(r)
         \/ BeginBeat \/ SweepPending
  PROVE  TypeOK'
<1>1. UNCHANGED <<sourceVars, history, alive, clientVars, aged, session,
                  overdue, relost, faults>>
  BY DEF TimeOutBuild, GiveUpAnalysis, BeginBeat, SweepPending, sessionVars
<1>2. ASSUME NEW r \in Rows, TimeOutBuild(r) \/ GiveUpAnalysis(r)
      PROVE  TypeOK'
  <2>1. phase = "running"
    BY <1>2 DEF TypeOK, TimeOutBuild, GiveUpAnalysis
  <2>2. BeatTyped
    BY <1>1, <1>2, <2>1
    DEF TypeOK, TimeOutBuild, GiveUpAnalysis, BeatTyped, NothingOpen,
        Statuses, SessionStatuses, sessionVars
  <2> QED
    BY <1>1, <2>2, BeatIsTyped
<1>3. CASE BeginBeat
  <2>1. status' \in [Rows -> Statuses]
    BY <1>3, Bounds DEF TypeOK, BeginBeat, NextBuild, Statuses
  <2>2. BeatTyped
    BY <1>1, <1>3, <2>1
    DEF TypeOK, BeginBeat, BeatTyped, NothingOpen, Phases, SessionStatuses
  <2> QED
    BY <1>1, <2>2, BeatIsTyped
<1>4. CASE SweepPending
  <2>1. BeatTyped
    BY <1>1, <1>4, Bounds
    DEF TypeOK, SweepPending, BeatTyped, NothingOpen, Phases, Statuses,
        SessionStatuses
  <2> QED
    BY <1>1, <2>1, BeatIsTyped
<1> QED
  BY <1>2, <1>3, <1>4, Bounds

LEMMA RecoveryTyped ==
  ASSUME TypeOK, NEW r \in Analyses,
         RecoverAnalysis(r) \/ LoseCompareAndSet(r)
  PROVE  TypeOK'
<1>1. UNCHANGED <<sourceVars, history, alive, clientVars, aged, faults>>
  BY DEF RecoverAnalysis, LoseCompareAndSet, sessionVars
<1>2. phase = "running" /\ r \in Rows
  BY Bounds DEF TypeOK, RecoverAnalysis, LoseCompareAndSet
<1>3. CASE RecoverAnalysis(r)
  <2>1. /\ session' \in [Sessions -> SessionStatuses]
        /\ status' \in [Rows -> Statuses]
    BY <1>3, CommittedTyped DEF RecoverAnalysis
  <2>2. BeatTyped
    BY <1>1, <1>2, <1>3, <2>1
    DEF TypeOK, RecoverAnalysis, BeatTyped, NothingOpen
  <2> QED
    BY <1>1, <2>2, BeatIsTyped
<1>4. CASE LoseCompareAndSet(r)
  <2>1. BeatTyped
    BY <1>1, <1>2, <1>4, RolledBackTyped
    DEF TypeOK, LoseCompareAndSet, BeatTyped, NothingOpen, SessionStatuses,
        sessionVars
  <2> QED
    BY <1>1, <2>1, BeatIsTyped
<1> QED
  BY <1>3, <1>4

LEMMA BeatEndTyped ==
  ASSUME TypeOK, DispatchAgain \/ EndBeat \/ CrashBeat
  PROVE  TypeOK'
<1>1. UNCHANGED <<sourceVars, history, alive, clientVars, aged>>
  BY DEF DispatchAgain, EndBeat, CrashBeat, sessionVars
<1>2. CASE DispatchAgain
  <2>1. phase = "running"
    BY <1>2 DEF TypeOK, DispatchAgain
  <2>2. status' \in [Rows -> Statuses]
    BY <1>2 DEF TypeOK, DispatchAgain, Statuses
  <2>3. BeatTyped
    BY <1>1, <1>2, <2>1, <2>2
    DEF TypeOK, DispatchAgain, BeatTyped, NothingOpen, SessionStatuses,
        sessionVars
  <2> QED
    BY <1>1, <2>3, BeatIsTyped
<1>3. CASE EndBeat
  <2>1. /\ session' \in [Sessions -> SessionStatuses]
        /\ status' \in [Rows -> Statuses]
        /\ \A r \in Rows : status'[r] # "draft"
        /\ overdue' \subseteq Rows
    BY <1>3, CommittedTyped, RolledBackTyped
    DEF TypeOK, EndBeat, SessionStatuses
  <2>2. BeatTyped
    BY <1>1, <1>3, <2>1
    DEF TypeOK, EndBeat, BeatTyped, NothingOpen, Phases
  <2> QED
    BY <1>1, <2>2, BeatIsTyped
<1>4. CASE CrashBeat
  <2>1. BeatTyped
    BY <1>1, <1>4, RolledBackTyped, BoundsAssumption
    DEF TypeOK, CrashBeat, BeatTyped, NothingOpen, Phases, SessionStatuses,
        sessionVars
  <2> QED
    BY <1>1, <2>1, BeatIsTyped
<1> QED
  BY <1>2, <1>3, <1>4

LEMMA StepTyped == TypeOK /\ [Next]_vars => TypeOK'
<1> SUFFICES ASSUME TypeOK, [Next]_vars
             PROVE  TypeOK'
  OBVIOUS
<1>1. CASE UNCHANGED vars
  BY <1>1
  DEF TypeOK, vars, sourceVars, sessionVars, rowVars, clientVars, beatVars
<1>2. CASE DaysPass
  BY <1>2
  DEF TypeOK, DaysPass, sourceVars, sessionVars, rowVars, clientVars, beatVars
<1>3. CASE Next
  BY <1>2, <1>3, ClientsTyped, SourceTyped, BuildsTyped, AnalysesTyped,
     FaultsTyped, SweepsTyped, RecoveryTyped, BeatEndTyped
  DEF Next
<1> QED
  BY <1>1, <1>3

LEMMA InitTyped == Init => TypeOK
<1> SUFFICES ASSUME Init
             PROVE  TypeOK
  OBVIOUS
<1>1. source \in Sources
  BY Bounds DEF Init, NewSource, Sources, ValidationStatus
<1>2. seen \in [Clients -> SeenSources] /\ judged \in Configs
  BY Bounds DEF Init
<1>3. requests \in 0..MaxRequests /\ faults \in 0..MaxFaults
  BY BoundsAssumption DEF Init
<1> QED
  BY <1>1, <1>2, <1>3
  DEF Init, TypeOK, Sources, SeenSources, Requests, Phases

\* TypeOK holds in every reachable state.
THEOREM TypeCorrect == Spec => []TypeOK
  BY InitTyped, StepTyped, PTL DEF Spec

-----------------------------------------------------------------------------
(***************************************************************************)
(* Verdicts.  As long as no request has overtaken another, whoever is at a *)
(* source that is still there has read its row as it is, but for `paused`. *)
(***************************************************************************)

ReadIsFresh ==
  \A c \in Clients :
    There /\ client[c] \in {"updating", "testing"} =>
      /\ seen[c].config = source.config
      /\ seen[c].verdict = source.verdict

VerdictIsOwn == source.verdict # "none" => judged = source.config

\* Nobody is at a source before it is created, and nobody has tested it.
NobodyIsEarly ==
  source.life = "new" =>
    source.verdict = "none" /\ \A c \in Clients : client[c] = "idle"

VerdictInv == NobodyIsEarly /\ (~overtaken => ReadIsFresh /\ VerdictIsOwn)

LEMMA NobodyIsEarlyStep ==
  ASSUME TypeOK, NobodyIsEarly, [Next]_vars
  PROVE  NobodyIsEarly'
<1>1. ASSUME NEW c \in Clients, ReadSource(c) \/ DeleteCheck(c)
      PROVE  NobodyIsEarly'
  BY <1>1
  DEF ReadSource, DeleteCheck, Request, There, NobodyIsEarly, sourceVars
<1>2. ASSUME NEW c \in Clients,
             UpdateSource(c) \/ TestSource(c) \/ DeleteSource(c)
      PROVE  NobodyIsEarly'
  <2>1. client[c] # "idle"
    BY <1>2 DEF UpdateSource, TestSource, DeleteSource
  <2>2. source'.life # "new"
    BY <1>2, <2>1
    DEF UpdateSource, TestSource, DeleteSource, NewSource, There, TypeOK,
        NobodyIsEarly
  <2> QED
    BY <2>2 DEF NobodyIsEarly
<1>3. CASE CreateSource \/ PauseOrResume
  BY <1>3 DEF CreateSource, PauseOrResume, There, TypeOK, NobodyIsEarly
<1>4. CASE UNCHANGED <<sourceVars, client>>
  BY <1>4 DEF NobodyIsEarly, sourceVars
<1> QED
  BY <1>1, <1>2, <1>3, <1>4
  DEF Next, vars, sourceVars, clientVars, BindBuild, SkipBuild, FailBuild,
      FinishBuild, TimeOutBuild, ClaimAnalysis, FinishAnalysis, LoseClaim,
      RecoverAnalysis, GiveUpAnalysis, LoseCompareAndSet, Kill, LoseWorker,
      LoseMessage, TimePasses, DaysPass, BeginBeat, DispatchAgain,
      SweepPending, EndBeat, CrashBeat

LEMMA VerdictInvStep == TypeOK /\ VerdictInv /\ [Next]_vars => VerdictInv'
<1> SUFFICES ASSUME TypeOK, VerdictInv, [Next]_vars, ~overtaken'
             PROVE  ReadIsFresh' /\ VerdictIsOwn'
  BY NobodyIsEarlyStep DEF VerdictInv
<1> USE DEF ReadIsFresh, VerdictIsOwn, There
<1>1. CASE UNCHANGED <<sourceVars, client, seen>>
  BY <1>1 DEF VerdictInv, sourceVars
<1>2. CASE CreateSource
  BY <1>2 DEF CreateSource, VerdictInv, NobodyIsEarly, TypeOK, clientVars
<1>3. CASE PauseOrResume
  BY <1>3 DEF PauseOrResume, VerdictInv, TypeOK
<1>4. ASSUME NEW c \in Clients, ReadSource(c)
      PROVE  ReadIsFresh' /\ VerdictIsOwn'
  BY <1>4 DEF ReadSource, Request, VerdictInv, TypeOK, sourceVars
<1>5. ASSUME NEW c \in Clients, DeleteCheck(c)
      PROVE  ReadIsFresh' /\ VerdictIsOwn'
  BY <1>5 DEF DeleteCheck, Request, VerdictInv, TypeOK, sourceVars
<1>6. ASSUME NEW c \in Clients, UpdateSource(c)
      PROVE  ReadIsFresh' /\ VerdictIsOwn'
  <2>1. ~overtaken /\ ~ReadByAnother(c)
    BY <1>6 DEF UpdateSource
  <2>2. \A d \in Clients : client'[d] \notin {"updating", "testing"}
    BY <1>6, <2>1 DEF UpdateSource, Answer, ReadByAnother, TypeOK
  <2>3. source'.verdict # "none" =>
          /\ source'.config = source.config /\ judged' = judged
          /\ source'.verdict = source.verdict
    <3>1. CASE There
      <4>1. /\ seen[c].config = source.config
            /\ seen[c].verdict = source.verdict
        BY <1>6, <2>1, <3>1 DEF UpdateSource, VerdictInv
      <4> QED
        BY <1>6, <3>1, <4>1 DEF UpdateSource, TypeOK
    <3>2. CASE ~There
      BY <1>6, <3>2 DEF UpdateSource
    <3> QED
      BY <3>1, <3>2
  <2> QED
    BY <2>1, <2>2, <2>3 DEF VerdictInv
<1>7. ASSUME NEW c \in Clients, TestSource(c)
      PROVE  ReadIsFresh' /\ VerdictIsOwn'
  <2>1. ~overtaken /\ ~ReadByAnother(c)
    BY <1>7 DEF TestSource
  <2>2. \A d \in Clients : client'[d] \notin {"updating", "testing"}
    BY <1>7, <2>1 DEF TestSource, Answer, ReadByAnother, TypeOK
  <2>3. VerdictIsOwn'
    BY <1>7, <2>1 DEF TestSource, VerdictInv, TypeOK
  <2> QED
    BY <2>2, <2>3
<1>8. ASSUME NEW c \in Clients, DeleteSource(c)
      PROVE  ReadIsFresh' /\ VerdictIsOwn'
  BY <1>8 DEF DeleteSource, Answer, NewSource, VerdictInv, TypeOK
<1> QED
  BY <1>1, <1>2, <1>3, <1>4, <1>5, <1>6, <1>7, <1>8
  DEF Next, vars, sourceVars, clientVars, BindBuild, SkipBuild, FailBuild,
      FinishBuild, TimeOutBuild, ClaimAnalysis, FinishAnalysis, LoseClaim,
      RecoverAnalysis, GiveUpAnalysis, LoseCompareAndSet, Kill, LoseWorker,
      LoseMessage, TimePasses, DaysPass, BeginBeat, DispatchAgain,
      SweepPending, EndBeat, CrashBeat

\* A source's verdict is that of its own configuration, unless a request
\* wrote the row while another had read it (update and test in
\* video_sources.py).
THEOREM VerdictsAreOwn == Spec => []VerdictNeedsOvertaking
<1>1. ASSUME Init
      PROVE  VerdictInv
  <2>1. /\ source.config = 1 /\ judged = 1
        /\ source.life = "new" => source.verdict = "none"
    <3>1. CASE source = NewSource
      BY <1>1, <3>1 DEF Init, NewSource
    <3>2. CASE source = [NewSource EXCEPT !.life = "there",
                                          !.verdict = "success"]
      BY <1>1, <3>2 DEF Init, NewSource
    <3> QED
      BY <1>1, <3>1, <3>2 DEF Init
  <2>2. \A c \in Clients : client[c] = "idle"
    BY <1>1 DEF Init
  <2> QED
    BY <2>1, <2>2 DEF VerdictInv, NobodyIsEarly, ReadIsFresh, VerdictIsOwn
<1>2. VerdictInv => VerdictNeedsOvertaking
  BY DEF VerdictInv, VerdictIsOwn, VerdictNeedsOvertaking
<1> QED
  BY <1>1, <1>2, InitTyped, StepTyped, VerdictInvStep, PTL DEF Spec

-----------------------------------------------------------------------------
(***************************************************************************)
(* History.  A deletion that has made its checks and was not overtaken by  *)
(* a claim finds no events and no analysis that could record one.          *)
(***************************************************************************)

DeletionInv ==
  \A c \in Clients :
    client[c] = "deleting" /\ c \notin overrun =>
      history = {} /\ \A s \in Sessions : session[s] # "analyzing"

LEMMA DeletionInvStep == TypeOK /\ DeletionInv /\ [Next]_vars => DeletionInv'
<1> SUFFICES ASSUME TypeOK, DeletionInv, [Next]_vars
             PROVE  DeletionInv'
  OBVIOUS
<1> USE DEF DeletionInv
<1>1. ASSUME UNCHANGED <<client, overrun, history>>,
             \A s \in Sessions :
               session'[s] = "analyzing" => session[s] = "analyzing"
      PROVE  DeletionInv'
  BY <1>1
<1>2. ASSUME NEW c \in Clients, ReadSource(c)
      PROVE  DeletionInv'
  BY <1>2 DEF ReadSource, Request, TypeOK, sessionVars
<1>3. ASSUME NEW c \in Clients, UpdateSource(c) \/ TestSource(c)
      PROVE  DeletionInv'
  <2>1. /\ UNCHANGED <<session, history>>
        /\ client' = [client EXCEPT ![c] = "idle"]
        /\ overrun' = overrun \ {c}
    BY <1>3 DEF UpdateSource, TestSource, Answer, sessionVars
  <2>2. ASSUME NEW d \in Clients, client'[d] = "deleting"
        PROVE  d # c /\ client[d] = "deleting"
    BY <2>1, <2>2 DEF TypeOK
  <2> QED
    BY <2>1, <2>2
<1>4. ASSUME NEW c \in Clients, DeleteCheck(c)
      PROVE  DeletionInv'
  BY <1>4 DEF DeleteCheck, Request, TypeOK, sessionVars
<1>5. ASSUME NEW c \in Clients, DeleteSource(c)
      PROVE  DeletionInv'
  BY <1>5 DEF DeleteSource, Answer, TypeOK, sessionVars
<1>6. ASSUME NEW r \in Analyses, ClaimAnalysis(r)
      PROVE  DeletionInv'
  BY <1>6 DEF ClaimAnalysis, clientVars, TypeOK
<1>7. ASSUME NEW r \in Analyses, FinishAnalysis(r)
      PROVE  DeletionInv'
  <2>1. session[r[1]] = "analyzing" /\ r[1] \in Sessions
    BY <1>7 DEF FinishAnalysis, Analyses
  <2>2. \A c \in Clients : client[c] = "deleting" => c \in overrun
    BY <2>1
  <2> QED
    BY <1>7, <2>2 DEF FinishAnalysis, clientVars
<1>8. ASSUME NEW b \in Builds, FinishBuild(b)
      PROVE  DeletionInv'
  BY <1>8, <1>1 DEF FinishBuild, clientVars, TypeOK
<1>9. ASSUME NEW r \in Analyses, RecoverAnalysis(r)
      PROVE  DeletionInv'
  BY <1>9, <1>1 DEF RecoverAnalysis, Resealed, clientVars, TypeOK
<1>10. CASE EndBeat
  BY <1>10, <1>1 DEF EndBeat, Resealed, clientVars, TypeOK
<1>11. CASE UNCHANGED <<client, overrun, sessionVars>>
  BY <1>11 DEF sessionVars
<1> QED
  BY <1>2, <1>3, <1>4, <1>5, <1>6, <1>7, <1>8, <1>9, <1>10, <1>11
  DEF Next, vars, sessionVars, clientVars, CreateSource, PauseOrResume,
      BindBuild, SkipBuild, FailBuild, TimeOutBuild, LoseClaim,
      GiveUpAnalysis, LoseCompareAndSet, Kill, LoseWorker, LoseMessage,
      TimePasses, DaysPass, BeginBeat, DispatchAgain, SweepPending, CrashBeat

\* Recorded events are lost only by a deletion that an analysis was claimed
\* behind the back of (delete_video_source checks, then deletes).
THEOREM HistoryIsKept == Spec => HistoryLossNeedsOvertaking
<1>1. Init => DeletionInv
  BY DEF Init, DeletionInv
<1>2. ASSUME TypeOK, DeletionInv, [Next]_vars
      PROVE  [\A s \in history \ history' :
                \E c \in overrun : client[c] = "deleting"]_vars
  <2>1. ASSUME NEW c \in Clients, DeleteSource(c), history # {}
        PROVE  c \in overrun /\ client[c] = "deleting"
    BY <1>2, <2>1 DEF DeletionInv, DeleteSource
  <2>2. ASSUME NEW c \in Clients, DeleteSource(c)
        PROVE  \A s \in history \ history' :
                 \E d \in overrun : client[d] = "deleting"
    BY <2>1, <2>2
  <2>3. CASE history \subseteq history'
    BY <2>3
  <2> QED
    BY <1>2, <2>2, <2>3
    DEF Next, sessionVars, CreateSource, PauseOrResume, ReadSource,
        UpdateSource, TestSource, DeleteCheck, BindBuild, SkipBuild,
        FailBuild, FinishBuild, TimeOutBuild, ClaimAnalysis, FinishAnalysis,
        LoseClaim, RecoverAnalysis, GiveUpAnalysis, LoseCompareAndSet, Kill,
        LoseWorker, LoseMessage, TimePasses, DaysPass, BeginBeat,
        DispatchAgain, SweepPending, EndBeat, CrashBeat
<1> QED
  BY <1>1, <1>2, InitTyped, StepTyped, DeletionInvStep, PTL
  DEF Spec, HistoryLossNeedsOvertaking

=============================================================================
