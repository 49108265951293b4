------------------------------- MODULE Upkeep -------------------------------
(***************************************************************************)
(* One video source and the heartbeat that looks after its tasks.  The     *)
(* requests on a source (update, test, pause, delete) read its row and     *)
(* write it in a second step, with autoflush off and no lock; builds and   *)
(* analyses of its sessions run beside them.                               *)
(*                                                                         *)
(* A heartbeat is one transaction over many rows: it schedules HOT builds, *)
(* times running rows out, sweeps pending ones, and once an hour deletes   *)
(* old rows.  The recovery of a lost analysis commits it in the middle, or *)
(* rolls it back; the messages it has revoked stay revoked either way.     *)
(*                                                                         *)
(* Of a row's life this keeps what the heartbeat sees; stop requests and   *)
(* redelivery are the subjects of TaskLog and Analysis.                    *)
(***************************************************************************)
EXTENDS Integers, FiniteSets

CONSTANTS
  Clients,         \* requests under way at a time
  Sessions,        \* sessions the source's builds may seal
  MAX_ATTEMPTS,    \* ANALYSIS_RECOVERY_MAX_ATTEMPTS
  MaxConfigs,      \* bound on the versions of source_type and config_json
  Supported,       \* those of a type in SUPPORTED_SCAN_SOURCE_TYPES
  MaxBuilds,       \* bound on HOT builds
  MaxRequests,     \* bound on requests
  MaxFaults        \* bound on lost workers, messages, hand-overs and beats

ASSUME BoundsAssumption ==
  /\ MAX_ATTEMPTS \in Nat
  /\ MaxConfigs \in Nat \ {0}
  /\ MaxBuilds \in Nat
  /\ MaxRequests \in Nat
  /\ MaxFaults \in Nat
  /\ "build" \notin Sessions

Configs == 1..MaxConfigs

\* The source that Init has tested is of a supported type.
ASSUME SupportedAssumption == Supported \subseteq Configs /\ 1 \in Supported

\* task_log rows: the builds, and a session's analyses by recovery_attempt.
Builds == {"build"} \X (1..MaxBuilds)
Analyses == Sessions \X (0..MAX_ATTEMPTS)
Rows == Builds \cup Analyses

ValidationStatus == {"none", "success", "failed"}
ACTIVE == {"pending", "running"}
Requests == {"idle", "updating", "testing", "deleting"}
Phases == {"idle", "running", "ending"}

VARIABLES
  source,     \* the video_source row
  judged,     \* the configuration its verdict was found for
  overtaken,  \* a request wrote the row while another had read it
  session,    \* analysis_status of each session, "none" without a row
  history,    \* sessions whose events are recorded
  status,     \* task_log.status; "draft" while only the beat sees the row
  overdue,    \* active rows whose lease or waiting time has passed
  silent,     \* rows whose message is lost or revoked
  alive,      \* rows a worker is at
  client,     \* the request each client is in the middle of
  seen,       \* the source row it read
  overrun,    \* deletions that an analysis was claimed behind the back of
  phase,      \* where the heartbeat is
  hourly,     \* this beat is at minute 0, and it matters
  todo,       \* running rows it has found overdue
  doomed,     \* rows it has timed out in its open transaction
  relost,     \* the analysis it still has to dispatch again, or NoRow
  aged,       \* some finished row has reached CLEANUP_DAYS
  requests,   \* requests so far
  faults      \* faults so far

sourceVars == <<source, judged, overtaken>>
sessionVars == <<session, history>>
rowVars == <<status, overdue, silent, alive>>
clientVars == <<client, seen, overrun, requests>>
beatVars == <<phase, hourly, todo, doomed, relost>>
vars == <<sourceVars, sessionVars, rowVars, clientVars, beatVars, aged, faults>>

NoRow == <<"none", 0>>
NewSource ==
  [life |-> "new", enabled |-> TRUE, paused |-> FALSE, config |-> 1,
   verdict |-> "none"]

-----------------------------------------------------------------------------
(***************************************************************************)
(* Helpers                                                                 *)
(***************************************************************************)

There == source.life = "there"
Active(r) == status[r] \in ACTIVE

\* is_source_schedulable.
Schedulable ==
  /\ There
  /\ source.enabled
  /\ ~source.paused
  /\ source.verdict = "success"
  /\ source.config \in Supported

NextBuild == {b \in Builds : /\ status[b] = "absent"
                             /\ \A c \in Builds : c[2] < b[2] =>
                                                    status[c] # "absent"}
BuildIsActive == \E b \in Builds : status[b] \in ACTIVE \cup {"draft"}

\* find_stuck_sealed_sessions: sealed, without an analysis row of any status.
Stuck(ss) ==
  {s \in Sessions :
     /\ ss[s] = "sealed"
     /\ \A r \in Analyses : r[1] = s => status[r] = "absent"}

\* What the test of a configuration comes to: files were found there, or the
\* path is outside the root, missing, no directory, unreadable or without a
\* video; a type that is not supported fails in any case.
Verdicts(config) ==
  IF config \in Supported THEN {"success", "failed"} ELSE {"failed"}

\* transition_task_log from running: its compare-and-set finds the row.
Transitions(r) == status[r] = "running"

\* The beat's transaction is committed, with one more row it ended, ...
Committed(ended) ==
  [r \in Rows |-> IF r \in doomed \cup ended THEN "timeout"
                  ELSE IF status[r] = "draft" THEN "pending" ELSE status[r]]
\* Seeded fault: the rows it inserted stay.
RolledBackInPart == status

\* ... or rolled back.
RolledBack ==
  [r \in Rows |-> IF status[r] = "draft" THEN "absent" ELSE status[r]]

\* The sessions of the analyses that are timed out are sealed again.
Resealed(ended) ==
  [s \in Sessions |->
     IF session[s] = "analyzing" /\ \E r \in ended \cap Analyses : r[1] = s
     THEN "sealed" ELSE session[s]]

\* A request ends.
Answer(c) ==
  /\ client' = [client EXCEPT ![c] = "idle"]
  /\ seen' = [seen EXCEPT ![c] = NewSource]
  /\ overrun' = overrun \ {c}
  /\ UNCHANGED requests

\* A request finds the source.
Request(c, op) ==
  /\ client[c] = "idle"
  /\ There
  /\ requests < MaxRequests
  /\ requests' = requests + 1
  /\ client' = [client EXCEPT ![c] = op]

\* Another client has read the row and will write what it makes of it.
ReadByAnother(c) ==
  \E d \in Clients \ {c} : client[d] \in {"updating", "testing"}

-----------------------------------------------------------------------------
(***************************************************************************)
(* Requests on the source                                                  *)
(***************************************************************************)

\* No source yet, or one that was tested before.
Init ==
  /\ source \in {NewSource,
                 [NewSource EXCEPT !.life = "there", !.verdict = "success"]}
  /\ judged = 1
  /\ overtaken = FALSE
  /\ session = [s \in Sessions |-> "none"]
  /\ history = {}
  /\ status = [r \in Rows |-> "absent"]
  /\ overdue = {}
  /\ silent = {}
  /\ alive = {}
  /\ client = [c \in Clients |-> "idle"]
  /\ seen = [c \in Clients |-> NewSource]
  /\ overrun = {}
  /\ phase = "idle"
  /\ hourly = FALSE
  /\ todo = {}
  /\ doomed = {}
  /\ relost = NoRow
  /\ aged = FALSE
  /\ requests = 0
  /\ faults = 0

CreateSource ==
  /\ source.life = "new"
  /\ \E config \in Configs, enabled \in BOOLEAN :
       source' = [source EXCEPT !.life = "there", !.config = config,
                                !.enabled = enabled]
  /\ UNCHANGED <<judged, overtaken, sessionVars, rowVars, clientVars, beatVars,
                 aged, faults>>

\* pause_video_source, resume_video_source.
PauseOrResume ==
  /\ There
  /\ requests < MaxRequests
  /\ requests' = requests + 1
  /\ source' = [source EXCEPT !.paused = ~@]
  /\ UNCHANGED <<judged, overtaken, sessionVars, rowVars, client, seen,
                 overrun, beatVars, aged, faults>>

\* update_video_source, test_video_source: the row is read ...
ReadSource(c) ==
  /\ Request(c, "updating") \/ Request(c, "testing")
  /\ seen' = [seen EXCEPT ![c] = source]
  /\ UNCHANGED <<sourceVars, sessionVars, rowVars, overrun, beatVars, aged,
                 faults>>

\* Seeded fault: a changed configuration keeps the old verdict.
UpdateSourceUnreset(c) ==
  /\ client[c] = "updating"
  /\ \E config \in Configs, enabled \in BOOLEAN :
       source' =
         IF There
         THEN [source EXCEPT
                 !.enabled = IF enabled = seen[c].enabled THEN @ ELSE enabled,
                 !.config = IF config = seen[c].config THEN @ ELSE config]
         ELSE source
  /\ overtaken' = (overtaken \/ ReadByAnother(c))
  /\ judged' = IF source'.verdict = "none" THEN 1 ELSE judged
  /\ Answer(c)
  /\ UNCHANGED <<sessionVars, rowVars, beatVars, aged, faults>>

\* ... and what differs from what was read is written: an UPDATE names the
\* columns whose value has changed since they were loaded, and no other.
UpdateSource(c) ==
  /\ client[c] = "updating"
  /\ \E config \in Configs, enabled \in BOOLEAN :
       source' =
         IF There
         THEN [source EXCEPT
                 !.enabled = IF enabled = seen[c].enabled THEN @ ELSE enabled,
                 !.config = IF config = seen[c].config THEN @ ELSE config,
                 !.verdict =
                   IF config = seen[c].config \/ seen[c].verdict = "none"
                   THEN @ ELSE "none"]
         ELSE source
  /\ overtaken' = (overtaken \/ ReadByAnother(c))
  /\ judged' = IF source'.verdict = "none" THEN 1 ELSE judged
  /\ Answer(c)
  /\ UNCHANGED <<sessionVars, rowVars, beatVars, aged, faults>>

\* The path of the configuration that was read has been scanned.
TestSource(c) ==
  /\ client[c] = "testing"
  /\ \E verdict \in Verdicts(seen[c].config) :
       IF There /\ verdict # seen[c].verdict
       THEN /\ source' = [source EXCEPT !.verdict = verdict]
            /\ judged' = seen[c].config
       ELSE UNCHANGED <<source, judged>>
  /\ overtaken' = (overtaken \/ ReadByAnother(c))
  /\ Answer(c)
  /\ UNCHANGED <<sessionVars, rowVars, beatVars, aged, faults>>

\* Seeded fault: the guard looks at builds alone.
DeleteCheckBuilds(c) ==
  /\ Request(c, "deleting")
  /\ UNCHANGED seen
  /\ \A b \in Builds : status[b] # "running"
  /\ history = {}
  /\ UNCHANGED <<sourceVars, sessionVars, rowVars, overrun, beatVars, aged,
                 faults>>

\* delete_video_source: no running build, no session under analysis, no
\* recorded event ...
DeleteCheck(c) ==
  /\ Request(c, "deleting")
  /\ UNCHANGED seen
  /\ \A b \in Builds : status[b] # "running"
  /\ \A s \in Sessions : session[s] # "analyzing"
  /\ history = {}
  /\ UNCHANGED <<sourceVars, sessionVars, rowVars, overrun, beatVars, aged,
                 faults>>

\* ... and then its sessions go, with whatever events they have by now, and
\* the source; unless a build at work inserts one more (a foreign key).
DeleteSource(c) ==
  /\ client[c] = "deleting"
  /\ \/ /\ source' = [NewSource EXCEPT !.life = "gone"]
        /\ session' = [s \in Sessions |-> "none"]
        /\ history' = {}
        /\ judged' = 1
     \/ /\ alive \cap Builds # {}
        /\ UNCHANGED <<source, judged, sessionVars>>
  /\ Answer(c)
  /\ UNCHANGED <<overtaken, rowVars, beatVars, aged, faults>>

-----------------------------------------------------------------------------
(***************************************************************************)
(* Workers                                                                 *)
(***************************************************************************)

\* A build takes its message.  The beat's sweep locks the pending rows.
BindBuild(b) ==
  /\ status[b] = "pending"
  /\ b \notin silent
  /\ phase # "ending"
  /\ status' = [status EXCEPT ![b] = "running"]
  /\ alive' = alive \cup {b}
  /\ overdue' = overdue \ {b}
  /\ UNCHANGED <<sourceVars, sessionVars, silent, clientVars, beatVars, aged,
                 faults>>

\* The source was paused meanwhile: the task returns, and its row is left.
SkipBuild(b) ==
  /\ b \in alive
  /\ There
  /\ source.paused
  /\ alive' = alive \ {b}
  /\ UNCHANGED <<sourceVars, sessionVars, status, overdue, silent, clientVars,
                 beatVars, aged, faults>>

\* The source is gone: the task fails.
FailBuild(b) ==
  /\ b \in alive
  /\ ~There
  /\ alive' = alive \ {b}
  /\ status' = [status EXCEPT ![b] = "failed"]
  /\ overdue' = overdue \ {b}
  /\ UNCHANGED <<sourceVars, sessionVars, silent, clientVars, beatVars, aged,
                 faults>>

\* The build seals a session or none, and with its commit hands the sealed
\* sessions without an analysis over; an error of that is swallowed.
FinishBuild(b) ==
  /\ b \in alive
  /\ There
  /\ ~source.paused
  /\ alive' = alive \ {b}
  /\ overdue' = overdue \ {b}
  /\ \E new \in SUBSET {s \in Sessions : session[s] = "none"} :
       /\ session' = [s \in Sessions |->
                        IF s \in new THEN "sealed" ELSE session[s]]
       /\ \/ /\ status' = [r \in Rows |->
                  CASE r = b -> "success"
                    [] r[1] \in Stuck(session') /\ r[2] = 0 -> "pending"
                    [] OTHER -> status[r]]
             /\ UNCHANGED faults
          \/ /\ Stuck(session') # {}
             /\ faults < MaxFaults
             /\ faults' = faults + 1
             /\ status' = [status EXCEPT ![b] = "success"]
  /\ UNCHANGED <<sourceVars, history, silent, clientVars, beatVars, aged>>

\* An analysis takes its message and claims its session, or finds none.
ClaimAnalysis(r) ==
  /\ status[r] = "pending"
  /\ r \notin silent
  /\ phase # "ending"
  /\ overdue' = overdue \ {r}
  /\ \/ /\ session[r[1]] = "sealed"
        /\ session' = [session EXCEPT ![r[1]] = "analyzing"]
        /\ status' = [status EXCEPT ![r] = "running"]
        /\ alive' = alive \cup {r}
        /\ overrun' = {c \in Clients : client[c] = "deleting"}
     \/ /\ session[r[1]] # "sealed"
        /\ status' = [status EXCEPT ![r] = "failed"]
        /\ UNCHANGED <<session, alive, overrun>>
  /\ UNCHANGED <<sourceVars, history, silent, client, seen, requests, beatVars,
                 aged, faults>>

\* It finishes with events, or fails.  A row the beat has compared and set
\* in its transaction is locked.
FinishAnalysis(r) ==
  /\ r \in alive
  /\ r \notin doomed
  /\ status[r] = "running"
  /\ session[r[1]] = "analyzing"
  /\ alive' = alive \ {r}
  /\ overdue' = overdue \ {r}
  /\ \/ /\ session' = [session EXCEPT ![r[1]] = "success"]
        /\ history' = history \cup {r[1]}
        /\ status' = [status EXCEPT ![r] = "success"]
     \/ /\ session' = [session EXCEPT ![r[1]] = "failed"]
        /\ status' = [status EXCEPT ![r] = "failed"]
        /\ UNCHANGED history
  /\ UNCHANGED <<sourceVars, silent, clientVars, beatVars, aged, faults>>

\* Its claim is void, since the row timed out or the session was deleted.
LoseClaim(r) ==
  /\ r \in alive
  /\ r \notin doomed
  /\ status[r] # "running" \/ session[r[1]] # "analyzing"
  /\ alive' = alive \ {r}
  /\ overdue' = overdue \ {r}
  /\ status' = [status EXCEPT ![r] = IF @ = "running" THEN "failed" ELSE @]
  /\ UNCHANGED <<sourceVars, sessionVars, silent, clientVars, beatVars, aged,
                 faults>>

\* A revocation terminates the worker.
Kill(r) ==
  /\ r \in alive \cap silent
  /\ alive' = alive \ {r}
  /\ UNCHANGED <<sourceVars, sessionVars, status, overdue, silent, clientVars,
                 beatVars, aged, faults>>

LoseWorker(r) ==
  /\ r \in alive
  /\ faults < MaxFaults
  /\ faults' = faults + 1
  /\ alive' = alive \ {r}
  /\ UNCHANGED <<sourceVars, sessionVars, status, overdue, silent, clientVars,
                 beatVars, aged>>

LoseMessage(r) ==
  /\ status[r] = "pending"
  /\ r \notin silent
  /\ faults < MaxFaults
  /\ faults' = faults + 1
  /\ silent' = silent \cup {r}
  /\ UNCHANGED <<sourceVars, sessionVars, status, overdue, alive, clientVars,
                 beatVars, aged>>

-----------------------------------------------------------------------------
(***************************************************************************)
(* Time and the heartbeat                                                  *)
(***************************************************************************)

\* A running row's lease and time-out pass, with its worker alive or not; a
\* pending row has waited for PENDING_UNLEASSED_TIMEOUT_SECONDS.
TimePasses(r) ==
  /\ Active(r)
  /\ r \notin overdue
  /\ overdue' = overdue \cup {r}
  /\ UNCHANGED <<sourceVars, sessionVars, status, silent, alive, clientVars,
                 beatVars, aged, faults>>

\* So does CLEANUP_DAYS for some finished row, of whatever task.
DaysPass ==
  /\ ~aged
  /\ aged' = TRUE
  /\ UNCHANGED <<sourceVars, sessionVars, rowVars, clientVars, beatVars,
                 faults>>

\* Seeded fault: a row whose message was revoked is not looked at again.
BeginBeatOnce ==
  /\ phase = "idle"
  /\ phase' = "running"
  /\ hourly' = (aged /\ ~hourly)
  /\ todo' = {r \in overdue \ silent : status[r] = "running"}
  /\ \/ /\ Schedulable
        /\ ~BuildIsActive
        /\ \E b \in NextBuild : status' = [status EXCEPT ![b] = "draft"]
     \/ UNCHANGED status
  /\ UNCHANGED <<sourceVars, sessionVars, overdue, silent, alive, clientVars,
                 doomed, relost, aged, faults>>

\* A beat begins: a HOT build of a source whose scan interval has passed is
\* scheduled, when no build is active; the overdue rows are read.  (Minute 0
\* is like any other before a row is old enough to be deleted.)
BeginBeat ==
  /\ phase = "idle"
  /\ phase' = "running"
  /\ hourly' = (aged /\ ~hourly)
  /\ todo' = {r \in overdue : status[r] = "running"}
  /\ \/ /\ Schedulable
        /\ ~BuildIsActive
        /\ \E b \in NextBuild : status' = [status EXCEPT ![b] = "draft"]
     \/ UNCHANGED status
  /\ UNCHANGED <<sourceVars, sessionVars, overdue, silent, alive, clientVars,
                 doomed, relost, aged, faults>>

\* _handle_running_item, of a build: its message is revoked, and its status
\* is changed in memory, to be written by primary key with the commit.
TimeOutBuild(b) ==
  /\ b \in todo
  /\ relost = NoRow
  /\ todo' = todo \ {b}
  /\ silent' = silent \cup {b}
  /\ doomed' = doomed \cup {b}
  /\ UNCHANGED <<sourceVars, sessionVars, status, overdue, alive, clientVars,
                 phase, hourly, relost, aged, faults>>

\* resume_lost_analysis: the compare-and-set succeeds and is committed, and
\* with it all the beat has done so far ...
RecoverAnalysis(r) ==
  /\ r \in todo
  /\ relost = NoRow
  /\ Transitions(r)
  /\ r[2] < MAX_ATTEMPTS
  /\ todo' = todo \ {r}
  /\ silent' = silent \cup {r}
  /\ status' = Committed({r})
  /\ session' = Resealed(doomed \cup {r})
  /\ overdue' = overdue \ (doomed \cup {r})
  /\ doomed' = {}
  /\ relost' = r
  /\ UNCHANGED <<sourceVars, history, alive, clientVars, phase,
                 hourly, aged, faults>>

\* ... then the next attempt's row is inserted, for the beat to commit.
DispatchAgain ==
  /\ relost # NoRow
  /\ status' = [status EXCEPT ![<<relost[1], relost[2] + 1>>] = "draft"]
  /\ relost' = NoRow
  /\ UNCHANGED <<sourceVars, sessionVars, overdue, silent, alive, clientVars,
                 phase, hourly, todo, doomed, aged, faults>>

\* The budget is used up: the row is timed out, without a commit.
GiveUpAnalysis(r) ==
  /\ r \in todo
  /\ relost = NoRow
  /\ Transitions(r)
  /\ r[2] = MAX_ATTEMPTS
  /\ todo' = todo \ {r}
  /\ silent' = silent \cup {r}
  /\ doomed' = doomed \cup {r}
  /\ UNCHANGED <<sourceVars, sessionVars, status, overdue, alive, clientVars,
                 phase, hourly, relost, aged, faults>>

\* Its worker has ended the row since: the compare-and-set is lost, and all
\* the beat has not committed with it.
LoseCompareAndSet(r) ==
  /\ r \in todo \cap Analyses
  /\ relost = NoRow
  /\ ~Transitions(r)
  /\ todo' = todo \ {r}
  /\ silent' = silent \cup {r}
  /\ status' = RolledBack
  /\ doomed' = {}
  /\ UNCHANGED <<sourceVars, sessionVars, overdue, alive, clientVars, phase,
                 hourly, relost, aged, faults>>

\* recover_unleased_pending_tasks locks the pending rows until the end.  Of
\* the analyses none is timed out.
SweepPending ==
  LET stale == {b \in Builds \cap overdue : status[b] = "pending"} IN
  /\ phase = "running"
  /\ todo = {}
  /\ relost = NoRow
  /\ phase' = "ending"
  /\ silent' = silent \cup stale
  /\ doomed' = doomed \cup stale
  /\ UNCHANGED <<sourceVars, sessionVars, status, overdue, alive, clientVars,
                 hourly, todo, relost, aged, faults>>

\* cleanup_old_task_logs at minute 0: the outbox row that refers to an old
\* row is never deleted, and so neither is that row (a foreign key).
RetentionFails == hourly /\ aged

\* The beat commits, or rolls back when a policy has raised.
EndBeat ==
  /\ phase = "ending"
  /\ phase' = "idle"
  /\ doomed' = {}
  /\ IF RetentionFails
     THEN /\ status' = RolledBack
          /\ UNCHANGED <<session, overdue>>
     ELSE /\ status' = Committed({})
          /\ session' = Resealed(doomed)
          /\ overdue' = overdue \ doomed
  /\ UNCHANGED <<sourceVars, history, silent, alive, clientVars, hourly,
                 todo, relost, aged, faults>>

CrashBeat ==
  /\ phase # "idle"
  /\ faults < MaxFaults
  /\ faults' = faults + 1
  /\ phase' = "idle"
  /\ status' = RolledBack
  /\ todo' = {}
  /\ doomed' = {}
  /\ relost' = NoRow
  /\ UNCHANGED <<sourceVars, sessionVars, overdue, silent, alive, clientVars,
                 hourly, aged>>

-----------------------------------------------------------------------------

\* The heartbeat's own steps.
Beat ==
  \/ BeginBeat
  \/ \E b \in Builds : TimeOutBuild(b)
  \/ \E r \in Analyses :
       RecoverAnalysis(r) \/ GiveUpAnalysis(r) \/ LoseCompareAndSet(r)
  \/ DispatchAgain
  \/ SweepPending
  \/ EndBeat

Next ==
  \/ CreateSource
  \/ PauseOrResume
  \/ \E c \in Clients :
       \/ ReadSource(c)
       \/ UpdateSource(c)
       \/ TestSource(c)
       \/ DeleteCheck(c)
       \/ DeleteSource(c)
  \/ \E b \in Builds :
       \/ BindBuild(b)
       \/ SkipBuild(b)
       \/ FailBuild(b)
       \/ FinishBuild(b)
       \/ TimeOutBuild(b)
  \/ \E r \in Analyses :
       \/ ClaimAnalysis(r)
       \/ FinishAnalysis(r)
       \/ LoseClaim(r)
       \/ RecoverAnalysis(r)
       \/ GiveUpAnalysis(r)
       \/ LoseCompareAndSet(r)
  \/ \E r \in Rows :
       \/ Kill(r)
       \/ LoseWorker(r)
       \/ LoseMessage(r)
       \/ TimePasses(r)
  \/ DaysPass
  \/ BeginBeat
  \/ DispatchAgain
  \/ SweepPending
  \/ EndBeat
  \/ CrashBeat

\* Beat fires every minute (a beat out of two is hourly here, one out of
\* sixty there); workers, messages and requests may stop for good.
Fairness ==
  /\ WF_vars(Beat)
  /\ \A r \in Rows : WF_vars(r \notin alive /\ TimePasses(r))

Spec == Init /\ [][Next]_vars
FairSpec == Spec /\ Fairness

-----------------------------------------------------------------------------
(***************************************************************************)
(* Properties                                                              *)
(***************************************************************************)

\* Every variable has its type; between two beats nothing is left open.
TypeOK ==
  /\ source \in [life : {"new", "there", "gone"}, enabled : BOOLEAN,
                 paused : BOOLEAN, config : Configs,
                 verdict : ValidationStatus]
  /\ judged \in Configs
  /\ overtaken \in BOOLEAN
  /\ session \in
       [Sessions -> {"none", "sealed", "analyzing", "success", "failed"}]
  /\ history \subseteq Sessions
  /\ status \in
       [Rows -> {"absent", "draft", "success", "failed", "timeout"} \cup ACTIVE]
  /\ overdue \subseteq Rows
  /\ silent \subseteq Rows
  /\ alive \subseteq Rows
  /\ client \in [Clients -> Requests]
  /\ seen \in [Clients -> [life : {"new", "there"}, enabled : BOOLEAN,
                           paused : BOOLEAN, config : Configs,
                           verdict : ValidationStatus]]
  /\ overrun \subseteq Clients
  /\ phase \in Phases
  /\ hourly \in BOOLEAN
  /\ todo \subseteq Rows
  /\ doomed \subseteq Rows
  /\ relost \in Analyses \cup {NoRow}
  /\ relost # NoRow => relost[2] < MAX_ATTEMPTS
  /\ phase # "running" => todo = {} /\ relost = NoRow
  /\ phase = "idle" => doomed = {} /\ \A r \in Rows : status[r] # "draft"
  /\ aged \in BOOLEAN
  /\ requests \in 0..MaxRequests
  /\ faults \in 0..MaxFaults

\* A source is scheduled on the verdict of its own configuration: only an
\* update and a test that overlap leave it with that of another.
VerdictNeedsOvertaking ==
  source.verdict # "none" /\ judged # source.config => overtaken

\* Recorded events are lost only by a deletion that an analysis was claimed
\* behind the back of, after its checks.
HistoryLossNeedsOvertaking ==
  [][\A s \in history \ history' :
       \E c \in overrun : client[c] = "deleting"]_vars

\* A row whose message is gone does not stay active for ever, though beats
\* fail every hour and a lost compare-and-set undoes what they did: it ends,
\* but for analyses no worker has taken, which no sweep looks at.
SilencedRowsEnd ==
  \A r \in Rows :
    /\ r \in silent
    /\ Active(r)
    /\ r \in Builds \/ status[r] = "running"
    ~> ~Active(r)

-----------------------------------------------------------------------------
(***************************************************************************)
(* What the code's comments say and the code does not do                   *)
(***************************************************************************)

\* analysis_recovery.py: the time-out and the intent to publish the next
\* attempt commit atomically.  So a session whose analysis was timed out with
\* budget left gets its next attempt.
RecoveredIsRedispatched ==
  \A r \in {q \in Analyses : q[2] < MAX_ATTEMPTS} :
    status[r] = "timeout" ~>
      status[<<r[1], r[2] + 1>>] \notin {"absent", "draft"}

=============================================================================
