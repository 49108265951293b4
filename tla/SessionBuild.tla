---------------------------- MODULE SessionBuild ----------------------------
(***************************************************************************)
(* The session builds of one video source (src/services/session_build and  *)
(* tasks/_session_build_orchestration): HOT and FULL builds scan a time    *)
(* window of the recordings' directory, insert the files that are new,     *)
(* merge them into sessions, seal the sessions that are complete, and      *)
(* dispatch the analysis of what is sealed.                                *)
(*                                                                         *)
(* A build computes its window from what is committed, then waits for the  *)
(* source's advisory lock, then does the rest in one transaction, which is *)
(* the private copy tx until Commit.  That two builds of a source run at   *)
(* once (a redelivered message, a HOT beside a FULL) is TaskLog's subject; *)
(* here they just do.  Times are in ticks.                                 *)
(***************************************************************************)
EXTENDS Integers, Sequences, FiniteSets

CONSTANTS
  Workers,              \* build worker processes
  Files,                \* the recordings a camera may leave, by path hash
  Start,                \* their start_time, parsed from the name
  Probed,               \* their probed duration, rounded
  Nominal,              \* the parser's 60 s, when the probe says nothing
  MERGE_GAP_SECONDS,
  SEAL_BUFFER_SECONDS,
  Window,               \* scan_hot_window_hours
  MaxTime,              \* bound on the clock
  MaxFaults             \* bound on aborted builds and failed dispatches

ASSUME ConstantsAssumption ==
  /\ IsFiniteSet(Files)
  /\ Start \in [Files -> Nat]
  /\ Probed \in [Files -> Nat]
  /\ Nominal \in Nat \ {0}
  /\ MERGE_GAP_SECONDS \in Nat
  /\ SEAL_BUFFER_SECONDS \in Nat
  /\ Window \in Nat
  /\ MaxTime \in Nat
  /\ MaxFaults \in Nat

\* A session has a file of its own, so there are never more sessions.
Sessions == 1..Cardinality(Files)
Modes == {"hot", "full"}

VARIABLES
  now,         \* the clock
  disk,        \* recordings in the source's directory
  paused,      \* video_source.source_paused
  ends,        \* video_file.end_time of the rows, 0 without a row
  sessions,    \* video_session rows and their file relations, in order
  dispatched,  \* sessions with an analysis row
  pc,          \* where each worker is in its build
  mode,        \* its scan mode
  window,      \* its scan_start and scan_end
  tx,          \* the open transaction's view of ends and sessions
  plan,        \* the reducer's state
  faults       \* faults so far

tables == <<ends, sessions, dispatched>>
builds == <<pc, mode, window>>
vars == <<now, disk, paused, tables, builds, tx, plan, faults>>

Absent == [status |-> "absent", start |-> 0, end |-> 0, clips |-> <<>>]
NoTx == [ends |-> [f \in Files |-> 0],
         sessions |-> [i \in Sessions |-> Absent]]
NoPlan == [todo |-> {}, found |-> FALSE, extend |-> 0, new |-> 0]

-----------------------------------------------------------------------------
(***************************************************************************)
(* Helpers                                                                 *)
(***************************************************************************)

Bigger(a, b) == IF a > b THEN a ELSE b

Known(e) == {f \in Files : e[f] # 0}
Existing(s) == {i \in Sessions : s[i].status # "absent"}
Open(s) == {i \in Sessions : s[i].status = "open"}

\* The open sessions with the latest end (ORDER BY session_end_time DESC).
LatestOpen(s) == {i \in Open(s) : \A j \in Open(s) : s[j].end <= s[i].end}

\* Seeded fault: the order of the two forgotten.
WithinGapEitherWay(start, end) ==
  start <= end + MERGE_GAP_SECONDS /\ end <= start + MERGE_GAP_SECONDS

\* _within_merge_gap, of a file's start and the end of what it follows.
WithinMergeGap(start, end) ==
  end <= start /\ start <= end + MERGE_GAP_SECONDS

\* Seeded fault: a clip that rounds to no second at all keeps that length.
EndTimesUnclamped(f) == {Start[f] + Probed[f], Start[f] + Nominal}

\* _resolve_insert_duration_seconds: the probed duration, one second at
\* least, or the parser's when the file cannot be probed (yet, or any more).
EndTimes(f) == {Start[f] + Bigger(1, Probed[f]), Start[f] + Nominal}

\* _hot_scan_start.
HotScanStart ==
  LET latest == {sessions[i].end : i \in Existing(sessions)}
  IN  {t \in latest \cup {now - Window} :
         \A u \in latest \cup {now - Window} : u <= t}

\* scan_directory: after min_time, not after max_time.
Discovered(w) ==
  {f \in disk : window[w].from < Start[f] /\ Start[f] <= window[w].to}

\* The worker's build ends, by commit or rollback, and frees the lock.
Leave(w) ==
  /\ pc' = [pc EXCEPT ![w] = "idle"]
  /\ mode' = [mode EXCEPT ![w] = "hot"]
  /\ window' = [window EXCEPT ![w] = [from |-> 0, to |-> 0]]
  /\ tx' = IF pc[w] = "building" THEN NoTx ELSE tx
  /\ plan' = IF pc[w] = "building" THEN NoPlan ELSE plan

-----------------------------------------------------------------------------
(***************************************************************************)
(* The world                                                               *)
(***************************************************************************)

Init ==
  /\ now = 0
  /\ disk = {}
  /\ paused = FALSE
  /\ ends = [f \in Files |-> 0]
  /\ sessions = [i \in Sessions |-> Absent]
  /\ dispatched = {}
  /\ pc = [w \in Workers |-> "idle"]
  /\ mode = [w \in Workers |-> "hot"]
  /\ window = [w \in Workers |-> [from |-> 0, to |-> 0]]
  /\ tx = NoTx
  /\ plan = NoPlan
  /\ faults = 0

Tick ==
  /\ now < MaxTime
  /\ now' = now + 1
  /\ UNCHANGED <<disk, paused, tables, builds, tx, plan, faults>>

\* A recording appears in the directory: while it is still being written,
\* when it is complete, or later.
Appear(f) ==
  /\ f \notin disk
  /\ Start[f] <= now
  /\ disk' = disk \cup {f}
  /\ UNCHANGED <<now, paused, tables, builds, tx, plan, faults>>

\* The user pauses or resumes the source.
Pause ==
  /\ paused' = ~paused
  /\ UNCHANGED <<now, disk, tables, builds, tx, plan, faults>>

-----------------------------------------------------------------------------
(***************************************************************************)
(* A build                                                                 *)
(***************************************************************************)

\* Seeded fault: the window ends where that of a FULL scan does.
PlanHotBehind(w) ==
  /\ pc[w] = "idle"
  /\ ~paused
  /\ \E t \in HotScanStart :
       window' = [window EXCEPT ![w] = [from |-> t, to |-> now - Window]]
  /\ pc' = [pc EXCEPT ![w] = "planned"]
  /\ mode' = [mode EXCEPT ![w] = "hot"]
  /\ UNCHANGED <<now, disk, paused, tables, tx, plan, faults>>

\* _build_hot, before the lock: from the latest session's end (within the
\* HOT window) to now.  A paused source is skipped.
PlanHot(w) ==
  /\ pc[w] = "idle"
  /\ ~paused
  /\ \E t \in HotScanStart :
       window' = [window EXCEPT ![w] = [from |-> t, to |-> now]]
  /\ pc' = [pc EXCEPT ![w] = "planned"]
  /\ mode' = [mode EXCEPT ![w] = "hot"]
  /\ UNCHANGED <<now, disk, paused, tables, tx, plan, faults>>

\* _build_full: from before the earliest folder to where the HOT window
\* begins; skipped when there is no folder or no range.
PlanFull(w) ==
  /\ pc[w] = "idle"
  /\ \E first \in disk :
       /\ \A f \in disk : Start[first] <= Start[f]
       /\ Start[first] - 1 < now - Window
       /\ window' = [window EXCEPT ![w] = [from |-> Start[first] - 1,
                                           to |-> now - Window]]
  /\ pc' = [pc EXCEPT ![w] = "planned"]
  /\ mode' = [mode EXCEPT ![w] = "full"]
  /\ UNCHANGED <<now, disk, paused, tables, tx, plan, faults>>

\* Take the lock, discover, leave out the files that have a row, and look
\* up the open session that the new ones may extend.
Begin(w) ==
  /\ pc[w] = "planned"
  /\ \A v \in Workers : pc[v] # "building"
  /\ pc' = [pc EXCEPT ![w] = "building"]
  /\ tx' = [ends |-> ends, sessions |-> sessions]
  /\ \E s \in IF Open(sessions) = {} THEN {0} ELSE LatestOpen(sessions) :
       plan' = [todo |-> Discovered(w) \ Known(ends),
                found |-> Discovered(w) # {}, extend |-> s, new |-> 0]
  /\ UNCHANGED <<now, disk, paused, tables, mode, window, faults>>

\* The next new file, in the order of start_time.
NextFile(f) ==
  f \in plan.todo /\ \A g \in plan.todo : Start[f] <= Start[g]

\* Append the file to session i of the transaction.
Attach(f, i, end) ==
  tx' = [ends |-> [tx.ends EXCEPT ![f] = end],
         sessions |->
           [tx.sessions EXCEPT
              ![i].end = Bigger(@, end), ![i].clips = Append(@, f)]]

\* The file follows the session that was open before the build.
Extend(w, f, end) ==
  /\ plan.extend # 0
  /\ WithinMergeGap(Start[f], tx.sessions[plan.extend].end)
  /\ Attach(f, plan.extend, end)
  /\ plan' = [plan EXCEPT !.todo = @ \ {f}, !.new = 0]

\* Or it follows the session this build created last.
AppendNew(w, f, end) ==
  /\ plan.extend # 0 =>
       ~WithinMergeGap(Start[f], tx.sessions[plan.extend].end)
  /\ plan.new # 0
  /\ WithinMergeGap(Start[f], tx.sessions[plan.new].end)
  /\ Attach(f, plan.new, end)
  /\ plan' = [plan EXCEPT !.todo = @ \ {f}]

\* Seeded fault: the file that opens a session is not related to it.
CreateEmpty(w, f, end) ==
  /\ \A i \in {plan.extend, plan.new} \ {0} :
       ~WithinMergeGap(Start[f], tx.sessions[i].end)
  /\ \E i \in Sessions \ Existing(tx.sessions) :
       /\ \A j \in 1..(i - 1) : j \in Existing(tx.sessions)
       /\ tx' = [ends |-> [tx.ends EXCEPT ![f] = end],
                 sessions |->
                   [tx.sessions EXCEPT
                      ![i] = [status |-> "open", start |-> Start[f],
                              end |-> end, clips |-> <<>>]]]
       /\ plan' = [plan EXCEPT !.todo = @ \ {f}, !.new = i]

\* Or it opens a session.
Create(w, f, end) ==
  /\ \A i \in {plan.extend, plan.new} \ {0} :
       ~WithinMergeGap(Start[f], tx.sessions[i].end)
  /\ \E i \in Sessions \ Existing(tx.sessions) :
       /\ \A j \in 1..(i - 1) : j \in Existing(tx.sessions)
       /\ tx' = [ends |-> [tx.ends EXCEPT ![f] = end],
                 sessions |->
                   [tx.sessions EXCEPT
                      ![i] = [status |-> "open", start |-> Start[f],
                              end |-> end, clips |-> <<f>>]]]
       /\ plan' = [plan EXCEPT !.todo = @ \ {f}, !.new = i]

\* Insert and reduce one file.  (The code inserts all of them first.)
Reduce(w) ==
  /\ pc[w] = "building"
  /\ \E f \in Files :
       /\ NextFile(f)
       /\ \E end \in EndTimes(f) :
            Extend(w, f, end) \/ AppendNew(w, f, end) \/ Create(w, f, end)
  /\ UNCHANGED <<now, disk, paused, tables, builds, faults>>

\* Sessions that ended SEAL_BUFFER_SECONDS before the build began.
Quiet(w) ==
  {i \in Open(tx.sessions) :
     tx.sessions[i].end + SEAL_BUFFER_SECONDS <= window[w].to}

\* Seeded faults: nothing is sealed when nothing was found ...
ToSealWhenFound(w) ==
  IF ~plan.found THEN {{}}
  ELSE IF mode[w] = "full" THEN {Open(tx.sessions)}
  ELSE {(Open(tx.sessions) \ {latest}) \cup Quiet(w) :
          latest \in LatestOpen(tx.sessions)}

\* ... or HOT seals by the clock only.
ToSealQuiet(w) ==
  IF mode[w] = "hot" THEN {Quiet(w)}
  ELSE IF plan.found THEN {Open(tx.sessions)}
  ELSE {{}}

\* select_sessions_to_seal and _seal_buffer_eligible_open: FULL seals what
\* is open, HOT all but the latest, and that too once it is quiet.  A build
\* that discovered no file seals what is quiet (HOT) or nothing (FULL).
ToSeal(w) ==
  CASE plan.found /\ mode[w] = "full" -> {Open(tx.sessions)}
    [] ~plan.found /\ mode[w] = "full" -> {{}}
    [] mode[w] = "hot" /\ (~plan.found \/ Open(tx.sessions) = {}) -> {Quiet(w)}
    [] OTHER -> {(Open(tx.sessions) \ {latest}) \cup Quiet(w) :
                   latest \in LatestOpen(tx.sessions)}

\* Seeded fault: only what this build sealed is dispatched.
OwedFresh(s) ==
  {i \in Sessions : s[i].status = "sealed" /\ tx.sessions[i].status = "open"}

\* The sessions to dispatch: those sealed now, and find_stuck_sealed_
\* sessions, the sealed ones without an analysis row.
Owed(s) == {i \in Sessions : s[i].status = "sealed"} \ dispatched

\* apply_seal_transitions: the sessions s after those of seal are sealed.
SealTransitions(s, seal) ==
  [i \in Sessions |->
     IF i \in seal THEN [s[i] EXCEPT !.status = "sealed"] ELSE s[i]]

\* Seal, finalise, dispatch and commit.  A dispatch that raises is logged
\* and passed over.
Commit(w) ==
  /\ pc[w] = "building"
  /\ plan.todo = {}
  /\ \E seal \in ToSeal(w) :
       /\ sessions' = SealTransitions(tx.sessions, seal)
       /\ \/ /\ dispatched' = dispatched \cup Owed(sessions')
             /\ UNCHANGED faults
          \/ /\ faults < MaxFaults
             /\ faults' = faults + 1
             /\ \E i \in Owed(sessions') :
                  dispatched' = dispatched \cup (Owed(sessions') \ {i})
  /\ ends' = tx.ends
  /\ Leave(w)
  /\ UNCHANGED <<now, disk, paused>>

\* A stop request, an error or a lost worker rolls the build back.
Abort(w) ==
  /\ pc[w] # "idle"
  /\ faults < MaxFaults
  /\ faults' = faults + 1
  /\ Leave(w)
  /\ UNCHANGED <<now, disk, paused, tables>>

-----------------------------------------------------------------------------

Next ==
  \/ Tick
  \/ Pause
  \/ \E f \in Files : Appear(f)
  \/ \E w \in Workers :
       \/ PlanHot(w)
       \/ PlanFull(w)
       \/ Begin(w)
       \/ Reduce(w)
       \/ Commit(w)
       \/ Abort(w)

\* The heartbeat dispatches a HOT build every scan interval, the holder of
\* the lock runs on, and a build that waits for the lock gets it.
Fairness ==
  /\ WF_vars(Tick)
  /\ \A w \in Workers :
       /\ SF_vars(PlanHot(w))
       /\ SF_vars(Begin(w))
       /\ WF_vars(Reduce(w) \/ Commit(w))

Spec == Init /\ [][Next]_vars
FairSpec == Spec /\ Fairness

-----------------------------------------------------------------------------
(***************************************************************************)
(* Properties                                                              *)
(***************************************************************************)

SessionRows ==
  [status : {"absent", "open", "sealed"}, start : Nat, end : Nat,
   clips : Seq(Files)]

\* Every variable has its type; a file's row ends after it starts.
TypeOK ==
  /\ now \in 0..MaxTime
  /\ disk \subseteq Files
  /\ paused \in BOOLEAN
  /\ ends \in [Files -> Nat]
  /\ \A f \in Known(ends) : Start[f] < ends[f]
  /\ sessions \in [Sessions -> SessionRows]
  /\ dispatched \subseteq Sessions
  /\ pc \in [Workers -> {"idle", "planned", "building"}]
  /\ mode \in [Workers -> Modes]
  /\ window \in [Workers -> [from : Int, to : Int]]
  /\ tx \in [ends : [Files -> Nat], sessions : [Sessions -> SessionRows]]
  /\ plan \in [todo : SUBSET Files, found : BOOLEAN,
               extend : Sessions \cup {0}, new : Sessions \cup {0}]
  /\ faults \in 0..MaxFaults

\* However HOT and FULL builds overlap, a source never has two sessions
\* that a build might still extend.
OneOpenSession ==
  \A i, j \in Open(sessions) : i = j

\* A file with a row is in one session, once; a session has no others.
Placed(e, s) ==
  /\ \A f \in Known(e) : \E i \in Sessions :
       \E k \in 1..Len(s[i].clips) : s[i].clips[k] = f
  /\ \A i, j \in Sessions :
       \A k \in 1..Len(s[i].clips), l \in 1..Len(s[j].clips) :
         s[i].clips[k] = s[j].clips[l] =>
           i = j /\ k = l /\ s[i].clips[k] \in Known(e)

\* However builds overlap and fail, no file of the source is in two sessions
\* or twice in one, or has a row and no session.
EveryFileIsPlaced == Placed(ends, sessions)

\* The clips of a session follow each other without overlap or a gap above
\* MERGE_GAP_SECONDS, and the session spans them.
Contiguous(s, e) ==
  LET c == s.clips IN
  /\ Len(c) > 0
  /\ s.start = Start[c[1]]
  /\ s.end = e[c[Len(c)]]
  /\ \A k \in 1..(Len(c) - 1) :
       /\ e[c[k]] <= Start[c[k + 1]]
       /\ Start[c[k + 1]] <= e[c[k]] + MERGE_GAP_SECONDS

SessionsAreContiguous ==
  \A i \in Existing(sessions) : Contiguous(sessions[i], ends)

\* A sealed session is what its analysis will see: no build changes it,
\* not even one that planned before it was sealed.
SealedIsFinal ==
  [][\A i \in Sessions :
       sessions[i].status = "sealed" => sessions'[i] = sessions[i]]_vars

\* An open session is sealed (unless its source is paused): by a newer one,
\* or by the clock, in builds that find no file too.
OpenIsSealed ==
  \A i \in Sessions :
    sessions[i].status = "open" ~> sessions[i].status = "sealed" \/ paused

\* A sealed session gets its analysis row, though the dispatch that was
\* part of its sealing failed.
SealedIsDispatched ==
  \A i \in Sessions :
    sessions[i].status = "sealed" ~> i \in dispatched \/ paused

\* A recording that starts after the end of every session gets a row,
\* unless the source is paused, or the recording was left on the disk for
\* a HOT window, or a session has ended after it began.
NewIsFound ==
  \A f \in Files :
    (f \in disk /\ \A i \in Existing(sessions) : sessions[i].end < Start[f]) ~>
      \/ f \in Known(ends)
      \/ paused
      \/ Start[f] <= now - Window
      \/ \E i \in Existing(sessions) : sessions[i].end >= Start[f]

=============================================================================
