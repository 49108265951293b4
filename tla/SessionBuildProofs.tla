------------------------- MODULE SessionBuildProofs -------------------------
(***************************************************************************)
(* Theorems about the session builds of a source, for every number of      *)
(* workers, every set of recordings and every choice of the time bounds.   *)
(***************************************************************************)
EXTENDS SessionBuild, FiniteSetTheorems, TLAPS

LEMMA SessionIds == Sessions \subseteq Nat /\ 0 \notin Sessions
  BY FS_CardinalityType, ConstantsAssumption DEF Sessions

\* A file's row ends after it starts, also when the probe rounds to nothing.
LEMMA EndsAfterStart ==
  ASSUME NEW f \in Files, NEW end \in EndTimes(f)
  PROVE  end \in Nat /\ Start[f] \in Nat /\ Start[f] < end
  BY ConstantsAssumption DEF EndTimes, Bigger

-----------------------------------------------------------------------------
(***************************************************************************)
(* What a view of the tables, committed or not, satisfies                  *)
(***************************************************************************)
Typed(e, s) ==
  /\ e \in [Files -> Nat]
  /\ \A f \in Known(e) : Start[f] < e[f]
  /\ s \in [Sessions -> SessionRows]

AbsentIsEmpty(s) ==
  \A i \in Sessions : s[i].status = "absent" => Len(s[i].clips) = 0

Good(e, s) ==
  /\ Typed(e, s)
  /\ AbsentIsEmpty(s)
  /\ Placed(e, s)
  /\ \A i \in Existing(s) : Contiguous(s[i], e)

\* A file without a row is in no session.
LEMMA UnknownIsUnplaced ==
  ASSUME NEW e, NEW s, Good(e, s), NEW f \in Files, f \notin Known(e),
         NEW i \in Sessions, NEW k \in 1..Len(s[i].clips)
  PROVE  s[i].clips[k] # f
  BY DEF Good, Placed

\* What a session's clips are after one is appended.
LEMMA Appended ==
  ASSUME NEW c \in Seq(Files), NEW f \in Files, NEW d, d = Append(c, f)
  PROVE  /\ d \in Seq(Files)
         /\ Len(c) \in Nat
         /\ Len(d) = Len(c) + 1
         /\ d[Len(d)] = f
         /\ \A k \in 1..Len(c) : k \in 1..Len(d) /\ d[k] = c[k]
         /\ \A k \in 1..Len(d) : k \in 1..Len(c) \/ k = Len(d)
  OBVIOUS

\* One more file, f, behind the clips of session i, that has none or some.
Grown(e, s, f, i, e2, s2) ==
  /\ Good(e, s)
  /\ f \in Files \ Known(e)
  /\ i \in Sessions
  /\ Known(e2) = Known(e) \cup {f}
  /\ \A j \in Sessions \ {i} : s2[j] = s[j]
  /\ s2[i].clips = Append(s[i].clips, f)

\* That keeps each file in one place.
LEMMA PlacedMore ==
  ASSUME NEW e, NEW s, NEW f, NEW i, NEW e2, NEW s2, Grown(e, s, f, i, e2, s2)
  PROVE  Placed(e2, s2)
<1> USE DEF Grown
<1> DEFINE c == s[i].clips
           d == s2[i].clips
<1>1. c \in Seq(Files)
  BY DEF Good, Typed, SessionRows
<1>2. Known(e2) = Known(e) \cup {f}
  OBVIOUS
<1>3. /\ Len(c) \in Nat /\ Len(d) = Len(c) + 1 /\ d[Len(d)] = f
      /\ \A k \in 1..Len(c) : k \in 1..Len(d) /\ d[k] = c[k]
      /\ \A k \in 1..Len(d) : k \in 1..Len(c) \/ k = Len(d)
  <2> HIDE DEF c, d
  <2>1. d = Append(c, f)
    BY DEF c, d
  <2> QED BY <1>1, <2>1, Appended
<1> HIDE DEF c, d
<1>4. ASSUME NEW g \in Known(e2)
      PROVE  \E j \in Sessions : \E k \in 1..Len(s2[j].clips) :
               s2[j].clips[k] = g
  <2>1. CASE g = f
    <3>1. Len(d) \in 1..Len(d)
      BY <1>3
    <3> QED BY <3>1, <2>1, <1>3 DEF d
  <2>2. CASE g \in Known(e)
    <3>0. PICK j \in Sessions :
             \E k \in 1..Len(s[j].clips) : s[j].clips[k] = g
      BY <2>2 DEF Good, Placed, Known
    <3>1. PICK k \in 1..Len(s[j].clips) : s[j].clips[k] = g
      BY <3>0
    <3>2. CASE j = i
      <4>1. k \in 1..Len(d) /\ d[k] = g
        BY <3>1, <3>2, <1>3 DEF c
      <4> QED BY <4>1 DEF d
    <3>3. CASE j # i
      BY <3>1, <3>3
    <3> QED BY <3>2, <3>3
  <2> QED BY <1>2, <2>1, <2>2
<1>5. ASSUME NEW j \in Sessions, NEW k \in 1..Len(s2[j].clips)
      PROVE  \/ k \in 1..Len(s[j].clips) /\ s2[j].clips[k] = s[j].clips[k]
             \/ j = i /\ k = Len(d) /\ s2[j].clips[k] = f
  <2>1. CASE j = i
    BY <2>1, <1>3 DEF c, d
  <2>2. CASE j # i
    BY <2>2
  <2> QED BY <2>1, <2>2
<1>6. ASSUME NEW j \in Sessions, NEW k \in 1..Len(s2[j].clips),
             s2[j].clips[k] = f
      PROVE  j = i /\ k = Len(d)
  <2>1. CASE k \in 1..Len(s[j].clips) /\ s2[j].clips[k] = s[j].clips[k]
    BY <2>1, <1>6, UnknownIsUnplaced
  <2> QED BY <2>1, <1>5
<1>7. ASSUME NEW j \in Sessions, NEW m \in Sessions,
             NEW k \in 1..Len(s2[j].clips), NEW l \in 1..Len(s2[m].clips),
             s2[j].clips[k] = s2[m].clips[l]
      PROVE  j = m /\ k = l /\ s2[j].clips[k] \in Known(e2)
  <2>1. CASE /\ k \in 1..Len(s[j].clips) /\ s2[j].clips[k] = s[j].clips[k]
             /\ l \in 1..Len(s[m].clips) /\ s2[m].clips[l] = s[m].clips[l]
    <3>0. Placed(e, s) /\ s[j].clips[k] = s[m].clips[l]
      BY <2>1, <1>7 DEF Good
    <3>1. j = m /\ k = l /\ s[j].clips[k] \in Known(e)
      BY <3>0, <2>1 DEF Placed
    <3> QED BY <3>1, <2>1, <1>2
  <2>2. CASE s2[j].clips[k] = f
    <3>1. j = i /\ k = Len(d)
      BY <2>2, <1>6
    <3>2. m = i /\ l = Len(d)
      BY <2>2, <1>7, <1>6
    <3> QED BY <3>1, <3>2, <2>2, <1>2
  <2>3. CASE s2[m].clips[l] = f
    BY <2>2, <2>3, <1>7
  <2> QED BY <2>1, <2>2, <2>3, <1>5
<1> QED BY <1>4, <1>7 DEF Placed

\* A new row for a file in no session changes nothing about any session.
LEMMA OthersStayContiguous ==
  ASSUME NEW e, NEW s, Good(e, s), NEW f \in Files, f \notin Known(e),
         NEW end \in Nat, NEW e2, e2 = [e EXCEPT ![f] = end],
         NEW j \in Existing(s)
  PROVE  Contiguous(s[j], e2)
<1>1. /\ j \in Sessions /\ Contiguous(s[j], e) /\ e \in [Files -> Nat]
      /\ s[j].clips \in Seq(Files)
  BY DEF Good, Typed, Existing, SessionRows
<1>2. \A k \in 1..Len(s[j].clips) :
        s[j].clips[k] \in Files /\ e2[s[j].clips[k]] = e[s[j].clips[k]]
  <2> TAKE k \in 1..Len(s[j].clips)
  <2>1. s[j].clips[k] # f
    BY <1>1, UnknownIsUnplaced
  <2> QED BY <2>1, <1>1
<1>3. Len(s[j].clips) \in Nat
  BY <1>1
<1>4. Len(s[j].clips) > 0
  BY <1>1 DEF Contiguous
<1>5. Len(s[j].clips) \in 1..Len(s[j].clips)
  BY <1>3, <1>4
<1>6. \A k \in 1..(Len(s[j].clips) - 1) :
        k \in 1..Len(s[j].clips) /\ k + 1 \in 1..Len(s[j].clips)
  BY <1>3
<1> QED BY <1>1, <1>2, <1>5, <1>6 DEF Contiguous

\* What Attach does to a view.
Attached(e, s, f, i, end, e2, s2) ==
  /\ e2 = [e EXCEPT ![f] = end]
  /\ s2 = [s EXCEPT ![i].end = Bigger(@, end), ![i].clips = Append(@, f)]

\* Extend and AppendNew: a file behind the last of an open session.
LEMMA AttachGood ==
  ASSUME NEW e, NEW s, Good(e, s), NEW f \in Files, f \notin Known(e),
         NEW i \in Open(s), NEW end \in EndTimes(f),
         WithinMergeGap(Start[f], s[i].end),
         NEW e2, NEW s2, Attached(e, s, f, i, end, e2, s2)
  PROVE  Good(e2, s2) /\ Open(s2) = Open(s)
<1> USE DEF Attached
<1>1. /\ i \in Sessions /\ i \in Existing(s) /\ s[i] \in SessionRows
      /\ e \in [Files -> Nat] /\ s \in [Sessions -> SessionRows]
      /\ \A g \in Known(e) : Start[g] < e[g]
  BY DEF Good, Typed, Open, Existing
<1>2. end \in Nat /\ Start[f] \in Nat /\ Start[f] < end
  BY EndsAfterStart
<1>3. Known(e2) = Known(e) \cup {f}
  BY <1>1, <1>2 DEF Known
<1>4. s[i].end \in Nat /\ s[i].end < end /\ s[i].end <= Start[f]
      /\ Start[f] <= s[i].end + MERGE_GAP_SECONDS
  BY <1>1, <1>2 DEF SessionRows, WithinMergeGap
<1>5. s2[i] = [s[i] EXCEPT !.end = end, !.clips = Append(@, f)]
  <2>1. Bigger(s[i].end, end) = end
    BY <1>2, <1>4 DEF Bigger
  <2> QED BY <2>1, <1>1
<1>6. /\ s2[i].status = s[i].status /\ s2[i].start = s[i].start
      /\ s2[i].end = end /\ s2[i].clips = Append(s[i].clips, f)
      /\ s2[i] \in SessionRows
  BY <1>5, <1>1, <1>2 DEF SessionRows
<1>7. \A j \in Sessions \ {i} : s2[j] = s[j]
  BY <1>1
<1>8. s2 \in [Sessions -> SessionRows]
  BY <1>1, <1>6, <1>7
<1>9. Existing(s2) = Existing(s) /\ Open(s2) = Open(s)
  BY <1>6, <1>7 DEF Existing, Open
<1>10. Typed(e2, s2)
  <2>1. e2 \in [Files -> Nat]
    BY <1>1, <1>2
  <2>2. \A g \in Known(e2) : Start[g] < e2[g]
    BY <1>1, <1>2, <1>3 DEF Known
  <2> QED BY <2>1, <2>2, <1>8 DEF Typed
<1>11. AbsentIsEmpty(s2)
  <2>1. s2[i].status = "open"
    BY <1>6 DEF Open
  <2> QED BY <2>1, <1>7 DEF Good, AbsentIsEmpty
<1>12. Placed(e2, s2)
  <2>1. s2[i].clips = Append(s[i].clips, f)
    BY <1>6
  <2>2. Grown(e, s, f, i, e2, s2)
    BY <2>1, <1>1, <1>3, <1>7 DEF Grown
  <2> QED BY <2>2, PlacedMore
<1>13. Contiguous(s2[i], e2)
  <2> DEFINE c == s[i].clips
             d == s2[i].clips
  <2>1. c \in Seq(Files) /\ d = Append(c, f)
    BY <1>1, <1>6 DEF SessionRows
  <2>2. Contiguous(s[i], e2) /\ Contiguous(s[i], e)
    BY <1>1, <1>2, OthersStayContiguous DEF Good
  <2>3. /\ Len(c) \in Nat /\ Len(d) = Len(c) + 1 /\ d[Len(d)] = f
        /\ \A k \in 1..Len(c) : k \in 1..Len(d) /\ d[k] = c[k]
    <3> HIDE DEF c, d
    <3> QED BY <2>1, Appended
  <2>4. /\ Len(c) > 0 /\ s[i].start = Start[c[1]]
        /\ s[i].end = e2[c[Len(c)]]
        /\ \A k \in 1..(Len(c) - 1) :
             /\ e2[c[k]] <= Start[c[k + 1]]
             /\ Start[c[k + 1]] <= e2[c[k]] + MERGE_GAP_SECONDS
    BY <2>2 DEF Contiguous
  <2>5. e2[f] = end
    BY <1>1
  <2> HIDE DEF c, d
  <2>6. Len(d) > 0 /\ s2[i].start = Start[d[1]]
    BY <2>3, <2>4, <1>6
  <2>7. s2[i].end = e2[d[Len(d)]]
    BY <2>3, <2>5, <1>6
  <2>8. ASSUME NEW k \in 1..(Len(d) - 1)
        PROVE  /\ e2[d[k]] <= Start[d[k + 1]]
               /\ Start[d[k + 1]] <= e2[d[k]] + MERGE_GAP_SECONDS
    <3>1. CASE k = Len(c)
      <4>1. d[k] = c[Len(c)] /\ d[k + 1] = f
        BY <3>1, <2>3, <2>4
      <4> QED BY <4>1, <2>4, <1>4
    <3>2. CASE k # Len(c)
      <4>1. k \in 1..(Len(c) - 1) /\ d[k] = c[k] /\ d[k + 1] = c[k + 1]
        BY <3>2, <2>3, <2>4
      <4> QED BY <4>1, <2>4
    <3> QED BY <3>1, <3>2
  <2> QED BY <2>6, <2>7, <2>8 DEF Contiguous, d
<1>14. \A j \in Existing(s2) : Contiguous(s2[j], e2)
  <2> TAKE j \in Existing(s2)
  <2>1. CASE j = i
    BY <2>1, <1>13
  <2>2. CASE j # i
    <3>1. s2[j] = s[j] /\ j \in Existing(s)
      BY <2>2, <1>7, <1>9 DEF Existing
    <3> QED BY <3>1, <1>2, OthersStayContiguous
  <2> QED BY <2>1, <2>2
<1> QED BY <1>9, <1>10, <1>11, <1>12, <1>14 DEF Good

\* Create: a file in a session of its own.
LEMMA CreateGood ==
  ASSUME NEW e, NEW s, Good(e, s), NEW f \in Files, f \notin Known(e),
         NEW i \in Sessions \ Existing(s), NEW end \in EndTimes(f),
         NEW e2, e2 = [e EXCEPT ![f] = end],
         NEW s2, s2 = [s EXCEPT ![i] = [status |-> "open", start |-> Start[f],
                                        end |-> end, clips |-> <<f>>]]
  PROVE  Good(e2, s2) /\ Open(s2) = Open(s) \cup {i}
<1>1. /\ s[i] \in SessionRows /\ s[i].status = "absent"
      /\ e \in [Files -> Nat] /\ s \in [Sessions -> SessionRows]
      /\ \A g \in Known(e) : Start[g] < e[g]
  BY DEF Good, Typed, Existing
<1>2. end \in Nat /\ Start[f] \in Nat /\ Start[f] < end
  BY EndsAfterStart
<1>3. Known(e2) = Known(e) \cup {f}
  BY <1>1, <1>2 DEF Known
<1>4. s2[i] = [status |-> "open", start |-> Start[f], end |-> end,
               clips |-> <<f>>]
  BY <1>1
<1>5. /\ s2[i].status = "open" /\ s2[i].start = Start[f]
      /\ s2[i].end = end /\ s2[i].clips = <<f>> /\ s2[i] \in SessionRows
  <2> DEFINE c == <<f>>
  <2>1. c \in Seq(Files)
    OBVIOUS
  <2>2. s2[i] = [status |-> "open", start |-> Start[f], end |-> end,
                 clips |-> c]
    BY <1>4
  <2> HIDE DEF c
  <2>3. /\ s2[i].status = "open" /\ s2[i].start = Start[f]
        /\ s2[i].end = end /\ s2[i].clips = c /\ s2[i] \in SessionRows
    BY <2>1, <2>2, <1>2 DEF SessionRows
  <2> QED BY <2>3 DEF c
<1>6. \A j \in Sessions \ {i} : s2[j] = s[j]
  BY <1>1
<1>7. s2 \in [Sessions -> SessionRows]
  BY <1>1, <1>5, <1>6
<1>8. Existing(s2) = Existing(s) \cup {i} /\ Open(s2) = Open(s) \cup {i}
  BY <1>1, <1>5, <1>6 DEF Existing, Open
<1>9. Typed(e2, s2)
  <2>1. e2 \in [Files -> Nat]
    BY <1>1, <1>2
  <2>2. \A g \in Known(e2) : Start[g] < e2[g]
    BY <1>1, <1>2, <1>3 DEF Known
  <2> QED BY <2>1, <2>2, <1>7 DEF Typed
<1>10. AbsentIsEmpty(s2)
  BY <1>5, <1>6 DEF Good, AbsentIsEmpty
<1>11. Placed(e2, s2)
  <2>1. s[i].clips = <<>>
    <3>1. s[i].clips \in Seq(Files) /\ Len(s[i].clips) = 0
      BY <1>1 DEF Good, AbsentIsEmpty, SessionRows
    <3> QED BY <3>1
  <2>2. s2[i].clips = Append(s[i].clips, f)
    BY <2>1, <1>5
  <2>3. Grown(e, s, f, i, e2, s2)
    BY <2>2, <1>3, <1>6 DEF Grown
  <2> QED BY <2>3, PlacedMore
<1>12. Contiguous(s2[i], e2)
  <2>1. e2[f] = end
    BY <1>1
  <2> DEFINE d == s2[i].clips
  <2>2. Len(d) = 1 /\ d[1] = f
    BY <1>5
  <2>3. s2[i].start = Start[f] /\ s2[i].end = end
    BY <1>5
  <2> HIDE DEF d
  <2>4. \A k \in 1..(Len(d) - 1) : FALSE
    BY <2>2
  <2>5. Len(d) > 0 /\ s2[i].start = Start[d[1]] /\ s2[i].end = e2[d[Len(d)]]
    BY <2>1, <2>2, <2>3
  <2> QED BY <2>4, <2>5 DEF Contiguous, d
<1>13. \A j \in Existing(s2) : Contiguous(s2[j], e2)
  <2> TAKE j \in Existing(s2)
  <2>1. CASE j = i
    BY <2>1, <1>12
  <2>2. CASE j # i
    <3>1. s2[j] = s[j] /\ j \in Existing(s)
      BY <2>2, <1>6, <1>8 DEF Existing
    <3> QED BY <3>1, <1>2, OthersStayContiguous
  <2> QED BY <2>1, <2>2
<1> QED BY <1>8, <1>9, <1>10, <1>11, <1>13 DEF Good

\* Sealing changes the status of open sessions only.
LEMMA SealGood ==
  ASSUME NEW e, NEW s, Good(e, s), NEW seal, seal \subseteq Open(s),
         NEW s2, s2 = SealTransitions(s, seal)
  PROVE  Good(e, s2) /\ Open(s2) = Open(s) \ seal
<1> USE DEF SealTransitions
<1>1. s \in [Sessions -> SessionRows]
  BY DEF Good, Typed
<1>2. \A i \in Sessions :
        /\ s2[i] \in SessionRows
        /\ s2[i].start = s[i].start /\ s2[i].end = s[i].end
        /\ s2[i].clips = s[i].clips
        /\ i \in seal => s2[i].status = "sealed"
        /\ i \notin seal => s2[i].status = s[i].status
  BY <1>1 DEF SessionRows
<1>3. Existing(s2) = Existing(s) /\ Open(s2) = Open(s) \ seal
  BY <1>2 DEF Existing, Open
<1>4. Typed(e, s2)
  BY <1>2 DEF Good, Typed
<1>5. AbsentIsEmpty(s2)
  BY <1>2 DEF Good, AbsentIsEmpty
<1>6. Placed(e, s2)
  <2>1. Placed(e, s)
    BY DEF Good
  <2> QED BY <2>1, <1>2 DEF Placed
<1>7. \A j \in Existing(s2) : Contiguous(s2[j], e)
  <2> TAKE j \in Existing(s2)
  <2>1. Contiguous(s[j], e) /\ j \in Sessions
    BY <1>3 DEF Good, Existing
  <2> QED BY <2>1, <1>2 DEF Contiguous
<1> QED BY <1>3, <1>4, <1>5, <1>6, <1>7 DEF Good

-----------------------------------------------------------------------------
(***************************************************************************)
(* The inductive invariant.  The transaction of the one build that holds   *)
(* the lock is as good a view as the committed tables, and it differs from *)
(* them in nothing that is sealed.                                         *)
(***************************************************************************)
OneBuilder ==
  \A v, w \in Workers : pc[v] = "building" /\ pc[w] = "building" => v = w

TxInv ==
  /\ Good(tx.ends, tx.sessions)
  /\ plan.todo \cap Known(tx.ends) = {}
  /\ \A i \in Sessions :
       sessions[i].status = "sealed" => tx.sessions[i] = sessions[i]
  /\ {plan.extend, plan.new} \subseteq Open(tx.sessions) \cup {0}
  /\ ~plan.found => plan.todo = {} /\ tx.sessions = sessions

Inv ==
  /\ TypeOK
  /\ OneBuilder
  /\ Good(ends, sessions)
  /\ OneOpenSession
  /\ \A w \in Workers : pc[w] = "building" => TxInv

LEMMA EmptyRow == Absent \in SessionRows
  BY DEF Absent, SessionRows

LEMMA NoTxTyped ==
  NoTx \in [ends : [Files -> Nat], sessions : [Sessions -> SessionRows]]
  BY EmptyRow DEF NoTx

LEMMA InitInv == Init => Inv
<1> SUFFICES ASSUME Init PROVE Inv
  OBVIOUS
<1> USE DEF Init
<1>1. /\ Known(ends) = {} /\ Existing(sessions) = {} /\ Open(sessions) = {}
  BY DEF Known, Existing, Open, Absent
<1>2. sessions \in [Sessions -> SessionRows] /\ ends \in [Files -> Nat]
  BY EmptyRow
<1>3. TypeOK
  <2>1. plan \in [todo : SUBSET Files, found : BOOLEAN,
                  extend : Sessions \cup {0}, new : Sessions \cup {0}]
    BY DEF NoPlan
  <2>2. now \in 0..MaxTime /\ faults \in 0..MaxFaults
    BY ConstantsAssumption
  <2>3. /\ pc \in [Workers -> {"idle", "planned", "building"}]
        /\ mode \in [Workers -> Modes]
        /\ window \in [Workers -> [from : Int, to : Int]]
    BY DEF Modes
  <2>4. tx \in [ends : [Files -> Nat], sessions : [Sessions -> SessionRows]]
    BY NoTxTyped
  <2>5. /\ disk \subseteq Files /\ paused \in BOOLEAN
        /\ dispatched \subseteq Sessions
    OBVIOUS
  <2> HIDE DEF Init
  <2> QED BY <1>1, <1>2, <2>1, <2>2, <2>3, <2>4, <2>5 DEF TypeOK
<1>4. Good(ends, sessions)
  <2>1. \A i \in Sessions : Len(sessions[i].clips) = 0
    BY DEF Absent
  <2>2. \A i \in Sessions : \A k \in 1..Len(sessions[i].clips) : FALSE
    BY <2>1
  <2>3. Placed(ends, sessions)
    BY <1>1, <2>2 DEF Placed
  <2> QED BY <1>1, <1>2, <2>1, <2>3 DEF Good, Typed, AbsentIsEmpty
<1> QED BY <1>1, <1>3, <1>4 DEF Inv, OneBuilder, OneOpenSession

-----------------------------------------------------------------------------
(***************************************************************************)
(* The steps                                                               *)
(***************************************************************************)

\* Steps that leave tables and transactions alone keep what is said of them.
LEMMA TablesStay ==
  ASSUME Inv, TypeOK', UNCHANGED <<ends, sessions>>,
         OneBuilder', \A w \in Workers : pc'[w] = "building" => TxInv'
  PROVE  Inv'
  BY DEF Inv, OneOpenSession, Open, Good, Typed, AbsentIsEmpty, Placed,
         Contiguous, Known, Existing

\* Reduce: the three ways to place a file.
LEMMA ReducePlaces ==
  ASSUME NEW w \in Workers, TypeOK, TxInv,
         NEW f \in Files, NextFile(f), NEW end \in EndTimes(f),
         Extend(w, f, end) \/ AppendNew(w, f, end) \/ Create(w, f, end)
  PROVE  /\ Good(tx'.ends, tx'.sessions)
         /\ Known(tx'.ends) = Known(tx.ends) \cup {f}
         /\ Open(tx.sessions) \subseteq Open(tx'.sessions)
         /\ \A i \in Sessions :
              tx.sessions[i].status = "sealed" =>
                tx'.sessions[i] = tx.sessions[i]
         /\ plan'.todo = plan.todo \ {f} /\ plan'.found = plan.found
         /\ plan'.extend = plan.extend
         /\ plan'.new \in Open(tx'.sessions) \cup {0}
         /\ plan' \in [todo : SUBSET Files, found : BOOLEAN,
                       extend : Sessions \cup {0}, new : Sessions \cup {0}]
<1>1. f \notin Known(tx.ends) /\ f \in plan.todo /\ Good(tx.ends, tx.sessions)
  BY DEF NextFile, TxInv
<1>2. /\ tx.ends \in [Files -> Nat]
      /\ tx.sessions \in [Sessions -> SessionRows]
      /\ plan \in [todo : SUBSET Files, found : BOOLEAN,
                   extend : Sessions \cup {0}, new : Sessions \cup {0}]
  BY DEF TypeOK
<1>3. end \in Nat /\ end # 0
  BY EndsAfterStart
<1>4. ASSUME NEW i \in Open(tx.sessions), Attach(f, i, end),
             WithinMergeGap(Start[f], tx.sessions[i].end)
      PROVE  /\ Good(tx'.ends, tx'.sessions)
             /\ Known(tx'.ends) = Known(tx.ends) \cup {f}
             /\ Open(tx'.sessions) = Open(tx.sessions)
             /\ \A j \in Sessions :
                  tx.sessions[j].status = "sealed" =>
                    tx'.sessions[j] = tx.sessions[j]
  <2>1. /\ tx'.ends = [tx.ends EXCEPT ![f] = end]
        /\ tx'.sessions = [tx.sessions EXCEPT
                             ![i].end = Bigger(@, end),
                             ![i].clips = Append(@, f)]
    BY <1>4 DEF Attach
  <2>2. Good(tx'.ends, tx'.sessions) /\ Open(tx'.sessions) = Open(tx.sessions)
    <3>1. Attached(tx.ends, tx.sessions, f, i, end, tx'.ends, tx'.sessions)
      BY <2>1 DEF Attached
    <3> QED BY <1>1, <1>4, <3>1, AttachGood
  <2>3. Known(tx'.ends) = Known(tx.ends) \cup {f}
    BY <2>1, <1>2, <1>3 DEF Known
  <2>4. \A j \in Sessions \ {i} : tx'.sessions[j] = tx.sessions[j]
    BY <2>1, <1>2
  <2> QED BY <2>2, <2>3, <2>4 DEF Open
<1>5. CASE Extend(w, f, end)
  <2>1. plan.extend \in Open(tx.sessions)
    BY <1>5 DEF Extend, TxInv
  <2>2. plan' = [plan EXCEPT !.todo = @ \ {f}, !.new = 0]
    BY <1>5 DEF Extend
  <2> QED BY <2>1, <2>2, <1>2, <1>4, <1>5 DEF Extend
<1>6. CASE AppendNew(w, f, end)
  <2>1. plan.new \in Open(tx.sessions)
    BY <1>6 DEF AppendNew, TxInv
  <2>2. plan' = [plan EXCEPT !.todo = @ \ {f}]
    BY <1>6 DEF AppendNew
  <2> QED BY <2>1, <2>2, <1>2, <1>4, <1>6 DEF AppendNew
<1>7. CASE Create(w, f, end)
  <2>1. PICK i \in Sessions \ Existing(tx.sessions) :
          /\ tx' = [ends |-> [tx.ends EXCEPT ![f] = end],
                    sessions |->
                      [tx.sessions EXCEPT
                         ![i] = [status |-> "open", start |-> Start[f],
                                 end |-> end, clips |-> <<f>>]]]
          /\ plan' = [plan EXCEPT !.todo = @ \ {f}, !.new = i]
    BY <1>7 DEF Create
  <2>2. /\ tx'.ends = [tx.ends EXCEPT ![f] = end]
        /\ tx'.sessions = [tx.sessions EXCEPT
                             ![i] = [status |-> "open", start |-> Start[f],
                                     end |-> end, clips |-> <<f>>]]
    BY <2>1
  <2>3. /\ Good(tx'.ends, tx'.sessions)
        /\ Open(tx'.sessions) = Open(tx.sessions) \cup {i}
    BY <1>1, <2>2, CreateGood
  <2>4. Known(tx'.ends) = Known(tx.ends) \cup {f}
    BY <2>2, <1>2, <1>3 DEF Known
  <2>5. \A j \in Sessions \ {i} : tx'.sessions[j] = tx.sessions[j]
    BY <2>2, <1>2
  <2>6. tx.sessions[i].status = "absent"
    BY DEF Existing
  <2>7. /\ plan'.todo = plan.todo \ {f} /\ plan'.found = plan.found
        /\ plan'.extend = plan.extend /\ plan'.new = i
        /\ plan' \in [todo : SUBSET Files, found : BOOLEAN,
                      extend : Sessions \cup {0}, new : Sessions \cup {0}]
    BY <2>1, <1>2
  <2> QED BY <2>3, <2>4, <2>5, <2>6, <2>7
<1> QED BY <1>5, <1>6, <1>7

\* What is sealed is open, and leaves one session open at most, unless the
\* build discovered no file.
LEMMA SealChoice ==
  ASSUME NEW w \in Workers, NEW seal \in ToSeal(w)
  PROVE  /\ seal \subseteq Open(tx.sessions)
         /\ plan.found => \A i, j \in Open(tx.sessions) \ seal : i = j
<1>1. Quiet(w) \subseteq Open(tx.sessions)
  BY DEF Quiet
<1>2. CASE plan.found /\ mode[w] = "full"
  BY <1>2 DEF ToSeal
<1>3. CASE ~plan.found /\ mode[w] = "full"
  BY <1>3 DEF ToSeal
<1>4. CASE mode[w] = "hot" /\ (~plan.found \/ Open(tx.sessions) = {})
  BY <1>1, <1>4 DEF ToSeal
<1>5. CASE mode[w] # "full" /\ plan.found /\ Open(tx.sessions) # {}
  BY <1>1, <1>5 DEF ToSeal, LatestOpen
<1> QED BY <1>1, <1>2, <1>3, <1>4, <1>5 DEF ToSeal

LEMMA ReduceInv ==
  ASSUME Inv, NEW w \in Workers, Reduce(w)
  PROVE  Inv'
<1>1. /\ TypeOK /\ TxInv /\ OneBuilder
      /\ UNCHANGED <<now, disk, paused, tables, builds, faults>>
  BY DEF Inv, Reduce
<1>2. PICK f \in Files :
        /\ NextFile(f)
        /\ \E end \in EndTimes(f) :
             Extend(w, f, end) \/ AppendNew(w, f, end) \/ Create(w, f, end)
  BY DEF Reduce
<1>3. PICK end \in EndTimes(f) :
        Extend(w, f, end) \/ AppendNew(w, f, end) \/ Create(w, f, end)
  BY <1>2
<1>4. /\ Good(tx'.ends, tx'.sessions)
      /\ Known(tx'.ends) = Known(tx.ends) \cup {f}
      /\ Open(tx.sessions) \subseteq Open(tx'.sessions)
      /\ \A i \in Sessions :
           tx.sessions[i].status = "sealed" =>
             tx'.sessions[i] = tx.sessions[i]
      /\ plan'.todo = plan.todo \ {f} /\ plan'.found = plan.found
      /\ plan'.extend = plan.extend
      /\ plan'.new \in Open(tx'.sessions) \cup {0}
      /\ plan' \in [todo : SUBSET Files, found : BOOLEAN,
                    extend : Sessions \cup {0}, new : Sessions \cup {0}]
  BY <1>1, <1>2, <1>3, ReducePlaces
<1>5. plan.found
  BY <1>1, <1>2 DEF NextFile, TxInv
<1>6. TxInv'
  BY <1>1, <1>4, <1>5 DEF TxInv, tables
<1>7. TypeOK'
  <2>1. tx' \in [ends : [Files -> Nat], sessions : [Sessions -> SessionRows]]
    <3>1. /\ tx'.ends \in [Files -> Nat]
          /\ tx'.sessions \in [Sessions -> SessionRows]
      BY <1>4 DEF Good, Typed
    <3>2. tx' = [ends |-> tx'.ends, sessions |-> tx'.sessions]
      <4>1. \A i \in Sessions, g \in Files, end2 \in Nat :
              Attach(g, i, end2) =>
                tx' = [ends |-> tx'.ends, sessions |-> tx'.sessions]
        BY DEF Attach
      <4>2. plan.extend \in Sessions \cup {0} /\ plan.new \in Sessions \cup {0}
        BY <1>1 DEF TypeOK
      <4> QED BY <1>3, <4>1, <4>2, EndsAfterStart
                 DEF Extend, AppendNew, Create
    <3> QED BY <3>1, <3>2
  <2> QED BY <1>1, <1>4, <2>1 DEF TypeOK, tables, builds, Known
<1>8. OneBuilder'
  BY <1>1 DEF OneBuilder, builds
<1>9. UNCHANGED <<ends, sessions>>
  BY <1>1 DEF tables
<1> QED BY <1>6, <1>7, <1>8, <1>9, TablesStay

\* What Commit leaves in the tables.
LEMMA CommitTables ==
  ASSUME Inv, NEW w \in Workers, Commit(w)
  PROVE  /\ Good(ends', sessions')
         /\ OneOpenSession'
         /\ \A i \in Sessions :
              sessions[i].status = "sealed" => sessions'[i] = sessions[i]
<1>1. TxInv /\ TypeOK /\ OneOpenSession
  BY DEF Inv, Commit
<1>2. ends' = tx.ends
  BY DEF Commit
<1>3. PICK seal \in ToSeal(w) :
        sessions' = SealTransitions(tx.sessions, seal)
  BY DEF Commit
<1>4. /\ seal \subseteq Open(tx.sessions)
      /\ plan.found => \A i, j \in Open(tx.sessions) \ seal : i = j
  BY SealChoice
<1>5. /\ Good(ends', sessions')
      /\ Open(sessions') = Open(tx.sessions) \ seal
  <2>1. Good(tx.ends, tx.sessions) /\ seal \subseteq Open(tx.sessions)
    BY <1>1, <1>4 DEF TxInv
  <2> QED BY <2>1, <1>2, <1>3, SealGood
<1>6. OneOpenSession'
  <2>1. Open(sessions') = Open(tx.sessions) \ seal
    BY <1>5
  <2>2. CASE plan.found
    BY <2>1, <2>2, <1>4 DEF OneOpenSession
  <2>3. CASE ~plan.found
    BY <2>1, <2>3, <1>1 DEF OneOpenSession, TxInv
  <2> QED BY <2>2, <2>3
<1>7. ASSUME NEW i \in Sessions, sessions[i].status = "sealed"
      PROVE  sessions'[i] = sessions[i]
  <2>1. tx.sessions[i] = sessions[i]
    BY <1>1, <1>7 DEF TxInv
  <2>2. i \notin seal
    BY <2>1, <1>4, <1>7 DEF Open
  <2> QED BY <2>1, <2>2, <1>3 DEF SealTransitions
<1> QED BY <1>5, <1>6, <1>7

\* Commit and Abort: the worker goes idle and no transaction is left open.
LEMMA LeaveTypes ==
  ASSUME TypeOK, OneBuilder, NEW w \in Workers, Leave(w), pc[w] # "idle"
  PROVE  /\ pc' \in [Workers -> {"idle", "planned", "building"}]
         /\ mode' \in [Workers -> Modes]
         /\ window' \in [Workers -> [from : Int, to : Int]]
         /\ tx' \in [ends : [Files -> Nat],
                     sessions : [Sessions -> SessionRows]]
         /\ plan' \in [todo : SUBSET Files, found : BOOLEAN,
                       extend : Sessions \cup {0}, new : Sessions \cup {0}]
         /\ OneBuilder'
         /\ \A v \in Workers : pc'[v] = "building" =>
              pc[v] = "building" /\ tx' = tx /\ plan' = plan
<1>1. NoPlan \in [todo : SUBSET Files, found : BOOLEAN,
                  extend : Sessions \cup {0}, new : Sessions \cup {0}]
  BY DEF NoPlan
<1>2. /\ pc' \in [Workers -> {"idle", "planned", "building"}]
      /\ mode' \in [Workers -> Modes]
      /\ window' \in [Workers -> [from : Int, to : Int]]
  BY DEF Leave, TypeOK, Modes
<1>3. /\ tx' \in [ends : [Files -> Nat], sessions : [Sessions -> SessionRows]]
      /\ plan' \in [todo : SUBSET Files, found : BOOLEAN,
                    extend : Sessions \cup {0}, new : Sessions \cup {0}]
  BY <1>1, NoTxTyped DEF Leave, TypeOK
<1>4. \A v \in Workers : pc'[v] = "building" => v # w /\ pc[v] = "building"
  BY DEF Leave, TypeOK
<1>5. OneBuilder'
  BY <1>4 DEF OneBuilder
<1>6. \A v \in Workers : pc'[v] = "building" =>
        pc[v] = "building" /\ tx' = tx /\ plan' = plan
  BY <1>4 DEF OneBuilder, Leave
<1> QED BY <1>2, <1>3, <1>5, <1>6

LEMMA CommitInv ==
  ASSUME Inv, NEW w \in Workers, Commit(w)
  PROVE  Inv'
<1>1. TypeOK /\ OneBuilder /\ Leave(w) /\ pc[w] = "building"
  BY DEF Inv, Commit
<1>2. /\ Good(ends', sessions') /\ OneOpenSession'
  BY CommitTables
<1>3. /\ pc' \in [Workers -> {"idle", "planned", "building"}]
      /\ mode' \in [Workers -> Modes]
      /\ window' \in [Workers -> [from : Int, to : Int]]
      /\ tx' \in [ends : [Files -> Nat], sessions : [Sessions -> SessionRows]]
      /\ plan' \in [todo : SUBSET Files, found : BOOLEAN,
                    extend : Sessions \cup {0}, new : Sessions \cup {0}]
      /\ OneBuilder'
  BY <1>1, LeaveTypes
<1>4. \A v \in Workers : pc'[v] # "building"
  BY <1>1 DEF Leave, OneBuilder, TypeOK
<1>5. dispatched' \subseteq Sessions /\ faults' \in 0..MaxFaults
  <2>1. /\ \/ dispatched' = dispatched \cup Owed(sessions')
           \/ \E i \in Owed(sessions') :
                dispatched' = dispatched \cup (Owed(sessions') \ {i})
        /\ faults' = faults \/ (faults < MaxFaults /\ faults' = faults + 1)
    BY DEF Commit
  <2>2. Owed(sessions') \subseteq Sessions
    BY DEF Owed
  <2>3. dispatched' \subseteq Sessions
    BY <2>1, <2>2, <1>1 DEF TypeOK
  <2>4. faults' \in 0..MaxFaults
    BY <2>1, <1>1, ConstantsAssumption DEF TypeOK
  <2> QED BY <2>3, <2>4
<1>6. UNCHANGED <<now, disk, paused>>
  BY DEF Commit
<1>7. TypeOK'
  BY <1>1, <1>2, <1>3, <1>5, <1>6 DEF TypeOK, Good, Typed
<1> QED BY <1>2, <1>3, <1>4, <1>7 DEF Inv

LEMMA AbortInv ==
  ASSUME Inv, NEW w \in Workers, Abort(w)
  PROVE  Inv'
<1>1. TypeOK /\ OneBuilder /\ Leave(w) /\ pc[w] # "idle"
  BY DEF Inv, Abort
<1>2. UNCHANGED <<now, disk, paused, tables>> /\ UNCHANGED <<ends, sessions>>
  BY DEF Abort, tables
<1>3. /\ pc' \in [Workers -> {"idle", "planned", "building"}]
      /\ mode' \in [Workers -> Modes]
      /\ window' \in [Workers -> [from : Int, to : Int]]
      /\ tx' \in [ends : [Files -> Nat], sessions : [Sessions -> SessionRows]]
      /\ plan' \in [todo : SUBSET Files, found : BOOLEAN,
                    extend : Sessions \cup {0}, new : Sessions \cup {0}]
      /\ OneBuilder'
      /\ \A v \in Workers : pc'[v] = "building" =>
           pc[v] = "building" /\ tx' = tx /\ plan' = plan
  BY <1>1, LeaveTypes
<1>4. faults' \in 0..MaxFaults
  BY <1>1, ConstantsAssumption DEF Abort, TypeOK
<1>5. TypeOK'
  BY <1>1, <1>2, <1>3, <1>4 DEF TypeOK, tables, Known
<1>6. \A v \in Workers : pc'[v] = "building" => TxInv'
  BY <1>2, <1>3 DEF Inv, TxInv
<1> QED BY <1>2, <1>3, <1>5, <1>6, TablesStay

LEMMA BeginInv ==
  ASSUME Inv, NEW w \in Workers, Begin(w)
  PROVE  Inv'
<1>1. /\ TypeOK /\ Good(ends, sessions)
      /\ UNCHANGED <<now, disk, paused, tables, mode, window, faults>>
      /\ tx' = [ends |-> ends, sessions |-> sessions]
      /\ \A v \in Workers : pc[v] # "building"
      /\ pc' = [pc EXCEPT ![w] = "building"]
  BY DEF Inv, Begin
<1>2. PICK s \in IF Open(sessions) = {} THEN {0} ELSE LatestOpen(sessions) :
        plan' = [todo |-> Discovered(w) \ Known(ends),
                 found |-> Discovered(w) # {}, extend |-> s, new |-> 0]
  BY DEF Begin
<1>3. s \in Open(sessions) \cup {0}
  BY <1>2 DEF LatestOpen
<1>4. Discovered(w) \subseteq Files /\ Open(sessions) \subseteq Sessions
  BY <1>1 DEF Discovered, TypeOK, Open
<1>5. UNCHANGED <<ends, sessions>>
  BY <1>1 DEF tables
<1>6. OneBuilder' /\ pc' \in [Workers -> {"idle", "planned", "building"}]
  BY <1>1 DEF OneBuilder, TypeOK
<1>7. plan' \in [todo : SUBSET Files, found : BOOLEAN,
                 extend : Sessions \cup {0}, new : Sessions \cup {0}]
  BY <1>2, <1>3, <1>4
<1>8. tx' \in [ends : [Files -> Nat], sessions : [Sessions -> SessionRows]]
  BY <1>1 DEF TypeOK
<1>9. TypeOK'
  BY <1>1, <1>6, <1>7, <1>8 DEF TypeOK, tables, Known
<1>10. TxInv'
  <2>1. /\ tx'.ends = ends /\ tx'.sessions = sessions
        /\ plan'.todo = Discovered(w) \ Known(ends)
        /\ plan'.found = (Discovered(w) # {})
        /\ plan'.extend = s /\ plan'.new = 0
    BY <1>1, <1>2
  <2> QED BY <2>1, <1>1, <1>3, <1>5 DEF TxInv
<1> QED BY <1>5, <1>6, <1>9, <1>10, TablesStay

\* Steps that touch neither tables, transaction nor the lock.
LEMMA OtherInv ==
  ASSUME Inv,
         \/ Tick \/ Pause \/ \E f \in Files : Appear(f)
         \/ \E w \in Workers : PlanHot(w) \/ PlanFull(w)
  PROVE  Inv'
<1>1. TypeOK /\ OneBuilder
  BY DEF Inv
<1>2. UNCHANGED <<ends, sessions, dispatched, tx, plan, faults>>
  BY DEF Tick, Pause, Appear, PlanHot, PlanFull, tables
<1>3. /\ now' \in 0..MaxTime /\ disk' \subseteq Files /\ paused' \in BOOLEAN
  <2>1. /\ now' = now \/ (now < MaxTime /\ now' = now + 1)
        /\ disk' = disk \/ \E f \in Files : disk' = disk \cup {f}
    BY DEF Tick, Pause, Appear, PlanHot, PlanFull
  <2>2. now' \in 0..MaxTime /\ disk' \subseteq Files
    BY <2>1, <1>1, ConstantsAssumption DEF TypeOK
  <2>3. paused' = paused \/ paused' = ~paused
    BY DEF Tick, Pause, Appear, PlanHot, PlanFull
  <2>4. paused' \in BOOLEAN
    BY <2>3, <1>1, Zenon DEF TypeOK
  <2> QED BY <2>2, <2>4
<1>4. /\ pc' \in [Workers -> {"idle", "planned", "building"}]
      /\ mode' \in [Workers -> Modes]
      /\ window' \in [Workers -> [from : Int, to : Int]]
      /\ \A v \in Workers : pc'[v] = "building" => pc[v] = "building"
  <2>1. ASSUME NEW w \in Workers, PlanHot(w)
        PROVE  /\ pc' = [pc EXCEPT ![w] = "planned"]
               /\ mode' = [mode EXCEPT ![w] = "hot"]
               /\ \E from, to \in Int :
                    window' = [window EXCEPT ![w] = [from |-> from, to |-> to]]
    <3>1. PICK t \in HotScanStart :
            window' = [window EXCEPT ![w] = [from |-> t, to |-> now]]
      BY <2>1 DEF PlanHot
    <3>2. \A i \in Existing(sessions) : sessions[i].end \in Nat
      BY <1>1 DEF TypeOK, Existing, SessionRows
    <3>3. t \in Int
      BY <1>1, <3>2, ConstantsAssumption DEF HotScanStart, TypeOK
    <3>4. now \in Int
      BY <1>1, ConstantsAssumption DEF TypeOK
    <3> QED BY <2>1, <3>1, <3>3, <3>4 DEF PlanHot
  <2>2. ASSUME NEW w \in Workers, PlanFull(w)
        PROVE  /\ pc' = [pc EXCEPT ![w] = "planned"]
               /\ mode' = [mode EXCEPT ![w] = "full"]
               /\ \E from, to \in Int :
                    window' = [window EXCEPT ![w] = [from |-> from, to |-> to]]
    <3>1. PICK first \in disk :
            window' = [window EXCEPT ![w] = [from |-> Start[first] - 1,
                                             to |-> now - Window]]
      BY <2>2 DEF PlanFull
    <3>2. Start[first] - 1 \in Int /\ now - Window \in Int
      BY <1>1, ConstantsAssumption DEF TypeOK
    <3> QED BY <2>2, <3>1, <3>2 DEF PlanFull
  <2>3. CASE UNCHANGED builds
    BY <2>3, <1>1 DEF builds, TypeOK
  <2>4. CASE \E w \in Workers : PlanHot(w) \/ PlanFull(w)
    <3>1. PICK w \in Workers : PlanHot(w) \/ PlanFull(w)
      BY <2>4
    <3>2. \E from, to \in Int :
            window' = [window EXCEPT ![w] = [from |-> from, to |-> to]]
      BY <3>1, <2>1, <2>2
    <3>3. window' \in [Workers -> [from : Int, to : Int]]
      BY <3>2, <1>1 DEF TypeOK
    <3>4. /\ pc' \in [Workers -> {"idle", "planned", "building"}]
          /\ mode' \in [Workers -> Modes]
          /\ \A v \in Workers : pc'[v] = "building" => pc[v] = "building"
      BY <3>1, <2>1, <2>2, <1>1 DEF TypeOK, Modes
    <3> QED BY <3>3, <3>4
  <2> QED BY <2>3, <2>4 DEF Tick, Pause, Appear
<1>5. TypeOK'
  BY <1>1, <1>2, <1>3, <1>4 DEF TypeOK, Known
<1>6. OneBuilder'
  BY <1>1, <1>4 DEF OneBuilder
<1>7. \A v \in Workers : pc'[v] = "building" => TxInv'
  BY <1>2, <1>4 DEF Inv, TxInv
<1> QED BY <1>2, <1>5, <1>6, <1>7, TablesStay

LEMMA NextInv == Inv /\ [Next]_vars => Inv'
<1> SUFFICES ASSUME Inv, [Next]_vars PROVE Inv'
  OBVIOUS
<1>1. CASE UNCHANGED vars
  <2>1. TypeOK' /\ OneBuilder'
    BY <1>1 DEF Inv, TypeOK, OneBuilder, vars, tables, builds, Known
  <2>2. \A w \in Workers : pc'[w] = "building" => TxInv'
    BY <1>1 DEF Inv, TxInv, vars, tables, builds
  <2> QED BY <1>1, <2>1, <2>2, TablesStay DEF vars, tables
<1>2. ASSUME NEW w \in Workers, Begin(w) PROVE Inv'
  BY <1>2, BeginInv
<1>3. ASSUME NEW w \in Workers, Reduce(w) PROVE Inv'
  BY <1>3, ReduceInv
<1>4. ASSUME NEW w \in Workers, Commit(w) PROVE Inv'
  BY <1>4, CommitInv
<1>5. ASSUME NEW w \in Workers, Abort(w) PROVE Inv'
  BY <1>5, AbortInv
<1> QED BY <1>1, <1>2, <1>3, <1>4, <1>5, OtherInv DEF Next

THEOREM Invariance == Spec => []Inv
  BY InitInv, NextInv, PTL DEF Spec

-----------------------------------------------------------------------------
(***************************************************************************)
(* The theorems                                                            *)
(***************************************************************************)

\* Every row and every transaction keeps its type, and no file's row ends
\* before it has lasted a second.
THEOREM TypeCorrect == Spec => []TypeOK
<1>1. Inv => TypeOK
  BY DEF Inv
<1> QED BY <1>1, Invariance, PTL

\* However many builds of a source overlap and abort, it never has two open
\* sessions that the next build might extend.
THEOREM SourceHasOneOpenSession == Spec => []OneOpenSession
<1>1. Inv => OneOpenSession
  BY DEF Inv
<1> QED BY <1>1, Invariance, PTL

\* A file with a row is in exactly one session, once, and a session has no
\* file without a row.
THEOREM FilesArePlaced == Spec => []EveryFileIsPlaced
<1>1. Inv => EveryFileIsPlaced
  BY DEF Inv, Good, EveryFileIsPlaced
<1> QED BY <1>1, Invariance, PTL

\* The clips of a session follow each other in time, none overlapping the
\* next and no gap above MERGE_GAP_SECONDS, and the session spans them.
THEOREM SessionsStayContiguous == Spec => []SessionsAreContiguous
<1>1. Inv => SessionsAreContiguous
  BY DEF Inv, Good, SessionsAreContiguous
<1> QED BY <1>1, Invariance, PTL

\* A sealed session, which is what gets analysed, never changes again.
THEOREM SealedStays == Spec => SealedIsFinal
<1> DEFINE A == \A i \in Sessions :
                  sessions[i].status = "sealed" => sessions'[i] = sessions[i]
<1>1. Inv /\ [Next]_vars => [A]_vars
  <2> SUFFICES ASSUME Inv, Next PROVE A
    OBVIOUS
  <2>1. ASSUME NEW w \in Workers, Commit(w) PROVE A
    BY <2>1, CommitTables
  <2>2. CASE UNCHANGED sessions
    BY <2>2
  <2> QED
    BY <2>1, <2>2 DEF Next, Tick, Pause, Appear, PlanHot, PlanFull, Begin,
                      Reduce, Abort, tables
<1> QED BY <1>1, Invariance, PTL DEF Spec, SealedIsFinal

=============================================================================
