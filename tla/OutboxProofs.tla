---------------------------- MODULE OutboxProofs ----------------------------
(***************************************************************************)
(* Theorems about the transactional outbox, for every number of rows and   *)
(* publishers and every setting of the publisher.                          *)
(***************************************************************************)
EXTENDS Outbox, TLAPS

-----------------------------------------------------------------------------
(***************************************************************************)
(* The inductive invariant                                                 *)
(***************************************************************************)

\* A publisher has chosen a row exactly while it is in a transaction.
ClaimMatchesStage ==
  \A p \in Publishers : claim[p] = NoEvent <=> pc[p] = "idle"

\* The chosen row is one of the locked ones.
ClaimIsLocked ==
  \A p \in Publishers : claim[p] # NoEvent => claim[p] \in locked[p]

\* FOR UPDATE SKIP LOCKED: no row is locked twice.
LocksAreDisjoint ==
  \A p, q \in Publishers : p # q => locked[p] \cap locked[q] = {}

\* A locked row is still pending: nobody else can have settled it.
LockedArePending ==
  \A p \in Publishers : \A e \in locked[p] : status[e] = "pending"

\* What is recorded, or about to be recorded, as published was sent.
PublishedWereSent ==
  /\ \A p \in Publishers : pc[p] = "sent" => sends[claim[p]] > 0
  /\ \A e \in Events : status[e] = "published" => sends[e] > 0

\* A send not yet charged belongs to a transaction that is still open.
Unsettled(e) == status[e] \in {"absent", "pending"}
InFlight(e) ==
  \E p \in Publishers : claim[p] = e /\ pc[p] \in {"sent", "retryable"}
SendsAreAccounted ==
  \A e \in Events :
    /\ sends[e] <= attempts[e] + crashes + 1
    /\ Unsettled(e) /\ ~InFlight(e) => sends[e] <= attempts[e] + crashes

LockInv ==
  /\ TypeOK
  /\ ClaimMatchesStage
  /\ ClaimIsLocked
  /\ LocksAreDisjoint
  /\ LockedArePending

-----------------------------------------------------------------------------
(***************************************************************************)
(* Type correctness                                                        *)
(***************************************************************************)

\* The delay compute_next_attempt_at adds lies between zero and the cap.
LEMMA BackoffBounded ==
  ASSUME NEW n \in 1..MaxAttempts
  PROVE  Backoff(n) \in 0..BackoffCap
<1> DEFINE power == 2 ^ (n - 1)
           delay == BackoffBase * power
<1>1. power \in Nat
  <2>1. n - 1 \in 0..MaxAttempts
    BY BoundsAssumption
  <2> QED
    BY <2>1, PowersAssumption
<1>2. delay \in Nat
  <2> HIDE DEF power
  <2>1. \A a, b \in Nat : a * b \in Nat
    OBVIOUS
  <2> QED
    BY <1>1, <2>1, BoundsAssumption
<1>3. Backoff(n) = IF delay < BackoffCap THEN delay ELSE BackoffCap
  <2>1. n \in Int /\ ~(n < 1)
    BY BoundsAssumption
  <2> QED
    BY <2>1 DEF Backoff
<1> HIDE DEF delay
<1> QED
  BY <1>2, <1>3, BoundsAssumption

\* NoEvent is not a row.
LEMMA NoEventIsNone == NoEvent \notin Events
  BY EventsAssumption DEF NoEvent

\* A claim locks claimable rows only, and the row it takes is one of them.
LEMMA ClaimPicks ==
  ASSUME NEW p \in Publishers, Claim(p)
  PROVE  \E S \in SUBSET Claimable : \E e \in S :
           /\ locked' = [locked EXCEPT ![p] = S]
           /\ claim' = [claim EXCEPT ![p] = e]
  BY DEF Claim, Batches

\* The empty database satisfies the invariant.
LEMMA InitLockInv == Init => LockInv
  BY NoEventIsNone, BoundsAssumption
     DEF Init, LockInv, TypeOK, ClaimMatchesStage, ClaimIsLocked,
         LocksAreDisjoint, LockedArePending, Statuses, Stages

\* Every variable keeps its type, and attempt_count stays below
\* max_attempts: the attempt that would reach it is written as "failed".
\* It needs to know that a publisher in its transaction has a row.
LEMMA TypeOKStep == LockInv /\ [Next]_vars => TypeOK'
<1> SUFFICES ASSUME LockInv, [Next]_vars
             PROVE  TypeOK'
  OBVIOUS
<1> USE DEF Statuses, Stages
<1>1. TypeOK /\ ClaimMatchesStage
  BY DEF LockInv
<1>2. ASSUME NEW p \in Publishers, pc[p] # "idle"
      PROVE  claim[p] \in Events
  BY <1>1, <1>2 DEF TypeOK, ClaimMatchesStage
<1>3. ASSUME NEW p \in Publishers, EndTransaction(p)
      PROVE  /\ pc' \in [Publishers -> Stages]
             /\ claim' \in [Publishers -> Events \cup {NoEvent}]
             /\ locked' \in [Publishers -> SUBSET Events]
  BY <1>1, <1>3 DEF TypeOK, EndTransaction
<1>4. ASSUME NEW e \in Events, Enroll(e)
      PROVE  TypeOK'
  BY <1>1, <1>4, BoundsAssumption DEF TypeOK, Enroll
<1>5. ASSUME NEW p \in Publishers, Claim(p)
      PROVE  TypeOK'
  <2>1. PICK S \in SUBSET Claimable :
          \E e \in S : /\ locked' = [locked EXCEPT ![p] = S]
                      /\ claim' = [claim EXCEPT ![p] = e]
    BY <1>5, ClaimPicks
  <2>2. S \subseteq Events
    BY DEF Claimable
  <2> QED
    BY <1>1, <1>5, <2>1, <2>2 DEF TypeOK, Claim
<1>6. ASSUME NEW p \in Publishers, Send(p) \/ SendFails(p)
      PROVE  TypeOK'
  <2>1. sends' \in [Events -> Nat]
    <3>1. sends' = sends \/ \E k \in {0, 1} :
                              sends' = [sends EXCEPT ![claim[p]] = @ + k]
      BY <1>6 DEF Send, SendFails
    <3> QED
      BY <1>1, <3>1 DEF TypeOK
  <2>2. pc' \in [Publishers -> Stages]
    BY <1>1, <1>6 DEF TypeOK, Send, SendFails
  <2> QED
    BY <1>1, <1>6, <2>1, <2>2 DEF TypeOK, Send, SendFails
<1>7. ASSUME NEW p \in Publishers, CommitPublished(p) \/ CommitFailed(p)
      PROVE  TypeOK'
  <2>1. EndTransaction(p) /\ UNCHANGED <<attempts, eta, sends, crashes>>
    BY <1>7 DEF CommitPublished, CommitFailed
  <2>2. status' \in [Events -> Statuses]
    BY <1>1, <1>7 DEF TypeOK, CommitPublished, CommitFailed
  <2> QED
    BY <1>1, <1>3, <2>1, <2>2 DEF TypeOK
<1>8. ASSUME NEW p \in Publishers, CommitRetry(p)
      PROVE  TypeOK'
  <2>1. claim[p] \in Events
    BY <1>2, <1>8 DEF CommitRetry
  <2>2. /\ attempts[claim[p]] + 1 \in 1..MaxAttempts
        /\ attempts[claim[p]] + 1 \in 0..(MaxAttempts - 1)
    BY <1>1, <1>8, <2>1, BoundsAssumption DEF TypeOK, CommitRetry
  <2>3. Backoff(attempts[claim[p]] + 1) \in (-Horizon)..BackoffCap
    BY <2>2, BackoffBounded, BoundsAssumption
  <2>4. attempts' \in [Events -> 0..(MaxAttempts - 1)]
    BY <1>1, <1>8, <2>2 DEF TypeOK, CommitRetry
  <2>5. eta' \in [Events -> (-Horizon)..BackoffCap]
    BY <1>1, <1>8, <2>3 DEF TypeOK, CommitRetry
  <2> QED
    BY <1>1, <1>3, <1>8, <2>4, <2>5 DEF TypeOK, CommitRetry
<1>9. ASSUME NEW p \in Publishers, Crash(p)
      PROVE  TypeOK'
  <2>1. crashes' \in 0..MaxCrashes
    BY <1>1, <1>9, BoundsAssumption DEF TypeOK, Crash
  <2> QED
    BY <1>1, <1>3, <1>9, <2>1 DEF TypeOK, Crash
<1>10. CASE Tick
  <2>1. eta' \in [Events -> (-Horizon)..BackoffCap]
    BY <1>1, <1>10, BoundsAssumption DEF TypeOK, Tick
  <2> QED
    BY <1>1, <1>10, <2>1 DEF TypeOK, Tick
<1>11. CASE UNCHANGED vars
  BY <1>1, <1>11 DEF TypeOK, vars
<1> QED
  BY <1>4, <1>5, <1>6, <1>7, <1>8, <1>9, <1>10, <1>11 DEF Next

-----------------------------------------------------------------------------
(***************************************************************************)
(* Locks                                                                   *)
(***************************************************************************)

\* The end of a transaction keeps the lock discipline, whatever it writes
\* to the row it had chosen.
LEMMA EndTransactionKeepsLocks ==
  ASSUME LockInv, NEW p \in Publishers, pc[p] # "idle", EndTransaction(p),
         \A e \in Events \ {claim[p]} : status'[e] = status[e]
  PROVE  /\ ClaimMatchesStage'
         /\ ClaimIsLocked'
         /\ LocksAreDisjoint'
         /\ LockedArePending'
<1>1. /\ pc' = [q \in Publishers |-> IF q = p THEN "idle" ELSE pc[q]]
      /\ claim' = [q \in Publishers |-> IF q = p THEN NoEvent ELSE claim[q]]
      /\ locked' = [q \in Publishers |-> IF q = p THEN {} ELSE locked[q]]
  BY DEF LockInv, TypeOK, EndTransaction
<1>2. ClaimMatchesStage'
  BY <1>1 DEF LockInv, ClaimMatchesStage
<1>3. ClaimIsLocked'
  BY <1>1 DEF LockInv, ClaimIsLocked
<1>4. LocksAreDisjoint'
  BY <1>1 DEF LockInv, LocksAreDisjoint
<1>5. LockedArePending'
  <2> SUFFICES ASSUME NEW q \in Publishers, NEW e \in locked'[q]
               PROVE  status'[e] = "pending"
    BY DEF LockedArePending
  <2>1. q # p /\ e \in locked[q] /\ e \in Events
    BY <1>1 DEF LockInv, TypeOK
  <2>2. claim[p] \in locked[p]
    BY DEF LockInv, ClaimMatchesStage, ClaimIsLocked
  <2>3. e # claim[p]
    BY <2>1, <2>2 DEF LockInv, LocksAreDisjoint
  <2> QED
    BY <2>1, <2>3 DEF LockInv, LockedArePending
<1> QED
  BY <1>2, <1>3, <1>4, <1>5

\* Only claims lock rows, and only rows that nobody has locked.
LEMMA LockInvStep == LockInv /\ [Next]_vars => LockInv'
<1> SUFFICES ASSUME LockInv, [Next]_vars
             PROVE  /\ ClaimMatchesStage'
                    /\ ClaimIsLocked'
                    /\ LocksAreDisjoint'
                    /\ LockedArePending'
  BY TypeOKStep DEF LockInv
<1> USE DEF LockInv
<1>1. ASSUME NEW e \in Events, Enroll(e)
      PROVE  LockedArePending' /\ UNCHANGED <<pc, claim, locked>>
  BY <1>1 DEF Enroll, LockedArePending, TypeOK
<1>2. ASSUME NEW p \in Publishers, Claim(p)
      PROVE  /\ ClaimMatchesStage' /\ ClaimIsLocked'
             /\ LocksAreDisjoint' /\ LockedArePending'
  <2>1. PICK S \in SUBSET Claimable :
          \E e \in S : /\ locked' = [locked EXCEPT ![p] = S]
                      /\ claim' = [claim EXCEPT ![p] = e]
    BY <1>2, ClaimPicks
  <2>2. PICK e \in S : /\ locked' = [locked EXCEPT ![p] = S]
                       /\ claim' = [claim EXCEPT ![p] = e]
    BY <2>1
  <2>3. /\ pc' = [pc EXCEPT ![p] = "claimed"]
        /\ status' = status
    BY <1>2 DEF Claim
  <2>4. S \subseteq Events /\ e # NoEvent
    BY <2>2, NoEventIsNone DEF Claimable
  <2>5. ClaimMatchesStage' /\ ClaimIsLocked'
    BY <2>2, <2>3, <2>4 DEF TypeOK, ClaimMatchesStage, ClaimIsLocked
  <2>6. LocksAreDisjoint'
    <3>1. \A q \in Publishers : S \cap locked[q] = {}
      BY DEF Claimable
    <3> QED
      BY <2>2, <3>1 DEF TypeOK, LocksAreDisjoint
  <2>7. LockedArePending'
    <3>1. \A b \in S : status[b] = "pending"
      BY DEF Claimable
    <3> QED
      BY <2>2, <2>3, <3>1 DEF TypeOK, LockedArePending
  <2> QED
    BY <2>5, <2>6, <2>7
<1>3. ASSUME NEW p \in Publishers, Send(p) \/ SendFails(p)
      PROVE  ClaimMatchesStage' /\ UNCHANGED <<claim, locked, status>>
  BY <1>3 DEF Send, SendFails, ClaimMatchesStage, TypeOK
<1>4. ASSUME NEW p \in Publishers,
             \/ CommitPublished(p) \/ CommitRetry(p)
             \/ CommitFailed(p) \/ Crash(p)
      PROVE  /\ ClaimMatchesStage' /\ ClaimIsLocked'
             /\ LocksAreDisjoint' /\ LockedArePending'
  <2>1. pc[p] # "idle" /\ EndTransaction(p)
    BY <1>4 DEF CommitPublished, CommitRetry, CommitFailed, Crash
  <2>2. \A e \in Events \ {claim[p]} : status'[e] = status[e]
    BY <1>4 DEF CommitPublished, CommitRetry, CommitFailed, Crash, TypeOK
  <2> QED
    BY <2>1, <2>2, EndTransactionKeepsLocks
<1>5. CASE Tick \/ UNCHANGED vars
  BY <1>5 DEF Tick, vars, ClaimMatchesStage, ClaimIsLocked,
              LocksAreDisjoint, LockedArePending
<1> QED
  BY <1>1, <1>2, <1>3, <1>4, <1>5
     DEF Next, ClaimMatchesStage, ClaimIsLocked, LocksAreDisjoint,
         LockedArePending

LEMMA LockInvInvariant == Spec => []LockInv
<1>1. Init => LockInv
  BY InitLockInv
<1>2. LockInv /\ [Next]_vars => LockInv'
  BY LockInvStep
<1> QED
  BY <1>1, <1>2, PTL DEF Spec

\* Every variable keeps its type, and attempt_count stays below
\* max_attempts (publisher.py, _handle_publish_error).
THEOREM TypeCorrect == Spec => []TypeOK
<1>1. LockInv => TypeOK
  BY DEF LockInv
<1> QED
  BY <1>1, LockInvInvariant, PTL

\* However many publishers run, no two of them are ever in a transaction
\* on the same row (repository.py, try_claim_one): the row locks, held to
\* the commit, are disjoint.
THEOREM ExclusiveClaims == Spec => []ClaimsAreExclusive
<1>1. LockInv => ClaimsAreExclusive
  BY DEF LockInv, ClaimIsLocked, LocksAreDisjoint, ClaimsAreExclusive
<1> QED
  BY <1>1, LockInvInvariant, PTL

-----------------------------------------------------------------------------
(***************************************************************************)
(* Sends are accounted for                                                 *)
(***************************************************************************)

IInv == LockInv /\ SendsAreAccounted /\ PublishedWereSent

LEMMA InitIInv == Init => IInv
<1> SUFFICES ASSUME Init PROVE SendsAreAccounted /\ PublishedWereSent
  BY InitLockInv DEF IInv
<1> QED
  BY DEF Init, SendsAreAccounted, PublishedWereSent, Unsettled, InFlight

\* The claims of two open transactions differ, so a step of one publisher
\* leaves the accounting of the others' rows alone.
LEMMA IInvStep == IInv /\ [Next]_vars => IInv'
<1> SUFFICES ASSUME IInv, [Next]_vars
             PROVE  SendsAreAccounted' /\ PublishedWereSent'
  BY LockInvStep DEF IInv
<1>1. TypeOK /\ ClaimMatchesStage /\ ClaimIsLocked /\ LocksAreDisjoint
      /\ LockedArePending /\ SendsAreAccounted /\ PublishedWereSent
  BY DEF IInv, LockInv
<1> USE <1>1 DEF TypeOK, Unsettled, InFlight
<1>2. ASSUME NEW p \in Publishers, pc[p] # "idle"
      PROVE  /\ claim[p] \in Events
             /\ status[claim[p]] = "pending"
             /\ \A q \in Publishers \ {p} : claim[q] # claim[p]
  BY <1>2 DEF ClaimMatchesStage, ClaimIsLocked, LocksAreDisjoint,
              LockedArePending
<1>3. ASSUME NEW e \in Events, Enroll(e)
      PROVE  SendsAreAccounted' /\ PublishedWereSent'
  BY <1>3 DEF Enroll, SendsAreAccounted, PublishedWereSent
<1>4. ASSUME NEW p \in Publishers, Claim(p)
      PROVE  SendsAreAccounted' /\ PublishedWereSent'
  <2>1. PICK e \in Events : claim' = [claim EXCEPT ![p] = e]
    BY <1>4, ClaimPicks DEF Claimable
  <2>2. /\ pc[p] = "idle" /\ pc' = [pc EXCEPT ![p] = "claimed"]
        /\ UNCHANGED <<status, attempts, sends, crashes>>
    BY <1>4 DEF Claim
  <2>3. PublishedWereSent'
    BY <2>1, <2>2 DEF PublishedWereSent
  <2>4. \A b \in Events : InFlight(b) => InFlight(b)'
    <3> SUFFICES ASSUME NEW b \in Events, NEW q \in Publishers,
                        claim[q] = b, pc[q] \in {"sent", "retryable"}
                 PROVE  claim'[q] = b /\ pc'[q] \in {"sent", "retryable"}
      OBVIOUS
    <3> QED
      BY <2>1, <2>2
  <2>5. SendsAreAccounted'
    BY <2>2, <2>4 DEF SendsAreAccounted
  <2> QED
    BY <2>3, <2>5
<1>5. ASSUME NEW p \in Publishers, Send(p) \/ SendFails(p)
      PROVE  SendsAreAccounted' /\ PublishedWereSent'
  <2>1. /\ pc[p] = "claimed"
        /\ UNCHANGED <<status, attempts, claim, crashes>>
    BY <1>5 DEF Send, SendFails
  <2>a. PICK e \in Events : e = claim[p]
    BY <1>2, <2>1
  <2>2. \/ pc' = [pc EXCEPT ![p] = "terminal"] /\ sends' = sends
        \/ /\ pc' = [pc EXCEPT ![p] = "retryable"]
           /\ \E k \in {0, 1} : sends' = [sends EXCEPT ![e] = @ + k]
        \/ /\ pc' = [pc EXCEPT ![p] = "sent"]
           /\ sends' = [sends EXCEPT ![e] = @ + 1]
    BY <1>5, <2>a DEF Send, SendFails
  <2>3. /\ e \in Events
        /\ \A q \in Publishers \ {p} : claim[q] # e
        /\ sends[e] <= attempts[e] + crashes
    <3>1. ~InFlight(e) /\ Unsettled(e)
      BY <1>2, <2>a, <2>1
    <3> QED
      BY <1>2, <2>a, <2>1, <3>1 DEF SendsAreAccounted
  <2>4. PublishedWereSent'
    <3>1. \A b \in Events : sends[b] > 0 => sends'[b] > 0
      BY <2>2
    <3>2. \A b \in Events : status'[b] = "published" => sends'[b] > 0
      BY <2>1, <3>1 DEF PublishedWereSent
    <3>3. ASSUME NEW q \in Publishers, pc'[q] = "sent"
          PROVE  sends'[claim'[q]] > 0
      <4>1. CASE q = p
        BY <2>a, <2>1, <2>2, <3>3, <4>1
      <4>2. CASE q # p
        <5>1. pc[q] = "sent" /\ claim'[q] = claim[q]
          BY <2>1, <2>2, <3>3, <4>2
        <5>2. claim[q] \in Events /\ sends[claim[q]] > 0
          BY <1>2, <5>1 DEF PublishedWereSent
        <5> QED
          BY <3>1, <5>1, <5>2
      <4> QED
        BY <4>1, <4>2
    <3> QED
      BY <3>2, <3>3 DEF PublishedWereSent
  <2>5. \A b \in Events \ {e} : sends'[b] = sends[b]
    BY <2>2
  <2>6. \A b \in Events \ {e} : InFlight(b) => InFlight(b)'
    <3> SUFFICES ASSUME NEW b \in Events \ {e}, NEW q \in Publishers,
                        claim[q] = b, pc[q] \in {"sent", "retryable"}
                 PROVE  claim'[q] = b /\ pc'[q] \in {"sent", "retryable"}
      OBVIOUS
    <3> QED
      BY <2>a, <2>1, <2>2
  <2>7. /\ sends'[e] <= attempts[e] + crashes + 1
        /\ ~InFlight(e)' => sends'[e] <= attempts[e] + crashes
    <3>1. CASE sends' = sends
      BY <2>3, <3>1
    <3>2. CASE pc'[p] \in {"sent", "retryable"}
      <4>1. \E k \in {0, 1} : sends' = [sends EXCEPT ![e] = @ + k]
        BY <2>2, <3>2
      <4>2. sends'[e] <= attempts[e] + crashes + 1
        BY <2>3, <4>1
      <4>3. claim'[p] = e
        BY <2>a, <2>1
      <4> QED
        BY <3>2, <4>2, <4>3
    <3> QED
      BY <2>2, <3>1, <3>2
  <2>8. SendsAreAccounted'
    <3> SUFFICES ASSUME NEW b \in Events
                 PROVE  /\ sends'[b] <= attempts'[b] + crashes' + 1
                        /\ Unsettled(b)' /\ ~InFlight(b)'
                             => sends'[b] <= attempts'[b] + crashes'
      BY DEF SendsAreAccounted
    <3> HIDE DEF InFlight, Unsettled
    <3>1. Unsettled(b)' = Unsettled(b)
      BY <2>1 DEF Unsettled
    <3>2. CASE b = e
      BY <2>1, <2>7, <3>2
    <3>3. CASE b # e
      BY <2>1, <2>5, <2>6, <3>1, <3>3 DEF SendsAreAccounted
    <3> QED
      BY <3>2, <3>3
  <2> QED
    BY <2>4, <2>8
<1>6. ASSUME NEW p \in Publishers, pc[p] # "idle", EndTransaction(p)
      PROVE  /\ \A q \in Publishers \ {p} :
                  pc'[q] = pc[q] /\ claim'[q] = claim[q]
             /\ pc'[p] = "idle"
             /\ \A b \in Events \ {claim[p]} : InFlight(b) => InFlight(b)'
  BY <1>6 DEF EndTransaction
<1>7. ASSUME NEW p \in Publishers,
             CommitPublished(p) \/ CommitRetry(p) \/ CommitFailed(p)
      PROVE  SendsAreAccounted' /\ PublishedWereSent'
  <2> DEFINE e == claim[p]
  <2>1. /\ pc[p] # "idle" /\ EndTransaction(p)
        /\ UNCHANGED <<sends, crashes>>
    BY <1>7 DEF CommitPublished, CommitRetry, CommitFailed
  <2>2. e \in Events /\ status[e] = "pending"
    BY <1>2, <2>1
  <2>3. \A b \in Events \ {e} :
          status'[b] = status[b] /\ attempts'[b] = attempts[b]
    BY <1>7, <2>2 DEF CommitPublished, CommitRetry, CommitFailed
  <2>4. \/ status'[e] \in {"published", "failed"} /\ attempts'[e] = attempts[e]
        \/ attempts'[e] = attempts[e] + 1
    BY <1>7, <2>2 DEF CommitPublished, CommitRetry, CommitFailed
  <2>5. status'[e] = "published" => sends[e] > 0
    BY <1>7, <2>2
       DEF CommitPublished, CommitRetry, CommitFailed, PublishedWereSent
  <2> HIDE DEF e
  <2>6. PublishedWereSent'
    <3>1. \A q \in Publishers : pc'[q] = "sent" => sends'[claim'[q]] > 0
      BY <1>6, <2>1 DEF PublishedWereSent
    <3>2. \A b \in Events : status'[b] = "published" => sends'[b] > 0
      BY <2>1, <2>3, <2>5 DEF PublishedWereSent
    <3> QED
      BY <3>1, <3>2 DEF PublishedWereSent
  <2>7. SendsAreAccounted'
    <3> SUFFICES ASSUME NEW b \in Events
                 PROVE  /\ sends'[b] <= attempts'[b] + crashes' + 1
                        /\ Unsettled(b)' /\ ~InFlight(b)'
                             => sends'[b] <= attempts'[b] + crashes'
      BY DEF SendsAreAccounted
    <3>1. CASE b = e
      BY <2>1, <2>2, <2>4, <3>1 DEF SendsAreAccounted
    <3>2. CASE b # e
      BY <1>6, <2>1, <2>3, <3>2 DEF SendsAreAccounted, e
    <3> QED
      BY <3>1, <3>2
  <2> QED
    BY <2>6, <2>7
<1>8. ASSUME NEW p \in Publishers, Crash(p)
      PROVE  SendsAreAccounted' /\ PublishedWereSent'
  <2>1. /\ pc[p] # "idle" /\ EndTransaction(p)
        /\ crashes' = crashes + 1
        /\ UNCHANGED <<status, attempts, sends>>
    BY <1>8 DEF Crash
  <2>2. PublishedWereSent'
    BY <1>6, <2>1 DEF PublishedWereSent
  <2>3. SendsAreAccounted'
    BY <2>1 DEF SendsAreAccounted
  <2> QED
    BY <2>2, <2>3
<1>9. CASE Tick \/ UNCHANGED vars
  BY <1>9 DEF Tick, vars, SendsAreAccounted, PublishedWereSent
<1> QED
  BY <1>3, <1>4, <1>5, <1>7, <1>8, <1>9 DEF Next

LEMMA IInvInvariant == Spec => []IInv
<1>1. Init => IInv
  BY InitIInv
<1>2. IInv /\ [Next]_vars => IInv'
  BY IInvStep
<1> QED
  BY <1>1, <1>2, PTL DEF Spec

\* The broker accepts an event at most once per charged attempt, once per
\* publisher crash, and once more: nothing else duplicates a message.
THEOREM DuplicatesCharged == Spec => []DuplicatesAreCharged
<1>1. IInv => DuplicatesAreCharged
  BY DEF IInv, SendsAreAccounted, DuplicatesAreCharged
<1> QED
  BY <1>1, IInvInvariant, PTL

-----------------------------------------------------------------------------
(***************************************************************************)
(* Implementation of the promise                                           *)
(***************************************************************************)

\* The promise without its fairness: what has to hold of every step.
PromiseSafety == Promise!Init /\ [][Promise!Next]_(Promise!vars)

LEMMA PromiseStep == IInv /\ [Next]_vars => [Promise!Next]_(Promise!vars)
<1> SUFFICES ASSUME IInv, [Next]_vars
             PROVE  Promise!Next \/ UNCHANGED <<Owed, Handed, Settled, Abandoned>>
  BY DEF Promise!vars
<1> USE DEF Owed, Handed, Settled, Abandoned
<1>1. TypeOK /\ ClaimMatchesStage /\ ClaimIsLocked /\ LockedArePending
      /\ PublishedWereSent
  BY DEF IInv, LockInv
<1>2. ASSUME NEW p \in Publishers, pc[p] # "idle"
      PROVE  claim[p] \in Events /\ status[claim[p]] = "pending"
  BY <1>1, <1>2 DEF TypeOK, ClaimMatchesStage, ClaimIsLocked, LockedArePending
<1>3. ASSUME NEW e \in Events, Enroll(e)
      PROVE  Promise!Accept(e)
  BY <1>1, <1>3 DEF TypeOK, Enroll, Promise!Accept
<1>4. ASSUME NEW p \in Publishers, Send(p) \/ SendFails(p)
      PROVE  \/ Promise!HandOver(claim[p])
             \/ UNCHANGED <<Owed, Handed, Settled, Abandoned>>
  <2>1. claim[p] \in Events /\ status[claim[p]] = "pending" /\ status' = status
    BY <1>2, <1>4 DEF Send, SendFails
  <2>2. \E k \in {0, 1} : sends' = [sends EXCEPT ![claim[p]] = @ + k]
    <3>1. CASE sends' = sends
      <4>1. sends' = [sends EXCEPT ![claim[p]] = @ + 0]
        BY <1>1, <2>1, <3>1 DEF TypeOK
      <4> QED
        BY <4>1
    <3>2. CASE sends' # sends
      BY <1>4, <3>2 DEF Send, SendFails
    <3> QED
      BY <3>1, <3>2
  <2>3. Handed' = Handed \/ Handed' = Handed \cup {claim[p]}
    BY <1>1, <2>1, <2>2 DEF TypeOK
  <2> QED
    BY <2>1, <2>3 DEF Promise!HandOver
<1>5. ASSUME NEW p \in Publishers, CommitPublished(p)
      PROVE  Promise!Settle(claim[p])
  <2>1. claim[p] \in Events /\ status[claim[p]] = "pending"
    BY <1>2, <1>5 DEF CommitPublished
  <2>2. sends[claim[p]] > 0
    BY <1>1, <1>5 DEF CommitPublished, PublishedWereSent
  <2> QED
    BY <1>1, <1>5, <2>1, <2>2 DEF TypeOK, CommitPublished, Promise!Settle
<1>6. ASSUME NEW p \in Publishers, CommitFailed(p)
      PROVE  Promise!Abandon(claim[p])
  <2>1. claim[p] \in Events /\ status[claim[p]] = "pending"
    BY <1>2, <1>6 DEF CommitFailed
  <2> QED
    BY <1>1, <1>6, <2>1 DEF TypeOK, CommitFailed, Promise!Abandon
<1>7. ASSUME NEW p \in Publishers, Claim(p) \/ CommitRetry(p) \/ Crash(p)
      PROVE  UNCHANGED <<Owed, Handed, Settled, Abandoned>>
  BY <1>7 DEF Claim, CommitRetry, Crash
<1>8. CASE Tick \/ UNCHANGED vars
  BY <1>8 DEF Tick, vars
<1>9. ASSUME NEW p \in Publishers,
             Send(p) \/ SendFails(p) \/ CommitPublished(p) \/ CommitFailed(p)
      PROVE  claim[p] \in Events
  BY <1>2, <1>9 DEF Send, SendFails, CommitPublished, CommitFailed
<1> HIDE DEF Owed, Handed, Settled, Abandoned
<1>10. ASSUME NEW p \in Publishers,
              Send(p) \/ SendFails(p) \/ CommitPublished(p) \/ CommitFailed(p)
       PROVE  Promise!Next \/ UNCHANGED <<Owed, Handed, Settled, Abandoned>>
  BY <1>4, <1>5, <1>6, <1>9, <1>10 DEF Promise!Next
<1>11. ASSUME NEW e \in Events, Enroll(e)
       PROVE  Promise!Next
  BY <1>3, <1>11 DEF Promise!Next
<1> QED
  BY <1>7, <1>8, <1>10, <1>11 DEF Next

\* Every history of rows, locks, retries and crashes is a history of the
\* promise: nothing reaches the broker that was not committed, nothing is
\* settled that the broker did not take, and nothing owed is forgotten.
THEOREM OutboxKeepsPromise == Spec => PromiseSafety
<1>1. Init => Promise!Init
  BY DEF Init, Promise!Init, Owed, Handed, Settled, Abandoned
<1>2. IInv /\ [Next]_vars => [Promise!Next]_(Promise!vars)
  BY PromiseStep
<1> QED
  BY <1>1, <1>2, IInvInvariant, PTL DEF Spec, PromiseSafety

=============================================================================
