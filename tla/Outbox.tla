------------------------------- MODULE Outbox -------------------------------
(***************************************************************************)
(* The transactional outbox (src/application/outbox): one row per command, *)
(* enrolled in the transaction that creates its task_log row, and any      *)
(* number of publisher processes that claim a row, send it to the Celery   *)
(* broker and record the outcome.                                          *)
(*                                                                         *)
(* A publisher iteration (OutboxPublisher.run_once in a session of its     *)
(* own, cli._run_iteration) is ONE database transaction: the claim's       *)
(* UPDATE to "publishing", the broker call and the mark_* UPDATE commit    *)
(* together.  Its steps are separate actions here because other processes  *)
(* run between them; until the commit, other transactions see the row as   *)
(* it was ("pending") and its lock makes SKIP LOCKED pass it over.  The    *)
(* status "publishing" is therefore the private view of the owner (pc),    *)
(* never a value of the committed row.                                     *)
(***************************************************************************)
EXTENDS Integers, FiniteSets

CONSTANTS
  Events,        \* outbox rows, by primary key (their task_log is unique)
  Publishers,    \* publisher instances (claimed_by)
  BatchSize,     \* PublisherConfig.batch_size
  MaxAttempts,   \* PublisherConfig.max_attempts
  BackoffBase,   \* PUBLISHER_BACKOFF_BASE_SECONDS, in ticks
  BackoffCap,    \* PUBLISHER_BACKOFF_CAP_SECONDS, in ticks
  Horizon,       \* how far in the past a due time is told apart
  MaxCrashes     \* bound on publisher crashes

ASSUME EventsAssumption == Events \subseteq Nat
ASSUME BoundsAssumption ==
  /\ BatchSize \in Nat \ {0}
  /\ MaxAttempts \in Nat \ {0}
  /\ BackoffBase \in Nat \ {0}
  /\ BackoffCap \in Nat \ {0}
  /\ Horizon \in Nat
  /\ MaxCrashes \in Nat
\* Powers of two are integers: arithmetic the provers' theories leave out.
ASSUME PowersAssumption == \A n \in 0..MaxAttempts : 2 ^ n \in Nat

VARIABLES
  status,    \* committed outbox_event.status, "absent" before the INSERT
  attempts,  \* outbox_event.attempt_count
  eta,       \* next_attempt_at - now, in ticks; due when <= 0
  pc,        \* where each publisher is in its transaction
  claim,     \* the row each publisher chose, NoEvent outside a transaction
  locked,    \* the rows each publisher's FOR UPDATE locks
  sends,     \* how often the broker accepted each event
  crashes    \* publisher crashes so far

vars == <<status, attempts, eta, pc, claim, locked, sends, crashes>>

NoEvent == -1

Statuses == {"absent", "pending", "published", "failed"}
Stages == {"idle", "claimed", "sent", "retryable", "terminal"}

-----------------------------------------------------------------------------
(***************************************************************************)
(* Helpers                                                                 *)
(***************************************************************************)

\* Seeded fault: the cap of the backoff forgotten.
BackoffUncapped(n) == BackoffBase * 2 ^ ((IF n < 1 THEN 1 ELSE n) - 1)

\* compute_next_attempt_at: base * 2^(n-1), capped; n below 1 counts as 1.
Backoff(n) ==
  LET k     == IF n < 1 THEN 1 ELSE n
      delay == BackoffBase * 2 ^ (k - 1)
  IN  IF delay < BackoffCap THEN delay ELSE BackoffCap

\* Rows the claim's SELECT ... FOR UPDATE SKIP LOCKED can return.
Claimable ==
  {e \in Events : /\ status[e] = "pending"
                  /\ eta[e] <= 0
                  /\ \A q \in Publishers : e \notin locked[q]}

\* ORDER BY next_attempt_at, id.  Two rows due for Horizon ticks or longer
\* may come in either order: the model no longer tells their times apart.
Before(a, b) ==
  \/ eta[a] < eta[b]
  \/ eta[a] = eta[b] /\ (a < b \/ eta[a] = -Horizon)

\* The batches the SELECT's LIMIT can leave: the first rows in that order.
Batches ==
  {S \in SUBSET Claimable :
     /\ S # {}
     /\ Cardinality(S) <= BatchSize
     /\ S # Claimable => Cardinality(S) = BatchSize
     /\ \A a \in S, b \in Claimable \ S : Before(a, b)}

\* The publisher's transaction ends, by commit or rollback, and unlocks.
EndTransaction(p) ==
  /\ pc' = [pc EXCEPT ![p] = "idle"]
  /\ claim' = [claim EXCEPT ![p] = NoEvent]
  /\ locked' = [locked EXCEPT ![p] = {}]

-----------------------------------------------------------------------------
(***************************************************************************)
(* Actions                                                                 *)
(***************************************************************************)

Init ==
  /\ status = [e \in Events |-> "absent"]
  /\ attempts = [e \in Events |-> 0]
  /\ eta = [e \in Events |-> 0]
  /\ pc = [p \in Publishers |-> "idle"]
  /\ claim = [p \in Publishers |-> NoEvent]
  /\ locked = [p \in Publishers |-> {}]
  /\ sends = [e \in Events |-> 0]
  /\ crashes = 0

\* Seeded fault: the enrolment upserts, so it re-arms a settled row.
EnrollUpsert(e) ==
  /\ status[e] # "pending"
  /\ status' = [status EXCEPT ![e] = "pending"]
  /\ UNCHANGED <<attempts, eta, pc, claim, locked, sends, crashes>>

\* A business transaction commits its task_log with the outbox row.  ON
\* CONFLICT (task_log_id) DO NOTHING: a second enrolment for the same
\* task_log reads the existing row back and changes nothing (a stutter).
Enroll(e) ==
  /\ status[e] = "absent"
  /\ status' = [status EXCEPT ![e] = "pending"]
  /\ eta' = [eta EXCEPT ![e] = 0]
  /\ UNCHANGED <<attempts, pc, claim, locked, sends, crashes>>

\* Claim: lock a batch, flip its first row to "publishing" (uncommitted).
Claim(p) ==
  /\ pc[p] = "idle"
  /\ \E S \in Batches :
       \E e \in S :
         /\ \A b \in S \ {e} : Before(e, b)
         /\ locked' = [locked EXCEPT ![p] = S]
         /\ claim' = [claim EXCEPT ![p] = e]
  /\ pc' = [pc EXCEPT ![p] = "claimed"]
  /\ UNCHANGED <<status, attempts, eta, sends, crashes>>

\* The broker accepts the message (task_id = event_id): consumers can run
\* it from here on, before the row says "published".
Send(p) ==
  /\ pc[p] = "claimed"
  /\ sends' = [sends EXCEPT ![claim[p]] = @ + 1]
  /\ pc' = [pc EXCEPT ![p] = "sent"]
  /\ UNCHANGED <<status, attempts, eta, claim, locked, crashes>>

\* send_task raises.  NotRegistered is terminal and nothing was sent; any
\* other error is retryable, and the broker may have accepted the message
\* before the error (a time-out on the reply).
SendFails(p) ==
  /\ pc[p] = "claimed"
  /\ \/ /\ pc' = [pc EXCEPT ![p] = "terminal"]
        /\ UNCHANGED sends
     \/ \E accepted \in {0, 1} :
          /\ pc' = [pc EXCEPT ![p] = "retryable"]
          /\ sends' = [sends EXCEPT ![claim[p]] = @ + accepted]
  /\ UNCHANGED <<status, attempts, eta, claim, locked, crashes>>

\* mark_published and commit.
CommitPublished(p) ==
  /\ pc[p] = "sent"
  /\ status' = [status EXCEPT ![claim[p]] = "published"]
  /\ EndTransaction(p)
  /\ UNCHANGED <<attempts, eta, sends, crashes>>

\* Seeded fault: the retry does not count its attempt.
CommitRetryUncharged(p) ==
  /\ pc[p] = "retryable"
  /\ eta' = [eta EXCEPT ![claim[p]] = Backoff(attempts[claim[p]] + 1)]
  /\ EndTransaction(p)
  /\ UNCHANGED <<status, attempts, sends, crashes>>

\* _handle_publish_error with budget left: back to "pending", attempt
\* counted, next attempt after the backoff; commit.
CommitRetry(p) ==
  LET e == claim[p] IN
  /\ pc[p] = "retryable"
  /\ attempts[e] + 1 < MaxAttempts
  /\ attempts' = [attempts EXCEPT ![e] = @ + 1]
  /\ eta' = [eta EXCEPT ![e] = Backoff(attempts[e] + 1)]
  /\ EndTransaction(p)
  /\ UNCHANGED <<status, sends, crashes>>

\* _handle_publish_error, terminal error or budget spent: "failed", the
\* attempt counter left alone; commit.
CommitFailed(p) ==
  LET e == claim[p] IN
  /\ \/ pc[p] = "terminal"
     \/ pc[p] = "retryable" /\ attempts[e] + 1 >= MaxAttempts
  /\ status' = [status EXCEPT ![e] = "failed"]
  /\ EndTransaction(p)
  /\ UNCHANGED <<attempts, eta, sends, crashes>>

\* The publisher process dies, or its commit fails, anywhere in the
\* transaction: PostgreSQL rolls back and frees the locks.
Crash(p) ==
  /\ pc[p] # "idle"
  /\ crashes < MaxCrashes
  /\ crashes' = crashes + 1
  /\ EndTransaction(p)
  /\ UNCHANGED <<status, attempts, eta, sends>>

\* Time passes.  A past due time older than Horizon is not told apart.
Tick ==
  /\ \E e \in Events : status[e] = "pending" /\ eta[e] > -Horizon
  /\ eta' = [e \in Events |->
               IF status[e] = "pending" /\ eta[e] > -Horizon
               THEN eta[e] - 1 ELSE eta[e]]
  /\ UNCHANGED <<status, attempts, pc, claim, locked, sends, crashes>>

Step(p) ==
  \/ Send(p) \/ SendFails(p)
  \/ CommitPublished(p) \/ CommitRetry(p) \/ CommitFailed(p)

Next ==
  \/ \E e \in Events : Enroll(e)
  \/ \E p \in Publishers :
       \/ Claim(p)
       \/ Send(p)
       \/ SendFails(p)
       \/ CommitPublished(p)
       \/ CommitRetry(p)
       \/ CommitFailed(p)
       \/ Crash(p)
  \/ Tick

\* supervisord keeps the publisher running, its loop polls for ever and
\* every broker call returns or raises; nobody has to enrol or to crash.
Fairness ==
  /\ \A p \in Publishers : WF_vars(Claim(p)) /\ WF_vars(Step(p))
  /\ WF_vars(Tick)

Spec == Init /\ [][Next]_vars
FairSpec == Spec /\ Fairness

-----------------------------------------------------------------------------
(***************************************************************************)
(* Properties                                                              *)
(***************************************************************************)

\* Every variable has its type; attempt_count never reaches max_attempts
\* (the attempt that would is written as "failed" without counting it).
TypeOK ==
  /\ status \in [Events -> Statuses]
  /\ attempts \in [Events -> 0..(MaxAttempts - 1)]
  /\ eta \in [Events -> (-Horizon)..BackoffCap]
  /\ pc \in [Publishers -> Stages]
  /\ claim \in [Publishers -> Events \cup {NoEvent}]
  /\ locked \in [Publishers -> SUBSET Events]
  /\ sends \in [Events -> Nat]
  /\ crashes \in 0..MaxCrashes

\* Two publishers in their transactions never work on the same row: FOR
\* UPDATE SKIP LOCKED, held until the commit, is what keeps a slow
\* broker call from being repeated by another publisher.
ClaimsAreExclusive ==
  \A p, q \in Publishers :
    p # q /\ claim[p] # NoEvent => claim[p] # claim[q]

\* Every duplicate has a cause: the broker accepted an event at most once
\* per attempt its row charged, once per crash, and once more.  A slow
\* send whose lease_expires_at has passed is not one of the causes.
DuplicatesAreCharged ==
  \A e \in Events : sends[e] <= attempts[e] + crashes + 1

\* Every enrolled command ends as published or as failed.
EnrolledIsSettled ==
  \A e \in Events :
    status[e] = "pending" ~> status[e] \in {"published", "failed"}

\* The outbox implements the promise it makes.
Owed == {e \in Events : status[e] = "pending"}
Handed == {e \in Events : sends[e] > 0}
Settled == {e \in Events : status[e] = "published"}
Abandoned == {e \in Events : status[e] = "failed"}

Promise == INSTANCE OutboxAbstract
             WITH owed <- Owed, handed <- Handed,
                  settled <- Settled, abandoned <- Abandoned
ImplementsPromise == Promise!Spec

=============================================================================
