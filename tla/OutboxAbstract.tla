--------------------------- MODULE OutboxAbstract ---------------------------
(***************************************************************************)
(* What the transactional outbox promises the rest of the system, with no  *)
(* rows, locks, leases or retries: a command whose enrolling transaction   *)
(* committed is owed to the broker until it has been handed over at least  *)
(* once, or has been written off where an operator can see it.             *)
(***************************************************************************)
CONSTANT Events

VARIABLES owed,      \* committed commands the publisher still has to settle
          handed,    \* commands the broker has accepted at least once
          settled,   \* commands recorded as published
          abandoned  \* commands recorded as failed

vars == <<owed, handed, settled, abandoned>>

Init ==
  /\ owed = {}
  /\ handed = {}
  /\ settled = {}
  /\ abandoned = {}

\* The business transaction commits the task and its command together.
Accept(e) ==
  /\ e \notin owed \cup settled \cup abandoned
  /\ owed' = owed \cup {e}
  /\ UNCHANGED <<handed, settled, abandoned>>

\* Only a command that is owed reaches the broker; it may reach it again.
HandOver(e) ==
  /\ e \in owed
  /\ handed' = handed \cup {e}
  /\ UNCHANGED <<owed, settled, abandoned>>

\* A command is settled only after the broker took it.
Settle(e) ==
  /\ e \in owed \cap handed
  /\ owed' = owed \ {e}
  /\ settled' = settled \cup {e}
  /\ UNCHANGED <<handed, abandoned>>

\* A command the broker keeps refusing is written off, never dropped.
Abandon(e) ==
  /\ e \in owed
  /\ owed' = owed \ {e}
  /\ abandoned' = abandoned \cup {e}
  /\ UNCHANGED <<handed, settled>>

Next ==
  \E e \in Events : Accept(e) \/ HandOver(e) \/ Settle(e) \/ Abandon(e)

Resolve(e) == Settle(e) \/ Abandon(e)

Spec == Init /\ [][Next]_vars /\ \A e \in Events : WF_vars(Resolve(e))

=============================================================================
