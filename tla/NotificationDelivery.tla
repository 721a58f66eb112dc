------------------------ MODULE NotificationDelivery ------------------------
(***************************************************************************)
(* What the notification queue promises, without leases, workers or        *)
(* clocks: an at-least-once courier. A queued notification is handed to    *)
(* its provider at most MaxAttempts times before somebody requeues it; it  *)
(* counts as delivered only after it was handed over; and a notification   *)
(* that was barred - its consultation purged, its marketing consent        *)
(* withdrawn - is never handed over again.                                 *)
(***************************************************************************)
EXTENDS Naturals

CONSTANTS Rows, MaxAttempts

VARIABLES
  status,   \* what became of each notification
  sends,    \* times it was handed over since it was last queued
  barred    \* notifications that may no longer be handed over

dvars == <<status, sends, barred>>

Statuses == {"none", "queued", "delivered", "exhausted", "dropped"}

DeliveryTypeOK ==
  /\ status \in [Rows -> Statuses]
  /\ sends \in [Rows -> Nat]
  /\ barred \in SUBSET Rows

Become(S, s) == status' = [r \in Rows |-> IF r \in S THEN s ELSE status[r]]

DInit ==
  /\ status = [r \in Rows |-> "none"]
  /\ sends = [r \in Rows |-> 0]
  /\ barred = {}

Enqueue(S) ==
  /\ \A r \in S : status[r] = "none"
  /\ Become(S, "queued")
  /\ UNCHANGED <<sends, barred>>

Send(r) ==
  /\ status[r] = "queued"
  /\ r \notin barred
  /\ sends[r] < MaxAttempts
  /\ sends' = [sends EXCEPT ![r] = @ + 1]
  /\ UNCHANGED <<status, barred>>

Deliver(r) ==
  /\ status[r] = "queued"
  /\ sends[r] > 0
  /\ Become({r}, "delivered")
  /\ UNCHANGED <<sends, barred>>

Exhaust(S) ==
  /\ \A r \in S : status[r] = "queued"
  /\ Become(S, "exhausted")
  /\ UNCHANGED <<sends, barred>>

Drop(r) ==
  /\ status[r] = "queued"
  /\ Become({r}, "dropped")
  /\ UNCHANGED <<sends, barred>>

\* Barring notifications drops those that are not on their way, and with
\* them the test messages queued for the same consultation.
Bar(S, D) ==
  /\ \A r \in D : status[r] \in {"queued", "exhausted"}
  /\ barred' = barred \cup S
  /\ Become(D, "dropped")
  /\ UNCHANGED sends

Requeue(r) ==
  /\ status[r] = "exhausted"
  /\ Become({r}, "queued")
  /\ sends' = [sends EXCEPT ![r] = 0]
  /\ UNCHANGED barred

DNext ==
  \/ \E S \in SUBSET Rows : Enqueue(S) \/ Exhaust(S)
  \/ \E S, D \in SUBSET Rows : Bar(S, D)
  \/ \E r \in Rows : Send(r) \/ Deliver(r) \/ Drop(r) \/ Requeue(r)

DSpec == DInit /\ [][DNext]_dvars

=============================================================================
