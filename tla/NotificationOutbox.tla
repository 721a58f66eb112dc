------------------------- MODULE NotificationOutbox -------------------------
(***************************************************************************)
(* The durable notification queue of apps/control: the rows of             *)
(* notification_outbox, the ledger notification_delivery_attempts, the     *)
(* workers that lease a row and hand it to a provider, and the three       *)
(* transactions of other processes that act on the same rows while a       *)
(* worker is at work: the retention purge, the visitor's withdrawal of     *)
(* marketing consent, and the administrator's requeue.                     *)
(*                                                                         *)
(* Every BEGIN IMMEDIATE .. COMMIT of the code is one action. A worker is  *)
(* a process of its own and other processes commit between any two of its  *)
(* steps. The clock is shared (one machine); a caller that reads it before *)
(* it waits for the write lock works with a time at most LockWait old.     *)
(***************************************************************************)
EXTENDS Naturals, FiniteSets

CONSTANTS
  Workers,            \* notification-worker processes
  Consultations,      \* consultation ids
  Rows,               \* ids of the queue rows that may ever be inserted
  Channels,           \* notification channels
  NoWorker, NoRow,    \* NULL in locked_by, and the row of an idle worker
  ConsultationOf,     \* consultation_id of a row
  ChannelOf,          \* channel of a row
  PurposeOf,          \* purpose of a row
  OriginOf,           \* the transaction that inserts a row
  MaxAttempts,        \* MAX_ATTEMPTS
  LeaseTime,          \* LEASE_MS
  RetryDelay,         \* RETRY_DELAYS_MS
  PrivacyRetention,   \* retention of a consultation without marketing
  MarketingRetention, \* retention of a consultation with marketing
  LockWait,           \* age of a clock reading when its transaction runs
  MaxCycles,          \* bound: delivery cycles of a row
  Switchable          \* bound: channels the administrator may switch

Purposes == {"transactional", "marketing", "test"}
Origins  == {"received", "status", "test"}

ASSUME NullAssumption == NoWorker \notin Workers /\ NoRow \notin Rows

ASSUME RowAssumption ==
  /\ ConsultationOf \in [Rows -> Consultations]
  /\ ChannelOf \in [Rows -> Channels]
  /\ PurposeOf \in [Rows -> Purposes]
  /\ OriginOf \in [Rows -> Origins]

ASSUME TimingAssumption ==
  /\ MaxAttempts \in Nat \ {0}
  /\ LeaseTime \in Nat \ {0}
  /\ RetryDelay \in [1..(MaxAttempts - 1) -> Nat]
  /\ PrivacyRetention \in Nat \ {0}
  /\ MarketingRetention \in Nat \ {0}
  /\ LockWait \in Nat
  /\ MaxCycles \in Nat \ {0}
  /\ Switchable \subseteq Channels

VARIABLES
  now,        \* the machine's clock
  consult,    \* consultations: the columns the queue depends on
  enabled,    \* notification_settings.enabled = 1
  row,        \* notification_outbox
  ledger,     \* notification_delivery_attempts, per row
  job,        \* each worker's local state
  handed,     \* deliver() calls of a row in its current delivery cycle
  linked      \* consultations whose visitor was sent a withdrawal link

vars == <<now, consult, enabled, row, ledger, job, handed, linked>>

Stages == {"idle", "loaded", "claimed", "minting", "preparing",
           "delivering", "accepted", "failing", "cancelling"}
RowStates == {"absent", "pending", "processing", "sent", "failed", "cancelled"}
Outcomes  == {"open", "SENT", "FAILED", "LEASE_EXPIRED", "CANCELLED", "REVOKED"}

Consultation == [received : BOOLEAN, at : Nat, marketing : BOOLEAN,
                 withdrawn : BOOLEAN, purged : BOOLEAN, expires : Nat]
QueueRow == [state : RowStates, available : Nat, cycle : Nat, tries : Nat,
             lease : Nat, owner : Workers \cup {NoWorker}, mark : BOOLEAN]
Attempt == [cycle : Nat, no : Nat, outcome : Outcomes]
Job == [stage : Stages, row : Rows \cup {NoRow}, cycle : Nat, no : Nat,
        adapters : SUBSET Channels]

TypeOK ==
  /\ now \in Nat
  /\ consult \in [Consultations -> Consultation]
  /\ enabled \in [Channels -> BOOLEAN]
  /\ row \in [Rows -> QueueRow]
  /\ ledger \in [Rows -> SUBSET Attempt]
  /\ job \in [Workers -> Job]
  /\ handed \in [Rows -> Nat]
  /\ linked \in SUBSET Consultations

-----------------------------------------------------------------------------
(* Rows of the queue.                                                      *)

AbsentRow == [state |-> "absent", available |-> 0, cycle |-> 1, tries |-> 0,
              lease |-> 0, owner |-> NoWorker, mark |-> FALSE]

NewRow(t) == [AbsentRow EXCEPT !.state = "pending", !.available = t]

\* Mutant: the mark survives the unlock.
UnlockedMarked(q, s)  == [q EXCEPT !.state = s, !.lease = 0, !.owner = NoWorker]

\* A row that a step leaves in state s, its lock columns cleared and
\* last_error_code set to anything but PROVIDER_HANDOFF_STARTED.
Unlocked(q, s) ==
  [q EXCEPT !.state = s, !.lease = 0, !.owner = NoWorker, !.mark = FALSE]

Released(q, s, t) == [Unlocked(q, s) EXCEPT !.available = t]

Finished(L, A, outcome) ==
  {IF a \in A THEN [a EXCEPT !.outcome = outcome] ELSE a : a \in L}

\* Mutant: finished attempts are finished again.
AllAttempts(L) == L

\* The unfinished attempts of one delivery, and all unfinished ones of a row.
OpenAttempt(L, cycle, no) ==
  {a \in L : a.cycle = cycle /\ a.no = no /\ a.outcome = "open"}
OpenAttempts(L) == {a \in L : a.outcome = "open"}

Stamps == {t \in 0..now : now <= t + LockWait}

IdleJob == [stage |-> "idle", row |-> NoRow, cycle |-> 0, no |-> 0,
            adapters |-> {}]

AtStage(w, s) == job[w].stage = s
GoTo(w, s) == job' = [job EXCEPT ![w].stage = s]
GoIdle(w)  == job' = [job EXCEPT ![w] = IdleJob]

(***************************************************************************)
(* The recovery pass every claim starts with: a row whose lease has run    *)
(* out goes back to the queue, or fails when its attempts are used up.     *)
(***************************************************************************)
LeaseExpired(r, t) == row[r].state = "processing" /\ row[r].lease <= t

\* Mutants: used-up attempts are ignored; the attempt is left open.
RecoveredForever(r, t) ==
  IF LeaseExpired(r, t) THEN Released(row[r], "pending", t) ELSE row[r]
LedgerForgotten(r, t) == ledger[r]

RecoveredRow(r, t) ==
  IF LeaseExpired(r, t)
  THEN Released(row[r], IF row[r].tries >= MaxAttempts THEN "failed" ELSE "pending", t)
  ELSE row[r]

RecoveredLedger(r, t) ==
  IF LeaseExpired(r, t)
  THEN Finished(ledger[r], OpenAttempt(ledger[r], row[r].cycle, row[r].tries),
                "LEASE_EXPIRED")
  ELSE ledger[r]

\* Mutants: the claim is not fenced by its worker, cycle and attempt; the
\* recorded attempt alone proves the claim.
OwnsAnyLease(w, t) ==
  row[job[w].row].state = "processing" /\ row[job[w].row].lease > t
OwnsAttempt(w, t) ==
  \E a \in ledger[job[w].row] : a.cycle = job[w].cycle /\ a.no = job[w].no

\* The claim is still this worker's: the row is leased to it for the same
\* cycle and attempt, the lease runs, and the attempt is unfinished.
OwnsLive(w, t) ==
  LET r == job[w].row IN
  /\ row[r].state = "processing"
  /\ row[r].owner = w
  /\ row[r].cycle = job[w].cycle
  /\ row[r].tries = job[w].no
  /\ row[r].lease > t

OwnsClaim(w, t) ==
  /\ OwnsLive(w, t)
  /\ OpenAttempt(ledger[job[w].row], job[w].cycle, job[w].no) # {}

FinishJob(w, outcome) ==
  LET r == job[w].row IN
  ledger' = [ledger EXCEPT
    ![r] = Finished(@, OpenAttempt(@, job[w].cycle, job[w].no), outcome)]

\* Mutant: only the consent given at intake is looked at.
RevokedAtIntake(r) ==
  PurposeOf[r] = "marketing" /\ ~consult[ConsultationOf[r]].marketing

(***************************************************************************)
(* What forbids handing a row to a provider at time t. A test message      *)
(* carries no personal data and only needs its channel.                    *)
(***************************************************************************)
Erased(r)  == PurposeOf[r] # "test" /\ consult[ConsultationOf[r]].purged
Expired(r, t) == PurposeOf[r] # "test" /\ consult[ConsultationOf[r]].expires <= t
Revoked(r) == /\ PurposeOf[r] = "marketing"
              /\ \/ ~consult[ConsultationOf[r]].marketing
                 \/ consult[ConsultationOf[r]].withdrawn

Refused(r, t) ==
  Erased(r) \/ Expired(r, t) \/ Revoked(r) \/ ~enabled[ChannelOf[r]]

-----------------------------------------------------------------------------
Init ==
  /\ now = 0
  /\ consult = [c \in Consultations |->
       [received |-> FALSE, at |-> 0, marketing |-> FALSE, withdrawn |-> FALSE,
        purged |-> FALSE, expires |-> 0]]
  /\ enabled \in [Channels -> BOOLEAN]
  /\ \A ch \in Channels \ Switchable : enabled[ch]
  /\ row = [r \in Rows |-> AbsentRow]
  /\ ledger = [r \in Rows |-> {}]
  /\ job = [w \in Workers |-> IdleJob]
  /\ handed = [r \in Rows |-> 0]
  /\ linked = {}

(* Transactions of the control service and its tools.                      *)

Insert(S, t) == row' = [r \in Rows |-> IF r \in S THEN NewRow(t) ELSE row[r]]

\* A consultation is accepted together with its first notifications.
AcceptConsultation(c) ==
  /\ ~consult[c].received
  /\ \E t \in Stamps, marketing \in BOOLEAN :
       /\ consult' = [consult EXCEPT ![c] =
            [received |-> TRUE, at |-> t, marketing |-> marketing,
             withdrawn |-> FALSE, purged |-> FALSE,
             expires |-> t + IF marketing THEN MarketingRetention
                                          ELSE PrivacyRetention]]
       /\ Insert({r \in Rows : /\ ConsultationOf[r] = c
                               /\ OriginOf[r] = "received"
                               /\ PurposeOf[r] = "marketing" => marketing}, t)
  /\ UNCHANGED <<now, enabled, ledger, job, handed, linked>>

\* A status change notifies the channels the administrator ticked. Each
\* status is entered at most once, purged consultations included.
ChangeStatus(c) ==
  /\ consult[c].received
  /\ \E t \in Stamps, S \in SUBSET {r \in Rows : /\ ConsultationOf[r] = c
                                                 /\ OriginOf[r] = "status"
                                                 /\ row[r].state = "absent"} :
       S # {} /\ Insert(S, t)
  /\ UNCHANGED <<now, consult, enabled, ledger, job, handed, linked>>

\* A test message is attached to a consultation received last.
QueueTest(r) ==
  /\ OriginOf[r] = "test"
  /\ row[r].state = "absent"
  /\ consult[ConsultationOf[r]].received
  /\ \A c \in Consultations :
       consult[c].received => consult[c].at <= consult[ConsultationOf[r]].at
  /\ \E t \in Stamps : Insert({r}, t)
  /\ UNCHANGED <<now, consult, enabled, ledger, job, handed, linked>>

SetChannel(ch) ==
  /\ enabled' = [enabled EXCEPT ![ch] = ~@]
  /\ UNCHANGED <<now, consult, row, ledger, job, handed, linked>>

\* A failed row starts over in its next delivery cycle.
Requeued(q, t) == [NewRow(t) EXCEPT !.cycle = q.cycle + 1]

RequeueFailed(r) ==
  /\ row[r].state = "failed"
  /\ row[r].cycle < MaxCycles
  /\ \E t \in Stamps : row' = [row EXCEPT ![r] = Requeued(@, t)]
  /\ handed' = [handed EXCEPT ![r] = 0]
  /\ UNCHANGED <<now, consult, enabled, ledger, job, linked>>

(***************************************************************************)
(* Purge and withdrawal cancel the unsent rows they cover, and finish      *)
(* their open attempts, except a row whose message is already with the     *)
(* provider: that row stays with its worker.                               *)
(***************************************************************************)
OnWire(q) == q.state = "processing" /\ q.mark

\* Mutant: a message on the wire is cancelled too.
CancellableAlways(r) == row[r].state \in {"pending", "processing", "failed"}

Cancellable(r) ==
  row[r].state \in {"pending", "processing", "failed"} /\ ~OnWire(row[r])

CancelRows(S) ==
  LET C == {r \in S : Cancellable(r)} IN
  /\ row' = [r \in Rows |-> IF r \in C THEN Unlocked(row[r], "cancelled") ELSE row[r]]
  /\ ledger' = [r \in Rows |->
       IF r \in C THEN Finished(ledger[r], OpenAttempts(ledger[r]), "REVOKED")
                  ELSE ledger[r]]

Due(t) == {c \in Consultations :
             consult[c].received /\ ~consult[c].purged /\ consult[c].expires <= t}

\* A batch takes the consultations that expired first.
PurgeExpired ==
  /\ \E t \in Stamps, B \in SUBSET Consultations :
       /\ B \subseteq Due(t) /\ B # {}
       /\ \A c \in B, d \in Due(t) \ B : consult[c].expires <= consult[d].expires
       /\ consult' = [c \in Consultations |->
            IF c \in B THEN [consult[c] EXCEPT !.purged = TRUE] ELSE consult[c]]
       /\ CancelRows({r \in Rows : ConsultationOf[r] \in B})
  /\ UNCHANGED <<now, enabled, job, handed, linked>>

Least(a, b) == IF a <= b THEN a ELSE b

\* The visitor confirms the withdrawal behind a link received by mail.
WithdrawMarketing(c) ==
  /\ c \in linked
  /\ consult[c].marketing /\ ~consult[c].withdrawn
  /\ \E t \in Stamps : consult[c].expires > t
  /\ consult' = [consult EXCEPT
       ![c].withdrawn = TRUE,
       ![c].expires = Least(@, consult[c].at + PrivacyRetention)]
  /\ CancelRows({r \in Rows : ConsultationOf[r] = c /\ PurposeOf[r] = "marketing"})
  /\ UNCHANGED <<now, enabled, job, handed, linked>>

-----------------------------------------------------------------------------
(* A worker's cycle.                                                       *)

\* The runner builds the adapters of the channels enabled at that moment.
LoadAdapters(w) ==
  /\ AtStage(w, "idle")
  /\ job' = [job EXCEPT ![w] =
       [IdleJob EXCEPT !.stage = "loaded",
                       !.adapters = {ch \in Channels : enabled[ch]}]]
  /\ UNCHANGED <<now, consult, enabled, row, ledger, handed, linked>>

\* A row in its next attempt, leased to a worker since t, and the worker's job.
Leased(q, w, t) ==
  [state |-> "processing", available |-> q.available, cycle |-> q.cycle,
   tries |-> q.tries + 1, lease |-> t + LeaseTime, owner |-> w, mark |-> q.mark]
JobFor(j, r, q) ==
  [stage |-> "claimed", row |-> r, cycle |-> q.cycle, no |-> q.tries,
   adapters |-> j.adapters]
NewAttempt(q) == [cycle |-> q.cycle, no |-> q.tries, outcome |-> "open"]

Claimable(t) ==
  {r \in Rows : LET q == RecoveredRow(r, t) IN
     q.state = "pending" /\ q.available <= t /\ q.tries < MaxAttempts}

\* Recover, then lease the row that has been available longest; rows
\* available since the same instant are taken in any order.
ClaimNone(w) ==
  /\ AtStage(w, "loaded")
  /\ \E t \in Stamps :
       /\ Claimable(t) = {}
       /\ row' = [r \in Rows |-> RecoveredRow(r, t)]
       /\ ledger' = [r \in Rows |-> RecoveredLedger(r, t)]
  /\ GoIdle(w)
  /\ UNCHANGED <<now, consult, enabled, handed, linked>>

Claim(w, r) ==
  /\ AtStage(w, "loaded")
  /\ \E t \in Stamps :
       LET q == Leased(RecoveredRow(r, t), w, t) IN
       /\ r \in Claimable(t)
       /\ \A s \in Claimable(t) :
            RecoveredRow(r, t).available <= RecoveredRow(s, t).available
       /\ row' = [s \in Rows |-> IF s = r THEN q ELSE RecoveredRow(s, t)]
       /\ ledger' = [s \in Rows |->
            RecoveredLedger(s, t) \cup IF s = r THEN {NewAttempt(q)} ELSE {}]
       /\ job' = [job EXCEPT ![w] = JobFor(@, r, q)]
  /\ UNCHANGED <<now, consult, enabled, handed, linked>>

\* The first look at the consultation, outside any transaction.
Check(w) ==
  /\ AtStage(w, "claimed")
  /\ LET r == job[w].row IN
     \/ /\ Refused(r, now) \/ ChannelOf[r] \notin job[w].adapters
        /\ GoTo(w, "cancelling")
     \/ /\ ~Refused(r, now) /\ ChannelOf[r] \in job[w].adapters
        /\ GoTo(w, IF PurposeOf[r] = "marketing" THEN "minting" ELSE "preparing")
  /\ UNCHANGED <<now, consult, enabled, row, ledger, handed, linked>>

\* A marketing message looks again and mints its withdrawal link; minting
\* throws when the consent it looks up is gone, or when the insert fails.
Mint(w) ==
  /\ AtStage(w, "minting")
  /\ LET r == job[w].row
         stopped == Erased(r) \/ Expired(r, now) \/ Revoked(r)
     IN
     \/ stopped /\ GoTo(w, "cancelling")
     \/ ~stopped /\ GoTo(w, "preparing")
     \/ GoTo(w, "failing")
  /\ UNCHANGED <<now, consult, enabled, row, ledger, handed, linked>>

\* adapter.prepare() cannot resolve the provider's address, or the hand-over
\* transaction gives up waiting for the write lock.
PrepareFails(w) ==
  /\ AtStage(w, "preparing")
  /\ GoTo(w, "failing")
  /\ UNCHANGED <<now, consult, enabled, row, ledger, handed, linked>>

HandOver(r) ==
  /\ handed' = [handed EXCEPT ![r] = @ + 1]
  /\ linked' = IF PurposeOf[r] = "marketing"
               THEN linked \cup {ConsultationOf[r]} ELSE linked

(***************************************************************************)
(* The hand-over transaction: the last look at the consultation, the mark  *)
(* on the claimed row and the call of deliver() under one write lock.      *)
(***************************************************************************)
Handoff(w) ==
  /\ AtStage(w, "preparing")
  /\ ~Refused(job[w].row, now)
  /\ OwnsLive(w, now)
  /\ HandOver(job[w].row)
  /\ row' = [row EXCEPT ![job[w].row].mark = TRUE]
  /\ GoTo(w, "delivering")
  /\ UNCHANGED <<now, consult, enabled, ledger>>

\* deliver() was called and COMMIT failed: the mark is rolled back.
HandoffUncommitted(w) ==
  /\ AtStage(w, "preparing")
  /\ ~Refused(job[w].row, now)
  /\ OwnsLive(w, now)
  /\ HandOver(job[w].row)
  /\ GoTo(w, "failing")
  /\ UNCHANGED <<now, consult, enabled, row, ledger>>

HandoffRefused(w) ==
  /\ AtStage(w, "preparing")
  /\ Refused(job[w].row, now)
  /\ GoTo(w, "cancelling")
  /\ UNCHANGED <<now, consult, enabled, row, ledger, handed, linked>>

\* The guarded update hits no row: purge, withdrawal or another worker took
\* the claim while the address was resolved.
HandoffLost(w) ==
  /\ AtStage(w, "preparing")
  /\ ~Refused(job[w].row, now)
  /\ ~OwnsLive(w, now)
  /\ GoTo(w, "failing")
  /\ UNCHANGED <<now, consult, enabled, row, ledger, handed, linked>>

\* The provider answers, refuses, or stays silent until the I/O timeout.
DeliveryAnswered(w) ==
  /\ AtStage(w, "delivering")
  /\ \E s \in {"accepted", "failing"} : GoTo(w, s)
  /\ UNCHANGED <<now, consult, enabled, row, ledger, handed, linked>>

\* The transaction throws when the claim is no longer this worker's, and may
\* throw when the database is busy; then the delivery counts as failed.
FinalizeSuccess(w) ==
  /\ AtStage(w, "accepted")
  /\ \/ /\ \E t \in Stamps : OwnsClaim(w, t)
        /\ FinishJob(w, "SENT")
        /\ row' = [row EXCEPT ![job[w].row] = Unlocked(@, "sent")]
        /\ GoIdle(w)
     \/ /\ GoTo(w, "failing")
        /\ UNCHANGED <<row, ledger>>
  /\ UNCHANGED <<now, consult, enabled, handed, linked>>

\* Give the row back for a retry, or fail it for good. A claim that is no
\* longer this worker's is left alone: it was cancelled by purge or
\* withdrawal, or the transaction's error is logged by the runner, as it is
\* when the database is busy.
FinalizeFailure(w) ==
  /\ AtStage(w, "failing")
  /\ \/ \E t \in Stamps :
          /\ OwnsClaim(w, t)
          /\ FinishJob(w, "FAILED")
          /\ row' = [row EXCEPT ![job[w].row] =
               IF job[w].no >= MaxAttempts
               THEN Released(@, "failed", t)
               ELSE Released(@, "pending", t + RetryDelay[job[w].no])]
     \/ UNCHANGED <<row, ledger>>
  /\ GoIdle(w)
  /\ UNCHANGED <<now, consult, enabled, handed, linked>>

CancelClaimed(w) ==
  /\ AtStage(w, "cancelling")
  /\ \/ /\ \E t \in Stamps : OwnsClaim(w, t)
        /\ FinishJob(w, "CANCELLED")
        /\ row' = [row EXCEPT ![job[w].row] = Unlocked(@, "cancelled")]
     \/ UNCHANGED <<row, ledger>>
  /\ GoIdle(w)
  /\ UNCHANGED <<now, consult, enabled, handed, linked>>

\* The process dies with a claim and is started again by launchd.
Crash(w) ==
  /\ job[w].stage \notin {"idle", "loaded"}
  /\ GoIdle(w)
  /\ UNCHANGED <<now, consult, enabled, row, ledger, handed, linked>>

(***************************************************************************)
(* Time advances while some deadline lies ahead; beyond the last one no    *)
(* comparison of the code changes, so this bounds the clock and loses no   *)
(* behaviour.                                                              *)
(***************************************************************************)
Deadlines ==
  {row[r].available : r \in {s \in Rows : row[s].state = "pending"}}
    \cup {row[r].lease : r \in {s \in Rows : row[s].state = "processing"}}
    \cup {consult[c].expires : c \in {d \in Consultations :
            consult[d].received /\ ~consult[d].purged}}

Tick ==
  /\ \E d \in Deadlines : now < d + LockWait
  /\ now' = now + 1
  /\ UNCHANGED <<consult, enabled, row, ledger, job, handed, linked>>

WorkerStep(w) ==
  \/ LoadAdapters(w) \/ ClaimNone(w) \/ (\E r \in Rows : Claim(w, r))
  \/ Check(w) \/ Mint(w) \/ PrepareFails(w)
  \/ Handoff(w) \/ HandoffUncommitted(w) \/ HandoffRefused(w) \/ HandoffLost(w)
  \/ DeliveryAnswered(w)
  \/ FinalizeSuccess(w) \/ FinalizeFailure(w) \/ CancelClaimed(w)

ServiceStep ==
  \/ \E c \in Consultations : AcceptConsultation(c) \/ ChangeStatus(c) \/ WithdrawMarketing(c)
  \/ \E r \in Rows : QueueTest(r) \/ RequeueFailed(r)
  \/ \E ch \in Switchable : SetChannel(ch)
  \/ PurgeExpired

Next ==
  \/ ServiceStep
  \/ \E w \in Workers : WorkerStep(w) \/ Crash(w)
  \/ Tick

Spec == Init /\ [][Next]_vars

\* Every worker process keeps running (launchd restarts it, the runner
\* schedules the next cycle after any error), every await of the code ends
\* (provider timeouts), and time passes.
Fairness == WF_vars(Tick) /\ \A w \in Workers : WF_vars(WorkerStep(w))

FairSpec == Spec /\ Fairness

-----------------------------------------------------------------------------
(* Properties.                                                             *)

\* The worker's claim is the one the row records.
Current(w) ==
  LET q == row[job[w].row] IN
  /\ job[w].stage \notin {"idle", "loaded"}
  /\ q.state = "processing" /\ q.owner = w
  /\ q.cycle = job[w].cycle /\ q.tries = job[w].no

LedgerMatches(q, L) ==
  /\ \A a \in L : \/ a.cycle < q.cycle
                  \/ a.cycle = q.cycle /\ a.no <= q.tries
  /\ \A n \in 1..q.tries : \E a \in L : a.cycle = q.cycle /\ a.no = n
  /\ \A a, b \in L : a.cycle = b.cycle /\ a.no = b.no => a = b
  /\ \A a \in L : a.outcome = "open" <=>
       (q.state = "processing" /\ a.cycle = q.cycle /\ a.no = q.tries)
  /\ \A a \in L : a.outcome = "SENT" =>
       (q.state = "sent" /\ a.cycle = q.cycle /\ a.no = q.tries)
  /\ q.state = "sent" => \E a \in L : a.outcome = "SENT"
  /\ q.state = "processing" => q.tries > 0
  /\ q.state = "absent" => L = {} /\ q.tries = 0

\* Whatever claims, recoveries, cancellations and stale finalisations
\* interleave, the attempt ledger and the queue tell the same story: each
\* attempt of the current cycle is recorded once, an attempt is open exactly
\* while its row is leased for it, and SENT is the last word on a row.
LedgerAgrees == \A r \in Rows : LedgerMatches(row[r], ledger[r])

\* PROVIDER_HANDOFF_STARTED protects exactly the messages on the wire: a
\* worker that has handed its claimed row over finds the mark still there,
\* and no row out of processing carries the mark into its next delivery.
MarkGuardsWire ==
  /\ \A w \in Workers :
       Current(w) /\ job[w].stage \in {"delivering", "accepted"}
         => row[job[w].row].mark
  /\ \A r \in Rows : row[r].mark => row[r].state = "processing" /\ handed[r] > 0

\* A cycle hands a notification over at most once per recorded attempt, so
\* at most MaxAttempts times, whoever crashed or lost the lease meanwhile.
HandoverBudget ==
  \A r \in Rows : handed[r] <= row[r].tries /\ row[r].tries <= MaxAttempts

(***************************************************************************)
(* The inductive invariant behind these, with three facts of its own: a    *)
(* worker past its claim holds a row and a legal attempt number; a row     *)
(* inserted at intake has its consultation; and a worker that still owns   *)
(* its claim and has not handed over has not used its attempt up.          *)
(***************************************************************************)
JobsSound ==
  \A w \in Workers : job[w].stage \notin {"idle", "loaded"} =>
    job[w].row \in Rows /\ job[w].no \in 1..MaxAttempts

RowsFollowIntake ==
  \A r \in Rows : OriginOf[r] = "received" /\ row[r].state # "absent" =>
    consult[ConsultationOf[r]].received

AttemptUnused ==
  \A w \in Workers :
    Current(w) /\ job[w].stage \in {"claimed", "minting", "preparing"}
      => handed[job[w].row] < row[job[w].row].tries

IInv ==
  /\ TypeOK /\ JobsSound /\ RowsFollowIntake
  /\ LedgerAgrees /\ MarkGuardsWire /\ AttemptUnused /\ HandoverBudget

\* Nobody is written to after the right to do so ended: no hand-over of a
\* notification whose consultation is purged or past its retention, nor of
\* a marketing one after the withdrawal, retries and other workers included.
NoContactAfterRevocation ==
  [][\A r \in Rows : handed'[r] > handed[r] =>
       LET c == consult[ConsultationOf[r]] IN
       /\ PurposeOf[r] # "test" => ~c.purged /\ now < c.expires
       /\ PurposeOf[r] = "marketing" => c.marketing /\ ~c.withdrawn]_vars

\* Purge and withdrawal never declare cancelled what the provider already
\* holds: the row of a live hand-over is only closed with its real outcome.
NeverCancelledOnWire ==
  [][\A w \in Workers :
       Current(w) /\ job[w].stage \in {"delivering", "accepted"}
         => row'[job[w].row].state # "cancelled"]_vars

\* The ledger is append-only: a recorded outcome is never rewritten.
OutcomesAreFinal ==
  [][\A r \in Rows : \A a \in ledger[r] : a.outcome # "open" => a \in ledger'[r]]_vars

\* Every notification that enters the queue leaves it - sent, cancelled or
\* failed - although workers crash and leases run out.
EveryNotificationSettles ==
  \A r \in Rows : row[r].state \in {"pending", "processing"}
                   ~> row[r].state \in {"sent", "failed", "cancelled"}

(***************************************************************************)
(* The queue implements the courier of NotificationDelivery.               *)
(***************************************************************************)
StatusOf(q) ==
  CASE q.state = "absent" -> "none"
    [] q.state \in {"pending", "processing"} -> "queued"
    [] q.state = "sent" -> "delivered"
    [] q.state = "failed" -> "exhausted"
    [] q.state = "cancelled" -> "dropped"

Barred(r) ==
  \/ PurposeOf[r] # "test" /\ consult[ConsultationOf[r]].purged
  \/ PurposeOf[r] = "marketing" /\ consult[ConsultationOf[r]].withdrawn

Courier == INSTANCE NotificationDelivery WITH
  status <- [r \in Rows |-> StatusOf(row[r])],
  sends <- handed,
  barred <- {r \in Rows : Barred(r)}

\* The leased, crashing, concurrent queue is a bounded at-least-once courier.
ImplementsCourier == Courier!DSpec

=============================================================================
