----------------------- MODULE NotificationOutboxProofs -----------------------
(***************************************************************************)
(* Proofs about NotificationOutbox and NotificationTiming, for any number  *)
(* of workers, channels and notifications and any lease, retry and         *)
(* retention times: what holds of the queue whatever its workers do, that  *)
(* it implements the courier of NotificationDelivery, and that a lease     *)
(* outlives its delivery when the workers keep to their time limits.       *)
(***************************************************************************)
EXTENDS NotificationTiming, TLAPS

-----------------------------------------------------------------------------
(* What the operations on rows, attempts and jobs return.                  *)

LEMMA UnlockedType ==
  ASSUME NEW q \in QueueRow, NEW s \in RowStates
  PROVE  /\ Unlocked(q, s) \in QueueRow
         /\ Unlocked(q, s).state = s
         /\ ~Unlocked(q, s).mark
         /\ Unlocked(q, s).cycle = q.cycle
         /\ Unlocked(q, s).tries = q.tries
  BY DEF Unlocked, QueueRow

LEMMA ReleasedType ==
  ASSUME NEW q \in QueueRow, NEW s \in RowStates, NEW t \in Nat
  PROVE  /\ Released(q, s, t) \in QueueRow
         /\ Released(q, s, t).state = s
         /\ ~Released(q, s, t).mark
         /\ Released(q, s, t).cycle = q.cycle
         /\ Released(q, s, t).tries = q.tries
  BY UnlockedType DEF Released, Unlocked, QueueRow

LEMMA NewRowType ==
  ASSUME NEW t \in Nat
  PROVE  /\ NewRow(t) \in QueueRow
         /\ NewRow(t).state = "pending" /\ ~NewRow(t).mark
         /\ NewRow(t).cycle = 1 /\ NewRow(t).tries = 0
  BY DEF NewRow, AbsentRow, QueueRow, RowStates

LEMMA LeasedType ==
  ASSUME NEW q \in QueueRow, NEW w \in Workers, NEW t \in Nat
  PROVE  /\ Leased(q, w, t) \in QueueRow
         /\ Leased(q, w, t).state = "processing"
         /\ Leased(q, w, t).owner = w
         /\ Leased(q, w, t).cycle = q.cycle
         /\ Leased(q, w, t).tries = q.tries + 1
         /\ Leased(q, w, t).mark = q.mark
  BY TimingAssumption DEF Leased, QueueRow, RowStates

LEMMA RequeuedType ==
  ASSUME NEW q \in QueueRow, NEW t \in Nat
  PROVE  /\ Requeued(q, t) \in QueueRow
         /\ Requeued(q, t).state = "pending" /\ ~Requeued(q, t).mark
         /\ Requeued(q, t).cycle = q.cycle + 1 /\ Requeued(q, t).tries = 0
<1>1. q.cycle + 1 \in Nat
  BY DEF QueueRow
<1> QED
  BY <1>1, NewRowType DEF Requeued, QueueRow

LEMMA JobForType ==
  ASSUME NEW j \in Job, NEW r \in Rows, NEW q \in QueueRow
  PROVE  /\ JobFor(j, r, q) \in Job
         /\ JobFor(j, r, q).stage = "claimed"
         /\ JobFor(j, r, q).row = r
         /\ JobFor(j, r, q).cycle = q.cycle
         /\ JobFor(j, r, q).no = q.tries
  BY DEF JobFor, Job, QueueRow, Stages

LEMMA FinishedType ==
  ASSUME NEW L \in SUBSET Attempt, NEW A, NEW o \in Outcomes
  PROVE  Finished(L, A, o) \in SUBSET Attempt
  BY DEF Finished, Attempt

LEMMA StampType ==
  ASSUME TypeOK, NEW t \in Stamps
  PROVE  t \in Nat /\ t <= now
  BY DEF Stamps, TypeOK

LEMMA RecoveredType ==
  ASSUME TypeOK, NEW r \in Rows, NEW t \in Nat
  PROVE  /\ RecoveredRow(r, t) \in QueueRow
         /\ RecoveredLedger(r, t) \in SUBSET Attempt
<1>1. row[r] \in QueueRow /\ ledger[r] \in SUBSET Attempt
  BY DEF TypeOK
<1>2. RecoveredRow(r, t) \in QueueRow
  BY <1>1, ReleasedType DEF RecoveredRow, RowStates
<1>3. RecoveredLedger(r, t) \in SUBSET Attempt
  BY <1>1, FinishedType DEF RecoveredLedger, Outcomes
<1> QED
  BY <1>2, <1>3

LEMMA JobType ==
  ASSUME TypeOK, NEW w \in Workers, NEW s \in Stages
  PROVE  /\ IdleJob \in Job
         /\ [job EXCEPT ![w].stage = s] \in [Workers -> Job]
         /\ [job EXCEPT ![w] = IdleJob] \in [Workers -> Job]
<1>1. IdleJob \in Job
  BY DEF IdleJob, Job, Stages
<1>2. job \in [Workers -> Job]
  BY DEF TypeOK
<1>3. [job[w] EXCEPT !.stage = s] \in Job
  BY <1>2 DEF Job
<1> QED
  BY <1>1, <1>2, <1>3

-----------------------------------------------------------------------------
(* Type correctness.                                                       *)

LEMMA InsertType ==
  ASSUME TypeOK, NEW S, NEW t \in Nat, Insert(S, t)
  PROVE  row' \in [Rows -> QueueRow]
  BY NewRowType DEF Insert, TypeOK

LEMMA CancelType ==
  ASSUME TypeOK, NEW S, CancelRows(S)
  PROVE  /\ row' \in [Rows -> QueueRow]
         /\ ledger' \in [Rows -> SUBSET Attempt]
<1>1. \A r \in Rows : Unlocked(row[r], "cancelled") \in QueueRow
  BY UnlockedType DEF TypeOK, RowStates
<1>2. \A r \in Rows : Finished(ledger[r], OpenAttempts(ledger[r]), "REVOKED")
                        \in SUBSET Attempt
  BY FinishedType DEF TypeOK, Outcomes
<1> QED
  BY <1>1, <1>2 DEF CancelRows, TypeOK

LEMMA FinishJobType ==
  ASSUME TypeOK, NEW w \in Workers, NEW o \in Outcomes, FinishJob(w, o)
  PROVE  ledger' \in [Rows -> SUBSET Attempt]
  BY FinishedType DEF FinishJob, TypeOK

LEMMA ServiceTypes ==
  ASSUME TypeOK, ServiceStep
  PROVE  TypeOK'
<1>1. ASSUME NEW c \in Consultations, AcceptConsultation(c)
      PROVE  TypeOK'
  <2>1. PICK t \in Stamps, marketing \in BOOLEAN :
          /\ consult' = [consult EXCEPT ![c] =
               [received |-> TRUE, at |-> t, marketing |-> marketing,
                withdrawn |-> FALSE, purged |-> FALSE,
                expires |-> t + IF marketing THEN MarketingRetention
                                             ELSE PrivacyRetention]]
          /\ Insert({r \in Rows : /\ ConsultationOf[r] = c
                                  /\ OriginOf[r] = "received"
                                  /\ PurposeOf[r] = "marketing" => marketing}, t)
    BY <1>1 DEF AcceptConsultation
  <2>2. row' \in [Rows -> QueueRow]
    BY <2>1, InsertType, StampType
  <2>3. consult' \in [Consultations -> Consultation]
    BY <2>1, StampType, TimingAssumption DEF TypeOK, Consultation
  <2> QED
    BY <1>1, <2>2, <2>3 DEF AcceptConsultation, TypeOK
<1>2. ASSUME NEW c \in Consultations, ChangeStatus(c)
      PROVE  TypeOK'
  BY <1>2, InsertType, StampType DEF ChangeStatus, TypeOK
<1>3. ASSUME NEW c \in Consultations, WithdrawMarketing(c)
      PROVE  TypeOK'
  <2>1. row' \in [Rows -> QueueRow] /\ ledger' \in [Rows -> SUBSET Attempt]
    BY <1>3, CancelType DEF WithdrawMarketing
  <2>2. consult' \in [Consultations -> Consultation]
    <3>1. consult[c] \in Consultation
      BY DEF TypeOK
    <3>2. Least(consult[c].expires, consult[c].at + PrivacyRetention) \in Nat
      BY <3>1, TimingAssumption DEF Least, Consultation
    <3> QED
      BY <1>3, <3>1, <3>2 DEF WithdrawMarketing, TypeOK, Consultation
  <2> QED
    BY <1>3, <2>1, <2>2 DEF WithdrawMarketing, TypeOK
<1>4. ASSUME NEW r \in Rows, QueueTest(r)
      PROVE  TypeOK'
  BY <1>4, InsertType, StampType DEF QueueTest, TypeOK
<1>5. ASSUME NEW r \in Rows, RequeueFailed(r)
      PROVE  TypeOK'
  <2>1. PICK t \in Stamps : row' = [row EXCEPT ![r] = Requeued(@, t)]
    BY <1>5 DEF RequeueFailed
  <2>2. row' \in [Rows -> QueueRow]
    BY <2>1, RequeuedType, StampType DEF TypeOK
  <2> QED
    BY <1>5, <2>2 DEF RequeueFailed, TypeOK
<1>6. ASSUME NEW ch \in Switchable, SetChannel(ch)
      PROVE  TypeOK'
  BY <1>6, TimingAssumption DEF SetChannel, TypeOK
<1>7. ASSUME PurgeExpired
      PROVE  TypeOK'
  <2>1. row' \in [Rows -> QueueRow] /\ ledger' \in [Rows -> SUBSET Attempt]
    BY <1>7, CancelType DEF PurgeExpired
  <2>2. consult' \in [Consultations -> Consultation]
    <3>1. \A c \in Consultations : [consult[c] EXCEPT !.purged = TRUE] \in Consultation
      BY DEF TypeOK, Consultation
    <3> QED
      BY <1>7, <3>1 DEF PurgeExpired, TypeOK
  <2> QED
    BY <1>7, <2>1, <2>2 DEF PurgeExpired, TypeOK
<1> QED
  BY <1>1, <1>2, <1>3, <1>4, <1>5, <1>6, <1>7 DEF ServiceStep


LEMMA ClaimTypes ==
  ASSUME TypeOK, JobsSound, NEW w \in Workers, NEW r \in Rows, Claim(w, r)
  PROVE  TypeOK' /\ JobsSound'
<1>1. PICK t \in Stamps :
        LET q == Leased(RecoveredRow(r, t), w, t) IN
        /\ r \in Claimable(t)
        /\ row' = [s \in Rows |-> IF s = r THEN q ELSE RecoveredRow(s, t)]
        /\ ledger' = [s \in Rows |->
             RecoveredLedger(s, t) \cup IF s = r THEN {NewAttempt(q)} ELSE {}]
        /\ job' = [job EXCEPT ![w] = JobFor(@, r, q)]
  BY DEF Claim
<1> DEFINE q == Leased(RecoveredRow(r, t), w, t)
<1>2. t \in Nat
  BY StampType
<1>3. \A s \in Rows : /\ RecoveredRow(s, t) \in QueueRow
                      /\ RecoveredLedger(s, t) \in SUBSET Attempt
  BY <1>2, RecoveredType
<1>4. RecoveredRow(r, t).tries < MaxAttempts
  BY <1>1 DEF Claimable
<1>5. q \in QueueRow /\ q.tries \in 1..MaxAttempts
  <2>1. q \in QueueRow /\ q.tries = RecoveredRow(r, t).tries + 1
    BY <1>2, <1>3, LeasedType
  <2>2. RecoveredRow(r, t).tries \in Nat
    BY <1>3 DEF QueueRow
  <2> QED
    BY <1>4, <2>1, <2>2, TimingAssumption
<1>6. JobFor(job[w], r, q) \in Job /\ JobFor(job[w], r, q).row = r
        /\ JobFor(job[w], r, q).no = q.tries
  BY <1>5, JobForType DEF TypeOK
<1>7. NewAttempt(q) \in Attempt
  BY <1>5 DEF NewAttempt, Attempt, Outcomes, QueueRow
<1> HIDE DEF q
<1>8. /\ row' \in [Rows -> QueueRow]
      /\ ledger' \in [Rows -> SUBSET Attempt]
      /\ job' \in [Workers -> Job]
  BY <1>1, <1>3, <1>5, <1>6, <1>7 DEF q, TypeOK
<1>9. JobsSound'
  BY <1>1, <1>5, <1>6 DEF q, JobsSound, TypeOK
<1> QED
  BY <1>8, <1>9 DEF Claim, TypeOK

LEMMA GoToSound ==
  ASSUME TypeOK, JobsSound, NEW w \in Workers, NEW s \in Stages, GoTo(w, s),
         job[w].stage \notin {"idle", "loaded"}
  PROVE  job' \in [Workers -> Job] /\ JobsSound'
<1>1. job' \in [Workers -> Job]
  BY JobType DEF GoTo
<1>2. job[w] \in Job
  BY DEF TypeOK
<1>3. job'[w].row = job[w].row /\ job'[w].no = job[w].no
        /\ \A v \in Workers : v # w => job'[v] = job[v]
  BY <1>2 DEF GoTo, TypeOK, Job
<1> QED
  BY <1>1, <1>3 DEF JobsSound

LEMMA GoIdleSound ==
  ASSUME TypeOK, JobsSound, NEW w \in Workers, GoIdle(w)
  PROVE  job' \in [Workers -> Job] /\ JobsSound'
<1>1. job' \in [Workers -> Job]
  BY JobType DEF GoIdle, Stages
<1> QED
  BY <1>1 DEF GoIdle, IdleJob, JobsSound, TypeOK

LEMMA HandOverType ==
  ASSUME TypeOK, NEW r \in Rows, HandOver(r)
  PROVE  handed' \in [Rows -> Nat] /\ linked' \in SUBSET Consultations
<1>1. handed' \in [Rows -> Nat]
  BY DEF HandOver, TypeOK
<1>2. ConsultationOf[r] \in Consultations
  BY RowAssumption
<1>3. linked' \in SUBSET Consultations
  BY <1>2 DEF HandOver, TypeOK
<1> QED
  BY <1>1, <1>3

LEMMA WorkerTypes ==
  ASSUME TypeOK, JobsSound, NEW w \in Workers, WorkerStep(w) \/ Crash(w)
  PROVE  TypeOK' /\ JobsSound'
<1>1. CASE LoadAdapters(w)
  <2>1. job[w] \in Job
    BY DEF TypeOK
  <2>2. [IdleJob EXCEPT !.stage = "loaded",
                        !.adapters = {ch \in Channels : enabled[ch]}] \in Job
    BY DEF IdleJob, Job, Stages
  <2> QED
    BY <1>1, <2>2 DEF LoadAdapters, IdleJob, TypeOK, JobsSound
<1>2. CASE ClaimNone(w)
  <2>1. PICK t \in Stamps : /\ row' = [r \in Rows |-> RecoveredRow(r, t)]
                            /\ ledger' = [r \in Rows |-> RecoveredLedger(r, t)]
    BY <1>2 DEF ClaimNone
  <2>2. row' \in [Rows -> QueueRow] /\ ledger' \in [Rows -> SUBSET Attempt]
    BY <2>1, RecoveredType, StampType
  <2> QED
    BY <1>2, <2>2, GoIdleSound DEF ClaimNone, TypeOK
<1>3. ASSUME NEW r \in Rows, Claim(w, r)
      PROVE  TypeOK' /\ JobsSound'
  BY <1>3, ClaimTypes
<1>4. CASE Check(w)
  BY <1>4, GoToSound DEF Check, AtStage, Stages, TypeOK
<1>5. CASE Mint(w)
  BY <1>5, GoToSound DEF Mint, AtStage, Stages, TypeOK
<1>6. CASE PrepareFails(w)
  BY <1>6, GoToSound DEF PrepareFails, AtStage, Stages, TypeOK
<1>7. CASE Handoff(w)
  <2>1. job[w].row \in Rows
    BY <1>7 DEF Handoff, AtStage, JobsSound
  <2>2. row' \in [Rows -> QueueRow]
    <3>1. \A r \in Rows : [row[r] EXCEPT !.mark = TRUE] \in QueueRow
      BY DEF TypeOK, QueueRow
    <3> QED
      BY <1>7, <3>1 DEF Handoff, TypeOK
  <2>3. handed' \in [Rows -> Nat] /\ linked' \in SUBSET Consultations
    BY <1>7, <2>1, HandOverType DEF Handoff
  <2>4. job' \in [Workers -> Job] /\ JobsSound'
    BY <1>7, GoToSound DEF Handoff, AtStage, Stages
  <2> QED
    BY <1>7, <2>2, <2>3, <2>4 DEF Handoff, TypeOK
<1>8. CASE HandoffUncommitted(w)
  <2>1. job[w].row \in Rows
    BY <1>8 DEF HandoffUncommitted, AtStage, JobsSound
  <2>2. handed' \in [Rows -> Nat] /\ linked' \in SUBSET Consultations
    BY <1>8, <2>1, HandOverType DEF HandoffUncommitted
  <2>3. job' \in [Workers -> Job] /\ JobsSound'
    BY <1>8, GoToSound DEF HandoffUncommitted, AtStage, Stages
  <2> QED
    BY <1>8, <2>2, <2>3 DEF HandoffUncommitted, TypeOK
<1>9. CASE HandoffRefused(w)
  BY <1>9, GoToSound DEF HandoffRefused, AtStage, Stages, TypeOK
<1>10. CASE HandoffLost(w)
  BY <1>10, GoToSound DEF HandoffLost, AtStage, Stages, TypeOK
<1>11. CASE DeliveryAnswered(w)
  BY <1>11, GoToSound DEF DeliveryAnswered, AtStage, Stages, TypeOK
<1>12. CASE FinalizeSuccess(w)
  <2>1. CASE GoTo(w, "failing") /\ UNCHANGED <<row, ledger>>
    BY <1>12, <2>1, GoToSound DEF FinalizeSuccess, AtStage, Stages, TypeOK
  <2>2. CASE /\ FinishJob(w, "SENT")
             /\ row' = [row EXCEPT ![job[w].row] = Unlocked(@, "sent")]
             /\ GoIdle(w)
    <3>1. row' \in [Rows -> QueueRow]
      BY <2>2, UnlockedType DEF TypeOK, RowStates
    <3>2. ledger' \in [Rows -> SUBSET Attempt]
      BY <2>2, FinishJobType DEF Outcomes
    <3> QED
      BY <1>12, <2>2, <3>1, <3>2, GoIdleSound DEF FinalizeSuccess, TypeOK
  <2> QED
    BY <1>12, <2>1, <2>2 DEF FinalizeSuccess
<1>13. CASE FinalizeFailure(w)
  <2>1. CASE UNCHANGED <<row, ledger>>
    BY <1>13, <2>1, GoIdleSound DEF FinalizeFailure, TypeOK
  <2>2. ASSUME NEW t \in Stamps, FinishJob(w, "FAILED"),
               row' = [row EXCEPT ![job[w].row] =
                 IF job[w].no >= MaxAttempts
                 THEN Released(@, "failed", t)
                 ELSE Released(@, "pending", t + RetryDelay[job[w].no])]
        PROVE  TypeOK' /\ JobsSound'
    <3>1. job[w].no \in 1..MaxAttempts
      BY <1>13 DEF FinalizeFailure, AtStage, JobsSound
    <3>2. ~(job[w].no >= MaxAttempts) => t + RetryDelay[job[w].no] \in Nat
      BY <3>1, StampType, TimingAssumption
    <3>3. \A r \in Rows :
            /\ Released(row[r], "failed", t) \in QueueRow
            /\ ~(job[w].no >= MaxAttempts) =>
                 Released(row[r], "pending", t + RetryDelay[job[w].no]) \in QueueRow
      <4>1. \A r \in Rows : row[r] \in QueueRow
        BY DEF TypeOK
      <4>2. "failed" \in RowStates /\ "pending" \in RowStates
        BY DEF RowStates
      <4>3. t \in Nat
        BY StampType
      <4> QED
        BY <3>2, <4>1, <4>2, <4>3, ReleasedType
    <3>5. row' \in [Rows -> QueueRow]
      BY <2>2, <3>3 DEF TypeOK
    <3>4. ledger' \in [Rows -> SUBSET Attempt]
      BY <2>2, FinishJobType DEF Outcomes
    <3> QED
      BY <1>13, <3>4, <3>5, GoIdleSound DEF FinalizeFailure, TypeOK
  <2> QED
    BY <1>13, <2>1, <2>2 DEF FinalizeFailure
<1>14. CASE CancelClaimed(w)
  <2>1. CASE UNCHANGED <<row, ledger>>
    BY <1>14, <2>1, GoIdleSound DEF CancelClaimed, TypeOK
  <2>2. CASE /\ FinishJob(w, "CANCELLED")
             /\ row' = [row EXCEPT ![job[w].row] = Unlocked(@, "cancelled")]
    <3>1. row' \in [Rows -> QueueRow]
      BY <2>2, UnlockedType DEF TypeOK, RowStates
    <3>2. ledger' \in [Rows -> SUBSET Attempt]
      BY <2>2, FinishJobType DEF Outcomes
    <3> QED
      BY <1>14, <3>1, <3>2, GoIdleSound DEF CancelClaimed, TypeOK
  <2> QED
    BY <1>14, <2>1, <2>2 DEF CancelClaimed
<1>15. CASE Crash(w)
  BY <1>15, GoIdleSound DEF Crash, TypeOK
<1> QED
  BY <1>1, <1>2, <1>3, <1>4, <1>5, <1>6, <1>7, <1>8, <1>9, <1>10, <1>11, <1>12,
     <1>13, <1>14, <1>15 DEF WorkerStep

LEMMA ServiceKeepsJobs ==
  ASSUME ServiceStep
  PROVE  UNCHANGED <<now, job>>
  BY DEF ServiceStep, AcceptConsultation, ChangeStatus, WithdrawMarketing,
         QueueTest, RequeueFailed, SetChannel, PurgeExpired

LEMMA InitTypes ==
  ASSUME Init
  PROVE  TypeOK /\ JobsSound
  BY DEF Init, TypeOK, JobsSound, Consultation, QueueRow, AbsentRow, RowStates,
         Job, IdleJob, Stages

LEMMA StepTypes ==
  ASSUME TypeOK, JobsSound, [Next]_vars
  PROVE  TypeOK' /\ JobsSound'
<1>1. CASE ServiceStep
  BY <1>1, ServiceTypes, ServiceKeepsJobs DEF JobsSound
<1>2. ASSUME NEW w \in Workers, WorkerStep(w) \/ Crash(w)
      PROVE  TypeOK' /\ JobsSound'
  BY <1>2, WorkerTypes
<1>3. CASE Tick
  BY <1>3 DEF Tick, TypeOK, JobsSound
<1>4. CASE UNCHANGED vars
  BY <1>4 DEF vars, TypeOK, JobsSound
<1> QED
  BY <1>1, <1>2, <1>3, <1>4 DEF Next

\* Every reachable state of the queue is well-typed: leases, attempts and
\* worker states stay in range whatever the processes do.
THEOREM TypeCorrect == Spec => []TypeOK
<1>1. Spec => [](TypeOK /\ JobsSound)
  BY InitTypes, StepTypes, PTL DEF Spec
<1> QED
  BY <1>1, PTL

-----------------------------------------------------------------------------
(* The attempt ledger follows the queue.                                   *)

LEMMA SameMatches ==
  ASSUME NEW q, NEW p, NEW L, LedgerMatches(q, L),
         p.state = q.state, p.cycle = q.cycle, p.tries = q.tries
  PROVE  LedgerMatches(p, L)
  BY DEF LedgerMatches

\* A row no longer leased, whose open attempt was finished accordingly.
LEMMA FinishMatches ==
  ASSUME NEW q \in QueueRow, NEW p \in QueueRow, NEW L \in SUBSET Attempt,
         NEW o \in Outcomes \ {"open"},
         LedgerMatches(q, L), q.state = "processing",
         p.cycle = q.cycle, p.tries = q.tries,
         p.state \in {"pending", "failed", "cancelled", "sent"},
         p.state = "sent" <=> o = "SENT"
  PROVE  LedgerMatches(p, Finished(L, OpenAttempt(L, q.cycle, q.tries), o))
<1> DEFINE A == OpenAttempt(L, q.cycle, q.tries)
           F(a) == IF a \in A THEN [a EXCEPT !.outcome = o] ELSE a
           M == Finished(L, A, o)
<1>1. \A a \in L : /\ F(a) \in Attempt
                   /\ F(a).cycle = a.cycle /\ F(a).no = a.no
                   /\ F(a).outcome = IF a \in A THEN o ELSE a.outcome
  BY DEF Attempt, Outcomes
<1>2. M = {F(a) : a \in L}
  BY DEF Finished
<1>3. \A a \in L : a \in A <=> a.outcome = "open"
  BY DEF LedgerMatches, OpenAttempt
<1>4. \E a \in L : a.cycle = q.cycle /\ a.no = q.tries
  BY DEF LedgerMatches, QueueRow
<1>5. \E a \in L : a \in A
  BY <1>3, <1>4 DEF LedgerMatches
<1>6. \A a \in L : a.outcome # "SENT"
  BY DEF LedgerMatches
<1> HIDE DEF A, F, M
<1>7. \A b \in M : \E a \in L : b = F(a)
  BY <1>2
<1>8. \A a \in L : F(a) \in M
  BY <1>2
<1>9. \A b \in M : b.outcome # "open" /\ (b.outcome = "SENT" => p.state = "sent"
                     /\ b.cycle = p.cycle /\ b.no = p.tries)
  BY <1>1, <1>3, <1>6, <1>7 DEF A, OpenAttempt
<1>10. p.state = "sent" => \E b \in M : b.outcome = "SENT"
  BY <1>1, <1>5, <1>8
<1>11. /\ \A b \in M : \/ b.cycle < p.cycle
                       \/ b.cycle = p.cycle /\ b.no <= p.tries
       /\ \A n \in 1..p.tries : \E b \in M : b.cycle = p.cycle /\ b.no = n
       /\ \A a, b \in M : a.cycle = b.cycle /\ a.no = b.no => a = b
  BY <1>1, <1>7, <1>8 DEF LedgerMatches
<1> QED
  BY <1>9, <1>10, <1>11 DEF M, A, LedgerMatches

LEMMA CancelMatches ==
  ASSUME NEW q \in QueueRow, NEW L \in SUBSET Attempt, LedgerMatches(q, L),
         q.state \in {"pending", "processing", "failed"}
  PROVE  LedgerMatches(Unlocked(q, "cancelled"),
                       Finished(L, OpenAttempts(L), "REVOKED"))
<1> DEFINE p == Unlocked(q, "cancelled")
<1>1. /\ p \in QueueRow /\ p.state = "cancelled"
      /\ p.cycle = q.cycle /\ p.tries = q.tries
  BY UnlockedType DEF RowStates
<1>2. CASE q.state = "processing"
  <2>1. OpenAttempts(L) = OpenAttempt(L, q.cycle, q.tries)
    BY <1>2 DEF OpenAttempts, OpenAttempt, LedgerMatches
  <2> QED
    BY <1>1, <1>2, <2>1, FinishMatches DEF Outcomes
<1>3. CASE q.state # "processing"
  <2>1. Finished(L, OpenAttempts(L), "REVOKED") = L
    BY <1>3 DEF Finished, OpenAttempts, LedgerMatches
  <2> QED
    BY <1>1, <1>3, <2>1 DEF LedgerMatches
<1> QED
  BY <1>2, <1>3

LEMMA LeaseMatches ==
  ASSUME NEW q \in QueueRow, NEW L \in SUBSET Attempt, LedgerMatches(q, L),
         q.state = "pending", NEW w \in Workers, NEW t \in Nat
  PROVE  LedgerMatches(Leased(q, w, t), L \cup {NewAttempt(Leased(q, w, t))})
<1> DEFINE p == Leased(q, w, t)
           b == NewAttempt(p)
<1>1. /\ p.state = "processing" /\ p.cycle = q.cycle /\ p.tries = q.tries + 1
      /\ q.tries \in Nat /\ q.cycle \in Nat
  <2>1. p.state = "processing" /\ p.cycle = q.cycle /\ p.tries = q.tries + 1
    BY LeasedType
  <2>2. q.tries \in Nat /\ q.cycle \in Nat
    BY DEF QueueRow
  <2> QED
    BY <2>1, <2>2
<1>2. b.cycle = q.cycle /\ b.no = q.tries + 1 /\ b.outcome = "open"
  BY <1>1 DEF NewAttempt
<1>3. \A a \in L : a.cycle \in Nat /\ a.no \in Nat
  BY DEF Attempt
<1> HIDE DEF p, b
<1>4. \A a \in L : a.cycle < q.cycle \/ (a.cycle = q.cycle /\ a.no <= q.tries)
  BY DEF LedgerMatches
<1>5. \A n \in 1..p.tries : \E a \in L \cup {b} : a.cycle = p.cycle /\ a.no = n
  <2>1. \A n \in 1..p.tries : n \in 1..q.tries \/ n = q.tries + 1
    BY <1>1
  <2>2. \A n \in 1..q.tries : \E a \in L : a.cycle = q.cycle /\ a.no = n
    BY DEF LedgerMatches
  <2> QED
    BY <1>1, <1>2, <2>1, <2>2
<1>6. \A a, c \in L \cup {b} : a.cycle = c.cycle /\ a.no = c.no => a = c
  BY <1>1, <1>2, <1>3, <1>4 DEF LedgerMatches
<1>7. \A a \in L : a.outcome # "open" /\ a.outcome # "SENT"
  BY DEF LedgerMatches
<1>8. \A a \in L \cup {b} :
        /\ a.cycle < p.cycle \/ (a.cycle = p.cycle /\ a.no <= p.tries)
        /\ a.outcome = "open" <=> a.cycle = p.cycle /\ a.no = p.tries
        /\ a.outcome # "SENT"
  BY <1>1, <1>2, <1>3, <1>4, <1>7
<1> QED
  BY <1>1, <1>5, <1>6, <1>8 DEF p, b, LedgerMatches

LEMMA RequeueMatches ==
  ASSUME NEW q \in QueueRow, NEW L \in SUBSET Attempt, LedgerMatches(q, L),
         q.state = "failed", NEW t \in Nat
  PROVE  LedgerMatches(Requeued(q, t), L)
<1> DEFINE p == Requeued(q, t)
<1>1. p.state = "pending" /\ p.cycle = q.cycle + 1 /\ p.tries = 0 /\ q.cycle \in Nat
  BY RequeuedType DEF QueueRow
<1>2. \A a \in L : a.cycle \in Nat /\ a.cycle < p.cycle
                     /\ a.outcome # "open" /\ a.outcome # "SENT"
  BY <1>1 DEF LedgerMatches, Attempt
<1>3. \A a, b \in L : a.cycle = b.cycle /\ a.no = b.no => a = b
  BY DEF LedgerMatches
<1>4. 1..p.tries = {}
  BY <1>1
<1> HIDE DEF p
<1> QED
  BY <1>1, <1>2, <1>3, <1>4 DEF p, LedgerMatches

-----------------------------------------------------------------------------
(* The inductive invariant, regrouped by row and by worker.                *)

RowSound(r) ==
  /\ LedgerMatches(row[r], ledger[r])
  /\ row[r].mark => row[r].state = "processing" /\ handed[r] > 0
  /\ handed[r] <= row[r].tries
  /\ row[r].tries <= MaxAttempts

WorkerSound(w) ==
  Current(w) =>
    /\ job[w].stage \in {"delivering", "accepted"} => row[job[w].row].mark
    /\ job[w].stage \in {"claimed", "minting", "preparing"}
         => handed[job[w].row] < row[job[w].row].tries

LEMMA IInvParts ==
  IInv <=> /\ TypeOK /\ JobsSound /\ RowsFollowIntake
           /\ \A r \in Rows : RowSound(r)
           /\ \A w \in Workers : WorkerSound(w)
  BY DEF IInv, RowSound, WorkerSound, LedgerAgrees, MarkGuardsWire,
         AttemptUnused, HandoverBudget

\* What a step leaves alone for the workers that do not take it.
LeavesClaim(r, w) ==
  \/ row'[r] = row[r] /\ handed'[r] = handed[r]
  \/ row'[r].state # "processing"
  \/ row'[r].owner # w

LEMMA ClaimLeft ==
  ASSUME JobsSound, NEW w \in Workers, WorkerSound(w), job'[w] = job[w],
         \A r \in Rows : LeavesClaim(r, w)
  PROVE  WorkerSound(w)'
  BY DEF WorkerSound, LeavesClaim, Current, JobsSound

LEMMA RowLeft ==
  ASSUME NEW r \in Rows, RowSound(r), row'[r] = row[r],
         ledger'[r] = ledger[r], handed'[r] = handed[r]
  PROVE  RowSound(r)'
  BY DEF RowSound

\* A row unlocked with its open attempt finished is sound again.
LEMMA FinishSound ==
  ASSUME TypeOK, NEW r \in Rows, RowSound(r), row[r].state = "processing",
         NEW o \in Outcomes \ {"open"}, NEW p \in QueueRow,
         p.state \in {"pending", "failed", "cancelled", "sent"},
         p.state = "sent" <=> o = "SENT",
         p.cycle = row[r].cycle, p.tries = row[r].tries, ~p.mark,
         row'[r] = p, handed'[r] = handed[r],
         ledger'[r] = Finished(ledger[r],
                        OpenAttempt(ledger[r], row[r].cycle, row[r].tries), o)
  PROVE  RowSound(r)'
<1>1. row[r] \in QueueRow /\ ledger[r] \in SUBSET Attempt
  BY DEF TypeOK
<1>2. LedgerMatches(p, ledger'[r])
  BY <1>1, FinishMatches DEF RowSound
<1> QED
  BY <1>2 DEF RowSound

LEMMA RecoverSound ==
  ASSUME TypeOK, NEW r \in Rows, RowSound(r), NEW t \in Nat
  PROVE  /\ LedgerMatches(RecoveredRow(r, t), RecoveredLedger(r, t))
         /\ RecoveredRow(r, t).mark => RecoveredRow(r, t).state = "processing" /\ handed[r] > 0
         /\ RecoveredRow(r, t).tries = row[r].tries
         /\ \/ RecoveredRow(r, t) = row[r]
            \/ RecoveredRow(r, t).state # "processing"
<1> DEFINE s == IF row[r].tries >= MaxAttempts THEN "failed" ELSE "pending"
           p == Released(row[r], s, t)
<1>1. row[r] \in QueueRow /\ ledger[r] \in SUBSET Attempt
  BY DEF TypeOK
<1>2. s \in RowStates
  BY DEF RowStates
<1>3. /\ p \in QueueRow /\ p.state = s /\ ~p.mark
      /\ p.cycle = row[r].cycle /\ p.tries = row[r].tries
  BY <1>1, <1>2, ReleasedType
<1>4. CASE LeaseExpired(r, t)
  <2>1. RecoveredRow(r, t) = p
    BY <1>4 DEF RecoveredRow
  <2>2. RecoveredLedger(r, t) =
          Finished(ledger[r], OpenAttempt(ledger[r], row[r].cycle, row[r].tries),
                   "LEASE_EXPIRED")
    BY <1>4 DEF RecoveredLedger
  <2>3. row[r].state = "processing" /\ LedgerMatches(row[r], ledger[r])
    BY <1>4 DEF LeaseExpired, RowSound
  <2>4. p.state \in {"pending", "failed", "cancelled", "sent"}
          /\ "LEASE_EXPIRED" \in Outcomes \ {"open"}
    BY <1>3 DEF Outcomes
  <2>5. LedgerMatches(p, RecoveredLedger(r, t))
    <3> HIDE DEF p, s
    <3>1. p.state # "sent"
      BY <1>3 DEF s
    <3> QED
      BY <1>1, <1>3, <2>2, <2>3, <2>4, <3>1, FinishMatches
  <2> QED
    BY <1>3, <2>1, <2>5
<1>5. CASE ~LeaseExpired(r, t)
  BY <1>5 DEF RecoveredRow, RecoveredLedger, RowSound
<1> QED
  BY <1>4, <1>5

LEMMA CancelSound ==
  ASSUME TypeOK, \A r \in Rows : RowSound(r), NEW S, CancelRows(S),
         UNCHANGED handed, NEW r \in Rows
  PROVE  /\ RowSound(r)'
         /\ row'[r] = row[r] \/ row'[r].state = "cancelled"
         /\ row'[r] # row[r] => row[r].state # "absent"
<1>1. row[r] \in QueueRow /\ ledger[r] \in SUBSET Attempt /\ RowSound(r)
  BY DEF TypeOK
<1>2. CASE r \in S /\ Cancellable(r)
  <2> DEFINE p == Unlocked(row[r], "cancelled")
  <2>1. row'[r] = p
          /\ ledger'[r] = Finished(ledger[r], OpenAttempts(ledger[r]), "REVOKED")
    BY <1>2 DEF CancelRows
  <2>2. p.state = "cancelled" /\ ~p.mark /\ p.tries = row[r].tries
    BY <1>1, UnlockedType DEF RowStates
  <2>3. row[r].state \in {"pending", "processing", "failed"}
    BY <1>2 DEF Cancellable
  <2>4. LedgerMatches(p, ledger'[r])
    BY <1>1, <2>1, <2>3, CancelMatches DEF RowSound
  <2> QED
    BY <1>1, <2>1, <2>2, <2>3, <2>4 DEF RowSound
<1>3. CASE ~(r \in S /\ Cancellable(r))
  BY <1>1, <1>3, RowLeft DEF CancelRows
<1> QED
  BY <1>2, <1>3

LEMMA InsertSound ==
  ASSUME TypeOK, \A r \in Rows : RowSound(r), NEW S, NEW t \in Nat,
         \A r \in S \cap Rows : row[r].state = "absent",
         Insert(S, t), UNCHANGED <<ledger, handed>>, NEW r \in Rows
  PROVE  /\ RowSound(r)'
         /\ row'[r] = row[r] \/ (row'[r].state = "pending" /\ r \in S)
<1>1. CASE r \in S
  <2>1. row'[r] = NewRow(t)
    BY <1>1 DEF Insert
  <2>2. LedgerMatches(row[r], ledger[r]) /\ row[r].state = "absent" /\ RowSound(r)
    BY <1>1 DEF RowSound
  <2>3. ledger[r] = {} /\ row[r].tries = 0 /\ handed[r] = 0
    BY <2>2 DEF LedgerMatches, RowSound, TypeOK
  <2>4. NewRow(t).state = "pending" /\ ~NewRow(t).mark /\ NewRow(t).tries = 0
    BY NewRowType
  <2>5. LedgerMatches(NewRow(t), {})
    BY <2>4 DEF LedgerMatches
  <2> QED
    BY <1>1, <2>1, <2>2, <2>3, <2>4, <2>5 DEF RowSound
<1>2. CASE r \notin S
  BY <1>2, RowLeft DEF Insert
<1> QED
  BY <1>1, <1>2

LEMMA ServiceSound ==
  ASSUME IInv, ServiceStep
  PROVE  /\ RowsFollowIntake'
         /\ \A r \in Rows : RowSound(r)'
         /\ \A r \in Rows, w \in Workers : LeavesClaim(r, w)
<1> DEFINE Goal == /\ RowsFollowIntake'
                   /\ \A r \in Rows : RowSound(r)'
                   /\ \A r \in Rows, w \in Workers : LeavesClaim(r, w)
<1>0. /\ TypeOK /\ RowsFollowIntake /\ JobsSound
      /\ \A r \in Rows : RowSound(r)
  BY IInvParts
<1>1. ASSUME NEW c \in Consultations, AcceptConsultation(c)
      PROVE  Goal
  <2>1. PICK t \in Stamps, marketing \in BOOLEAN :
          /\ consult' = [consult EXCEPT ![c] =
               [received |-> TRUE, at |-> t, marketing |-> marketing,
                withdrawn |-> FALSE, purged |-> FALSE,
                expires |-> t + IF marketing THEN MarketingRetention
                                             ELSE PrivacyRetention]]
          /\ Insert({r \in Rows : /\ ConsultationOf[r] = c
                                  /\ OriginOf[r] = "received"
                                  /\ PurposeOf[r] = "marketing" => marketing}, t)
    BY <1>1 DEF AcceptConsultation
  <2> DEFINE S == {r \in Rows : /\ ConsultationOf[r] = c
                                /\ OriginOf[r] = "received"
                                /\ PurposeOf[r] = "marketing" => marketing}
  <2>2. \A r \in S : row[r].state = "absent"
    BY <1>0, <1>1 DEF AcceptConsultation, RowsFollowIntake
  <2>3. \A r \in Rows : /\ RowSound(r)'
                        /\ row'[r] = row[r] \/ (row'[r].state = "pending" /\ r \in S)
    BY <1>0, <1>1, <2>1, <2>2, StampType, InsertSound DEF AcceptConsultation
  <2>4. \A d \in Consultations : consult[d].received => consult'[d].received
    BY <1>0, <2>1 DEF TypeOK
  <2>5. consult'[c].received
    BY <1>0, <2>1 DEF TypeOK
  <2>6. RowsFollowIntake'
    BY <1>0, <2>3, <2>4, <2>5, RowAssumption DEF RowsFollowIntake
  <2> QED
    BY <1>1, <2>3, <2>6 DEF LeavesClaim, AcceptConsultation
<1>2. ASSUME NEW c \in Consultations, ChangeStatus(c)
      PROVE  Goal
  <2>1. PICK t \in Stamps,
             S \in SUBSET {r \in Rows : /\ ConsultationOf[r] = c
                                        /\ OriginOf[r] = "status"
                                        /\ row[r].state = "absent"} : Insert(S, t)
    BY <1>2 DEF ChangeStatus
  <2>2. \A r \in Rows : /\ RowSound(r)'
                        /\ row'[r] = row[r] \/ (row'[r].state = "pending" /\ r \in S)
    BY <1>0, <1>2, <2>1, StampType, InsertSound DEF ChangeStatus
  <2>3. RowsFollowIntake'
    BY <1>0, <1>2, <2>1, <2>2 DEF RowsFollowIntake, ChangeStatus
  <2> QED
    BY <1>2, <2>2, <2>3 DEF LeavesClaim, ChangeStatus
<1>3. ASSUME NEW c \in Consultations, WithdrawMarketing(c)
      PROVE  Goal
  <2>1. PICK S : CancelRows(S)
    BY <1>3 DEF WithdrawMarketing
  <2>2. \A r \in Rows : /\ RowSound(r)'
                        /\ row'[r] = row[r] \/ row'[r].state = "cancelled"
                        /\ row'[r] # row[r] => row[r].state # "absent"
    BY <1>0, <1>3, <2>1, CancelSound DEF WithdrawMarketing
  <2>3. \A d \in Consultations : consult[d].received => consult'[d].received
    BY <1>0, <1>3 DEF WithdrawMarketing, TypeOK, Consultation
  <2>4. RowsFollowIntake'
    BY <1>0, <2>2, <2>3, RowAssumption DEF RowsFollowIntake
  <2> QED
    BY <1>3, <2>2, <2>4 DEF LeavesClaim, WithdrawMarketing
<1>4. ASSUME NEW r \in Rows, QueueTest(r)
      PROVE  Goal
  <2>1. PICK t \in Stamps : Insert({r}, t)
    BY <1>4 DEF QueueTest
  <2>2. \A s \in Rows : /\ RowSound(s)'
                        /\ row'[s] = row[s] \/ (row'[s].state = "pending" /\ s \in {r})
    BY <1>0, <1>4, <2>1, StampType, InsertSound DEF QueueTest
  <2>3. RowsFollowIntake'
    BY <1>0, <1>4, <2>2 DEF RowsFollowIntake, QueueTest
  <2> QED
    BY <1>4, <2>2, <2>3 DEF LeavesClaim, QueueTest
<1>5. ASSUME NEW r \in Rows, RequeueFailed(r)
      PROVE  Goal
  <2>1. PICK t \in Stamps : row' = [row EXCEPT ![r] = Requeued(@, t)]
    BY <1>5 DEF RequeueFailed
  <2>2. row[r] \in QueueRow /\ ledger[r] \in SUBSET Attempt /\ RowSound(r) /\ t \in Nat
    BY <1>0, StampType DEF TypeOK
  <2>3. row'[r] = Requeued(row[r], t) /\ handed'[r] = 0 /\ ledger' = ledger
    BY <1>0, <1>5, <2>1 DEF RequeueFailed, TypeOK
  <2>4. Requeued(row[r], t).state = "pending" /\ ~Requeued(row[r], t).mark
          /\ Requeued(row[r], t).tries = 0
    BY <2>2, RequeuedType
  <2>5. LedgerMatches(Requeued(row[r], t), ledger[r])
    BY <1>5, <2>2, RequeueMatches DEF RequeueFailed, RowSound
  <2>6. RowSound(r)'
    BY <2>3, <2>4, <2>5, TimingAssumption DEF RowSound
  <2>7. \A s \in Rows : s # r => row'[s] = row[s] /\ handed'[s] = handed[s] /\ RowSound(s)'
    BY <1>0, <1>5, <2>1, <2>3, RowLeft DEF RequeueFailed, TypeOK
  <2>8. RowsFollowIntake'
    BY <1>0, <1>5, <2>7 DEF RowsFollowIntake, RequeueFailed
  <2> QED
    BY <2>3, <2>4, <2>6, <2>7, <2>8 DEF LeavesClaim
<1>6. ASSUME NEW ch \in Switchable, SetChannel(ch)
      PROVE  Goal
  BY <1>0, <1>6, RowLeft DEF SetChannel, LeavesClaim, RowsFollowIntake
<1>7. ASSUME PurgeExpired
      PROVE  Goal
  <2>1. PICK S : CancelRows(S)
    BY <1>7 DEF PurgeExpired
  <2>2. \A r \in Rows : /\ RowSound(r)'
                        /\ row'[r] = row[r] \/ row'[r].state = "cancelled"
                        /\ row'[r] # row[r] => row[r].state # "absent"
    BY <1>0, <1>7, <2>1, CancelSound DEF PurgeExpired
  <2>3. \A d \in Consultations : consult[d].received => consult'[d].received
    BY <1>0, <1>7 DEF PurgeExpired, TypeOK, Consultation
  <2>4. RowsFollowIntake'
    BY <1>0, <2>2, <2>3, RowAssumption DEF RowsFollowIntake
  <2> QED
    BY <1>7, <2>2, <2>4 DEF LeavesClaim, PurgeExpired
<1> QED
  BY <1>1, <1>2, <1>3, <1>4, <1>5, <1>6, <1>7 DEF ServiceStep

\* Steps of a worker that touch no row, and leave it with nothing to answer
\* for: its stage is one without obligations, or one that inherits them.
LEMMA QuietStep ==
  ASSUME IInv, NEW w \in Workers, NEW s, UNCHANGED <<row, ledger, consult, handed>>,
         GoTo(w, s) \/ GoIdle(w),
         \/ s \in {"failing", "cancelling", "idle", "loaded"}
         \/ job[w].stage \in {"claimed", "minting", "preparing"}
              /\ s \in {"minting", "preparing"}
         \/ job[w].stage \in {"delivering", "accepted"} /\ s = "accepted"
         \/ GoIdle(w)
  PROVE  /\ RowsFollowIntake'
         /\ \A r \in Rows : RowSound(r)'
         /\ \A v \in Workers : WorkerSound(v)'
<1>0. /\ TypeOK /\ RowsFollowIntake /\ JobsSound
      /\ \A r \in Rows : RowSound(r)
      /\ \A v \in Workers : WorkerSound(v)
  BY IInvParts
<1>1. RowsFollowIntake' /\ \A r \in Rows : RowSound(r)'
  BY <1>0, RowLeft DEF RowsFollowIntake
<1>2. ASSUME NEW v \in Workers, v # w
      PROVE  WorkerSound(v)'
  BY <1>0, <1>2, ClaimLeft DEF LeavesClaim, GoTo, GoIdle, TypeOK
<1>3. WorkerSound(w)'
  <2>1. CASE GoIdle(w)
    BY <1>0, <2>1 DEF GoIdle, IdleJob, WorkerSound, Current, TypeOK
  <2>2. CASE GoTo(w, s)
    <3>1. job[w] \in Job
      BY <1>0 DEF TypeOK
    <3>2. /\ job'[w].stage = s /\ job'[w].row = job[w].row
          /\ job'[w].cycle = job[w].cycle /\ job'[w].no = job[w].no
      BY <1>0, <2>2, <3>1 DEF GoTo, TypeOK, Job
    <3>3. CASE job[w].stage \in {"claimed", "minting", "preparing"}
                 /\ s \in {"minting", "preparing"}
      BY <1>0, <3>2, <3>3 DEF WorkerSound, Current
    <3>4. CASE job[w].stage \in {"delivering", "accepted"} /\ s = "accepted"
      BY <1>0, <3>2, <3>4 DEF WorkerSound, Current
    <3>5. CASE s \in {"failing", "cancelling", "idle", "loaded"}
      BY <3>2, <3>5 DEF WorkerSound, Current
    <3> QED
      BY <2>1, <2>2, <3>3, <3>4, <3>5
  <2> QED
    BY <2>1, <2>2
<1> QED
  BY <1>1, <1>2, <1>3

\* Closing a claim: its row leaves processing, its attempt is finished.
LEMMA ClosingStep ==
  ASSUME IInv, NEW w \in Workers, job[w].stage \notin {"idle", "loaded"},
         NEW t \in Stamps, OwnsClaim(w, t), NEW o \in Outcomes \ {"open"},
         FinishJob(w, o), NEW p \in QueueRow,
         row' = [row EXCEPT ![job[w].row] = p], GoIdle(w),
         p.state \in {"pending", "failed", "cancelled", "sent"},
         p.state = "sent" <=> o = "SENT",
         p.cycle = row[job[w].row].cycle, p.tries = row[job[w].row].tries, ~p.mark,
         UNCHANGED <<consult, handed>>
  PROVE  /\ RowsFollowIntake'
         /\ \A r \in Rows : RowSound(r)'
         /\ \A v \in Workers : WorkerSound(v)'
<1>0. /\ TypeOK /\ RowsFollowIntake /\ JobsSound
      /\ \A r \in Rows : RowSound(r)
      /\ \A v \in Workers : WorkerSound(v)
  BY IInvParts
<1>1. PICK r \in Rows : /\ r = job[w].row
                        /\ row[r].state = "processing"
                        /\ row[r].cycle = job[w].cycle /\ row[r].tries = job[w].no
  BY <1>0 DEF OwnsClaim, OwnsLive, JobsSound
<1>2. row'[r] = p /\ \A s \in Rows : s # r => row'[s] = row[s] /\ ledger'[s] = ledger[s]
  BY <1>0, <1>1 DEF TypeOK, FinishJob
<1>3. ledger'[r] = Finished(ledger[r], OpenAttempt(ledger[r], row[r].cycle, row[r].tries), o)
  BY <1>0, <1>1 DEF TypeOK, FinishJob
<1>4. RowSound(r)'
  BY <1>0, <1>1, <1>2, <1>3, FinishSound
<1>5. \A s \in Rows : RowSound(s)'
  BY <1>0, <1>2, <1>4, RowLeft
<1>6. \A s \in Rows, v \in Workers : LeavesClaim(s, v)
  BY <1>2 DEF LeavesClaim
<1>7. RowsFollowIntake'
  BY <1>0, <1>1, <1>2 DEF RowsFollowIntake
<1>8. ASSUME NEW v \in Workers
      PROVE  WorkerSound(v)'
  <2>1. CASE v # w
    BY <1>0, <1>6, <2>1, ClaimLeft DEF GoIdle, TypeOK
  <2>2. CASE v = w
    BY <1>0, <2>2 DEF GoIdle, IdleJob, WorkerSound, Current, TypeOK
  <2> QED
    BY <2>1, <2>2
<1> QED
  BY <1>5, <1>7, <1>8

LEMMA ClaimSound ==
  ASSUME IInv, NEW w \in Workers, NEW r \in Rows, Claim(w, r)
  PROVE  /\ RowsFollowIntake'
         /\ \A s \in Rows : RowSound(s)'
         /\ \A v \in Workers : WorkerSound(v)'
<1>0. /\ TypeOK /\ RowsFollowIntake /\ JobsSound
      /\ \A s \in Rows : RowSound(s)
      /\ \A v \in Workers : WorkerSound(v)
  BY IInvParts
<1>1. PICK t \in Stamps :
        LET q == Leased(RecoveredRow(r, t), w, t) IN
        /\ r \in Claimable(t)
        /\ row' = [s \in Rows |-> IF s = r THEN q ELSE RecoveredRow(s, t)]
        /\ ledger' = [s \in Rows |->
             RecoveredLedger(s, t) \cup IF s = r THEN {NewAttempt(q)} ELSE {}]
        /\ job' = [job EXCEPT ![w] = JobFor(@, r, q)]
  BY DEF Claim
<1> DEFINE p == RecoveredRow(r, t)
           q == Leased(p, w, t)
<1>2. t \in Nat /\ UNCHANGED <<consult, handed>>
  BY <1>0, StampType DEF Claim
<1>3. p \in QueueRow /\ RecoveredLedger(r, t) \in SUBSET Attempt
  BY <1>0, <1>2, RecoveredType
<1>4. /\ LedgerMatches(p, RecoveredLedger(r, t))
      /\ p.mark => p.state = "processing" /\ handed[r] > 0
      /\ p.tries = row[r].tries
  BY <1>0, <1>2, RecoverSound
<1>5. p.state = "pending" /\ p.tries < MaxAttempts
  BY <1>1 DEF Claimable
<1>6. /\ q \in QueueRow /\ q.state = "processing" /\ q.owner = w
      /\ q.cycle = p.cycle /\ q.tries = p.tries + 1 /\ q.mark = p.mark
  BY <1>2, <1>3, LeasedType
<1>7. LedgerMatches(q, RecoveredLedger(r, t) \cup {NewAttempt(q)})
  BY <1>2, <1>3, <1>4, <1>5, LeaseMatches
<1>8. /\ row'[r] = q
      /\ ledger'[r] = RecoveredLedger(r, t) \cup {NewAttempt(q)}
      /\ \A s \in Rows : s # r => /\ row'[s] = RecoveredRow(s, t)
                                  /\ ledger'[s] = RecoveredLedger(s, t)
  BY <1>1
<1>9. p.tries \in Nat /\ handed[r] \in Nat /\ handed[r] <= p.tries
  BY <1>0, <1>3, <1>4 DEF TypeOK, RowSound, QueueRow
<1> HIDE DEF p, q
<1>10. RowSound(r)'
  BY <1>2, <1>4, <1>5, <1>6, <1>7, <1>8, <1>9, TimingAssumption DEF RowSound
<1>11. ASSUME NEW s \in Rows, s # r
       PROVE  RowSound(s)' /\ (row'[s] = row[s] \/ row'[s].state # "processing")
  BY <1>0, <1>2, <1>8, <1>11, RecoverSound DEF RowSound
<1>12. RowsFollowIntake'
  <2>1. row[r].state # "absent"
    BY <1>5 DEF p, RecoveredRow, LeaseExpired
  <2>2. \A s \in Rows : row[s].state = "absent" => RecoveredRow(s, t) = row[s]
    BY DEF RecoveredRow, LeaseExpired
  <2> QED
    BY <1>0, <1>2, <1>8, <2>1, <2>2 DEF RowsFollowIntake
<1>13. ASSUME NEW v \in Workers
       PROVE  WorkerSound(v)'
  <2>1. CASE v # w
    <3>1. job'[v] = job[v]
      BY <1>0, <1>1, <2>1 DEF TypeOK
    <3>2. \A s \in Rows : LeavesClaim(s, v)
      BY <1>2, <1>6, <1>8, <1>11, <2>1 DEF LeavesClaim
    <3> QED
      BY <1>0, <3>1, <3>2, ClaimLeft
  <2>2. CASE v = w
    <3>1. job'[w] = JobFor(job[w], r, q) /\ job[w] \in Job
      BY <1>0, <1>1 DEF TypeOK, p, q
    <3>2. job'[w].stage = "claimed" /\ job'[w].row = r
      BY <1>6, <3>1, JobForType
    <3> QED
      BY <1>2, <1>6, <1>8, <1>9, <2>2, <3>2 DEF WorkerSound
  <2> QED
    BY <2>1, <2>2
<1> QED
  BY <1>10, <1>11, <1>12, <1>13

\* The hand-over: the worker's attempt is used, and the row is marked when
\* the transaction commits.
LEMMA HandoffSound ==
  ASSUME IInv, NEW w \in Workers, Handoff(w) \/ HandoffUncommitted(w)
  PROVE  /\ RowsFollowIntake'
         /\ \A r \in Rows : RowSound(r)'
         /\ \A v \in Workers : WorkerSound(v)'
<1>0. /\ TypeOK /\ RowsFollowIntake /\ JobsSound
      /\ \A r \in Rows : RowSound(r)
      /\ \A v \in Workers : WorkerSound(v)
  BY IInvParts
<1>1. /\ AtStage(w, "preparing") /\ OwnsLive(w, now) /\ HandOver(job[w].row)
      /\ UNCHANGED <<consult, ledger>>
  BY DEF Handoff, HandoffUncommitted
<1>2. PICK r \in Rows : r = job[w].row
  BY <1>0, <1>1 DEF AtStage, JobsSound
<1>3. Current(w) /\ row[r].owner = w /\ row[r].state = "processing"
  BY <1>1, <1>2 DEF Current, OwnsLive, AtStage
<1>4. row[r] \in QueueRow /\ handed[r] \in Nat /\ row[r].tries \in Nat
  BY <1>0 DEF TypeOK, QueueRow
<1>5. handed[r] < row[r].tries
  BY <1>0, <1>1, <1>2, <1>3 DEF WorkerSound, AtStage
<1>6. handed'[r] = handed[r] + 1 /\ \A s \in Rows : s # r => handed'[s] = handed[s]
  BY <1>0, <1>1, <1>2 DEF HandOver, TypeOK
<1>7. /\ row'[r].state = row[r].state /\ row'[r].cycle = row[r].cycle
      /\ row'[r].tries = row[r].tries /\ row'[r].owner = w
      /\ \A s \in Rows : s # r => row'[s] = row[s]
  <2>1. CASE Handoff(w)
    BY <1>0, <1>2, <1>3, <1>4, <2>1 DEF Handoff, TypeOK, QueueRow
  <2>2. CASE HandoffUncommitted(w)
    BY <1>3, <2>2 DEF HandoffUncommitted
  <2> QED
    BY <2>1, <2>2
<1>8. LedgerMatches(row'[r], ledger[r])
  BY <1>0, <1>7, SameMatches DEF RowSound
<1>9. RowSound(r)'
  BY <1>0, <1>1, <1>3, <1>4, <1>5, <1>6, <1>7, <1>8 DEF RowSound
<1>10. \A s \in Rows : RowSound(s)'
  BY <1>0, <1>1, <1>6, <1>7, <1>9, RowLeft
<1>11. RowsFollowIntake'
  BY <1>0, <1>1, <1>3, <1>7 DEF RowsFollowIntake
<1>12. ASSUME NEW v \in Workers
       PROVE  WorkerSound(v)'
  <2>1. CASE v # w
    <3>1. job'[v] = job[v]
      BY <1>0, <2>1 DEF Handoff, HandoffUncommitted, GoTo, TypeOK
    <3>2. \A s \in Rows : LeavesClaim(s, v)
      BY <1>6, <1>7, <2>1 DEF LeavesClaim
    <3> QED
      BY <1>0, <3>1, <3>2, ClaimLeft
  <2>2. CASE v = w
    <3>1. job[w] \in Job
      BY <1>0 DEF TypeOK
    <3>2. CASE Handoff(w)
      <4>1. job'[w].stage = "delivering" /\ job'[w].row = r
        BY <1>0, <1>2, <3>1, <3>2 DEF Handoff, GoTo, TypeOK, Job
      <4>2. row'[r].mark
        BY <1>0, <1>2, <1>4, <3>2 DEF Handoff, TypeOK, QueueRow
      <4> QED
        BY <2>2, <4>1, <4>2 DEF WorkerSound
    <3>3. CASE HandoffUncommitted(w)
      <4>1. job'[w].stage = "failing"
        BY <1>0, <3>1, <3>3 DEF HandoffUncommitted, GoTo, TypeOK, Job
      <4> QED
        BY <2>2, <4>1 DEF WorkerSound
    <3> QED
      BY <3>2, <3>3
  <2> QED
    BY <2>1, <2>2
<1> QED
  BY <1>10, <1>11, <1>12

LEMMA WorkerStepSound ==
  ASSUME IInv, NEW w \in Workers, WorkerStep(w) \/ Crash(w)
  PROVE  /\ RowsFollowIntake'
         /\ \A r \in Rows : RowSound(r)'
         /\ \A v \in Workers : WorkerSound(v)'
<1> DEFINE Goal == /\ RowsFollowIntake'
                   /\ \A r \in Rows : RowSound(r)'
                   /\ \A v \in Workers : WorkerSound(v)'
<1>0. /\ TypeOK /\ RowsFollowIntake /\ JobsSound
      /\ \A r \in Rows : RowSound(r)
      /\ \A v \in Workers : WorkerSound(v)
  BY IInvParts
<1>1. CASE LoadAdapters(w)
  <2>1. RowsFollowIntake' /\ \A r \in Rows : RowSound(r)'
    BY <1>0, <1>1, RowLeft DEF LoadAdapters, RowsFollowIntake
  <2>2. ASSUME NEW v \in Workers, v # w
        PROVE  WorkerSound(v)'
    BY <1>0, <1>1, <2>2, ClaimLeft DEF LeavesClaim, LoadAdapters, TypeOK
  <2>3. job'[w].stage = "loaded"
    BY <1>0, <1>1 DEF LoadAdapters, IdleJob, TypeOK
  <2>4. WorkerSound(w)'
    BY <2>3 DEF WorkerSound
  <2> QED
    BY <2>1, <2>2, <2>4
<1>2. CASE ClaimNone(w)
  <2>1. PICK t \in Stamps : /\ row' = [r \in Rows |-> RecoveredRow(r, t)]
                            /\ ledger' = [r \in Rows |-> RecoveredLedger(r, t)]
    BY <1>2 DEF ClaimNone
  <2>2. t \in Nat /\ UNCHANGED <<consult, handed>>
    BY <1>0, <1>2, StampType DEF ClaimNone
  <2>3. \A r \in Rows : RowSound(r)' /\ (row'[r] = row[r] \/ row'[r].state # "processing")
    BY <1>0, <2>1, <2>2, RecoverSound DEF RowSound
  <2>4. RowsFollowIntake'
    <3>1. \A r \in Rows : row[r].state = "absent" => RecoveredRow(r, t) = row[r]
      BY DEF RecoveredRow, LeaseExpired
    <3> QED
      BY <1>0, <2>1, <2>2, <3>1 DEF RowsFollowIntake
  <2>5. \A r \in Rows, v \in Workers : LeavesClaim(r, v)
    BY <2>2, <2>3 DEF LeavesClaim
  <2>6. ASSUME NEW v \in Workers
        PROVE  WorkerSound(v)'
    <3>1. CASE v # w
      BY <1>0, <1>2, <2>5, <3>1, ClaimLeft DEF ClaimNone, GoIdle, TypeOK
    <3>2. CASE v = w
      BY <1>0, <1>2, <3>2 DEF ClaimNone, GoIdle, IdleJob, WorkerSound, Current, TypeOK
    <3> QED
      BY <3>1, <3>2
  <2> QED
    BY <2>3, <2>4, <2>6
<1>3. ASSUME NEW r \in Rows, Claim(w, r)
      PROVE  Goal
  BY <1>3, ClaimSound
<1>4. CASE Check(w)
  BY <1>4, QuietStep DEF Check, AtStage
<1>5. CASE Mint(w)
  BY <1>5, QuietStep DEF Mint, AtStage
<1>6. CASE PrepareFails(w) \/ HandoffRefused(w) \/ HandoffLost(w)
  BY <1>6, QuietStep DEF PrepareFails, HandoffRefused, HandoffLost
<1>7. CASE Handoff(w) \/ HandoffUncommitted(w)
  BY <1>7, HandoffSound
<1>8. CASE DeliveryAnswered(w)
  BY <1>8, QuietStep DEF DeliveryAnswered, AtStage
<1>9. CASE FinalizeSuccess(w)
  <2>1. CASE GoTo(w, "failing") /\ UNCHANGED <<row, ledger>>
    BY <1>9, <2>1, QuietStep DEF FinalizeSuccess
  <2>2. ASSUME NEW t \in Stamps, OwnsClaim(w, t), FinishJob(w, "SENT"),
               row' = [row EXCEPT ![job[w].row] = Unlocked(@, "sent")], GoIdle(w)
        PROVE  Goal
    <3>1. job[w].row \in Rows /\ row[job[w].row] \in QueueRow
      BY <1>0, <1>9 DEF FinalizeSuccess, AtStage, JobsSound, TypeOK
    <3> DEFINE p == Unlocked(row[job[w].row], "sent")
    <3>2. /\ p \in QueueRow /\ p.state = "sent" /\ ~p.mark
          /\ p.cycle = row[job[w].row].cycle /\ p.tries = row[job[w].row].tries
      BY <3>1, UnlockedType DEF RowStates
    <3>3. "SENT" \in Outcomes \ {"open"}
      BY DEF Outcomes
    <3> HIDE DEF p
    <3>4. row' = [row EXCEPT ![job[w].row] = p]
      BY <2>2 DEF p
    <3> QED
      BY <1>9, <2>2, <3>2, <3>3, <3>4, ClosingStep DEF FinalizeSuccess, AtStage
  <2> QED
    BY <1>9, <2>1, <2>2 DEF FinalizeSuccess
<1>10. CASE FinalizeFailure(w)
  <2>1. CASE UNCHANGED <<row, ledger>>
    BY <1>10, <2>1, QuietStep DEF FinalizeFailure
  <2>2. ASSUME NEW t \in Stamps, OwnsClaim(w, t), FinishJob(w, "FAILED"),
               row' = [row EXCEPT ![job[w].row] =
                 IF job[w].no >= MaxAttempts
                 THEN Released(@, "failed", t)
                 ELSE Released(@, "pending", t + RetryDelay[job[w].no])]
        PROVE  Goal
    <3>1. /\ job[w].row \in Rows /\ row[job[w].row] \in QueueRow
          /\ job[w].no \in 1..MaxAttempts
      BY <1>0, <1>10 DEF FinalizeFailure, AtStage, JobsSound, TypeOK
    <3>2. t \in Nat /\ (~(job[w].no >= MaxAttempts) => t + RetryDelay[job[w].no] \in Nat)
      BY <1>0, <3>1, StampType, TimingAssumption
    <3>3. PICK s \in {"failed", "pending"}, u \in Nat :
            row' = [row EXCEPT ![job[w].row] = Released(@, s, u)]
      BY <2>2, <3>2
    <3> DEFINE p == Released(row[job[w].row], s, u)
    <3>4. /\ p \in QueueRow /\ p.state = s /\ ~p.mark
          /\ p.cycle = row[job[w].row].cycle /\ p.tries = row[job[w].row].tries
      <4>1. s \in RowStates
        BY DEF RowStates
      <4> QED
        BY <3>1, <4>1, ReleasedType
    <3>5. "FAILED" \in Outcomes \ {"open"}
      BY DEF Outcomes
    <3> HIDE DEF p
    <3>6. row' = [row EXCEPT ![job[w].row] = p]
      BY <3>3 DEF p
    <3> QED
      BY <1>10, <2>2, <3>4, <3>5, <3>6, ClosingStep DEF FinalizeFailure, AtStage
  <2> QED
    BY <1>10, <2>1, <2>2 DEF FinalizeFailure
<1>11. CASE CancelClaimed(w)
  <2>1. CASE UNCHANGED <<row, ledger>>
    BY <1>11, <2>1, QuietStep DEF CancelClaimed
  <2>2. ASSUME NEW t \in Stamps, OwnsClaim(w, t), FinishJob(w, "CANCELLED"),
               row' = [row EXCEPT ![job[w].row] = Unlocked(@, "cancelled")]
        PROVE  Goal
    <3>1. job[w].row \in Rows /\ row[job[w].row] \in QueueRow
      BY <1>0, <1>11 DEF CancelClaimed, AtStage, JobsSound, TypeOK
    <3> DEFINE p == Unlocked(row[job[w].row], "cancelled")
    <3>2. /\ p \in QueueRow /\ p.state = "cancelled" /\ ~p.mark
          /\ p.cycle = row[job[w].row].cycle /\ p.tries = row[job[w].row].tries
      BY <3>1, UnlockedType DEF RowStates
    <3>3. "CANCELLED" \in Outcomes \ {"open"}
      BY DEF Outcomes
    <3> HIDE DEF p
    <3>4. row' = [row EXCEPT ![job[w].row] = p]
      BY <2>2 DEF p
    <3> QED
      BY <1>11, <2>2, <3>2, <3>3, <3>4, ClosingStep DEF CancelClaimed, AtStage
  <2> QED
    BY <1>11, <2>1, <2>2 DEF CancelClaimed
<1>12. CASE Crash(w)
  BY <1>12, QuietStep DEF Crash
<1> QED
  BY <1>1, <1>2, <1>3, <1>4, <1>5, <1>6, <1>7, <1>8, <1>9, <1>10, <1>11, <1>12
     DEF WorkerStep

LEMMA InitSound ==
  ASSUME Init
  PROVE  IInv
<1>1. TypeOK /\ JobsSound
  BY InitTypes
<1>2. RowsFollowIntake /\ \A w \in Workers : WorkerSound(w)
  BY DEF Init, RowsFollowIntake, AbsentRow, WorkerSound, Current, IdleJob
<1>3. ASSUME NEW r \in Rows
      PROVE  RowSound(r)
  <2>1. row[r] = AbsentRow /\ ledger[r] = {} /\ handed[r] = 0
    BY DEF Init
  <2>2. LedgerMatches(AbsentRow, {})
    BY DEF LedgerMatches, AbsentRow
  <2> QED
    BY <2>1, <2>2, TimingAssumption DEF RowSound, AbsentRow
<1> QED
  BY <1>1, <1>2, <1>3, IInvParts

LEMMA StepSound ==
  ASSUME IInv, [Next]_vars
  PROVE  IInv'
<1>0. /\ TypeOK /\ RowsFollowIntake /\ JobsSound
      /\ \A r \in Rows : RowSound(r)
      /\ \A w \in Workers : WorkerSound(w)
  BY IInvParts
<1>1. TypeOK' /\ JobsSound'
  BY <1>0, StepTypes
<1> DEFINE Goal == /\ RowsFollowIntake'
                   /\ \A r \in Rows : RowSound(r)'
                   /\ \A w \in Workers : WorkerSound(w)'
<1>2. ASSUME ServiceStep
      PROVE  Goal
  <2>1. \A w \in Workers : WorkerSound(w)'
    BY <1>0, <1>2, ServiceSound, ServiceKeepsJobs, ClaimLeft
  <2> QED
    BY <1>2, <2>1, ServiceSound
<1>3. ASSUME NEW w \in Workers, WorkerStep(w) \/ Crash(w)
      PROVE  Goal
  BY <1>3, WorkerStepSound
<1>4. ASSUME Tick \/ UNCHANGED vars
      PROVE  Goal
  <2>1. UNCHANGED <<consult, row, ledger, job, handed>>
    BY <1>4 DEF Tick, vars
  <2>2. \A w \in Workers : WorkerSound(w)'
    BY <1>0, <2>1, ClaimLeft DEF LeavesClaim
  <2> QED
    BY <1>0, <2>1, <2>2, RowLeft DEF RowsFollowIntake
<1>5. Goal
  BY <1>2, <1>3, <1>4 DEF Next
<1>6. IInv' <=> /\ TypeOK' /\ JobsSound' /\ RowsFollowIntake'
                /\ \A r \in Rows : RowSound(r)'
                /\ \A w \in Workers : WorkerSound(w)'
  BY DEF IInv, RowSound, WorkerSound, LedgerAgrees, MarkGuardsWire,
         AttemptUnused, HandoverBudget
<1> QED
  BY <1>1, <1>5, <1>6

-----------------------------------------------------------------------------
(* Theorems.                                                               *)

\* The invariant that carries the safety of the queue.
THEOREM Invariant == Spec => []IInv
  BY InitSound, StepSound, PTL DEF Spec

\* The attempt ledger and the queue never contradict each other, however
\* claims, recoveries, cancellations and late finalisations interleave.
THEOREM LedgerCorrect == Spec => []LedgerAgrees
<1>1. IInv => LedgerAgrees
  BY DEF IInv
<1> QED
  BY <1>1, Invariant, PTL

\* A message on the wire keeps its mark and no other delivery inherits one.
THEOREM MarkCorrect == Spec => []MarkGuardsWire
<1>1. IInv => MarkGuardsWire
  BY DEF IInv
<1> QED
  BY <1>1, Invariant, PTL

\* At most MaxAttempts hand-overs per delivery cycle, one per recorded attempt.
THEOREM BudgetCorrect == Spec => []HandoverBudget
<1>1. IInv => HandoverBudget
  BY DEF IInv
<1> QED
  BY <1>1, Invariant, PTL

\* Handing over is the work of the two hand-over steps alone.
LEMMA OnlyHandoffHands ==
  ASSUME TypeOK, JobsSound, [Next]_vars, NEW r \in Rows, handed'[r] > handed[r]
  PROVE  \E w \in Workers : /\ Handoff(w) \/ HandoffUncommitted(w)
                            /\ r = job[w].row
<1>1. handed[r] \in Nat
  BY DEF TypeOK
<1>2. handed' # handed /\ ~(handed'[r] = 0)
  BY <1>1
<1>3. ~ServiceStep
  <2>1. \A c \in Consultations :
          AcceptConsultation(c) \/ ChangeStatus(c) \/ WithdrawMarketing(c)
            => handed' = handed
    BY DEF AcceptConsultation, ChangeStatus, WithdrawMarketing
  <2>2. \A s \in Rows : QueueTest(s) => handed' = handed
    BY DEF QueueTest
  <2>3. ASSUME NEW s \in Rows, RequeueFailed(s)
        PROVE  FALSE
    <3>1. handed' = [handed EXCEPT ![s] = 0]
      BY <2>3 DEF RequeueFailed
    <3>2. handed'[r] = handed[r] \/ handed'[r] = 0
      BY <3>1 DEF TypeOK
    <3> QED
      BY <1>1, <1>2, <3>2
  <2>4. \A ch \in Switchable : SetChannel(ch) => handed' = handed
    BY DEF SetChannel
  <2>5. PurgeExpired => handed' = handed
    BY DEF PurgeExpired
  <2> QED
    BY <1>2, <2>1, <2>2, <2>3, <2>4, <2>5 DEF ServiceStep
<1>4. PICK w \in Workers : WorkerStep(w) \/ Crash(w)
  BY <1>2, <1>3 DEF Next, Tick, vars
<1>5. Handoff(w) \/ HandoffUncommitted(w)
  BY <1>2, <1>4 DEF WorkerStep, LoadAdapters, ClaimNone, Claim, Check, Mint,
     PrepareFails, HandoffRefused, HandoffLost, DeliveryAnswered,
     FinalizeSuccess, FinalizeFailure, CancelClaimed, Crash
<1>6. HandOver(job[w].row)
  BY <1>5 DEF Handoff, HandoffUncommitted
<1>7. r = job[w].row
  BY <1>1, <1>6 DEF HandOver, TypeOK
<1> QED
  BY <1>5, <1>7

\* No message of a purged, expired or withdrawn consultation is handed to a
\* provider: the last look and the hand-over are one step.
THEOREM ContactCorrect == Spec => NoContactAfterRevocation
<1> DEFINE Allowed(r) ==
             LET c == consult[ConsultationOf[r]] IN
             /\ PurposeOf[r] # "test" => ~c.purged /\ now < c.expires
             /\ PurposeOf[r] = "marketing" => c.marketing /\ ~c.withdrawn
<1>1. IInv /\ [Next]_vars =>
        \A r \in Rows : handed'[r] > handed[r] => Allowed(r)
  <2> SUFFICES ASSUME IInv, [Next]_vars, NEW r \in Rows, handed'[r] > handed[r]
               PROVE  Allowed(r)
    OBVIOUS
  <2>1. TypeOK /\ JobsSound
    BY DEF IInv
  <2>2. PICK w \in Workers : /\ Handoff(w) \/ HandoffUncommitted(w)
                             /\ r = job[w].row
    BY <2>1, OnlyHandoffHands
  <2>3. ~Refused(r, now)
    BY <2>2 DEF Handoff, HandoffUncommitted
  <2>4. consult[ConsultationOf[r]].expires \in Nat /\ now \in Nat
    BY <2>1, RowAssumption DEF TypeOK, Consultation
  <2> QED
    BY <2>3, <2>4 DEF Refused, Erased, Expired, Revoked
<1>2. Spec => [][\A r \in Rows : handed'[r] > handed[r] => Allowed(r)]_vars
  BY <1>1, Invariant, PTL DEF Spec
<1> QED
  BY <1>2 DEF NoContactAfterRevocation

\* Finishing open attempts leaves the finished ones alone.
LEMMA FinishKeeps ==
  ASSUME NEW L, NEW A, NEW o, \A a \in A : a.outcome = "open",
         NEW a \in L, a.outcome # "open"
  PROVE  a \in Finished(L, A, o)
  BY DEF Finished

LEMMA RecoverKeeps ==
  ASSUME NEW r \in Rows, NEW t, NEW a \in ledger[r], a.outcome # "open"
  PROVE  a \in RecoveredLedger(r, t)
<1>1. \A b \in OpenAttempt(ledger[r], row[r].cycle, row[r].tries) : b.outcome = "open"
  BY DEF OpenAttempt
<1> QED
  BY <1>1, FinishKeeps DEF RecoveredLedger

LEMMA FinishJobKeeps ==
  ASSUME TypeOK, NEW w \in Workers, NEW o, FinishJob(w, o),
         NEW r \in Rows, NEW a \in ledger[r], a.outcome # "open"
  PROVE  a \in ledger'[r]
<1> DEFINE A == OpenAttempt(ledger[r], job[w].cycle, job[w].no)
<1>1. a \in Finished(ledger[r], A, o)
  <2>1. \A b \in A : b.outcome = "open"
    BY DEF OpenAttempt
  <2> HIDE DEF A
  <2> QED
    BY <2>1, FinishKeeps
<1>2. ledger'[r] = ledger[r] \/ ledger'[r] = Finished(ledger[r], A, o)
  BY DEF FinishJob, TypeOK
<1> QED
  BY <1>1, <1>2

LEMMA CancelKeeps ==
  ASSUME TypeOK, NEW S, CancelRows(S),
         NEW r \in Rows, NEW a \in ledger[r], a.outcome # "open"
  PROVE  a \in ledger'[r]
<1>1. a \in Finished(ledger[r], OpenAttempts(ledger[r]), "REVOKED")
  BY FinishKeeps DEF OpenAttempts
<1> QED
  BY <1>1 DEF CancelRows

LEMMA StepKeeps ==
  ASSUME TypeOK, [Next]_vars, NEW r \in Rows, NEW a \in ledger[r], a.outcome # "open"
  PROVE  a \in ledger'[r]
<1>1. ASSUME ServiceStep
      PROVE  a \in ledger'[r]
  <2>1. CASE UNCHANGED ledger
    BY <2>1
  <2>2. ASSUME NEW S, CancelRows(S)
        PROVE  a \in ledger'[r]
    BY <2>2, CancelKeeps
  <2> QED
    BY <1>1, <2>1, <2>2 DEF ServiceStep, AcceptConsultation, ChangeStatus,
       WithdrawMarketing, QueueTest, RequeueFailed, SetChannel, PurgeExpired
<1>2. ASSUME NEW w \in Workers, WorkerStep(w) \/ Crash(w)
      PROVE  a \in ledger'[r]
  <2>1. CASE UNCHANGED ledger
    BY <2>1
  <2>2. CASE ClaimNone(w)
    BY <2>2, RecoverKeeps DEF ClaimNone
  <2>3. ASSUME NEW s \in Rows, Claim(w, s)
        PROVE  a \in ledger'[r]
    BY <2>3, RecoverKeeps DEF Claim
  <2>4. ASSUME NEW o, FinishJob(w, o)
        PROVE  a \in ledger'[r]
    BY <2>4, FinishJobKeeps
  <2>5. FinalizeSuccess(w) \/ FinalizeFailure(w) \/ CancelClaimed(w)
          => UNCHANGED ledger \/ \E o : FinishJob(w, o)
    BY DEF FinalizeSuccess, FinalizeFailure, CancelClaimed
  <2>6. LoadAdapters(w) \/ Check(w) \/ Mint(w) \/ PrepareFails(w) \/ Handoff(w)
          \/ HandoffUncommitted(w) \/ HandoffRefused(w) \/ HandoffLost(w)
          \/ DeliveryAnswered(w) \/ Crash(w)
          => UNCHANGED ledger
    BY DEF LoadAdapters, Check, Mint, PrepareFails, Handoff, HandoffUncommitted,
       HandoffRefused, HandoffLost, DeliveryAnswered, Crash
  <2> QED
    BY <1>2, <2>1, <2>2, <2>3, <2>4, <2>5, <2>6 DEF WorkerStep
<1>3. Tick \/ UNCHANGED vars => ledger' = ledger
  BY DEF Tick, vars
<1> QED
  BY <1>1, <1>2, <1>3 DEF Next

\* A recorded outcome is never rewritten: not by a second finalisation, a
\* recovery, a cancellation, nor by the attempts of a later cycle.
THEOREM OutcomesCorrect == Spec => OutcomesAreFinal
<1>1. IInv /\ [Next]_vars =>
        \A r \in Rows : \A a \in ledger[r] : a.outcome # "open" => a \in ledger'[r]
  BY StepKeeps DEF IInv
<1>2. Spec => [][\A r \in Rows : \A a \in ledger[r] :
                   a.outcome # "open" => a \in ledger'[r]]_vars
  BY <1>1, Invariant, PTL DEF Spec
<1> QED
  BY <1>2 DEF OutcomesAreFinal

\* A marked row in processing is cancelled by nobody but its owner.
LEMMA WireHolds ==
  ASSUME IInv, [Next]_vars, NEW w \in Workers, Current(w),
         job[w].stage \in {"delivering", "accepted"}
  PROVE  row'[job[w].row].state # "cancelled"
<1>0. TypeOK /\ JobsSound /\ RowsFollowIntake
  BY DEF IInv
<1>1. PICK r \in Rows : r = job[w].row
  BY <1>0 DEF Current, JobsSound
<1>2. row[r].state = "processing" /\ row[r].owner = w /\ row[r].mark
  BY <1>1 DEF IInv, MarkGuardsWire, Current
<1>3. row[r] \in QueueRow
  BY <1>0 DEF TypeOK
<1> DEFINE Goal == row'[r].state # "cancelled"
<1>4. ASSUME ServiceStep
      PROVE  Goal
  <2>1. ASSUME NEW S, CancelRows(S)
        PROVE  Goal
    BY <1>2, <2>1 DEF CancelRows, Cancellable, OnWire
  <2>2. ASSUME NEW S, NEW t \in Stamps, Insert(S, t)
        PROVE  Goal
    BY <1>2, <2>2 DEF Insert, NewRow, AbsentRow
  <2>3. ASSUME NEW s \in Rows, RequeueFailed(s)
        PROVE  Goal
    BY <1>0, <1>2, <2>3 DEF RequeueFailed, TypeOK
  <2>4. \A ch \in Switchable : SetChannel(ch) => row' = row
    BY DEF SetChannel
  <2>5. \A c \in Consultations :
          /\ AcceptConsultation(c) \/ ChangeStatus(c) => \E t \in Stamps, S \in SUBSET Rows : Insert(S, t)
          /\ WithdrawMarketing(c) => \E S : CancelRows(S)
    BY DEF AcceptConsultation, ChangeStatus, WithdrawMarketing
  <2>6. \A s \in Rows : QueueTest(s) => \E t \in Stamps, S \in SUBSET Rows : Insert(S, t)
    BY DEF QueueTest
  <2>7. PurgeExpired => \E S : CancelRows(S)
    BY DEF PurgeExpired
  <2> QED
    BY <1>2, <1>4, <2>1, <2>2, <2>3, <2>4, <2>5, <2>6, <2>7 DEF ServiceStep
<1>5. ASSUME NEW v \in Workers, WorkerStep(v) \/ Crash(v)
      PROVE  Goal
  <2>1. \A t : RecoveredRow(r, t).state # "cancelled"
    BY <1>2 DEF RecoveredRow, Released, Unlocked
  <2>2. CASE ClaimNone(v)
    BY <2>1, <2>2 DEF ClaimNone
  <2>3. ASSUME NEW s \in Rows, Claim(v, s)
        PROVE  Goal
    BY <2>1, <2>3 DEF Claim, Leased
  <2>4. CASE Handoff(v)
    BY <1>0, <1>2, <1>3, <2>4 DEF Handoff, TypeOK, QueueRow
  <2>5. CASE FinalizeSuccess(v)
    <3>1. Unlocked(row[r], "sent").state = "sent"
      BY <1>3, UnlockedType DEF RowStates
    <3> QED
      BY <1>0, <1>2, <2>5, <3>1 DEF FinalizeSuccess, TypeOK
  <2>6. CASE FinalizeFailure(v)
    <3>1. \A t : /\ Released(row[r], "failed", t).state = "failed"
                /\ Released(row[r], "pending", t).state = "pending"
      BY <1>3 DEF Released, Unlocked, QueueRow
    <3>2. CASE UNCHANGED row
      BY <1>2, <3>2
    <3>3. ASSUME NEW t, row' = [row EXCEPT ![job[v].row] =
                   IF job[v].no >= MaxAttempts
                   THEN Released(@, "failed", t)
                   ELSE Released(@, "pending", t + RetryDelay[job[v].no])]
          PROVE  Goal
      BY <1>0, <1>2, <3>1, <3>3 DEF TypeOK
    <3> QED
      BY <2>6, <3>2, <3>3 DEF FinalizeFailure
  <2>7. CASE CancelClaimed(v)
    <3>1. CASE UNCHANGED row
      BY <1>2, <3>1
    <3>2. ASSUME NEW t \in Stamps, OwnsClaim(v, t),
                 row' = [row EXCEPT ![job[v].row] = Unlocked(@, "cancelled")]
          PROVE  Goal
      <4>1. v # w
        BY <2>7 DEF CancelClaimed, AtStage
      <4>2. job[v].row # r
        BY <1>2, <3>2, <4>1 DEF OwnsClaim, OwnsLive
      <4> QED
        BY <1>0, <1>2, <3>2, <4>2 DEF TypeOK
    <3> QED
      BY <2>7, <3>1, <3>2 DEF CancelClaimed
  <2>8. LoadAdapters(v) \/ Check(v) \/ Mint(v) \/ PrepareFails(v)
          \/ HandoffUncommitted(v) \/ HandoffRefused(v) \/ HandoffLost(v)
          \/ DeliveryAnswered(v) \/ Crash(v)
          => UNCHANGED row
    BY DEF LoadAdapters, Check, Mint, PrepareFails, HandoffUncommitted,
       HandoffRefused, HandoffLost, DeliveryAnswered, Crash
  <2> QED
    BY <1>2, <1>5, <2>2, <2>3, <2>4, <2>5, <2>6, <2>7, <2>8 DEF WorkerStep
<1>6. Tick \/ UNCHANGED vars => row' = row
  BY DEF Tick, vars
<1> QED
  BY <1>1, <1>2, <1>4, <1>5, <1>6 DEF Next

\* Purge and withdrawal never cancel the row of a message on the wire.
THEOREM WireCorrect == Spec => NeverCancelledOnWire
<1>1. IInv /\ [Next]_vars =>
        \A w \in Workers :
          Current(w) /\ job[w].stage \in {"delivering", "accepted"}
            => row'[job[w].row].state # "cancelled"
  BY WireHolds
<1>2. Spec => [][\A w \in Workers :
                   Current(w) /\ job[w].stage \in {"delivering", "accepted"}
                     => row'[job[w].row].state # "cancelled"]_vars
  BY <1>1, Invariant, PTL DEF Spec
<1> QED
  BY <1>2 DEF NeverCancelledOnWire

-----------------------------------------------------------------------------
(***************************************************************************)
(* The queue of NotificationOutbox implements the courier of               *)
(* NotificationDelivery: each step of the service and of a worker maps to  *)
(* a step of the courier, or to none.                                      *)
(***************************************************************************)

(* Nothing is known of a consultation before it is accepted.               *)

IntakeFirst ==
  \A c \in Consultations : ~consult[c].received =>
    ~consult[c].purged /\ ~consult[c].withdrawn /\ ~consult[c].marketing

LEMMA InitIntake == Init => IntakeFirst
  BY DEF Init, IntakeFirst

LEMMA StepIntake == TypeOK /\ IntakeFirst /\ [Next]_vars => IntakeFirst'
<1> SUFFICES ASSUME TypeOK, IntakeFirst, [Next]_vars PROVE IntakeFirst'
  OBVIOUS
<1>1. CASE UNCHANGED consult
  BY <1>1 DEF IntakeFirst
<1>2. ASSUME NEW c \in Consultations, AcceptConsultation(c) PROVE IntakeFirst'
  <2>1. consult'[c].received /\ \A d \in Consultations \ {c} : consult'[d] = consult[d]
    BY <1>2 DEF AcceptConsultation, TypeOK
  <2> QED
    BY <2>1 DEF IntakeFirst
<1>3. ASSUME NEW c \in Consultations, WithdrawMarketing(c) PROVE IntakeFirst'
  <2>1. consult[c].received
    BY <1>3 DEF WithdrawMarketing, IntakeFirst
  <2>2. /\ \A d \in Consultations \ {c} : consult'[d] = consult[d]
        /\ consult'[c].received = consult[c].received
    BY <1>3 DEF WithdrawMarketing, TypeOK, Consultation
  <2> QED
    BY <2>1, <2>2 DEF IntakeFirst
<1>4. CASE PurgeExpired
  <2>1. PICK B \in SUBSET Consultations :
          /\ \A c \in B : consult[c].received
          /\ consult' = [c \in Consultations |->
               IF c \in B THEN [consult[c] EXCEPT !.purged = TRUE] ELSE consult[c]]
    BY <1>4 DEF PurgeExpired, Due
  <2>2. \A c \in Consultations : IF c \in B THEN consult'[c].received = consult[c].received
                                            ELSE consult'[c] = consult[c]
    BY <2>1 DEF TypeOK, Consultation
  <2> QED
    BY <2>1, <2>2 DEF IntakeFirst
<1>5. ServiceStep => \/ UNCHANGED consult
                     \/ \E c \in Consultations : AcceptConsultation(c) \/ WithdrawMarketing(c)
                     \/ PurgeExpired
  BY DEF ServiceStep, ChangeStatus, QueueTest, RequeueFailed, SetChannel
<1>6. \A w \in Workers : WorkerStep(w) \/ Crash(w) => UNCHANGED consult
  BY DEF WorkerStep, LoadAdapters, ClaimNone, Claim, Check, Mint, PrepareFails, Handoff,
         HandoffUncommitted, HandoffRefused, HandoffLost, DeliveryAnswered,
         FinalizeSuccess, FinalizeFailure, CancelClaimed, Crash
<1> QED
  BY <1>1, <1>2, <1>3, <1>4, <1>5, <1>6 DEF Next, Tick, vars

Sound == IInv /\ IntakeFirst

LEMMA SoundAlways == Spec => []Sound
<1>1. Spec => [](TypeOK /\ IntakeFirst)
  BY InitIntake, StepIntake, InitTypes, TypeCorrect, PTL DEF Spec
<1> QED
  BY <1>1, Invariant, PTL DEF Sound

-----------------------------------------------------------------------------
(* The steps of the courier, in terms of the queue.                        *)

St(r) == StatusOf(row[r])

LEMMA StatusValue ==
  ASSUME NEW q
  PROVE  /\ q.state = "absent" => StatusOf(q) = "none"
         /\ q.state \in {"pending", "processing"} => StatusOf(q) = "queued"
         /\ q.state = "sent" => StatusOf(q) = "delivered"
         /\ q.state = "failed" => StatusOf(q) = "exhausted"
         /\ q.state = "cancelled" => StatusOf(q) = "dropped"
  BY DEF StatusOf

LEMMA SameStatus == ASSUME NEW q, NEW p, p.state = q.state PROVE StatusOf(p) = StatusOf(q)
  BY DEF StatusOf

LEMMA CourierBecomes ==
  ASSUME NEW S, NEW s,
         \A r \in Rows : St(r)' = IF r \in S THEN s ELSE St(r)
  PROVE  Courier!Become(S, s)
  BY DEF Courier!Become, St

LEMMA CourierIdles ==
  ASSUME \A r \in Rows : St(r)' = St(r) /\ Barred(r)' = Barred(r), handed' = handed
  PROVE  UNCHANGED Courier!dvars
  BY DEF Courier!dvars, St

LEMMA SameBarred ==
  ASSUME consult' = consult
  PROVE  /\ {r \in Rows : Barred(r)}' = {r \in Rows : Barred(r)}
         /\ \A r \in Rows : Barred(r)' = Barred(r)
  BY DEF Barred

\* Inserted rows were absent.
LEMMA InsertEnqueues ==
  ASSUME NEW S \in SUBSET Rows, NEW t, Insert(S, t), \A r \in S : row[r].state = "absent",
         UNCHANGED handed, {r \in Rows : Barred(r)}' = {r \in Rows : Barred(r)}
  PROVE  Courier!DNext
<1>1. NewRow(t).state = "pending"
  BY DEF NewRow, AbsentRow
<1>2. \A r \in Rows : St(r)' = IF r \in S THEN "queued" ELSE St(r)
  BY <1>1, StatusValue DEF Insert, St
<1>3. \A r \in S : St(r) = "none"
  BY StatusValue DEF St
<1>4. Courier!Enqueue(S)
  BY <1>2, <1>3, CourierBecomes DEF Courier!Enqueue, St
<1> QED
  BY <1>4 DEF Courier!DNext

\* Cancelled rows were queued or exhausted.
LEMMA CancelBars ==
  ASSUME TypeOK, NEW S \in SUBSET Rows, CancelRows(S), NEW B \in SUBSET Rows, UNCHANGED handed,
         {r \in Rows : Barred(r)}' = {r \in Rows : Barred(r)} \cup B
  PROVE  Courier!DNext
<1> DEFINE D == {r \in S : Cancellable(r)}
<1>1. \A r \in Rows : row'[r] = IF r \in D THEN Unlocked(row[r], "cancelled") ELSE row[r]
  BY DEF CancelRows
<1>2. \A r \in Rows : Unlocked(row[r], "cancelled").state = "cancelled"
  BY UnlockedType DEF TypeOK, RowStates
<1>3. \A r \in D : St(r) \in {"queued", "exhausted"}
  BY StatusValue DEF St, Cancellable
<1>4. D \in SUBSET Rows
  OBVIOUS
<1> HIDE DEF D
<1>5. \A r \in Rows : St(r)' = IF r \in D THEN "dropped" ELSE St(r)
  BY <1>1, <1>2, StatusValue DEF St
<1>6. Courier!Bar(B, D)
  BY <1>3, <1>4, <1>5, CourierBecomes DEF Courier!Bar, St
<1> QED
  BY <1>4, <1>6 DEF Courier!DNext

-----------------------------------------------------------------------------
(* The steps of the service.                                               *)

LEMMA ServiceImplements ==
  ASSUME Sound, ServiceStep
  PROVE  [Courier!DNext]_Courier!dvars
<1>1. TypeOK /\ IntakeFirst /\ RowsFollowIntake
  BY DEF Sound, IInv
<1>2. ASSUME NEW c \in Consultations, AcceptConsultation(c) PROVE Courier!DNext
  <2>1. PICK t \in Stamps, marketing \in BOOLEAN :
          /\ consult' = [consult EXCEPT ![c] =
               [received |-> TRUE, at |-> t, marketing |-> marketing,
                withdrawn |-> FALSE, purged |-> FALSE,
                expires |-> t + IF marketing THEN MarketingRetention ELSE PrivacyRetention]]
          /\ Insert({r \in Rows : /\ ConsultationOf[r] = c
                                  /\ OriginOf[r] = "received"
                                  /\ PurposeOf[r] = "marketing" => marketing}, t)
    BY <1>2 DEF AcceptConsultation
  <2>2. ~consult[c].received /\ UNCHANGED handed
    BY <1>2 DEF AcceptConsultation
  <2>3. \A r \in Rows : OriginOf[r] = "received" /\ ConsultationOf[r] = c
                          => row[r].state = "absent"
    BY <1>1, <2>2 DEF RowsFollowIntake
  <2>4. /\ \A d \in Consultations \ {c} : consult'[d] = consult[d]
        /\ consult'[c].purged = consult[c].purged /\ consult'[c].withdrawn = consult[c].withdrawn
    BY <1>1, <2>1, <2>2 DEF TypeOK, Consultation, IntakeFirst
  <2>5. {r \in Rows : Barred(r)}' = {r \in Rows : Barred(r)}
    BY <2>4, RowAssumption DEF Barred
  <2> DEFINE S == {r \in Rows : /\ ConsultationOf[r] = c
                                /\ OriginOf[r] = "received"
                                /\ PurposeOf[r] = "marketing" => marketing}
  <2>6. S \in SUBSET Rows /\ Insert(S, t) /\ \A r \in S : row[r].state = "absent"
    BY <2>1, <2>3
  <2> HIDE DEF S
  <2> QED
    BY <2>2, <2>5, <2>6, InsertEnqueues
<1>3. ASSUME NEW c \in Consultations, ChangeStatus(c) PROVE Courier!DNext
  <2>1. consult' = consult /\ handed' = handed
    BY <1>3 DEF ChangeStatus
  <2>2. PICK t \in Stamps, S \in SUBSET Rows :
          Insert(S, t) /\ \A r \in S : row[r].state = "absent"
    BY <1>3 DEF ChangeStatus
  <2> QED
    BY <2>1, <2>2, SameBarred, InsertEnqueues
<1>4. ASSUME NEW r \in Rows, QueueTest(r) PROVE Courier!DNext
  <2>1. consult' = consult /\ handed' = handed /\ row[r].state = "absent"
    BY <1>4 DEF QueueTest
  <2>2. PICK t \in Stamps : Insert({r}, t)
    BY <1>4 DEF QueueTest
  <2>3. {r} \in SUBSET Rows /\ \A s \in {r} : row[s].state = "absent"
    BY <2>1
  <2> QED
    BY <2>1, <2>2, <2>3, SameBarred, InsertEnqueues
<1>5. ASSUME NEW r \in Rows, RequeueFailed(r) PROVE Courier!DNext
  <2>1. PICK t \in Stamps : row' = [row EXCEPT ![r] = Requeued(row[r], t)]
    BY <1>5 DEF RequeueFailed
  <2>2. row[r] \in QueueRow /\ t \in Nat /\ row \in [Rows -> QueueRow]
    BY <1>1, StampType DEF TypeOK
  <2>3. Requeued(row[r], t).state = "pending"
    BY <2>2, RequeuedType
  <2>4. \A s \in Rows : St(s)' = IF s \in {r} THEN "queued" ELSE St(s)
    BY <2>1, <2>2, <2>3, StatusValue DEF St
  <2>5. St(r) = "exhausted"
    BY <1>5, StatusValue DEF RequeueFailed, St
  <2>6. handed' = [handed EXCEPT ![r] = 0] /\ consult' = consult
    BY <1>5 DEF RequeueFailed
  <2>7. Courier!Requeue(r)
    BY <2>4, <2>5, <2>6, CourierBecomes, SameBarred DEF Courier!Requeue, St
  <2> QED
    BY <2>7 DEF Courier!DNext
<1>6. ASSUME NEW ch \in Switchable, SetChannel(ch) PROVE UNCHANGED Courier!dvars
  <2>1. row' = row /\ consult' = consult /\ handed' = handed
    BY <1>6 DEF SetChannel
  <2> QED
    BY <2>1, SameBarred, CourierIdles DEF St
<1>7. ASSUME PurgeExpired PROVE Courier!DNext
  <2>1. PICK B \in SUBSET Consultations :
          /\ consult' = [c \in Consultations |->
               IF c \in B THEN [consult[c] EXCEPT !.purged = TRUE] ELSE consult[c]]
          /\ CancelRows({r \in Rows : ConsultationOf[r] \in B})
    BY <1>7 DEF PurgeExpired
  <2>2. \A c \in Consultations :
          IF c \in B THEN consult'[c].purged /\ consult'[c].withdrawn = consult[c].withdrawn
                     ELSE consult'[c] = consult[c]
    BY <1>1, <2>1 DEF TypeOK, Consultation
  <2> DEFINE X == {r \in Rows : ConsultationOf[r] \in B /\ PurposeOf[r] # "test"}
             S == {r \in Rows : ConsultationOf[r] \in B}
  <2>3. {r \in Rows : Barred(r)}' = {r \in Rows : Barred(r)} \cup X
    BY <2>2, RowAssumption DEF Barred
  <2>4. S \in SUBSET Rows /\ X \in SUBSET Rows /\ CancelRows(S)
    BY <2>1
  <2>5. UNCHANGED handed
    BY <1>7 DEF PurgeExpired
  <2> HIDE DEF S, X
  <2> QED
    BY <1>1, <2>3, <2>4, <2>5, CancelBars
<1>8. ASSUME NEW c \in Consultations, WithdrawMarketing(c) PROVE Courier!DNext
  <2>1. /\ consult'[c].withdrawn /\ consult'[c].purged = consult[c].purged
        /\ \A d \in Consultations \ {c} : consult'[d] = consult[d]
    BY <1>1, <1>8 DEF WithdrawMarketing, TypeOK, Consultation
  <2> DEFINE S == {r \in Rows : ConsultationOf[r] = c /\ PurposeOf[r] = "marketing"}
  <2>2. {r \in Rows : Barred(r)}' = {r \in Rows : Barred(r)} \cup S
    BY <2>1, RowAssumption DEF Barred
  <2>3. S \in SUBSET Rows /\ CancelRows(S) /\ UNCHANGED handed
    BY <1>8 DEF WithdrawMarketing
  <2> HIDE DEF S
  <2> QED
    BY <1>1, <2>2, <2>3, CancelBars
<1> QED
  BY <1>2, <1>3, <1>4, <1>5, <1>6, <1>7, <1>8 DEF ServiceStep

-----------------------------------------------------------------------------
(* The steps of a worker.                                                  *)

\* Recovery gives up the rows whose attempts are used up, and queues the
\* other expired ones again, which they are already.
LEMMA RecoveryExhausts ==
  ASSUME TypeOK, NEW t \in Nat,
         \A r \in Rows : row'[r].state = RecoveredRow(r, t).state
                           \/ (row'[r].state = "processing" /\ RecoveredRow(r, t).state = "pending"),
         UNCHANGED <<consult, handed>>
  PROVE  Courier!DNext
<1> DEFINE S == {r \in Rows : LeaseExpired(r, t) /\ row[r].tries >= MaxAttempts}
<1>1. ASSUME NEW r \in Rows
      PROVE  /\ r \in S => RecoveredRow(r, t).state = "failed" /\ row[r].state = "processing"
             /\ r \notin S => \/ RecoveredRow(r, t) = row[r]
                              \/ RecoveredRow(r, t).state = "pending" /\ row[r].state = "processing"
  <2>1. row[r] \in QueueRow
    BY DEF TypeOK
  <2>2. /\ Released(row[r], "failed", t).state = "failed"
        /\ Released(row[r], "pending", t).state = "pending"
    BY <2>1 DEF Released, Unlocked, QueueRow
  <2> QED
    BY <2>2 DEF RecoveredRow, LeaseExpired
<1>2. S \in SUBSET Rows
  OBVIOUS
<1> HIDE DEF S
<1>3. \A r \in Rows : St(r)' = IF r \in S THEN "exhausted" ELSE St(r)
  BY <1>1, StatusValue, SameStatus DEF St
<1>4. \A r \in S : St(r) = "queued"
  BY <1>1, <1>2, StatusValue DEF St
<1>5. Courier!Exhaust(S)
  BY <1>2, <1>3, <1>4, CourierBecomes, SameBarred DEF Courier!Exhaust, St
<1> QED
  BY <1>2, <1>5 DEF Courier!DNext

\* A row whose claim is live is queued for the courier.
LEMMA OwnedQueued ==
  ASSUME Sound, NEW w \in Workers, NEW t, OwnsLive(w, t), job[w].stage \notin {"idle", "loaded"}
  PROVE  job[w].row \in Rows /\ St(job[w].row) = "queued" /\ Current(w)
<1>1. job[w].row \in Rows
  BY DEF Sound, IInv, JobsSound
<1> QED
  BY <1>1, StatusValue DEF OwnsLive, Current, St

\* A hand-over is a send that the budget admits and that nothing bars.
LEMMA HandoffSends ==
  ASSUME Sound, NEW w \in Workers, Handoff(w) \/ HandoffUncommitted(w)
  PROVE  Courier!DNext
<1> DEFINE r == job[w].row
<1>1. /\ AtStage(w, "preparing") /\ ~Refused(job[w].row, now) /\ OwnsLive(w, now)
      /\ HandOver(job[w].row) /\ consult' = consult
      /\ row' \in {row, [row EXCEPT ![job[w].row].mark = TRUE]}
  BY DEF Handoff, HandoffUncommitted
<1>2. job[w].row \in Rows /\ St(job[w].row) = "queued" /\ Current(w)
  BY <1>1, OwnedQueued DEF AtStage
<1>3. PICK q \in Rows : q = job[w].row
  BY <1>2
<1>4. handed[q] < MaxAttempts
  <2>1. handed[q] < row[q].tries /\ row[q].tries <= MaxAttempts
    BY <1>1, <1>2, <1>3 DEF Sound, IInv, AttemptUnused, HandoverBudget, AtStage
  <2>2. handed[q] \in Nat /\ row[q].tries \in Nat
    BY DEF Sound, IInv, TypeOK, QueueRow
  <2> QED
    BY <2>1, <2>2, TimingAssumption
<1>5. ~Barred(q)
  BY <1>1, <1>3 DEF Refused, Erased, Revoked, Barred
<1>6. \A s \in Rows : St(s)' = St(s)
  <2>1. \A s \in Rows : row'[s].state = row[s].state
    BY <1>1, <1>3 DEF Sound, IInv, TypeOK, QueueRow
  <2> QED
    BY <2>1, SameStatus DEF St
<1>7. handed' = [handed EXCEPT ![q] = @ + 1]
  BY <1>1, <1>3 DEF HandOver
<1>8. Courier!Send(q)
  BY <1>1, <1>2, <1>3, <1>4, <1>5, <1>6, <1>7, SameBarred DEF Courier!Send, St
<1> QED
  BY <1>8 DEF Courier!DNext

\* A claim that is closed ends its row as the transaction says.
LEMMA ClosedRow ==
  ASSUME Sound, NEW w \in Workers, NEW t, OwnsLive(w, t), job[w].stage \notin {"idle", "loaded"},
         NEW s \in {"pending", "sent", "failed", "cancelled"}, NEW p, p.state = s,
         row' = [row EXCEPT ![job[w].row] = p], UNCHANGED <<consult, handed>>
  PROVE  /\ s = "sent" => (handed[job[w].row] > 0 => Courier!DNext)
         /\ s = "failed" \/ s = "cancelled" => Courier!DNext
         /\ s = "pending" => UNCHANGED Courier!dvars
<1>1. PICK q \in Rows : q = job[w].row /\ St(q) = "queued"
  BY OwnedQueued
<1>2. row'[q].state = s /\ \A r \in Rows \ {q} : row'[r] = row[r]
  BY <1>1 DEF Sound, IInv, TypeOK
<1>3. \A r \in Rows : St(r)' = IF r \in {q} THEN StatusOf(p) ELSE St(r)
  BY <1>1, <1>2, SameStatus DEF St
<1>4. CASE s = "sent"
  <2>1. handed[q] > 0 => Courier!Deliver(q)
    BY <1>1, <1>3, <1>4, CourierBecomes, SameBarred, StatusValue DEF Courier!Deliver, St
  <2> QED
    BY <1>1, <1>4, <2>1 DEF Courier!DNext
<1>5. CASE s = "failed"
  <2>1. Courier!Exhaust({q})
    BY <1>1, <1>3, <1>5, CourierBecomes, SameBarred, StatusValue DEF Courier!Exhaust, St
  <2> QED
    BY <1>5, <2>1 DEF Courier!DNext
<1>6. CASE s = "cancelled"
  <2>1. Courier!Drop(q)
    BY <1>1, <1>3, <1>6, CourierBecomes, SameBarred, StatusValue DEF Courier!Drop, St
  <2> QED
    BY <1>6, <2>1 DEF Courier!DNext
<1>7. CASE s = "pending"
  BY <1>1, <1>3, <1>7, CourierIdles, SameBarred, StatusValue DEF St
<1> QED
  BY <1>4, <1>5, <1>6, <1>7

LEMMA FinalizeImplements ==
  ASSUME Sound, NEW w \in Workers,
         FinalizeSuccess(w) \/ FinalizeFailure(w) \/ CancelClaimed(w)
  PROVE  [Courier!DNext]_Courier!dvars
<1>1. UNCHANGED <<consult, handed>> /\ job[w].stage \notin {"idle", "loaded"}
  BY DEF FinalizeSuccess, FinalizeFailure, CancelClaimed, AtStage
<1>2. CASE row' = row
  BY <1>1, <1>2, CourierIdles, SameBarred DEF St
<1>3. row[job[w].row] \in QueueRow
  BY <1>1 DEF Sound, IInv, TypeOK, JobsSound
<1>4. ASSUME FinalizeSuccess(w), row' # row PROVE Courier!DNext
  <2>1. PICK t \in Stamps : OwnsLive(w, t)
    BY <1>4 DEF FinalizeSuccess, OwnsClaim
  <2>2. row' = [row EXCEPT ![job[w].row] = Unlocked(row[job[w].row], "sent")]
    BY <1>4 DEF FinalizeSuccess
  <2>3. Unlocked(row[job[w].row], "sent").state = "sent"
    BY <1>3, UnlockedType DEF RowStates
  <2>4. handed[job[w].row] > 0
    <3>1. Current(w) /\ job[w].row \in Rows
      BY <1>1, <2>1, OwnedQueued
    <3> QED
      BY <1>4, <3>1 DEF FinalizeSuccess, AtStage, Sound, IInv, MarkGuardsWire
  <2> QED
    BY <1>1, <2>1, <2>2, <2>3, <2>4, ClosedRow
<1>5. ASSUME FinalizeFailure(w), row' # row PROVE [Courier!DNext]_Courier!dvars
  <2>1. PICK t \in Stamps :
          /\ OwnsLive(w, t)
          /\ row' = [row EXCEPT ![job[w].row] =
               IF job[w].no >= MaxAttempts
               THEN Released(row[job[w].row], "failed", t)
               ELSE Released(row[job[w].row], "pending", t + RetryDelay[job[w].no])]
    BY <1>5 DEF FinalizeFailure, OwnsClaim
  <2>2. \A u : /\ Released(row[job[w].row], "failed", u).state = "failed"
               /\ Released(row[job[w].row], "pending", u).state = "pending"
    BY <1>3 DEF Released, Unlocked, QueueRow
  <2>3. CASE job[w].no >= MaxAttempts
    BY <1>1, <2>1, <2>2, <2>3, ClosedRow
  <2>4. CASE ~(job[w].no >= MaxAttempts)
    BY <1>1, <2>1, <2>2, <2>4, ClosedRow
  <2> QED
    BY <2>3, <2>4
<1>6. ASSUME CancelClaimed(w), row' # row PROVE Courier!DNext
  <2>1. PICK t \in Stamps : OwnsLive(w, t)
    BY <1>6 DEF CancelClaimed, OwnsClaim
  <2>2. row' = [row EXCEPT ![job[w].row] = Unlocked(row[job[w].row], "cancelled")]
    BY <1>6 DEF CancelClaimed
  <2>3. Unlocked(row[job[w].row], "cancelled").state = "cancelled"
    BY <1>3, UnlockedType DEF RowStates
  <2> QED
    BY <1>1, <2>1, <2>2, <2>3, ClosedRow
<1> QED
  BY <1>2, <1>4, <1>5, <1>6

LEMMA ClaimImplements ==
  ASSUME Sound, NEW w \in Workers, ClaimNone(w) \/ \E r \in Rows : Claim(w, r)
  PROVE  Courier!DNext
<1>1. TypeOK /\ UNCHANGED <<consult, handed>>
  BY DEF Sound, IInv, ClaimNone, Claim
<1>2. CASE ClaimNone(w)
  <2>1. PICK t \in Stamps : row' = [r \in Rows |-> RecoveredRow(r, t)]
    BY <1>2 DEF ClaimNone
  <2>2. t \in Nat
    BY <1>1, StampType
  <2> QED
    BY <1>1, <2>1, <2>2, RecoveryExhausts
<1>3. ASSUME NEW r \in Rows, Claim(w, r) PROVE Courier!DNext
  <2>1. PICK t \in Stamps :
          /\ r \in Claimable(t)
          /\ row' = [s \in Rows |-> IF s = r THEN Leased(RecoveredRow(r, t), w, t)
                                    ELSE RecoveredRow(s, t)]
    BY <1>3 DEF Claim
  <2>2. t \in Nat
    BY <1>1, StampType
  <2>3. RecoveredRow(r, t).state = "pending" /\ Leased(RecoveredRow(r, t), w, t).state = "processing"
    BY <2>1 DEF Claimable, Leased
  <2>4. \A s \in Rows : row'[s].state = RecoveredRow(s, t).state
                          \/ (row'[s].state = "processing" /\ RecoveredRow(s, t).state = "pending")
    BY <2>1, <2>3
  <2> QED
    BY <1>1, <2>2, <2>4, RecoveryExhausts
<1> QED
  BY <1>2, <1>3

LEMMA StepImplements == Sound /\ [Next]_vars => [Courier!DNext]_Courier!dvars
<1> SUFFICES ASSUME Sound, [Next]_vars PROVE [Courier!DNext]_Courier!dvars
  OBVIOUS
<1>1. CASE ServiceStep
  BY <1>1, ServiceImplements
<1>2. CASE UNCHANGED <<consult, row, handed>>
  BY <1>2, CourierIdles, SameBarred DEF St
<1>3. ASSUME NEW w \in Workers, WorkerStep(w) \/ Crash(w) PROVE [Courier!DNext]_Courier!dvars
  <2>1. \/ UNCHANGED <<consult, row, handed>>
        \/ Handoff(w) \/ HandoffUncommitted(w)
        \/ ClaimNone(w) \/ \E r \in Rows : Claim(w, r)
        \/ FinalizeSuccess(w) \/ FinalizeFailure(w) \/ CancelClaimed(w)
    BY <1>3 DEF WorkerStep, LoadAdapters, Check, Mint, PrepareFails, HandoffRefused, HandoffLost,
                DeliveryAnswered, Crash
  <2> QED
    BY <1>2, <2>1, HandoffSends, ClaimImplements, FinalizeImplements
<1> QED
  BY <1>1, <1>2, <1>3 DEF Next, Tick, vars

LEMMA InitImplements == Init => Courier!DInit
<1> SUFFICES ASSUME Init PROVE Courier!DInit
  OBVIOUS
<1>1. \A r \in Rows : StatusOf(row[r]) = "none"
  BY StatusValue DEF Init, AbsentRow
<1>2. \A r \in Rows : ~Barred(r)
  BY RowAssumption DEF Init, Barred
<1> QED
  BY <1>1, <1>2 DEF Courier!DInit, Init

\* The leased, crashing, concurrent queue is a bounded at-least-once courier.
THEOREM CourierImplemented == Spec => ImplementsCourier
<1>1. Spec => Courier!DInit /\ [][Courier!DNext]_Courier!dvars
  BY InitImplements, StepImplements, SoundAlways, PTL DEF Spec
<1> QED
  BY <1>1 DEF ImplementsCourier, Courier!DSpec

-----------------------------------------------------------------------------
(* The lease outlives the delivery, when a worker takes no more time than  *)
(* its adapters and the waits for the write lock allow.                    *)

\* The part of the timing invariant about one worker.
TimedSound(w) ==
  /\ Holding(w) => now <= due[w]
  /\ Current(w) /\ job[w].stage \notin {"failing", "cancelling"}
       => due[w] + StillNeeded(w) < row[job[w].row].lease
  /\ job[w].stage \in {"delivering", "accepted"} => Current(w)

LEMMA TIInvParts == TIInv <=> TimingTypeOK /\ \A w \in Workers : TimedSound(w)
  BY DEF TIInv, StageInTime, LeaseSuffices, WireHeld, TimedSound

SameLease(r) ==
  /\ row'[r].state = row[r].state /\ row'[r].owner = row[r].owner
  /\ row'[r].cycle = row[r].cycle /\ row'[r].tries = row[r].tries
  /\ row'[r].lease = row[r].lease

\* What a step of anybody else does to the row of worker w: it never turns
\* the row into a lease of w, nor takes a marked row whose lease runs.
LeavesLease(r, w) ==
  /\ \/ SameLease(r)
     \/ row'[r].state # "processing"
     \/ row'[r].owner # w
  /\ OnWire(row[r]) /\ row[r].owner = w /\ row[r].lease > now => SameLease(r)

LEMMA ServiceLeavesLease ==
  ASSUME IInv, ServiceStep, NEW r \in Rows, NEW w \in Workers
  PROVE  LeavesLease(r, w)
<1> DEFINE Goal == row'[r] = row[r] \/ (row'[r].state # "processing" /\ ~OnWire(row[r]))
<1>0. TypeOK /\ RowsFollowIntake
  BY DEF IInv
<1>1. ASSUME NEW S, NEW t, Insert(S, t), \A s \in S \cap Rows : row[s].state = "absent"
      PROVE  Goal
  BY <1>1 DEF Insert, NewRow, AbsentRow, OnWire
<1>2. ASSUME NEW S, CancelRows(S)
      PROVE  Goal
  <2>1. Unlocked(row[r], "cancelled").state = "cancelled"
    BY <1>0, UnlockedType DEF TypeOK, RowStates
  <2> QED
    BY <1>2, <2>1 DEF CancelRows, Cancellable
<1>3. ASSUME NEW c \in Consultations, AcceptConsultation(c)
      PROVE  Goal
  <2>1. PICK t \in Stamps, m \in BOOLEAN :
          Insert({s \in Rows : /\ ConsultationOf[s] = c
                               /\ OriginOf[s] = "received"
                               /\ PurposeOf[s] = "marketing" => m}, t)
    BY <1>3 DEF AcceptConsultation
  <2>2. \A s \in Rows : ConsultationOf[s] = c /\ OriginOf[s] = "received" => row[s].state = "absent"
    BY <1>0, <1>3 DEF AcceptConsultation, RowsFollowIntake
  <2> QED
    BY <1>1, <2>1, <2>2
<1>4. ASSUME NEW c \in Consultations, ChangeStatus(c)
      PROVE  Goal
  BY <1>1, <1>4 DEF ChangeStatus
<1>5. ASSUME NEW s \in Rows, QueueTest(s)
      PROVE  Goal
  <2>1. PICK t \in Stamps : Insert({s}, t)
    BY <1>5 DEF QueueTest
  <2> QED
    BY <1>1, <1>5, <2>1 DEF QueueTest
<1>6. ASSUME NEW s \in Rows, RequeueFailed(s)
      PROVE  Goal
  <2>1. PICK t \in Stamps : row' = [row EXCEPT ![s] = Requeued(row[s], t)]
    BY <1>6 DEF RequeueFailed
  <2>2. Requeued(row[s], t).state = "pending"
    BY <1>0, StampType, RequeuedType DEF TypeOK
  <2> QED
    BY <1>0, <1>6, <2>1, <2>2 DEF RequeueFailed, OnWire, TypeOK
<1>7. Goal
  BY <1>2, <1>3, <1>4, <1>5, <1>6
     DEF ServiceStep, WithdrawMarketing, PurgeExpired, SetChannel
<1> QED
  BY <1>7 DEF LeavesLease, SameLease

LEMMA RecoveryLeavesLease ==
  ASSUME TypeOK, NEW r \in Rows, NEW t \in Stamps
  PROVE  /\ RecoveredRow(r, t) = row[r] \/ RecoveredRow(r, t).state # "processing"
         /\ row[r].lease > now => RecoveredRow(r, t) = row[r]
<1>1. row[r] \in QueueRow /\ t \in Nat /\ t <= now
  BY StampType DEF TypeOK
<1>2. "pending" \in RowStates /\ "failed" \in RowStates
  BY DEF RowStates
<1>4. Released(row[r], "pending", t).state = "pending" /\ Released(row[r], "failed", t).state = "failed"
  BY <1>1, <1>2, ReleasedType
<1>3. row[r].lease \in Nat /\ now \in Nat
  BY <1>1 DEF TypeOK, QueueRow
<1> QED
  BY <1>1, <1>3, <1>4 DEF RecoveredRow, LeaseExpired

LEMMA OtherLeavesLease ==
  ASSUME IInv, NEW w \in Workers, NEW v \in Workers \ {w}, WorkerStep(v) \/ Crash(v),
         NEW r \in Rows
  PROVE  LeavesLease(r, w)
<1>0. TypeOK /\ JobsSound /\ row[r] \in QueueRow
  BY DEF IInv, TypeOK
<1>1. CASE row' = row
  BY <1>1 DEF LeavesLease, SameLease
<1>2. CASE ClaimNone(v)
  BY <1>0, <1>2, RecoveryLeavesLease DEF ClaimNone, LeavesLease, SameLease
<1>3. ASSUME NEW s \in Rows, Claim(v, s)
      PROVE  LeavesLease(r, w)
  <2>1. PICK t \in Stamps :
          /\ s \in Claimable(t)
          /\ row' = [u \in Rows |-> IF u = s THEN Leased(RecoveredRow(s, t), v, t)
                                             ELSE RecoveredRow(u, t)]
    BY <1>3 DEF Claim
  <2>2. CASE r # s
    BY <1>0, <2>1, <2>2, RecoveryLeavesLease DEF LeavesLease, SameLease
  <2>3. CASE r = s
    <3>1. row'[r].owner = v /\ RecoveredRow(r, t).state = "pending"
      BY <2>1, <2>3 DEF Leased, Claimable
    <3>2. ~(OnWire(row[r]) /\ row[r].lease > now)
      BY <1>0, <3>1, RecoveryLeavesLease DEF OnWire
    <3> QED
      BY <3>1, <3>2 DEF LeavesLease
  <2> QED
    BY <2>2, <2>3
<1>4. CASE Handoff(v)
  <2>1. row' = [row EXCEPT ![job[v].row].mark = TRUE]
    BY <1>4 DEF Handoff
  <2>2. \/ row'[r] = row[r]
        \/ row'[r] = [row[r] EXCEPT !.mark = TRUE]
    BY <1>0, <2>1 DEF TypeOK
  <2>3. LET q == [row[r] EXCEPT !.mark = TRUE] IN
        /\ q.state = row[r].state /\ q.owner = row[r].owner /\ q.cycle = row[r].cycle
        /\ q.tries = row[r].tries /\ q.lease = row[r].lease
    BY <1>0 DEF QueueRow
  <2> QED
    BY <2>2, <2>3 DEF LeavesLease, SameLease
<1>5. ASSUME NEW t, OwnsClaim(v, t), NEW p, p.state # "processing",
             row' = [row EXCEPT ![job[v].row] = p]
      PROVE  LeavesLease(r, w)
  <2>1. CASE r # job[v].row
    BY <1>0, <1>5, <2>1 DEF LeavesLease, SameLease, TypeOK
  <2>2. CASE r = job[v].row
    <3>1. row[r].owner = v /\ row'[r].state # "processing"
      BY <1>0, <1>5, <2>2 DEF OwnsClaim, OwnsLive, TypeOK
    <3> QED
      BY <3>1 DEF LeavesLease
  <2> QED
    BY <2>1, <2>2
<1>6. CASE FinalizeSuccess(v) /\ row' # row
  <2>1. PICK t \in Stamps : OwnsClaim(v, t)
    BY <1>6 DEF FinalizeSuccess
  <2>2. row' = [row EXCEPT ![job[v].row] = Unlocked(row[job[v].row], "sent")]
    BY <1>6 DEF FinalizeSuccess
  <2>3. row[job[v].row] \in QueueRow
    BY <1>0, <1>6 DEF FinalizeSuccess, AtStage, JobsSound, TypeOK
  <2>4. Unlocked(row[job[v].row], "sent").state = "sent"
    BY <2>3, UnlockedType DEF RowStates
  <2> QED
    BY <1>5, <2>1, <2>2, <2>4
<1>7. CASE FinalizeFailure(v) /\ row' # row
  <2>1. PICK t \in Stamps :
          /\ OwnsClaim(v, t)
          /\ row' = [row EXCEPT ![job[v].row] =
               IF job[v].no >= MaxAttempts
               THEN Released(row[job[v].row], "failed", t)
               ELSE Released(row[job[v].row], "pending", t + RetryDelay[job[v].no])]
    BY <1>7 DEF FinalizeFailure
  <2>2. row[job[v].row] \in QueueRow
    BY <1>0, <1>7 DEF FinalizeFailure, AtStage, JobsSound, TypeOK
  <2>3. \A u : /\ Released(row[job[v].row], "failed", u).state = "failed"
               /\ Released(row[job[v].row], "pending", u).state = "pending"
    BY <2>2 DEF Released, Unlocked, QueueRow
  <2>4. CASE job[v].no >= MaxAttempts
    BY <1>5, <2>1, <2>3, <2>4
  <2>5. CASE ~(job[v].no >= MaxAttempts)
    BY <1>5, <2>1, <2>3, <2>5
  <2> QED
    BY <2>4, <2>5
<1>8. CASE CancelClaimed(v) /\ row' # row
  <2>1. PICK t \in Stamps : OwnsClaim(v, t)
    BY <1>8 DEF CancelClaimed
  <2>2. row' = [row EXCEPT ![job[v].row] = Unlocked(row[job[v].row], "cancelled")]
    BY <1>8 DEF CancelClaimed
  <2>3. row[job[v].row] \in QueueRow
    BY <1>0, <1>8 DEF CancelClaimed, AtStage, JobsSound, TypeOK
  <2>4. Unlocked(row[job[v].row], "cancelled").state = "cancelled"
    BY <2>3, UnlockedType DEF RowStates
  <2> QED
    BY <1>5, <2>1, <2>2, <2>4
<1>9. \/ row' = row
      \/ ClaimNone(v) \/ \E s \in Rows : Claim(v, s)
      \/ Handoff(v) \/ FinalizeSuccess(v) \/ FinalizeFailure(v) \/ CancelClaimed(v)
  BY DEF WorkerStep, LoadAdapters, Check, Mint, PrepareFails, HandoffUncommitted,
         HandoffRefused, HandoffLost, DeliveryAnswered, Crash
<1> QED
  BY <1>1, <1>2, <1>3, <1>4, <1>6, <1>7, <1>8, <1>9

\* A worker that does nothing stays in time and keeps what it holds.
LEMMA LeaseLeft ==
  ASSUME IInv, TimingTypeOK, NEW w \in Workers, TimedSound(w),
         UNCHANGED now, job'[w] = job[w], due'[w] = due[w],
         \A r \in Rows : LeavesLease(r, w)
  PROVE  TimedSound(w)'
<1> DEFINE r == job[w].row
<1>1. Holding(w)' => now' <= due'[w]
  BY DEF TimedSound, Holding
<1>2. job[w].stage \notin {"idle", "loaded"} => r \in Rows
  BY DEF IInv, JobsSound
<1>3. StillNeeded(w)' = StillNeeded(w)
  BY DEF StillNeeded
<1>4. Current(w)' => SameLease(r) /\ Current(w)
  BY <1>2 DEF Current, LeavesLease, SameLease
<1>5. ASSUME job[w].stage \in {"delivering", "accepted"}
      PROVE  Current(w)'
  <2>1. Current(w) /\ row[r].mark /\ OnWire(row[r]) /\ row[r].owner = w
    BY <1>5 DEF TimedSound, IInv, MarkGuardsWire, Current, OnWire
  <2>2. now <= due[w] /\ due[w] + StillNeeded(w) < row[r].lease
    BY <1>5, <2>1 DEF TimedSound, Holding
  <2>3. StillNeeded(w) \in Nat
    BY <1>5, LeaseAssumption, TimingAssumption DEF StillNeeded
  <2>4. now \in Nat /\ due[w] \in Nat /\ row[r].lease \in Nat
    BY <1>2, <1>5 DEF IInv, TypeOK, QueueRow, TimingTypeOK
  <2>5. row[r].lease > now
    BY <2>2, <2>3, <2>4
  <2>6. SameLease(r)
    BY <1>2, <1>5, <2>1, <2>5 DEF LeavesLease
  <2> QED
    BY <2>1, <2>6 DEF Current, SameLease
<1> QED
  BY <1>1, <1>3, <1>4, <1>5 DEF TimedSound, SameLease

\* A worker moves from one stage to the next without touching the row.
LEMMA StageTaken ==
  ASSUME IInv, TimingTypeOK, NEW w \in Workers, TimedSound(w),
         NEW s, GoTo(w, s), UNCHANGED <<now, row>>, due'[w] = NextDue(w),
         \/ s \in {"failing", "cancelling"}
         \/ job[w].stage = "claimed" /\ s \in {"minting", "preparing"}
         \/ job[w].stage = "minting" /\ s = "preparing"
         \/ job[w].stage = "delivering" /\ s = "accepted"
  PROVE  TimedSound(w)'
<1>1. job[w] \in Job /\ job \in [Workers -> Job]
  BY DEF IInv, TypeOK
<1>2. /\ job'[w].stage = s /\ job'[w].row = job[w].row
      /\ job'[w].cycle = job[w].cycle /\ job'[w].no = job[w].no
  BY <1>1 DEF GoTo, Job
<1>3. now \in Nat /\ due[w] \in Nat /\ LockWait \in Nat /\ IOTime \in Nat
  BY TimingAssumption, LeaseAssumption DEF IInv, TypeOK, TimingTypeOK
<1> DEFINE P == IF ChannelOf[job[w].row] \in Resolving THEN IOTime ELSE 0
           D == IF ChannelOf[job[w].row] \in Resolving THEN 0 ELSE IOTime
<1>4. P \in Nat /\ D \in Nat /\ P + D = IOTime
  BY <1>3
<1>5. /\ s = "preparing" => due'[w] = now + LockWait + P /\ StillNeeded(w)' = LockWait + D
      /\ s \in {"minting", "accepted", "failing", "cancelling"} => due'[w] = now + LockWait
      /\ s = "minting" => StillNeeded(w)' = IOTime + 2 * LockWait
      /\ s = "accepted" => StillNeeded(w)' = 0
  BY <1>2 DEF NextDue, StillNeeded
<1>6. /\ job[w].stage = "claimed" => StillNeeded(w) = IOTime + 3 * LockWait
      /\ job[w].stage = "minting" => StillNeeded(w) = IOTime + 2 * LockWait
      /\ job[w].stage = "delivering" => StillNeeded(w) = LockWait
  BY DEF StillNeeded
<1> HIDE DEF P, D
<1>7. now' <= due'[w]
  BY <1>3, <1>4, <1>5
<1>8. CASE s \in {"failing", "cancelling"}
  BY <1>2, <1>7, <1>8 DEF TimedSound
<1>9. CASE s \notin {"failing", "cancelling"}
  <2>1. Current(w)' => Current(w)
    BY <1>2, <1>9 DEF Current
  <2>2. now <= due[w]
    BY <1>9 DEF TimedSound, Holding
  <2>3. ASSUME Current(w)
        PROVE  due'[w] + StillNeeded(w)' < row'[job'[w].row].lease
    <3>1. due[w] + StillNeeded(w) < row[job[w].row].lease
      BY <1>9, <2>3 DEF TimedSound
    <3>2. row'[job'[w].row].lease = row[job[w].row].lease
      BY <1>2
    <3>3. row[job[w].row].lease \in Nat
      BY <2>3 DEF Current, IInv, JobsSound, TypeOK, QueueRow
    <3> QED
      BY <1>3, <1>4, <1>5, <1>6, <1>9, <2>2, <3>1, <3>2, <3>3
  <2>4. s \in {"delivering", "accepted"} => Current(w)'
    BY <1>2, <1>9 DEF TimedSound, Current
  <2> QED
    BY <1>2, <1>7, <2>1, <2>3, <2>4 DEF TimedSound
<1> QED
  BY <1>8, <1>9

LEMMA OwnStepTimed ==
  ASSUME IInv, TimingTypeOK, NEW w \in Workers, TimedSound(w), WorkerStep(w),
         due'[w] = NextDue(w)
  PROVE  TimedSound(w)'
<1>0. TypeOK /\ JobsSound /\ job[w] \in Job /\ now \in Nat /\ due[w] \in Nat
  BY DEF IInv, TypeOK, TimingTypeOK
<1>1. CASE job'[w].stage \in {"idle", "loaded"}
  BY <1>1 DEF TimedSound, Holding, Current
<1>2. ASSUME NEW r \in Rows, Claim(w, r)
      PROVE  TimedSound(w)'
  <2>1. PICK t \in Stamps :
          /\ row' = [s \in Rows |-> IF s = r THEN Leased(RecoveredRow(r, t), w, t)
                                             ELSE RecoveredRow(s, t)]
          /\ job' = [job EXCEPT ![w] = JobFor(@, r, Leased(RecoveredRow(r, t), w, t))]
    BY <1>2 DEF Claim
  <2>2. /\ job'[w].stage = "claimed" /\ job'[w].row = r /\ row'[r].lease = t + LeaseTime
        /\ now' = now
    BY <1>0, <1>2, <2>1 DEF Claim, JobFor, Leased, TypeOK
  <2>3. t \in Nat /\ now <= t + LockWait
    BY <1>0 DEF Stamps
  <2>4. due'[w] = now /\ StillNeeded(w)' = IOTime + 3 * LockWait
    BY <2>2 DEF NextDue, StillNeeded
  <2>5. due'[w] + StillNeeded(w)' < row'[job'[w].row].lease
    BY <1>0, <2>2, <2>3, <2>4, TimingAssumption, LeaseAssumption
  <2> QED
    BY <1>0, <2>2, <2>4, <2>5 DEF TimedSound
<1>3. CASE Handoff(w)
  <2>1. /\ job[w].stage = "preparing" /\ OwnsLive(w, now) /\ now' = now
        /\ row' = [row EXCEPT ![job[w].row].mark = TRUE]
    BY <1>3 DEF Handoff, AtStage
  <2>2. PICK r \in Rows : r = job[w].row
    BY <1>0, <2>1 DEF JobsSound
  <2>3. /\ job'[w].stage = "delivering" /\ job'[w].row = r
        /\ job'[w].cycle = job[w].cycle /\ job'[w].no = job[w].no
    BY <1>0, <1>3, <2>2 DEF Handoff, GoTo, TypeOK, Job
  <2>4. row[r] \in QueueRow /\ SameLease(r)
    <3>1. row[r] \in QueueRow /\ row'[r] = [row[r] EXCEPT !.mark = TRUE]
      BY <1>0, <2>1, <2>2 DEF TypeOK
    <3> QED
      BY <3>1 DEF SameLease, QueueRow
  <2>5. Current(w) /\ Current(w)'
    BY <2>1, <2>2, <2>3, <2>4 DEF Current, OwnsLive, SameLease
  <2>6. now <= due[w] /\ due[w] + StillNeeded(w) < row[r].lease
    BY <2>1, <2>2, <2>5 DEF TimedSound, Holding
  <2>7. /\ StillNeeded(w) = LockWait + IF ChannelOf[r] \in Resolving THEN 0 ELSE IOTime
        /\ StillNeeded(w)' = LockWait
    BY <2>1, <2>2, <2>3 DEF StillNeeded
  <2>8. due'[w] = IF ChannelOf[r] \in Resolving THEN Later(now, due[w] - LockWait)
                                                ELSE now + IOTime
    BY <2>2, <2>3 DEF NextDue, DeliverBy
  <2>9. row'[r].lease = row[r].lease /\ row[r].lease \in Nat
    BY <2>4 DEF SameLease, QueueRow
  <2>10. now' <= due'[w] /\ due'[w] + StillNeeded(w)' < row'[r].lease
    <3>1. now' = now /\ now \in Nat /\ due[w] \in Nat /\ LockWait \in Nat /\ IOTime \in Nat
      BY <1>0, <2>1, TimingAssumption, LeaseAssumption
    <3>2. CASE ChannelOf[r] \in Resolving
      <4>1. due'[w] = (IF now >= due[w] - LockWait THEN now ELSE due[w] - LockWait)
        BY <2>8, <3>2 DEF Later
      <4>2. StillNeeded(w) = LockWait
        BY <2>7, <3>1, <3>2
      <4> QED
        BY <2>6, <2>7, <2>9, <3>1, <4>1, <4>2
    <3>3. CASE ChannelOf[r] \notin Resolving
      <4>1. due'[w] = now + IOTime /\ StillNeeded(w) = LockWait + IOTime
        BY <2>7, <2>8, <3>3
      <4> QED
        BY <2>6, <2>7, <2>9, <3>1, <4>1
    <3> QED
      BY <3>2, <3>3
  <2> QED
    BY <2>3, <2>5, <2>10 DEF TimedSound
<1>4. CASE \/ Check(w) \/ Mint(w) \/ PrepareFails(w) \/ HandoffUncommitted(w)
           \/ HandoffRefused(w) \/ HandoffLost(w) \/ DeliveryAnswered(w)
  BY <1>4, StageTaken DEF Check, Mint, PrepareFails, HandoffUncommitted, HandoffRefused,
     HandoffLost, DeliveryAnswered, AtStage
<1>5. CASE FinalizeSuccess(w)
  <2>1. CASE GoIdle(w)
    <3>1. job'[w].stage = "idle"
      BY <1>0, <2>1 DEF GoIdle, IdleJob, TypeOK
    <3> QED
      BY <1>1, <3>1
  <2>2. CASE GoTo(w, "failing") /\ UNCHANGED <<row, ledger>>
    BY <1>5, <2>2, StageTaken DEF FinalizeSuccess
  <2> QED
    BY <1>5, <2>1, <2>2 DEF FinalizeSuccess
<1>6. CASE LoadAdapters(w) \/ ClaimNone(w) \/ FinalizeFailure(w) \/ CancelClaimed(w)
  <2>1. LoadAdapters(w) => job'[w].stage = "loaded"
    BY <1>0 DEF LoadAdapters, IdleJob, TypeOK
  <2>2. GoIdle(w) => job'[w].stage = "idle"
    BY <1>0 DEF GoIdle, IdleJob, TypeOK
  <2> QED
    BY <1>1, <1>6, <2>1, <2>2 DEF ClaimNone, FinalizeFailure, CancelClaimed
<1> QED
  BY <1>2, <1>3, <1>4, <1>5, <1>6 DEF WorkerStep

\* Whoever takes a step, only the worker that takes it moves.
LEMMA OthersStay ==
  ASSUME TypeOK, NEW v \in Workers, WorkerStep(v) \/ Crash(v)
  PROVE  now' = now /\ \A w \in Workers \ {v} : job'[w] = job[w]
  BY DEF WorkerStep, LoadAdapters, ClaimNone, Claim, Check, Mint, PrepareFails, Handoff,
         HandoffUncommitted, HandoffRefused, HandoffLost, DeliveryAnswered,
         FinalizeSuccess, FinalizeFailure, CancelClaimed, Crash, GoTo, GoIdle, TypeOK

LEMMA NextDueType ==
  ASSUME TypeOK, TimingTypeOK, NEW w \in Workers
  PROVE  NextDue(w) \in Nat
<1>1. now \in Nat /\ due[w] \in Nat /\ LockWait \in Nat /\ IOTime \in Nat
  BY TimingAssumption, LeaseAssumption DEF TypeOK, TimingTypeOK
<1>2. DeliverBy(w) \in Nat
  BY <1>1 DEF DeliverBy, Later
<1>3. now + LockWait + (IF ChannelOf[job'[w].row] \in Resolving THEN IOTime ELSE 0) \in Nat
  BY <1>1
<1> QED
  BY <1>1, <1>2, <1>3 DEF NextDue

LEMMA InitTimed == TInit => TIInv
  BY DEF TInit, Init, TIInv, TimingTypeOK, StageInTime, LeaseSuffices, WireHeld, Holding,
         Current, IdleJob

LEMMA StepTimed ==
  ASSUME IInv, TIInv, [TNext]_tvars
  PROVE  TIInv'
<1>0. TypeOK /\ TimingTypeOK /\ \A w \in Workers : TimedSound(w)
  BY TIInvParts DEF IInv
<1> DEFINE Goal == TimingTypeOK' /\ \A w \in Workers : TimedSound(w)'
<1>1. ASSUME ServiceStep, UNCHANGED due
      PROVE  Goal
  <2>1. UNCHANGED <<now, job>>
    BY <1>1, ServiceKeepsJobs
  <2> QED
    BY <1>0, <1>1, <2>1, ServiceLeavesLease, LeaseLeft DEF TimingTypeOK
<1>2. ASSUME NEW v \in Workers, WorkerStep(v), due' = [due EXCEPT ![v] = NextDue(v)]
      PROVE  Goal
  <2>1. NextDue(v) \in Nat
    BY <1>0, NextDueType
  <2>2. /\ TimingTypeOK' /\ due'[v] = NextDue(v)
        /\ \A w \in Workers \ {v} : due'[w] = due[w]
    BY <1>0, <1>2, <2>1 DEF TimingTypeOK
  <2>3. TimedSound(v)'
    BY <1>0, <1>2, <2>2, OwnStepTimed
  <2>4. ASSUME NEW w \in Workers \ {v}
        PROVE  TimedSound(w)'
    <3>1. \A r \in Rows : LeavesLease(r, w)
      BY <1>2, OtherLeavesLease
    <3> QED
      BY <1>0, <1>2, <2>2, <3>1, OthersStay, LeaseLeft
  <2> QED
    BY <2>2, <2>3, <2>4
<1>3. ASSUME NEW v \in Workers, Crash(v), UNCHANGED due
      PROVE  Goal
  <2>1. job'[v].stage = "idle"
    BY <1>0, <1>3 DEF Crash, GoIdle, IdleJob, TypeOK
  <2>2. TimedSound(v)'
    BY <2>1 DEF TimedSound, Holding, Current
  <2>3. ASSUME NEW w \in Workers \ {v}
        PROVE  TimedSound(w)'
    <3>1. \A r \in Rows : LeavesLease(r, w)
      BY <1>3, OtherLeavesLease
    <3> QED
      BY <1>0, <1>3, <3>1, OthersStay, LeaseLeft
  <2> QED
    BY <1>0, <1>3, <2>2, <2>3 DEF TimingTypeOK
<1>4. ASSUME TimelyTick, UNCHANGED due
      PROVE  Goal
  <2>1. /\ UNCHANGED <<row, job>> /\ now' = now + 1
        /\ \A w \in Workers : Holding(w) => now < due[w]
    BY <1>4 DEF TimelyTick, Tick
  <2>2. now \in Nat /\ \A w \in Workers : due[w] \in Nat
    BY <1>0 DEF TypeOK, TimingTypeOK
  <2>3. \A w \in Workers : TimedSound(w)'
    BY <1>0, <1>4, <2>1, <2>2 DEF TimedSound, Holding, Current, StillNeeded
  <2> QED
    BY <1>0, <1>4, <2>3 DEF TimingTypeOK
<1>5. ASSUME UNCHANGED tvars
      PROVE  Goal
  BY <1>0, <1>5 DEF tvars, vars, TimingTypeOK, TimedSound, Holding, Current, StillNeeded
<1>6. Goal
  BY <1>1, <1>2, <1>3, <1>4, <1>5 DEF TNext
<1>7. TIInv' <=> TimingTypeOK' /\ \A w \in Workers : TimedSound(w)'
  BY DEF TIInv, StageInTime, LeaseSuffices, WireHeld, TimedSound
<1> QED
  BY <1>6, <1>7

\* A timed behaviour is a behaviour of the queue.
LEMMA TimedSteps == [TNext]_tvars => [Next]_vars
  BY DEF TNext, Next, TimelyTick, tvars

LEMMA TimedInvariant == TSpec => [](IInv /\ TIInv)
<1>1. TInit => IInv /\ TIInv
  BY InitSound, InitTimed DEF TInit
<1>2. IInv /\ TIInv /\ [TNext]_tvars => IInv' /\ TIInv'
  BY StepSound, StepTimed, TimedSteps
<1> QED
  BY <1>1, <1>2, PTL DEF TSpec

\* While no worker is suspended, the lease outlives every delivery: a message
\* at the provider belongs to one worker until its outcome is recorded.
THEOREM LeaseCorrect == TSpec => []DeliveryKeepsLease
<1>1. IInv /\ TIInv => DeliveryKeepsLease
  <2> SUFFICES ASSUME IInv, TIInv, NEW w \in Workers,
                      job[w].stage \in {"delivering", "accepted"}
               PROVE  Current(w) /\ row[job[w].row].lease > now
    BY DEF DeliveryKeepsLease
  <2>1. Current(w) /\ job[w].row \in Rows
    BY DEF TIInv, WireHeld, IInv, JobsSound
  <2>2. now <= due[w] /\ due[w] + StillNeeded(w) < row[job[w].row].lease
    BY <2>1 DEF TIInv, StageInTime, LeaseSuffices, Holding
  <2>3. StillNeeded(w) \in Nat
    BY LeaseAssumption, TimingAssumption DEF StillNeeded
  <2>4. now \in Nat /\ due[w] \in Nat /\ row[job[w].row].lease \in Nat
    BY <2>1 DEF IInv, TIInv, TypeOK, TimingTypeOK, QueueRow
  <2> QED
    BY <2>1, <2>2, <2>3, <2>4
<1> QED
  BY <1>1, TimedInvariant, PTL

\* No two workers have one message at their providers at the same time.
THEOREM OneAtTheProvider ==
  TSpec => [](\A v, w \in Workers :
                ({job[v].stage, job[w].stage} \subseteq {"delivering", "accepted"}
                   /\ job[v].row = job[w].row) => v = w)
<1>1. ASSUME DeliveryKeepsLease, NEW v \in Workers, NEW w \in Workers,
             {job[v].stage, job[w].stage} \subseteq {"delivering", "accepted"},
             job[v].row = job[w].row
      PROVE  v = w
  <2>1. Current(v) /\ Current(w)
    BY <1>1 DEF DeliveryKeepsLease
  <2>2. row[job[v].row].owner = v /\ row[job[w].row].owner = w
    BY <2>1 DEF Current
  <2> QED
    BY <1>1, <2>2
<1>2. DeliveryKeepsLease =>
        \A v, w \in Workers :
          ({job[v].stage, job[w].stage} \subseteq {"delivering", "accepted"}
             /\ job[v].row = job[w].row) => v = w
  BY <1>1
<1> QED
  BY <1>2, LeaseCorrect, PTL

=============================================================================
