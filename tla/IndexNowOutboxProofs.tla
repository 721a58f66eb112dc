------------------------ MODULE IndexNowOutboxProofs ------------------------
(***************************************************************************)
(* Proofs about IndexNowOutbox, for any number of workers, releases,       *)
(* addresses, attempts and activations: what a row says was sent was       *)
(* accepted, and the rows keep the promise of ReleaseNotices.              *)
(***************************************************************************)
EXTENDS IndexNowOutbox, TLAPS

-----------------------------------------------------------------------------
(* What the operations on a row return.                                    *)

LEMMA SitemapType ==
  ASSUME NEW r \in Releases \cup {NoRelease}
  PROVE  Sitemap(r) \in SUBSET Urls
  BY IndexNowAssumption DEF Sitemap

LEMMA RearmedType ==
  ASSUME NEW q \in Row, NEW U \in SUBSET Urls
  PROVE  /\ Rearmed(q, U) \in Row
         /\ Rearmed(q, U).state = "pending"
         /\ Rearmed(q, U).owner = NoWorker
         /\ ~Rearmed(q, U).leased
         /\ Rearmed(q, U).attempt = 0
<1>1. q.version + 1 \in Nat /\ 0 \in 0..MaxAttempts
  BY IndexNowAssumption DEF Row
<1>2. NoRow \in Row
  BY IndexNowAssumption DEF NoRow, Row
<1> QED
  BY <1>1, <1>2 DEF Rearmed, NoRow, Row

LEMMA ClaimedType ==
  ASSUME NEW q \in Row, NEW w \in Workers
  PROVE  /\ Claimed(q, w) \in Row
         /\ Claimed(q, w).state = "processing"
         /\ Claimed(q, w).owner = w
         /\ Claimed(q, w).version = q.version
         /\ Claimed(q, w).taken = q.taken
<1> DEFINE n == IF q.attempt < MaxAttempts THEN q.attempt + 1 ELSE q.attempt
<1>1. n \in 0..MaxAttempts
  BY IndexNowAssumption DEF Row
<1>2. Claimed(q, w) = [q EXCEPT !.state = "processing", !.attempt = n, !.owner = w,
                               !.leased = TRUE]
  BY DEF Claimed
<1> QED
  BY <1>1, <1>2 DEF Row

LEMMA EndedType ==
  ASSUME NEW q \in Row, NEW s \in {"sent", "failed"}
  PROVE  /\ Ended(q, s) \in Row
         /\ Ended(q, s).state = s
         /\ Ended(q, s).owner = NoWorker
         /\ ~Ended(q, s).leased
         /\ Ended(q, s).attempt = q.attempt
         /\ Ended(q, s).taken = q.taken
  BY IndexNowAssumption DEF Ended, Row

\* The rows once the leases that ran out are taken back: a row that is
\* processed then has a lease.
LEMMA RecoveredType ==
  ASSUME TypeOK
  PROVE  /\ Recovered \in [Releases -> Row]
         /\ \A r \in Releases :
              /\ Recovered[r].state = "processing" <=> Recovered[r].owner # NoWorker
              /\ Recovered[r].leased => Recovered[r].state = "processing"
              /\ Recovered[r].owner = row[r].owner \/ Recovered[r].owner = NoWorker
              /\ Recovered[r].version = row[r].version
              /\ Recovered[r].taken = row[r].taken
              /\ Recovered[r].attempt = row[r].attempt
              /\ Recovered[r] # row[r] =>
                   row[r].state = "processing" /\ Recovered[r].state = "failed"
<1> SUFFICES ASSUME NEW r \in Releases
             PROVE  /\ Recovered[r] \in Row
                    /\ Recovered[r].state = "processing" <=> Recovered[r].owner # NoWorker
                    /\ Recovered[r].leased => Recovered[r].state = "processing"
                    /\ Recovered[r].owner = row[r].owner \/ Recovered[r].owner = NoWorker
                    /\ Recovered[r].version = row[r].version
                    /\ Recovered[r].taken = row[r].taken
                    /\ Recovered[r].attempt = row[r].attempt
                    /\ Recovered[r] # row[r] =>
                         row[r].state = "processing" /\ Recovered[r].state = "failed"
  BY DEF Recovered
<1>1. row[r] \in Row /\ (row[r].state = "processing" <=> row[r].owner # NoWorker)
        /\ (row[r].leased => row[r].state = "processing")
  BY DEF TypeOK
<1>2. CASE row[r].state = "processing" /\ ~row[r].leased
  <2>1. Recovered[r] = [row[r] EXCEPT !.state = "failed", !.owner = NoWorker]
    BY <1>2 DEF Recovered
  <2> QED
    BY <1>1, <1>2, <2>1 DEF Row
<1>3. CASE ~(row[r].state = "processing" /\ ~row[r].leased)
  <2>1. Recovered[r] = row[r]
    BY <1>3 DEF Recovered
  <2> QED
    BY <1>1, <2>1
<1> QED
  BY <1>2, <1>3

-----------------------------------------------------------------------------
(* The inductive invariant.                                                *)

\* A worker under way has a release; while the release's row is its own, it
\* carries the payload of the row, and what was accepted of it is noted.
ClaimsCurrent ==
  \A w \in Workers : worker[w].stage # "idle" =>
    /\ worker[w].release \in Releases
    /\ row[worker[w].release].owner = w =>
         /\ worker[w].version = row[worker[w].release].version
         /\ worker[w].stage = "accepted" => row[worker[w].release].taken

IInv == TypeOK /\ ClaimsCurrent /\ SentMeansAccepted

LEMMA InitIInv == Init => IInv
<1> SUFFICES ASSUME Init PROVE IInv
  OBVIOUS
<1>1. NoRow \in Row /\ Idle \in Lane
  BY IndexNowAssumption DEF NoRow, Row, Idle, Lane
<1>2. TypeOK
  BY <1>1, IndexNowAssumption DEF Init, TypeOK, NoRow, RowsIn
<1>3. ClaimsCurrent /\ SentMeansAccepted
  BY DEF Init, ClaimsCurrent, SentMeansAccepted, RowsIn, NoRow, Idle
<1> QED
  BY <1>2, <1>3 DEF IInv

LEMMA ActivationKeeps ==
  ASSUME IInv, NEW r \in Releases, CommitActivation(r)
  PROVE  IInv'
<1> DEFINE U == Notice(r)
           q == IF Outdated(row[r], U) THEN Rearmed(row[r], U) ELSE row[r]
<1> USE DEF IInv
<1>1. Sitemap(r) \in SUBSET Urls /\ Sitemap(active) \in SUBSET Urls /\ U \in SUBSET Urls
  BY SitemapType DEF TypeOK, Notice
<1>2. row[r] \in Row
  BY DEF TypeOK
<1>3. row' = [row EXCEPT ![r] = q]
  BY DEF CommitActivation
<1>4. q \in Row /\ (q = row[r] \/ (q.state = "pending" /\ q.owner = NoWorker /\ ~q.leased))
  BY <1>1, <1>2, RearmedType
<1> HIDE DEF U, q
<1>5. TypeOK'
  <2>1. row' \in [Releases -> Row]
    BY <1>3, <1>4 DEF TypeOK
  <2>2. \A s \in Releases : /\ row'[s].state = "processing" <=> row'[s].owner # NoWorker
                            /\ row'[s].leased => row'[s].state = "processing"
    BY <1>3, <1>4 DEF TypeOK
  <2>3. \A s \in RowsIn({"processing"})' : s \in RowsIn({"processing"})
    BY <1>3, <1>4 DEF TypeOK, RowsIn
  <2>4. removed' \subseteq Urls
    BY <1>1 DEF CommitActivation, TypeOK
  <2>5. active' \in Releases \cup {NoRelease} /\ count' \in 0..MaxActivations
    BY IndexNowAssumption DEF CommitActivation, TypeOK
  <2> QED
    BY <2>1, <2>2, <2>3, <2>4, <2>5 DEF TypeOK, CommitActivation
<1>6. ClaimsCurrent'
  BY <1>3, <1>4, IndexNowAssumption DEF TypeOK, ClaimsCurrent, CommitActivation
<1>7. SentMeansAccepted'
  BY <1>3, <1>4 DEF TypeOK, SentMeansAccepted, RowsIn
<1> QED
  BY <1>5, <1>6, <1>7

LEMMA ClaimKeeps ==
  ASSUME IInv, NEW w \in Workers, Claim(w)
  PROVE  IInv'
<1> USE DEF IInv
<1> DEFINE free == \A r \in Releases : Recovered[r].state # "processing"
           candidates == IF free THEN {r \in Releases : Triable(Recovered[r])} ELSE {}
<1>1. Recovered \in [Releases -> Row]
  BY RecoveredType
<1>2. CASE candidates = {} /\ row' = Recovered /\ UNCHANGED worker
  <2>1. TypeOK'
    <3>1. \A r \in RowsIn({"processing"})' : r \in RowsIn({"processing"})
      BY <1>2, RecoveredType DEF RowsIn
    <3> QED
      BY <1>1, <1>2, <3>1, RecoveredType DEF TypeOK, Claim
  <2>2. ClaimsCurrent'
    BY <1>2, RecoveredType, IndexNowAssumption DEF ClaimsCurrent
  <2>3. SentMeansAccepted'
    BY <1>2, RecoveredType DEF SentMeansAccepted, RowsIn
  <2> QED
    BY <2>1, <2>2, <2>3
<1>3. ASSUME NEW r \in candidates,
             row' = [Recovered EXCEPT ![r] = Claimed(Recovered[r], w)],
             worker' = [worker EXCEPT ![w] =
               [stage |-> "sending", release |-> r, version |-> Recovered[r].version,
                urls |-> Recovered[r].urls]]
      PROVE  IInv'
  <2>1. r \in Releases /\ free
    BY <1>3
  <2>2. Recovered[r] \in Row
    BY <1>1, <2>1
  <2>3. /\ row'[r] \in Row /\ row'[r].state = "processing" /\ row'[r].owner = w
        /\ row'[r].version = Recovered[r].version
        /\ \A s \in Releases \ {r} : row'[s] = Recovered[s]
        /\ row' \in [Releases -> Row]
    BY <1>1, <1>3, <2>1, <2>2, ClaimedType
  <2>4. \A s \in Releases \ {r} : Recovered[s].owner = NoWorker /\ row'[s].state # "processing"
    BY <2>1, <2>3, RecoveredType
  <2>5. worker'[w] \in Lane /\ worker' \in [Workers -> Lane]
    BY <1>3, <2>1, <2>2 DEF Lane, Row, TypeOK
  <2>6. TypeOK'
    <3>1. RowsIn({"processing"})' \subseteq {r}
      BY <2>4 DEF RowsIn
    <3>2. \A s \in Releases : /\ row'[s].state = "processing" <=> row'[s].owner # NoWorker
                              /\ row'[s].leased => row'[s].state = "processing"
      BY <2>3, <2>4, RecoveredType, IndexNowAssumption
    <3> QED
      BY <2>3, <2>5, <3>1, <3>2 DEF TypeOK, Claim
  <2>7. ClaimsCurrent'
    <3> SUFFICES ASSUME NEW v \in Workers, worker'[v].stage # "idle"
                 PROVE  /\ worker'[v].release \in Releases
                        /\ row'[worker'[v].release].owner = v =>
                             /\ worker'[v].version = row'[worker'[v].release].version
                             /\ worker'[v].stage = "accepted" => row'[worker'[v].release].taken
      BY DEF ClaimsCurrent
    <3>1. CASE v = w
      <4>1. worker'[v].release = r /\ worker'[v].stage = "sending"
              /\ worker'[v].version = Recovered[r].version
        BY <1>3, <3>1 DEF TypeOK
      <4> QED
        BY <2>1, <2>3, <4>1
    <3>2. CASE v # w
      <4>1. worker'[v] = worker[v] /\ worker[v].release \in Releases
        BY <1>3, <3>2 DEF TypeOK, ClaimsCurrent
      <4>2. row'[worker[v].release].owner # v
        BY <2>3, <2>4, <3>2, <4>1, IndexNowAssumption
      <4> QED
        BY <4>1, <4>2
    <3> QED
      BY <3>1, <3>2
  <2>8. SentMeansAccepted'
    <3> SUFFICES ASSUME NEW s \in Releases, row'[s].state = "sent"
                 PROVE  row'[s].taken
      BY DEF SentMeansAccepted, RowsIn
    <3>1. s # r /\ row'[s] = Recovered[s] /\ Recovered[s] = row[s]
      BY <2>3, RecoveredType
    <3> QED
      BY <3>1 DEF SentMeansAccepted, RowsIn
  <2> QED
    BY <2>6, <2>7, <2>8
<1> QED
  BY <1>2, <1>3 DEF Claim

LEMMA AcceptKeeps ==
  ASSUME IInv, NEW w \in Workers, Accept(w)
  PROVE  IInv'
<1> USE DEF IInv
<1> DEFINE r == worker[w].release
           q == [row[r] EXCEPT !.taken = @ \/ worker[w].version = row[r].version]
<1>1. r \in Releases /\ row[r] \in Row
  BY DEF Accept, TypeOK, ClaimsCurrent
<1>2. row' = [row EXCEPT ![r] = q]
  BY DEF Accept
<1>3. /\ q \in Row /\ q.state = row[r].state /\ q.owner = row[r].owner
      /\ q.leased = row[r].leased /\ q.version = row[r].version
      /\ row[r].taken => q.taken
      /\ worker[w].version = row[r].version => q.taken
  BY <1>1 DEF Row
<1>4. /\ worker' = [worker EXCEPT ![w].stage = "accepted"]
      /\ worker' \in [Workers -> Lane]
  BY DEF Accept, TypeOK, Lane
<1>5. /\ row' \in [Releases -> Row]
      /\ \A s \in Releases : /\ row'[s].state = row[s].state /\ row'[s].owner = row[s].owner
                             /\ row'[s].leased = row[s].leased
                             /\ row'[s].version = row[s].version
                             /\ row[s].taken => row'[s].taken
      /\ row'[r] = q
  BY <1>1, <1>2, <1>3 DEF TypeOK
<1> HIDE DEF q
<1>6. TypeOK'
  BY <1>4, <1>5 DEF Accept, TypeOK, RowsIn
<1>7. ClaimsCurrent'
  <2> SUFFICES ASSUME NEW v \in Workers, worker'[v].stage # "idle"
               PROVE  /\ worker'[v].release \in Releases
                      /\ row'[worker'[v].release].owner = v =>
                           /\ worker'[v].version = row'[worker'[v].release].version
                           /\ worker'[v].stage = "accepted" => row'[worker'[v].release].taken
    BY DEF ClaimsCurrent
  <2>1. CASE v = w
    <3>1. worker'[v].release = r /\ worker'[v].version = worker[w].version
            /\ worker[w].stage # "idle"
      BY <1>4, <2>1 DEF TypeOK, Accept, Lane
    <3> QED
      BY <1>1, <1>3, <1>5, <2>1, <3>1 DEF ClaimsCurrent
  <2>2. CASE v # w
    <3>1. worker'[v] = worker[v]
      BY <1>4, <2>2 DEF TypeOK
    <3> QED
      BY <1>5, <3>1 DEF ClaimsCurrent
  <2> QED
    BY <2>1, <2>2
<1>8. SentMeansAccepted'
  BY <1>5 DEF SentMeansAccepted, RowsIn
<1> QED
  BY <1>6, <1>7, <1>8

LEMMA RecordKeeps ==
  ASSUME IInv, NEW w \in Workers, NEW s \in {"sent", "failed"}, Record(w, s),
         worker[w].stage # "idle",
         s = "sent" => worker[w].stage = "accepted"
  PROVE  IInv'
<1> USE DEF IInv
<1> DEFINE r == worker[w].release
<1>1. r \in Releases /\ row[r] \in Row
  BY DEF TypeOK, ClaimsCurrent
<1>2. worker' = [worker EXCEPT ![w] = Idle] /\ Idle \in Lane
  BY DEF Record, Idle, Lane
<1>3. CASE LiveClaim(w)
  <2>1. row' = [row EXCEPT ![r] = Ended(row[r], s)]
    BY <1>3 DEF Record
  <2>2. /\ row' \in [Releases -> Row]
        /\ row'[r].state = s /\ row'[r].owner = NoWorker /\ ~row'[r].leased
        /\ row'[r].taken = row[r].taken
        /\ \A t \in Releases \ {r} : row'[t] = row[t]
    BY <1>1, <2>1, EndedType DEF TypeOK
  <2>3. TypeOK'
    <3>1. \A t \in RowsIn({"processing"})' : t \in RowsIn({"processing"})
      BY <2>2 DEF RowsIn
    <3> QED
      BY <1>2, <2>2, <3>1 DEF TypeOK, Record
  <2>4. ClaimsCurrent'
    BY <1>2, <2>2, IndexNowAssumption DEF TypeOK, ClaimsCurrent, Idle
  <2>5. s = "sent" => row[r].taken
    BY <1>3 DEF ClaimsCurrent, LiveClaim
  <2>6. SentMeansAccepted'
    BY <2>2, <2>5 DEF SentMeansAccepted, RowsIn
  <2> QED
    BY <2>3, <2>4, <2>6
<1>4. CASE ~LiveClaim(w)
  <2>1. row' = row
    BY <1>4 DEF Record
  <2>2. TypeOK'
    BY <1>2, <2>1 DEF TypeOK, Record, RowsIn
  <2>3. ClaimsCurrent'
    BY <1>2, <2>1 DEF TypeOK, ClaimsCurrent, Idle
  <2> QED
    BY <2>1, <2>2, <2>3 DEF SentMeansAccepted, RowsIn
<1> QED
  BY <1>3, <1>4

LEMMA OthersKeep ==
  ASSUME IInv,
         \/ \E w \in Workers : SendFails(w) \/ LoseClaim(w)
         \/ \E r \in Releases : LeaseExpires(r)
  PROVE  IInv'
<1> USE DEF IInv
<1>1. ASSUME NEW w \in Workers, SendFails(w)
      PROVE  IInv'
  <2>1. worker' = [worker EXCEPT ![w].stage = "failing"] /\ worker' \in [Workers -> Lane]
    BY <1>1 DEF SendFails, TypeOK, Lane
  <2>2. TypeOK' /\ SentMeansAccepted'
    BY <1>1, <2>1 DEF SendFails, TypeOK, SentMeansAccepted, RowsIn
  <2>3. ClaimsCurrent'
    BY <1>1, <2>1 DEF SendFails, TypeOK, Lane, ClaimsCurrent
  <2> QED
    BY <2>2, <2>3
<1>2. ASSUME NEW w \in Workers, LoseClaim(w)
      PROVE  IInv'
  <2>1. worker' = [worker EXCEPT ![w] = Idle] /\ Idle \in Lane
    BY <1>2 DEF LoseClaim, Idle, Lane
  <2>2. TypeOK' /\ SentMeansAccepted'
    BY <1>2, <2>1 DEF LoseClaim, TypeOK, SentMeansAccepted, RowsIn
  <2>3. ClaimsCurrent'
    BY <1>2, <2>1 DEF LoseClaim, TypeOK, Idle, ClaimsCurrent
  <2> QED
    BY <2>2, <2>3
<1>3. ASSUME NEW r \in Releases, LeaseExpires(r)
      PROVE  IInv'
  <2>1. /\ row' \in [Releases -> Row]
        /\ ~row'[r].leased
        /\ \A s \in Releases : /\ row'[s].state = row[s].state /\ row'[s].owner = row[s].owner
                               /\ row'[s].version = row[s].version
                               /\ row'[s].taken = row[s].taken
                               /\ row'[s].leased => row[s].leased
    <3>1. row[r] \in Row /\ row' = [row EXCEPT ![r] = [row[r] EXCEPT !.leased = FALSE]]
      BY <1>3 DEF LeaseExpires, TypeOK
    <3>2. [row[r] EXCEPT !.leased = FALSE] \in Row
      BY <3>1 DEF Row
    <3> QED
      BY <3>1, <3>2 DEF TypeOK, Row
  <2>2. TypeOK'
    BY <1>3, <2>1 DEF LeaseExpires, TypeOK, RowsIn
  <2>3. ClaimsCurrent' /\ SentMeansAccepted'
    BY <1>3, <2>1 DEF LeaseExpires, ClaimsCurrent, SentMeansAccepted, RowsIn
  <2> QED
    BY <2>2, <2>3
<1> QED
  BY <1>1, <1>2, <1>3

LEMMA NextKeeps == IInv /\ [Next]_vars => IInv'
<1> SUFFICES ASSUME IInv, [Next]_vars PROVE IInv'
  OBVIOUS
<1>1. ASSUME NEW r \in Releases, CommitActivation(r)
      PROVE  IInv'
  BY <1>1, ActivationKeeps
<1>2. ASSUME NEW w \in Workers, Claim(w)
      PROVE  IInv'
  BY <1>2, ClaimKeeps
<1>3. ASSUME NEW w \in Workers, Accept(w)
      PROVE  IInv'
  BY <1>3, AcceptKeeps
<1>4. ASSUME NEW w \in Workers, CompleteDelivery(w)
      PROVE  IInv'
  BY <1>4, RecordKeeps DEF CompleteDelivery
<1>5. ASSUME NEW w \in Workers, FailDelivery(w)
      PROVE  IInv'
  BY <1>5, RecordKeeps DEF FailDelivery
<1>6. ASSUME UNCHANGED vars
      PROVE  IInv'
  BY <1>6 DEF vars, IInv, TypeOK, ClaimsCurrent, SentMeansAccepted, RowsIn
<1> QED
  BY <1>1, <1>2, <1>3, <1>4, <1>5, <1>6, OthersKeep DEF Next, Cycle

\* The inductive invariant holds.
THEOREM Invariant == Spec => []IInv
  BY InitIInv, NextKeeps, PTL DEF Spec

\* Every variable of the notices keeps its type, and at most one row is
\* processed at a time, however many workers there are.
THEOREM TypeCorrect == Spec => []TypeOK
<1>1. IInv => TypeOK
  BY DEF IInv
<1> QED
  BY <1>1, Invariant, PTL

\* A row says sent only if the search engine accepted what it holds now.
THEOREM SentCorrect == Spec => []SentMeansAccepted
<1>1. IInv => SentMeansAccepted
  BY DEF IInv
<1> QED
  BY <1>1, Invariant, PTL

-----------------------------------------------------------------------------
(* The rows keep the promise of ReleaseNotices.                            *)

Mapped(q) == IF q.state = "none" THEN "none" ELSE IF Live(q) THEN "live" ELSE "settled"

N == [r \in Releases |-> Mapped(row[r])]

LEMMA MappedType ==
  ASSUME NEW q \in Row
  PROVE  /\ Mapped(q) \in {"none", "live", "settled"}
         /\ q.state \in {"pending", "processing"} => Mapped(q) = "live"
         /\ q.state = "sent" => Mapped(q) = "settled"
         /\ q.state = "failed" => Mapped(q) \in {"live", "settled"}
         /\ Triable(q) => Mapped(q) = "live"
  BY DEF Mapped, Live, Triable, Row

\* A step that only settles one outstanding notice, or leaves all as they are.
LEMMA SettlesOne ==
  ASSUME NEW p \in Releases, UNCHANGED active,
         \A r \in Releases \ {p} : Mapped(row'[r]) = Mapped(row[r]),
         Mapped(row[p]) = "live",
         Mapped(row'[p]) \in {"live", "settled"}
  PROVE  [Notices!Next]_Notices!vars
<1>1. CASE Mapped(row'[p]) = "live"
  <2>1. N' = N
    BY <1>1 DEF N
  <2> QED
    BY <2>1 DEF Notices!vars, N, Mapped
<1>2. CASE Mapped(row'[p]) = "settled"
  <2>1. N[p] = "live" /\ N' = [N EXCEPT ![p] = "settled"]
    BY <1>2 DEF N
  <2>2. Notices!SettleOutbox(p)
    BY <2>1 DEF Notices!SettleOutbox, N, Mapped
  <2> QED
    BY <2>2 DEF Notices!Next
<1> QED
  BY <1>1, <1>2

LEMMA SettlesNone ==
  ASSUME UNCHANGED active, \A r \in Releases : Mapped(row'[r]) = Mapped(row[r])
  PROVE  [Notices!Next]_Notices!vars
<1>1. N' = N
  BY DEF N
<1> QED
  BY <1>1 DEF Notices!vars, N, Mapped

LEMMA ActivationRefines ==
  ASSUME TypeOK, NEW r \in Releases, CommitActivation(r)
  PROVE  Notices!Next
<1> DEFINE U == Notice(r)
           q == IF Outdated(row[r], U) THEN Rearmed(row[r], U) ELSE row[r]
<1>1. U \in SUBSET Urls /\ row[r] \in Row
  BY SitemapType DEF TypeOK, Notice
<1>2. row' = [row EXCEPT ![r] = q] /\ row \in [Releases -> Row]
  BY DEF CommitActivation, TypeOK
<1>3. Mapped(q) = "live"
  <2>1. CASE Outdated(row[r], U)
    BY <1>1, <2>1, RearmedType, MappedType
  <2>2. CASE ~Outdated(row[r], U)
    <3>1. row[r].state \in {"pending", "processing"}
      BY <1>1, <2>2 DEF Outdated, Row
    <3> QED
      BY <1>1, <2>2, <3>1, MappedType
  <2> QED
    BY <2>1, <2>2
<1> HIDE DEF U, q
<1>4. N' = [N EXCEPT ![r] = "live"]
  BY <1>2, <1>3 DEF N
<1>5. active # r /\ active' = r
  BY DEF CommitActivation
<1>6. Notices!Activated(r)
  BY <1>4, <1>5 DEF Notices!Activated, N, Mapped
<1> QED
  BY <1>6 DEF Notices!Next

LEMMA ClaimRefines ==
  ASSUME TypeOK, NEW w \in Workers, Claim(w)
  PROVE  [Notices!Next]_Notices!vars
<1> DEFINE rows == Recovered
<1>1. rows \in [Releases -> Row] /\ row \in [Releases -> Row]
  BY RecoveredType DEF TypeOK
\* A row that is taken back was being processed, so it is the only one.
<1>2. \A r \in Releases :
        \/ row[r].state # "processing" /\ rows[r] = row[r]
        \/ row[r].state = "processing" /\ Mapped(row[r]) = "live"
             /\ Mapped(rows[r]) \in {"live", "settled"}
  <2> TAKE r \in Releases
  <2>1. row[r] \in Row /\ rows[r] \in Row
    BY <1>1
  <2> QED
    BY <2>1, RecoveredType, MappedType DEF Row
\* A row that is claimed is outstanding before and after.
<1>3. \A r \in Releases : row'[r] = rows[r] \/
        (Mapped(rows[r]) = "live" /\ Mapped(row'[r]) = "live")
  <2> SUFFICES ASSUME NEW r \in Releases, row'[r] # rows[r]
               PROVE  Mapped(rows[r]) = "live" /\ Mapped(row'[r]) = "live"
    OBVIOUS
  <2>1. row'[r] = Claimed(rows[r], w) /\ Triable(rows[r])
    BY <1>1 DEF Claim
  <2>2. rows[r] \in Row /\ row'[r] \in Row /\ row'[r].state = "processing"
    BY <1>1, <2>1, ClaimedType
  <2> QED
    BY <2>1, <2>2, MappedType
<1>4. UNCHANGED active
  BY DEF Claim
<1>5. CASE \E p \in Releases : row[p].state = "processing"
  <2>1. PICK p \in Releases : row[p].state = "processing"
    BY <1>5
  <2>2. \A r \in Releases \ {p} : row[r].state # "processing"
    BY <2>1 DEF TypeOK, RowsIn
  <2>3. Mapped(row[p]) = "live" /\ Mapped(row'[p]) \in {"live", "settled"}
    BY <1>2, <1>3, <2>1
  <2>4. \A r \in Releases \ {p} : Mapped(row'[r]) = Mapped(row[r])
    BY <1>2, <1>3, <2>2
  <2> QED
    BY <1>4, <2>3, <2>4, SettlesOne
<1>6. CASE \A p \in Releases : row[p].state # "processing"
  <2>1. \A r \in Releases : Mapped(row'[r]) = Mapped(row[r])
    BY <1>2, <1>3, <1>6
  <2> QED
    BY <1>4, <2>1, SettlesNone
<1> QED
  BY <1>5, <1>6

LEMMA RecordRefines ==
  ASSUME IInv, NEW w \in Workers, NEW s \in {"sent", "failed"}, Record(w, s),
         worker[w].stage # "idle"
  PROVE  [Notices!Next]_Notices!vars
<1> DEFINE r == worker[w].release
<1>1. r \in Releases /\ row \in [Releases -> Row] /\ row[r] \in Row
  BY DEF IInv, TypeOK, ClaimsCurrent
<1>2. UNCHANGED active
  BY DEF Record
<1>3. CASE LiveClaim(w)
  <2>1. row' = [row EXCEPT ![r] = Ended(row[r], s)]
    BY <1>3 DEF Record
  <2>2. row[r].state = "processing"
    BY <1>1, <1>3, IndexNowAssumption DEF LiveClaim, IInv, TypeOK
  <2>3. Mapped(row[r]) = "live"
    BY <1>1, <2>2, MappedType
  <2>4. Ended(row[r], s) \in Row /\ Ended(row[r], s).state = s
    BY <1>1, EndedType
  <2>5. Mapped(row'[r]) \in {"live", "settled"}
    BY <1>1, <2>1, <2>4, MappedType
  <2>6. \A t \in Releases \ {r} : Mapped(row'[t]) = Mapped(row[t])
    BY <1>1, <2>1
  <2> QED
    BY <1>1, <1>2, <2>3, <2>5, <2>6, SettlesOne
<1>4. CASE ~LiveClaim(w)
  BY <1>2, <1>4, SettlesNone DEF Record
<1> QED
  BY <1>3, <1>4

\* What is left changes neither the state of a row nor its attempts.
LEMMA OthersRefine ==
  ASSUME IInv,
         \/ \E w \in Workers : Accept(w) \/ SendFails(w) \/ LoseClaim(w)
         \/ \E r \in Releases : LeaseExpires(r)
  PROVE  [Notices!Next]_Notices!vars
<1>1. UNCHANGED active
  BY DEF Accept, SendFails, LoseClaim, LeaseExpires
<1>2. \A r \in Releases : row'[r].state = row[r].state /\ row'[r].attempt = row[r].attempt
  <2>1. ASSUME NEW w \in Workers, Accept(w)
        PROVE  \A r \in Releases :
                 row'[r].state = row[r].state /\ row'[r].attempt = row[r].attempt
    BY <2>1 DEF Accept, IInv, TypeOK, Row
  <2>2. ASSUME NEW r \in Releases, LeaseExpires(r)
        PROVE  \A s \in Releases :
                 row'[s].state = row[s].state /\ row'[s].attempt = row[s].attempt
    BY <2>2 DEF LeaseExpires, IInv, TypeOK, Row
  <2>3. ASSUME NEW w \in Workers, SendFails(w) \/ LoseClaim(w)
        PROVE  row' = row
    BY <2>3 DEF SendFails, LoseClaim
  <2> QED
    BY <2>1, <2>2, <2>3
<1>3. \A r \in Releases : Mapped(row'[r]) = Mapped(row[r])
  BY <1>2 DEF Mapped, Live
<1> QED
  BY <1>1, <1>3, SettlesNone

\* Every step makes the notice of an activated release outstanding, settles
\* at most one, or changes none.
LEMMA StepRefines == IInv /\ [Next]_vars => [Notices!Next]_Notices!vars
<1> SUFFICES ASSUME IInv, [Next]_vars PROVE [Notices!Next]_Notices!vars
  OBVIOUS
<1>1. ASSUME NEW r \in Releases, CommitActivation(r)
      PROVE  [Notices!Next]_Notices!vars
  BY <1>1, ActivationRefines DEF IInv
<1>2. ASSUME NEW w \in Workers, Claim(w)
      PROVE  [Notices!Next]_Notices!vars
  BY <1>2, ClaimRefines DEF IInv
<1>3. ASSUME NEW w \in Workers, CompleteDelivery(w) \/ FailDelivery(w)
      PROVE  [Notices!Next]_Notices!vars
  BY <1>3, RecordRefines DEF CompleteDelivery, FailDelivery
<1>4. ASSUME UNCHANGED vars
      PROVE  [Notices!Next]_Notices!vars
  <2>1. UNCHANGED active /\ row' = row
    BY <1>4 DEF vars
  <2> QED
    BY <2>1, SettlesNone
<1> QED
  BY <1>1, <1>2, <1>3, <1>4, OthersRefine DEF Next, Cycle

LEMMA InitRefines == Init => Notices!Init
  BY DEF Init, Notices!Init, NoRow

\* The outbox implements what a publication relies on, as far as safety goes:
\* an activation makes the notice of its release outstanding, nothing else
\* does, and it is settled once. (That it is settled in the end is checked.)
THEOREM NoticesImplemented == Spec => Notices!Init /\ [][Notices!Next]_Notices!vars
  BY InitRefines, StepRefines, Invariant, PTL DEF Spec

=============================================================================
