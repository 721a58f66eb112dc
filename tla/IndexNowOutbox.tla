--------------------------- MODULE IndexNowOutbox ---------------------------
(***************************************************************************)
(* The notices to the search engines. Each activation of a release writes  *)
(* the addresses of the release and of the one it replaces into the        *)
(* release's row of publication_outbox; the IndexNow worker claims a row   *)
(* under a lease, posts it outside the transaction, and records the answer *)
(* if its claim is still the one that runs. A later activation of the same *)
(* release rearms the row, whoever is sending it at the time.              *)
(*                                                                         *)
(* Rows are written with a payload that was just validated, so the claimed *)
(* payload is always well formed. The retry delay is time alone: a row     *)
(* that may be tried again is claimed at any later moment, in any order.   *)
(* Owner and fencing token are the worker: no worker has two claims, and   *)
(* no claim survives its worker.                                           *)
(***************************************************************************)
EXTENDS Naturals

CONSTANTS
  Releases,         \* releases that may become active
  NoRelease,        \* no active release yet
  Urls,             \* addresses of the public site
  UrlsOf,           \* sitemap of each release
  Workers,          \* IndexNow workers that may overlap
  NoWorker,         \* locked_by of a row nobody sends
  MaxAttempts,      \* INDEXNOW_MAX_ATTEMPTS (5 in the code)
  MaxActivations    \* bound: activations

ASSUME IndexNowAssumption ==
  /\ NoRelease \notin Releases
  /\ NoWorker \notin Workers
  /\ UrlsOf \in [Releases -> SUBSET Urls]
  /\ MaxAttempts \in Nat \ {0}
  /\ MaxActivations \in Nat

VARIABLES
  active,    \* the active release
  count,     \* activations so far
  row,       \* publication_outbox
  worker,    \* the IndexNow workers
  removed    \* addresses taken off the site and not announced since (history)

vars == <<active, count, row, worker, removed>>

\* version and taken are history: which payload of the row this is, and
\* whether the search engine accepted it.
Row == [state : {"none", "pending", "processing", "sent", "failed"},
        urls : SUBSET Urls, attempt : 0..MaxAttempts,
        owner : Workers \cup {NoWorker}, leased : BOOLEAN,
        version : Nat, taken : BOOLEAN]
Lane == [stage : {"idle", "sending", "accepted", "failing"},
         release : Releases \cup {NoRelease}, version : Nat, urls : SUBSET Urls]

NoRow == [state |-> "none", urls |-> {}, attempt |-> 0, owner |-> NoWorker,
          leased |-> FALSE, version |-> 0, taken |-> FALSE]
Idle == [stage |-> "idle", release |-> NoRelease, version |-> 0, urls |-> {}]

RowsIn(S) == {r \in Releases : row[r].state \in S}

\* The schema: an owner exactly while a row is processed, and by the claim
\* at most one row processed at a time.
TypeOK ==
  /\ active \in Releases \cup {NoRelease}
  /\ count \in 0..MaxActivations
  /\ row \in [Releases -> Row]
  /\ \A r \in Releases :
       /\ row[r].state = "processing" <=> row[r].owner # NoWorker
       /\ row[r].leased => row[r].state = "processing"
  /\ \A r, s \in RowsIn({"processing"}) : r = s
  /\ worker \in [Workers -> Lane]
  /\ removed \subseteq Urls

Init ==
  /\ active = NoRelease
  /\ count = 0
  /\ row = [r \in Releases |-> NoRow]
  /\ worker = [w \in Workers |-> Idle]
  /\ removed = {}

-----------------------------------------------------------------------------
(* The control server.                                                     *)

Sitemap(r) == IF r = NoRelease THEN {} ELSE UrlsOf[r]

\* The addresses an activation has to announce, those it takes away included.
Notice(r) == Sitemap(r) \cup Sitemap(active)

\* A row is rearmed with a payload, as if it had never been tried.
Rearmed(q, U) ==
  [NoRow EXCEPT !.state = "pending", !.urls = U, !.version = q.version + 1]

\* Mutant: a row that was ever sent counts as done.
OutdatedUnlessSent(q, U) == q.state # "sent" /\ (q.state \in {"none", "failed"} \/ q.urls # U)

\* A row still waiting, or being sent, with the same addresses is left alone.
BeingSent(q, U) == q.state = "processing" /\ q.urls = U
Outdated(q, U) == q.state \in {"none", "sent", "failed"} \/ q.urls # U

(***************************************************************************)
(* An activation is committed: the addresses of the release and those of   *)
(* the one it replaces are to be announced.                                *)
(***************************************************************************)
CommitActivation(r) ==
  LET U == Notice(r) IN
  /\ count < MaxActivations
  /\ r # active
  /\ active' = r
  /\ count' = count + 1
  /\ row' = [row EXCEPT ![r] = IF Outdated(@, U) THEN Rearmed(@, U) ELSE @]
  /\ removed' = (IF BeingSent(row[r], U) THEN removed ELSE removed \cup Sitemap(active))
                   \ Sitemap(r)
  /\ UNCHANGED worker

-----------------------------------------------------------------------------
(* The worker.                                                             *)

\* Mutant: a claim forgets how often a row was tried.
TriableAlways(q) == q.state \in {"pending", "failed"}

Triable(q) == q.state \in {"pending", "failed"} /\ q.attempt < MaxAttempts

\* The rows after the leases that ran out are taken back.
Recovered ==
  [r \in Releases |->
    IF row[r].state = "processing" /\ ~row[r].leased
    THEN [row[r] EXCEPT !.state = "failed", !.owner = NoWorker] ELSE row[r]]

Claimed(q, w) ==
  [q EXCEPT !.state = "processing", !.attempt = IF @ < MaxAttempts THEN @ + 1 ELSE @,
            !.owner = w, !.leased = TRUE]

\* One transaction: expired leases are taken back, and if no row is being
\* processed then, one that may be tried is claimed.
Claim(w) ==
  LET rows == Recovered
      free == \A r \in Releases : rows[r].state # "processing"
      candidates == IF free THEN {r \in Releases : Triable(rows[r])} ELSE {}
  IN
  /\ worker[w].stage = "idle"
  /\ \/ \E r \in candidates :
          /\ row' = [rows EXCEPT ![r] = Claimed(@, w)]
          /\ worker' = [worker EXCEPT ![w] =
               [stage |-> "sending", release |-> r, version |-> rows[r].version,
                urls |-> rows[r].urls]]
     \/ /\ candidates = {}
        /\ row' = rows /\ rows # row
        /\ UNCHANGED worker
  /\ UNCHANGED <<active, count, removed>>

\* The search engine accepts the request: it knows of the addresses as they
\* are now, whether or not the answer arrives.
Accept(w) ==
  /\ worker[w].stage = "sending"
  /\ worker' = [worker EXCEPT ![w].stage = "accepted"]
  /\ removed' = removed \ worker[w].urls
  /\ row' = [row EXCEPT ![worker[w].release].taken =
               @ \/ worker[w].version = row[worker[w].release].version]
  /\ UNCHANGED <<active, count>>

\* The request fails, its answer is lost, times out or says anything but
\* 200 or 202.
SendFails(w) ==
  /\ worker[w].stage \in {"sending", "accepted"}
  /\ worker' = [worker EXCEPT ![w].stage = "failing"]
  /\ UNCHANGED <<active, count, row, removed>>

\* Mutant: the row is looked up by its release alone.
RowProcessed(w) == row[worker[w].release].state = "processing"

LiveClaim(w) ==
  /\ row[worker[w].release].owner = w
  /\ row[worker[w].release].leased

Ended(q, s) == [q EXCEPT !.state = s, !.owner = NoWorker, !.leased = FALSE]

\* The outcome is recorded under a live claim; another one is fenced.
Record(w, s) ==
  /\ row' = IF LiveClaim(w)
            THEN [row EXCEPT ![worker[w].release] = Ended(@, s)] ELSE row
  /\ worker' = [worker EXCEPT ![w] = Idle]
  /\ UNCHANGED <<active, count, removed>>

CompleteDelivery(w) == worker[w].stage = "accepted" /\ Record(w, "sent")
FailDelivery(w) == worker[w].stage = "failing" /\ Record(w, "failed")

\* The worker dies, or the database is busy when it records the outcome.
\* (One that dies idle has nothing to lose.)
LoseClaim(w) ==
  /\ worker[w].stage # "idle"
  /\ worker' = [worker EXCEPT ![w] = Idle]
  /\ UNCHANGED <<active, count, row, removed>>

\* A lease runs out: a dead worker's always does, a slow one's may.
LeaseExpires(r) ==
  /\ row[r].leased
  /\ row' = [row EXCEPT ![r].leased = FALSE]
  /\ UNCHANGED <<active, count, worker, removed>>

Cycle(w) ==
  Claim(w) \/ Accept(w) \/ SendFails(w) \/ CompleteDelivery(w) \/ FailDelivery(w)

Next ==
  \/ \E r \in Releases : CommitActivation(r) \/ LeaseExpires(r)
  \/ \E w \in Workers : Cycle(w) \/ LoseClaim(w)

Spec == Init /\ [][Next]_vars

\* The worker is configured and its cycles go on; requests end at their
\* time limit; time passes.
Fairness ==
  /\ \A w \in Workers : WF_vars(Cycle(w))
  /\ \A r \in Releases : WF_vars(LeaseExpires(r))

FairSpec == Spec /\ Fairness

-----------------------------------------------------------------------------
(* Properties.                                                             *)

\* hasLivePublicationOutboxReference: pruning takes the notice for outstanding.
Live(q) ==
  q.state \in {"pending", "processing"} \/ (q.state = "failed" /\ q.attempt < MaxAttempts)

\* A row says sent only if the search engine accepted the addresses it holds
\* now: the late answer to an earlier payload never settles a rearmed row.
SentMeansAccepted == \A r \in RowsIn({"sent"}) : row[r].taken

\* Addresses that a publication or rollback took off the site, and that answer
\* 404 from then on, are announced after they went, unless they come back or
\* a notice was given up after its last attempt. (Not promised where the row,
\* with the same addresses, was just being sent: it is left alone.)
RemovalsAnnounced ==
  \A u \in Urls : u \in removed ~>
    \/ u \notin removed
    \/ \E r \in RowsIn({"failed"}) : ~Live(row[r])

\* The rows keep the promise to the publication: pruning's idea of an
\* outstanding notice agrees with what the worker still claims, and every
\* notice is settled in the end.
Notices == INSTANCE ReleaseNotices WITH
  notice <- [r \in Releases |-> IF row[r].state = "none" THEN "none"
                                ELSE IF Live(row[r]) THEN "live" ELSE "settled"]

ImplementsNotices == Notices!Spec

=============================================================================
