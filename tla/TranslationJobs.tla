--------------------------- MODULE TranslationJobs ---------------------------
(***************************************************************************)
(* Translation of confirmed articles: an administrator asks for a language *)
(* version, a job is queued, and a content worker claims it, runs the      *)
(* external translator three times and commits the result as a revision to *)
(* be reviewed. One job runs at a time. A claim is a lease the worker      *)
(* renews with a heartbeat; a worker that is late, or dead, loses it to    *)
(* another and is fenced from then on. The control server withdraws        *)
(* approvals, publishes and rolls back meanwhile.                          *)
(*                                                                         *)
(* An article's source has one revision for ever (ArticleHeads), so a job  *)
(* is named by the derived head it translates and its ordinal among the    *)
(* jobs with the same input. The pair of locked_by and fencing_token is    *)
(* the worker: a worker holds at most one claim and no claim survives it.  *)
(***************************************************************************)
EXTENDS ArticleHeads, FiniteSets

CONSTANTS
  Workers,       \* content workers that may overlap
  NoWorker,      \* locked_by of a job that is not running
  NoJob,         \* job of a worker without a claim
  Passes,        \* runs of the translator per job (3 in the code)
  PromptHashed,  \* what the executor hashes as the prompt of a pass
  MaxOrdinal,    \* bound: jobs for one head and source revision
  MaxReleases,   \* bound: publications and rollbacks
  MaxLapses      \* bound: crashes, restarts, missed heartbeats, busy databases

Prompts == {"instructions", "pass_input"}

ASSUME JobAssumption ==
  /\ NoWorker \notin Workers
  /\ NoJob \notin Derived \X (1..MaxOrdinal)
  /\ Passes \in Nat \ {0}
  /\ PromptHashed \in Prompts
  /\ {MaxOrdinal, MaxReleases, MaxLapses} \subseteq Nat

VARIABLES
  job,       \* article_translation_jobs
  line,      \* the order of the queued jobs, by available_at_ms
  worker,    \* the content workers' lanes
  release,   \* what was ever published: the sets of entries, and how often
  lapses     \* lapses so far

vars == <<head, job, line, worker, release, lapses>>

Jobs == Derived \X (1..MaxOrdinal)
Target(j) == j[1]
Source(j) == SourceOf[Target(j)]

Job == [state : {"none", "queued", "running", "succeeded", "failed", "cancelled"},
        owner : Workers \cup {NoWorker}, leased : BOOLEAN, result : Nat]
Lane == [stage : {"down", "idle", "executing", "committing", "failing"},
         job : Jobs \cup {NoJob}, pass : 0..Passes, fenced : BOOLEAN,
         clean : BOOLEAN, error : {"none", "process", "output", "conflict"},
         revoked : BOOLEAN]
Entries == [head : Heads, rev : Nat]

IdleLane == [stage |-> "idle", job |-> NoJob, pass |-> 0, fenced |-> FALSE,
             clean |-> TRUE, error |-> "none", revoked |-> FALSE]
DownLane == [IdleLane EXCEPT !.stage = "down"]

\* The schema: a lease and an owner exactly while a job runs, a result
\* exactly once it succeeded.
TypeOK ==
  /\ HeadsTypeOK
  /\ job \in [Jobs -> Job]
  /\ \A j \in Jobs :
       /\ job[j].state = "running" <=> job[j].owner # NoWorker
       /\ job[j].leased => job[j].state = "running"
       /\ job[j].state = "succeeded" <=> job[j].result # 0
  /\ line \in SUBSET (Jobs \X Jobs)
  /\ worker \in [Workers -> Lane]
  /\ release \in [sets : SUBSET SUBSET Entries, count : 0..MaxReleases]
  /\ lapses \in 0..MaxLapses

Init ==
  /\ HeadsInit
  /\ job = [j \in Jobs |-> [state |-> "none", owner |-> NoWorker,
                            leased |-> FALSE, result |-> 0]]
  /\ line = {}
  /\ worker = [w \in Workers |-> DownLane]
  /\ release = [sets |-> {}, count |-> 0]
  /\ lapses = 0

JobsIn(S) == {j \in Jobs : job[j].state \in S}
Lapse == lapses < MaxLapses /\ lapses' = lapses + 1

\* A queued job goes to the end of the line; the jobs of J are taken out.
Joining(j) == line \cup (JobsIn({"queued"}) \X {j})
Without(J) == {p \in line : p[1] \notin J /\ p[2] \notin J}
FirstInLine == {j \in JobsIn({"queued"}) : \A p \in line : p[2] # j}

-----------------------------------------------------------------------------
(* The control server.                                                     *)

Holds(w) == worker[w].job # NoJob

\* Mutant: a withdrawn approval cancels the queued jobs only.
RevokedQueued(s) == {j \in JobsIn({"queued"}) : Source(j) = s}

RevokedJobs(s) == {j \in JobsIn({"queued", "running"}) : Source(j) = s}

\* Mutant: a job that ended keeps its owner.
SettledOwned(q, s) == [q EXCEPT !.state = s, !.leased = FALSE]

Settled(q, s) == [q EXCEPT !.state = s, !.owner = NoWorker, !.leased = FALSE]

CancelJobs(J) == [j \in Jobs |-> IF j \in J THEN Settled(job[j], "cancelled") ELSE job[j]]

\* A review; withdrawing a source's approval cancels its translations. That
\* a worker's work was begun before is remembered (history).
ReviewHead(h, s) ==
  LET revoking == h \in Sources /\ InState(h, {"approved"})
      revoked == IF revoking THEN RevokedJobs(h) ELSE {}
  IN
  /\ Review(h, s)
  /\ job' = CancelJobs(revoked)
  /\ line' = Without(revoked)
  /\ worker' = [w \in Workers |->
       IF revoking /\ Holds(w) /\ Source(worker[w].job) = h
       THEN [worker[w] EXCEPT !.revoked = TRUE] ELSE worker[w]]
  /\ UNCHANGED <<release, lapses>>

HandInArticle(s) ==
  /\ DraftArticle(s)
  /\ UNCHANGED <<job, line, worker, release, lapses>>

\* A release is made of everything published and everything approved; each
\* translation in it has its source in it. (Releases that change no head are
\* left out, here and below.)
PublishAll ==
  LET E == {[head |-> h, rev |-> head[h].rev] : h \in {g \in Heads : InState(g, Confirmed)}} IN
  /\ release.count < MaxReleases
  /\ \E h \in Heads : InState(h, {"approved"})
  /\ \A d \in Derived : InState(d, Confirmed) => InState(SourceOf[d], Confirmed)
  /\ head' = ApplyReleaseHeads(E)
  /\ release' = [sets |-> release.sets \cup {E}, count |-> release.count + 1]
  /\ UNCHANGED <<job, line, worker, lapses>>

\* A rollback puts the heads of an earlier release back.
RollbackTo(E) ==
  /\ release.count < MaxReleases
  /\ E \in release.sets
  /\ E # {[head |-> h, rev |-> head[h].rev] : h \in {g \in Heads : InState(g, {"published"})}}
  /\ head' = ApplyReleaseHeads(E)
  /\ release' = [release EXCEPT !.count = @ + 1]
  /\ UNCHANGED <<job, line, worker, lapses>>

\* The newest job of a head, if it has one.
Ordinals(d) == {n \in 1..MaxOrdinal : job[<<d, n>>].state # "none"}
Latest(d) == <<d, Cardinality(Ordinals(d))>>

Queued(j) ==
  /\ job' = [job EXCEPT ![j].state = "queued"]
  /\ line' = Joining(j)

(***************************************************************************)
(* An administrator asks for a translation of a confirmed source. A job    *)
(* that failed or was cancelled is queued again; a finished one is         *)
(* followed by a new one only once its result was rejected.                *)
(***************************************************************************)
EnqueueTranslation(d) ==
  /\ InState(SourceOf[d], Confirmed)
  /\ Replaceable(d)
  /\ IF Ordinals(d) # {} /\ job[Latest(d)].state \in {"failed", "cancelled"}
     THEN Queued(Latest(d))
     ELSE /\ Ordinals(d) # {} =>
               job[Latest(d)].state = "succeeded" /\ InState(d, {"rejected"})
          /\ Cardinality(Ordinals(d)) < MaxOrdinal
          /\ Queued(<<d, Cardinality(Ordinals(d)) + 1>>)
  /\ UNCHANGED <<head, worker, release, lapses>>

-----------------------------------------------------------------------------
(* The worker.                                                             *)

\* launchd, or the retry of the lane, starts the worker's cycles.
StartLane(w) ==
  /\ worker[w].stage = "down"
  /\ worker' = [worker EXCEPT ![w] = IdleLane]
  /\ UNCHANGED <<head, job, line, release, lapses>>

\* A lane is stopped between two cycles: a stop waits for the one in flight.
StopLane(w) ==
  /\ worker[w].stage = "idle"
  /\ Lapse
  /\ worker' = [worker EXCEPT ![w] = DownLane]
  /\ UNCHANGED <<head, job, line, release>>

Running == JobsIn({"running"})

\* Mutant: a job is never taken over from a worker that died.
ExpiredNone == {}

Expired == {j \in Running : ~job[j].leased}

(***************************************************************************)
(* The next job: the running one, once its lease ran out, else the first   *)
(* in line. A source that is not confirmed makes the claim throw, and the  *)
(* job stays where it is.                                                  *)
(***************************************************************************)
Claim(w) ==
  /\ worker[w].stage = "idle"
  /\ \E j \in IF Running # {} THEN Expired ELSE FirstInLine :
       /\ InState(Source(j), Confirmed)
       /\ job' = [job EXCEPT ![j].state = "running", ![j].owner = w, ![j].leased = TRUE]
       /\ line' = Without({j})
       /\ worker' = [worker EXCEPT ![w] =
            [IdleLane EXCEPT !.stage = "executing", !.job = j]]
  /\ UNCHANGED <<head, release, lapses>>

\* Mutant: a claim is looked up by its job alone.
JobStillRuns(w) == Holds(w) /\ job[worker[w].job].state = "running"

\* The claim is still the worker's: its job runs, under its token.
Owned(w) ==
  /\ Holds(w)
  /\ job[worker[w].job].state = "running"
  /\ job[worker[w].job].owner = w

\* Mutant: whoever once claimed a job may end it.
ClaimAssumed(w) == Holds(w)

LiveClaim(w) == Owned(w) /\ job[worker[w].job].leased

\* A heartbeat finds the claim gone, or throws: the worker is fenced.
HeartbeatFenced(w) ==
  /\ worker[w].stage = "executing" /\ ~worker[w].fenced
  /\ \/ ~LiveClaim(w) /\ UNCHANGED lapses
     \/ LiveClaim(w) /\ Lapse
  /\ worker' = [worker EXCEPT ![w].fenced = TRUE]
  /\ UNCHANGED <<head, job, line, release>>

\* One run of the translator; the last one's output may hold words of a
\* retained consultation by the time it is committed.
RunPass(w) ==
  /\ worker[w].stage = "executing"
  /\ worker[w].pass < Passes
  /\ \E clean \in IF worker[w].pass + 1 = Passes THEN BOOLEAN ELSE {TRUE} :
       worker' = [worker EXCEPT ![w].pass = @ + 1, ![w].clean = clean]
  /\ UNCHANGED <<head, job, line, release, lapses>>

\* The translator fails, is killed at its time limit, or its output is bad.
ExecutionFails(w) ==
  /\ worker[w].stage = "executing"
  /\ worker' = [worker EXCEPT ![w] =
       IF @.fenced THEN IdleLane ELSE [@ EXCEPT !.stage = "failing", !.error = "process"]]
  /\ UNCHANGED <<head, job, line, release, lapses>>

\* The output is there: a fenced worker drops it, another renews its lease.
ExecutionEnds(w) ==
  /\ worker[w].stage = "executing" /\ worker[w].pass = Passes
  /\ \/ /\ worker[w].fenced \/ ~LiveClaim(w)
        /\ worker' = [worker EXCEPT ![w] = IdleLane]
        /\ UNCHANGED lapses
     \/ /\ ~worker[w].fenced /\ LiveClaim(w)
        /\ worker' = [worker EXCEPT ![w].stage = "committing"]
        /\ UNCHANGED lapses
     \/ /\ ~worker[w].fenced
        /\ Lapse
        /\ worker' = [worker EXCEPT ![w] = IdleLane]
  /\ UNCHANGED <<head, job, line, release>>

\* The evidence of the passes names the prompts the commit expects.
EvidenceValid == PromptHashed = "instructions"

Failing(w, e) == worker' = [worker EXCEPT ![w].stage = "failing", ![w].error = e]

(***************************************************************************)
(* The commit, one transaction: the claim, the source and the contents are *)
(* looked at again, then revision, head and job are written together.      *)
(***************************************************************************)
CommitSucceeds(w) ==
  LET j == worker[w].job IN
  /\ worker[w].stage = "committing"
  /\ EvidenceValid
  /\ LiveClaim(w)
  /\ InState(Source(j), Confirmed) /\ worker[w].clean
  /\ Replaceable(Target(j))
  /\ head' = Translated(Target(j))
  /\ job' = [job EXCEPT ![j] = [Settled(@, "succeeded") EXCEPT
                                  !.result = head'[Target(j)].rev]]
  /\ worker' = [worker EXCEPT ![w] = IdleLane]
  /\ UNCHANGED <<line, release, lapses>>

CommitRefused(w) ==
  LET j == worker[w].job IN
  /\ worker[w].stage = "committing"
  /\ \/ EvidenceValid /\ ~LiveClaim(w) /\ worker' = [worker EXCEPT ![w] = IdleLane]
     \/ /\ \/ ~EvidenceValid
           \/ LiveClaim(w) /\ ~(InState(Source(j), Confirmed) /\ worker[w].clean)
        /\ Failing(w, "output")
     \/ /\ EvidenceValid /\ LiveClaim(w)
        /\ InState(Source(j), Confirmed) /\ worker[w].clean
        /\ ~Replaceable(Target(j))
        /\ Failing(w, "conflict")
  /\ UNCHANGED <<head, job, line, release, lapses>>

CommitThrows(w) ==
  /\ worker[w].stage = "committing"
  /\ Lapse
  /\ Failing(w, "process")
  /\ UNCHANGED <<head, job, line, release>>

\* The failure is recorded, by the owner of a live claim only. It is final
\* until an administrator asks again.
FailJob(w) ==
  LET j == worker[w].job IN
  /\ worker[w].stage = "failing"
  /\ \/ /\ LiveClaim(w)
        /\ job' = [job EXCEPT ![j] = Settled(@, "failed")]
        /\ UNCHANGED lapses
     \/ ~LiveClaim(w) /\ UNCHANGED <<job, lapses>>
     \/ Lapse /\ UNCHANGED job
  /\ worker' = [worker EXCEPT ![w] = IdleLane]
  /\ UNCHANGED <<head, line, release>>

-----------------------------------------------------------------------------
(* Faults.                                                                 *)

Crash(w) ==
  /\ worker[w].stage # "down"
  /\ Lapse
  /\ worker' = [worker EXCEPT ![w] = DownLane]
  /\ UNCHANGED <<head, job, line, release>>

\* A lease runs out: for certain under a worker that does not renew it, and
\* by a lapse under one that should have.
LeaseExpires(j) ==
  /\ job[j].leased
  /\ IF Owned(job[j].owner) /\ worker[job[j].owner].job = j /\ ~worker[job[j].owner].fenced
     THEN Lapse ELSE UNCHANGED lapses
  /\ job' = [job EXCEPT ![j].leased = FALSE]
  /\ UNCHANGED <<head, line, worker, release>>

-----------------------------------------------------------------------------
ServerStep ==
  \/ \E s \in Sources : HandInArticle(s)
  \/ \E h \in Heads, s \in HeadStates : ReviewHead(h, s)
  \/ \E d \in Derived : EnqueueTranslation(d)
  \/ PublishAll
  \/ \E E \in release.sets : RollbackTo(E)

Cycle(w) ==
  \/ StartLane(w) \/ Claim(w) \/ RunPass(w)
  \/ ExecutionFails(w) \/ ExecutionEnds(w)
  \/ CommitSucceeds(w) \/ CommitRefused(w) \/ CommitThrows(w) \/ FailJob(w)

Next ==
  \/ ServerStep
  \/ \E w \in Workers : Cycle(w) \/ StopLane(w) \/ HeartbeatFenced(w) \/ Crash(w)
  \/ \E j \in Jobs : LeaseExpires(j)

Spec == Init /\ [][Next]_vars

\* A started worker keeps making steps: every run of the translator ends at
\* its time limit, each cycle schedules the next. Leases run out in time.
Fairness ==
  /\ \A w \in Workers : WF_vars(Cycle(w))
  /\ \A j \in Jobs : WF_vars(LeaseExpires(j) /\ lapses' = lapses)

FairSpec == Spec /\ Fairness

-----------------------------------------------------------------------------
(* Properties.                                                             *)

\* The claim never jams: the job at the head of the queue, and any job that
\* must be taken over, has a confirmed source, whatever was withdrawn,
\* published or rolled back since it was queued. A claim of another throws,
\* again at every cycle, with all other jobs behind it.
JobsSourced ==
  /\ \A j \in JobsIn({"queued", "running"}) : InState(Source(j), Confirmed)
  /\ Cardinality(Running) <= 1

\* Every translation anybody can see has exactly one finished job that made
\* it, and no two jobs made the same: a worker that lost its lease never
\* delivers next to the one that took over.
RevisionsHaveJobs ==
  \A d \in Derived :
    /\ head[d].rev # 0 =>
         Cardinality({j \in JobsIn({"succeeded"}) : Target(j) = d /\ job[j].result = head[d].rev}) = 1
    /\ \A j, k \in JobsIn({"succeeded"}) :
         Target(j) = d /\ Target(k) = d /\ job[j].result = job[k].result => j = k

(***************************************************************************)
(* The inductive invariant behind these. Every revision of a translation,  *)
(* the one shown and those of the releases a rollback may put back, was    *)
(* made by a finished job, whose result is not newer than the head; each   *)
(* release holds the source of its translations; and a worker whose source *)
(* was withdrawn meanwhile owns its job no more.                           *)
(***************************************************************************)
SourcesConfirmed == \A j \in JobsIn({"queued", "running"}) : InState(Source(j), Confirmed)

OneRuns == \A j, k \in Running : j = k

\* The line is a strict total order of the queued jobs.
LineOrders ==
  LET Q == JobsIn({"queued"}) IN
  /\ line \subseteq Q \X Q
  /\ \A j, k \in Q : j # k => <<j, k>> \in line \/ <<k, j>> \in line
  /\ \A j \in Q : <<j, j>> \notin line
  /\ \A i, j, k \in Q : <<i, j>> \in line /\ <<j, k>> \in line => <<i, k>> \in line

OrdinalsDense ==
  \A d \in Derived : \A n \in 1..MaxOrdinal :
    job[<<d, n>>].state # "none" => \A m \in 1..n : job[<<d, m>>].state # "none"

Made(d, rev) == \E j \in JobsIn({"succeeded"}) : Target(j) = d /\ job[j].result = rev

ResultsMade ==
  /\ \A j \in JobsIn({"succeeded"}) : job[j].result <= head[Target(j)].version
  /\ \A j, k \in JobsIn({"succeeded"}) :
       Target(j) = Target(k) /\ job[j].result = job[k].result => j = k
  /\ \A d \in Derived : head[d].rev # 0 => Made(d, head[d].rev)

ReleasesBound ==
  \A E \in release.sets : \A e \in E : e.head \in Derived =>
    /\ e.rev # 0 => Made(e.head, e.rev)
    /\ \E f \in E : f.head = SourceOf[e.head]

RevokedLost == \A w \in Workers : worker[w].revoked => ~Owned(w)

IInv ==
  /\ TypeOK /\ TranslationsBound /\ SourcesConfirmed /\ OneRuns /\ LineOrders
  /\ OrdinalsDense /\ ResultsMade /\ ReleasesBound /\ RevokedLost

\* Work begun under an approval that was withdrawn is never delivered, not
\* even after the source was approved again and the same job queued again.
RevokedWorkNeverLands ==
  [][\A w \in Workers :
       worker[w].stage = "committing" /\ head' # head /\ worker'[w].stage = "idle"
         => ~worker[w].revoked]_vars

\* Every translation that was asked for ends: done, failed, or cancelled.
EveryJobSettles ==
  \A j \in Jobs : job[j].state \in {"queued", "running"}
                    ~> job[j].state \in {"succeeded", "failed", "cancelled"}

\* The content worker produces candidates for the languages it is asked
\* for: what the translator completed in all its passes, and which holds
\* nothing of a consultation, is not refused as invalid output.
CompletedWorkAccepted ==
  [][\A w \in Workers :
       worker[w].stage = "committing" /\ worker'[w].error = "output"
         => ~worker[w].clean]_vars

=============================================================================
