------------------------ MODULE TranslationJobsProofs ------------------------
(***************************************************************************)
(* Proofs about TranslationJobs, for any number of articles, languages and *)
(* workers.                                                                *)
(***************************************************************************)
EXTENDS TranslationJobs, FiniteSetTheorems, TLAPS

-----------------------------------------------------------------------------
(* Heads.                                                                  *)

LEMMA SourceIsHead ==
  \A d \in Derived : /\ SourceOf[d] \in Sources /\ SourceOf[d] \in Heads
                     /\ SourceOf[d] \notin Derived /\ d \in Heads
  BY HeadAssumption DEF Heads

LEMMA MovedType ==
  ASSUME NEW q \in LocaleHead, NEW s \in HeadStates
  PROVE  /\ Moved(q, s) \in LocaleHead
         /\ Moved(q, s).state = s /\ Moved(q, s).rev = q.rev
         /\ Moved(q, s).version = q.version + 1
<1>1. q.version + 1 \in Nat
  BY DEF LocaleHead
<1> QED
  BY <1>1 DEF Moved, LocaleHead

LEMMA NewRevisionType ==
  ASSUME NEW q \in LocaleHead, NEW s \in HeadStates
  PROVE  /\ NewRevision(q, s) \in LocaleHead
         /\ NewRevision(q, s).state = s
         /\ NewRevision(q, s).rev = q.version + 1
         /\ NewRevision(q, s).version = q.version + 1
         /\ q.version \in Nat
<1>1. q.version \in Nat /\ q.version + 1 \in Nat
  BY DEF LocaleHead
<1> QED
  BY <1>1 DEF NewRevision, LocaleHead

\* A review gives no head a new revision, and only the withdrawal of a
\* source's approval ends a confirmation.
LEMMA ReviewFollows ==
  ASSUME HeadsTypeOK, TranslationsBound, NEW h \in Heads, NEW s \in HeadStates, Review(h, s)
  PROVE  /\ HeadsTypeOK' /\ TranslationsBound'
         /\ \A d \in Derived : head'[d].version >= head[d].version /\ head'[d].rev = head[d].rev
         /\ \A g \in Sources : InState(g, Confirmed) =>
              head'[g].state \in Confirmed \/ (g = h /\ InState(h, {"approved"}))
<1> DEFINE revoking == h \in Sources /\ InState(h, {"approved"})
           down(g) == g # h /\ revoking /\ g \in Demoted(h)
<1>1. \A g \in Heads : head[g] \in LocaleHead /\ head[g].version \in Nat
  BY DEF HeadsTypeOK, LocaleHead
<1>2. /\ s \in ReviewTargets(head[h].state)
      /\ s = "approved" /\ h \in Derived => InState(SourceOf[h], Confirmed)
      /\ revoking => \A d \in DerivedFrom(h) : ~InState(d, {"published"})
      /\ head' = [g \in Heads |-> IF g = h THEN Moved(head[h], s)
                                  ELSE IF down(g) THEN Moved(head[g], "in_review")
                                  ELSE head[g]]
  BY DEF Review
<1>3. /\ head[h].state \in {"draft", "in_review", "approved"}
      /\ s \in {"draft", "in_review", "approved", "rejected"}
      /\ head[h].state = "approved" => s = "in_review"
  BY <1>2 DEF ReviewTargets
<1>4. \A g \in Heads : down(g) => g \in Derived /\ SourceOf[g] = h /\ head[g].state = "approved"
  BY DEF Demoted, DerivedFrom, InState
<1>5. \A d \in Derived : revoking /\ SourceOf[d] = h /\ head[d].state = "approved" /\ d # h => down(d)
  BY DEF Demoted, DerivedFrom, InState
<1> HIDE DEF down
<1>6. /\ head'[h] \in LocaleHead /\ head'[h].state = s /\ head'[h].rev = head[h].rev
      /\ head'[h].version = head[h].version + 1
      /\ \A g \in Heads \ {h} :
           /\ down(g) => /\ head'[g] \in LocaleHead /\ head'[g].state = "in_review"
                         /\ head'[g].rev = head[g].rev
                         /\ head'[g].version = head[g].version + 1
           /\ ~down(g) => head'[g] = head[g]
  BY <1>1, <1>2, MovedType DEF HeadStates
<1>7. HeadsTypeOK'
  BY <1>1, <1>2, <1>6 DEF HeadsTypeOK
<1>8. \A d \in Derived : head'[d].version >= head[d].version /\ head'[d].rev = head[d].rev
  <2> SUFFICES ASSUME NEW d \in Derived
               PROVE  head'[d].version >= head[d].version /\ head'[d].rev = head[d].rev
    OBVIOUS
  <2>1. d \in Heads /\ head[d].version \in Nat
    BY <1>1 DEF Heads
  <2> QED
    BY <1>6, <2>1
<1>9. \A g \in Sources : InState(g, Confirmed) =>
        head'[g].state \in Confirmed \/ (g = h /\ InState(h, {"approved"}))
  <2> SUFFICES ASSUME NEW g \in Sources, InState(g, Confirmed)
               PROVE  head'[g].state \in Confirmed \/ (g = h /\ InState(h, {"approved"}))
    OBVIOUS
  <2>1. g \in Heads /\ ~down(g)
    BY <1>4, HeadAssumption DEF Heads
  <2> QED
    BY <1>3, <1>6, <2>1 DEF InState, Confirmed
<1>10. TranslationsBound'
  <2> SUFFICES ASSUME NEW d \in Derived, head'[d].state \in Confirmed
               PROVE  head'[SourceOf[d]].state \in Confirmed
    BY DEF TranslationsBound, InState
  <2>1. d \in Heads /\ SourceOf[d] \in Heads /\ SourceOf[d] \in Sources /\ SourceOf[d] \notin Derived
    BY SourceIsHead
  <2>2. head[SourceOf[d]].state \in Confirmed
    <3>1. CASE d = h
      BY <1>2, <1>3, <1>6, <2>1, <3>1 DEF Confirmed, TranslationsBound, InState
    <3>2. CASE d # h
      BY <1>6, <2>1, <3>2 DEF Confirmed, TranslationsBound, InState
    <3> QED
      BY <3>1, <3>2
  <2>3. SUFFICES ASSUME SourceOf[d] = h, InState(h, {"approved"})
                 PROVE  FALSE
    BY <1>9, <2>1, <2>2 DEF InState
  <2>4. revoking /\ d # h
    BY <2>1, <2>3
  <2>5. ~down(d) /\ head[d].state \in Confirmed
    BY <1>6, <2>1, <2>4 DEF Confirmed
  <2>6. head[d].state # "published"
    BY <1>2, <2>3, <2>4 DEF DerivedFrom, InState
  <2> QED
    BY <1>5, <2>3, <2>4, <2>5, <2>6 DEF Confirmed
<1> QED
  BY <1>7, <1>8, <1>9, <1>10

LEMMA DraftFollows ==
  ASSUME HeadsTypeOK, TranslationsBound, NEW s \in Sources, DraftArticle(s)
  PROVE  /\ HeadsTypeOK' /\ TranslationsBound'
         /\ \A d \in Derived : head'[d] = head[d]
         /\ \A g \in Sources : InState(g, Confirmed) => head'[g].state \in Confirmed
<1>1. s \in Heads /\ s \notin Derived /\ head[s].state = "absent" /\ head[s] \in LocaleHead
  BY HeadAssumption DEF DraftArticle, InState, Heads, HeadsTypeOK
<1>2. NewRevision(head[s], "draft") \in LocaleHead
  BY <1>1, NewRevisionType DEF HeadStates
<1>3. /\ HeadsTypeOK' /\ \A h \in Heads : h # s => head'[h] = head[h]
      /\ s \notin Derived
  BY <1>1, <1>2 DEF DraftArticle, HeadsTypeOK
<1>4. \A g \in Sources : InState(g, Confirmed) => head'[g].state \in Confirmed
  BY <1>1, <1>3 DEF InState, Confirmed, Heads
<1>5. \A d \in Derived : head'[d] = head[d]
  BY <1>3 DEF Heads
<1>6. TranslationsBound'
  BY <1>4, <1>5, SourceIsHead DEF TranslationsBound, InState
<1> QED
  BY <1>3, <1>4, <1>5, <1>6

\* What a release sets: its heads are published in a revision it names, and
\* whatever was confirmed stays so.
LEMMA ApplyFollows ==
  ASSUME HeadsTypeOK, TranslationsBound, NEW E \in SUBSET Entries,
         \A e \in E : e.head \in Derived =>
           InState(SourceOf[e.head], Confirmed) \/ \E f \in E : f.head = SourceOf[e.head],
         head' = ApplyReleaseHeads(E)
  PROVE  /\ HeadsTypeOK' /\ TranslationsBound'
         /\ \A d \in Derived :
              /\ head'[d].version >= head[d].version
              /\ head'[d].rev = head[d].rev \/ \E e \in E : e.head = d /\ e.rev = head'[d].rev
         /\ \A g \in Sources : InState(g, Confirmed) => head'[g].state \in Confirmed
<1> DEFINE put(h, e) == IF InState(h, {"published"}) /\ head[h].rev = e.rev THEN head[h]
                        ELSE [state |-> "published", rev |-> e.rev, version |-> head[h].version + 1]
           In(h) == \E e \in E : e.head = h
<1>1. \A h \in Heads : head'[h] = IF In(h) THEN put(h, CHOOSE e \in E : e.head = h)
                                  ELSE IF InState(h, {"published"}) THEN Moved(head[h], "approved")
                                  ELSE head[h]
  BY DEF ApplyReleaseHeads
<1>2. \A h \in Heads : head[h] \in LocaleHead /\ head[h].version \in Nat
  BY DEF HeadsTypeOK, LocaleHead
<1>3. ASSUME NEW h \in Heads, In(h)
      PROVE  /\ head'[h] \in LocaleHead /\ head'[h].state = "published"
             /\ head'[h].version >= head[h].version
             /\ \E e \in E : e.head = h /\ e.rev = head'[h].rev
  <2>1. PICK e \in E : e.head = h /\ e = CHOOSE f \in E : f.head = h
    BY <1>3
  <2>2. head'[h] = put(h, e)
    BY <1>1, <1>3, <2>1
  <2>3. e.rev \in Nat /\ head[h].version + 1 \in Nat /\ "published" \in HeadStates
    BY <1>2 DEF Entries, HeadStates
  <2>4. head'[h] \in LocaleHead /\ head'[h].state = "published" /\ head'[h].rev = e.rev
    BY <1>2, <2>2, <2>3 DEF LocaleHead, InState
  <2>5. head'[h].version >= head[h].version
    BY <1>2, <2>2
  <2> QED
    BY <2>1, <2>4, <2>5
<1>4. ASSUME NEW h \in Heads, ~In(h)
      PROVE  /\ head'[h] \in LocaleHead /\ head'[h].rev = head[h].rev
             /\ head'[h].version >= head[h].version
             /\ head'[h].state \in Confirmed <=> InState(h, Confirmed)
  <2>1. head'[h] = IF InState(h, {"published"}) THEN Moved(head[h], "approved") ELSE head[h]
    BY <1>1, <1>4
  <2>2. /\ Moved(head[h], "approved") \in LocaleHead /\ Moved(head[h], "approved").state = "approved"
        /\ Moved(head[h], "approved").rev = head[h].rev
        /\ Moved(head[h], "approved").version = head[h].version + 1
    BY <1>2, MovedType DEF HeadStates
  <2> QED
    BY <1>2, <2>1, <2>2 DEF InState, Confirmed
<1>5. head' = [h \in Heads |-> head'[h]]
  BY DEF ApplyReleaseHeads
<1> HIDE DEF In, put
<1>6. HeadsTypeOK'
  BY <1>3, <1>4, <1>5 DEF HeadsTypeOK
<1>7. \A d \in Derived :
        /\ head'[d].version >= head[d].version
        /\ head'[d].rev = head[d].rev \/ \E e \in E : e.head = d /\ e.rev = head'[d].rev
  BY <1>3, <1>4 DEF Heads
<1>8. \A g \in Heads : InState(g, Confirmed) \/ In(g) => head'[g].state \in Confirmed
  BY <1>3, <1>4 DEF Confirmed
<1>9. TranslationsBound'
  <2> SUFFICES ASSUME NEW d \in Derived, head'[d].state \in Confirmed
               PROVE  head'[SourceOf[d]].state \in Confirmed
    BY DEF TranslationsBound, InState
  <2>1. d \in Heads /\ SourceOf[d] \in Heads
    BY SourceIsHead
  <2>2. InState(SourceOf[d], Confirmed) \/ In(SourceOf[d])
    <3>1. CASE In(d)
      BY <3>1 DEF In
    <3>2. CASE ~In(d)
      BY <1>4, <2>1, <3>2 DEF TranslationsBound
    <3> QED
      BY <3>1, <3>2
  <2> QED
    BY <1>8, <2>1, <2>2
<1> QED
  BY <1>6, <1>7, <1>8, <1>9 DEF Heads

\* A translation's revision is newer than all it had.
LEMMA TranslationFollows ==
  ASSUME HeadsTypeOK, TranslationsBound, NEW d \in Derived, head' = Translated(d)
  PROVE  /\ HeadsTypeOK' /\ TranslationsBound'
         /\ head'[d].rev = head[d].version + 1 /\ head'[d].version = head[d].version + 1
         /\ head[d].version \in Nat
         /\ \A h \in Heads : h # d => head'[h] = head[h]
<1>1. d \in Heads /\ head[d] \in LocaleHead
  BY DEF Heads, HeadsTypeOK
<1>2. /\ NewRevision(head[d], "in_review") \in LocaleHead
      /\ NewRevision(head[d], "in_review").state = "in_review"
      /\ NewRevision(head[d], "in_review").rev = head[d].version + 1
      /\ NewRevision(head[d], "in_review").version = head[d].version + 1
      /\ head[d].version \in Nat
  BY <1>1, NewRevisionType DEF HeadStates
<1>3. /\ head'[d] = NewRevision(head[d], "in_review")
      /\ \A h \in Heads : h # d => head'[h] = head[h]
  BY <1>1 DEF Translated, HeadsTypeOK
<1>4. HeadsTypeOK'
  BY <1>1, <1>2 DEF Translated, HeadsTypeOK
<1>5. TranslationsBound'
  BY <1>2, <1>3, SourceIsHead DEF TranslationsBound, InState, Confirmed
<1> QED
  BY <1>2, <1>3, <1>4, <1>5

-----------------------------------------------------------------------------
(* Jobs and lanes.                                                         *)

LEMMA Bounds ==
  MaxOrdinal \in Nat /\ MaxReleases \in Nat /\ MaxLapses \in Nat /\ Passes \in Nat \ {0}
  BY JobAssumption

JobSound(q) ==
  /\ q \in Job
  /\ q.state = "running" <=> q.owner # NoWorker
  /\ q.leased => q.state = "running"
  /\ q.state = "succeeded" <=> q.result # 0

LEMMA TypeParts ==
  TypeOK <=> /\ HeadsTypeOK
             /\ job \in [Jobs -> Job] /\ \A j \in Jobs : JobSound(job[j])
             /\ line \in SUBSET (Jobs \X Jobs)
             /\ worker \in [Workers -> Lane]
             /\ release \in [sets : SUBSET SUBSET Entries, count : 0..MaxReleases]
             /\ lapses \in 0..MaxLapses
  BY DEF TypeOK, JobSound

LEMMA TypesKept ==
  ASSUME HeadsTypeOK', job' \in [Jobs -> Job], \A j \in Jobs : JobSound(job'[j]),
         line' \in SUBSET (Jobs \X Jobs), worker' \in [Workers -> Lane],
         release' \in [sets : SUBSET SUBSET Entries, count : 0..MaxReleases],
         lapses' \in 0..MaxLapses
  PROVE  TypeOK'
  BY DEF TypeOK, JobSound

LEMMA SettledType ==
  ASSUME NEW q, JobSound(q), NEW s \in {"failed", "cancelled"}, q.state # "succeeded"
  PROVE  /\ JobSound(Settled(q, s))
         /\ Settled(q, s).state = s /\ Settled(q, s).owner = NoWorker
         /\ Settled(q, s).result = q.result
  BY DEF Settled, JobSound, Job

LEMMA FinishedType ==
  ASSUME NEW q, JobSound(q), NEW n \in Nat \ {0}
  PROVE  LET p == [Settled(q, "succeeded") EXCEPT !.result = n] IN
         JobSound(p) /\ p.state = "succeeded" /\ p.owner = NoWorker /\ p.result = n
  BY DEF Settled, JobSound, Job

LEMMA TargetType ==
  ASSUME NEW j \in Jobs
  PROVE  /\ Target(j) \in Derived /\ Target(j) \in Heads
         /\ Source(j) \in Sources /\ Source(j) = SourceOf[Target(j)]
  BY SourceIsHead DEF Jobs, Target, Source

LEMMA LaneType ==
  /\ IdleLane \in Lane /\ DownLane \in Lane
  /\ IdleLane.job = NoJob /\ DownLane.job = NoJob
  /\ ~IdleLane.revoked /\ ~DownLane.revoked
  /\ IdleLane.stage = "idle" /\ DownLane.stage = "down"
<1>1. 0 \in 0..Passes
  BY Bounds
<1>2. IdleLane \in Lane
  BY <1>1 DEF IdleLane, Lane
<1>3. DownLane \in Lane
  BY <1>2 DEF DownLane, Lane
<1> QED
  BY <1>2, <1>3 DEF IdleLane, DownLane

LEMMA LapseType ==
  ASSUME TypeOK, Lapse \/ lapses' = lapses
  PROVE  lapses' \in 0..MaxLapses
  BY Bounds DEF TypeOK, Lapse

-----------------------------------------------------------------------------
(* What the parts of the invariant need of a step.                         *)

SameResults ==
  \A j \in Jobs : /\ job'[j].state = "succeeded" <=> job[j].state = "succeeded"
                  /\ job'[j].result = job[j].result

LEMMA MadeKept ==
  ASSUME SameResults, NEW d, NEW rev, Made(d, rev)
  PROVE  Made(d, rev)'
  BY DEF SameResults, Made, JobsIn

EntriesBound(E) ==
  \A e \in E : e.head \in Derived =>
    /\ e.rev # 0 => Made(e.head, e.rev)
    /\ \E f \in E : f.head = SourceOf[e.head]

\* Heads that show earlier or other finished revisions.
LEMMA ResultsKept ==
  ASSUME TypeOK, ResultsMade, ReleasesBound, HeadsTypeOK', SameResults,
         NEW F, EntriesBound(F),
         \A d \in Derived :
           /\ head'[d].version >= head[d].version
           /\ head'[d].rev = head[d].rev \/ \E e \in F : e.head = d /\ e.rev = head'[d].rev,
         \A E \in release'.sets : E \in release.sets \/ E = F
  PROVE  ResultsMade' /\ ReleasesBound'
<1>1. \A j \in Jobs : j \in JobsIn({"succeeded"})' <=> j \in JobsIn({"succeeded"})
  BY DEF SameResults, JobsIn
<1>2. \A j \in Jobs : /\ Target(j) \in Derived
                      /\ job[j].result \in Nat /\ job'[j].result = job[j].result
  BY TargetType DEF SameResults, TypeOK, Job
<1>3. \A d \in Derived : head[d].version \in Nat /\ head'[d].version \in Nat
  BY DEF TypeOK, HeadsTypeOK, Heads, LocaleHead
<1>4. \A j \in JobsIn({"succeeded"})' : job'[j].result <= head'[Target(j)].version
  <2> SUFFICES ASSUME NEW j \in JobsIn({"succeeded"})'
               PROVE  job'[j].result <= head'[Target(j)].version
    OBVIOUS
  <2>1. j \in Jobs /\ j \in JobsIn({"succeeded"})
    BY <1>1 DEF JobsIn
  <2>2. job[j].result <= head[Target(j)].version
    BY <2>1 DEF ResultsMade
  <2> QED
    BY <1>2, <1>3, <2>1, <2>2
<1>5. \A j, k \in JobsIn({"succeeded"})' :
        Target(j) = Target(k) /\ job'[j].result = job'[k].result => j = k
  BY <1>1, <1>2 DEF ResultsMade, JobsIn
<1>6. ASSUME NEW d \in Derived, head'[d].rev # 0
      PROVE  Made(d, head[d].rev)'
  <2>1. \E n : n = head'[d].rev /\ Made(d, n)
    BY <1>6 DEF ResultsMade, EntriesBound
  <2>2. \A n : Made(d, n) => \E j \in JobsIn({"succeeded"})' : Target(j) = d /\ job'[j].result = n
    BY <1>1 DEF Made, JobsIn, SameResults
  <2> QED
    BY <2>1, <2>2 DEF Made
<1>7. ReleasesBound'
  <2>1. \A E \in release'.sets : EntriesBound(E)
    BY DEF ReleasesBound, EntriesBound
  <2> SUFFICES ASSUME NEW E \in release'.sets, NEW e \in E, e.head \in Derived
               PROVE  /\ e.rev # 0 => Made(e.head, e.rev)'
                      /\ \E f \in E : f.head = SourceOf[e.head]
    BY DEF ReleasesBound
  <2> QED
    BY <2>1, MadeKept DEF EntriesBound
<1>8. ResultsMade'
  BY <1>4, <1>5, <1>6 DEF ResultsMade
<1> QED
  BY <1>7, <1>8

\* Jobs that leave the line leave the others in their order.
LEMMA LineShrinks ==
  ASSUME LineOrders, NEW J, JobsIn({"queued"})' = JobsIn({"queued"}) \ J, line' = Without(J)
  PROVE  LineOrders'
<1> DEFINE Q == JobsIn({"queued"})
           Q1 == JobsIn({"queued"})'
<1>0. /\ line \subseteq Q \X Q
      /\ \A j, k \in Q : j # k => <<j, k>> \in line \/ <<k, j>> \in line
      /\ \A j \in Q : <<j, j>> \notin line
      /\ \A i, j, k \in Q : <<i, j>> \in line /\ <<j, k>> \in line => <<i, k>> \in line
  BY DEF LineOrders
<1>1. Q1 = Q \ J
  OBVIOUS
<1> HIDE DEF Q
<1>2. \A i, j \in Q1 : <<i, j>> \in line' <=> <<i, j>> \in line
  BY <1>1 DEF Without
<1>3. line' \subseteq Q1 \X Q1
  BY <1>0, <1>1 DEF Without
<1>4. \A j, k \in Q1 : j # k => <<j, k>> \in line' \/ <<k, j>> \in line'
  BY <1>0, <1>1, <1>2
<1>5. \A j \in Q1 : <<j, j>> \notin line'
  BY <1>0, <1>1, <1>2
<1>6. \A i, j, k \in Q1 : <<i, j>> \in line' /\ <<j, k>> \in line' => <<i, k>> \in line'
  BY <1>0, <1>1, <1>2
<1> QED
  BY <1>3, <1>4, <1>5, <1>6 DEF LineOrders

\* Jobs that end, of those queued or running.
LEMMA Settling ==
  ASSUME TypeOK, SourcesConfirmed, OneRuns, LineOrders, OrdinalsDense,
         NEW J \in SUBSET JobsIn({"queued", "running"}),
         \A j \in J : job'[j].state \in {"cancelled", "failed", "succeeded"},
         \A j \in Jobs \ J : job'[j].state = job[j].state,
         line' = Without(J),
         \A j \in JobsIn({"queued", "running"}) \ J : head'[Source(j)].state \in Confirmed
  PROVE  SourcesConfirmed' /\ OneRuns' /\ LineOrders' /\ OrdinalsDense'
<1>1. JobsIn({"queued"})' = JobsIn({"queued"}) \ J /\ Running' = Running \ J
      /\ JobsIn({"queued", "running"})' = JobsIn({"queued", "running"}) \ J
  BY DEF JobsIn, Running
<1>2. SourcesConfirmed'
  BY <1>1 DEF SourcesConfirmed, InState
<1>3. OneRuns'
  BY <1>1 DEF OneRuns
<1>4. LineOrders'
  BY <1>1, LineShrinks
<1>5. OrdinalsDense'
  <2>1. \A j \in Jobs : job'[j].state = "none" <=> job[j].state = "none"
    BY DEF JobsIn
  <2>2. \A d \in Derived : \A n \in 1..MaxOrdinal : \A m \in 1..n :
          <<d, n>> \in Jobs /\ <<d, m>> \in Jobs
    BY Bounds DEF Jobs
  <2> QED
    BY <2>1, <2>2 DEF OrdinalsDense
<1> QED
  BY <1>2, <1>3, <1>4, <1>5

LEMMA RevokedKept ==
  ASSUME TypeOK, RevokedLost,
         \A w \in Workers : worker'[w].revoked =>
           worker[w].revoked /\ worker'[w].job = worker[w].job,
         \A j \in Jobs, w \in Workers :
           job'[j].state = "running" /\ job'[j].owner = w
             => (job[j].state = "running" /\ job[j].owner = w) \/ ~worker'[w].revoked
  PROVE  RevokedLost'
<1>1. \A w \in Workers : worker[w].job \in Jobs \cup {NoJob}
  BY DEF TypeOK, Lane
<1> QED
  BY <1>1 DEF RevokedLost, Owned, Holds

-----------------------------------------------------------------------------
(* The steps of the control server.                                        *)

LEMMA NothingBound == EntriesBound({})
  BY DEF EntriesBound

LEMMA ReviewSound ==
  ASSUME IInv, NEW h \in Heads, NEW s \in HeadStates, ReviewHead(h, s)
  PROVE  IInv'
<1> DEFINE revoking == h \in Sources /\ InState(h, {"approved"})
           J == IF revoking THEN RevokedJobs(h) ELSE {}
<1>0. TypeOK /\ HeadsTypeOK /\ TranslationsBound
  BY DEF IInv, TypeOK
<1>1. /\ Review(h, s) /\ job' = CancelJobs(J) /\ line' = Without(J)
      /\ worker' = [w \in Workers |->
           IF revoking /\ Holds(w) /\ Source(worker[w].job) = h
           THEN [worker[w] EXCEPT !.revoked = TRUE] ELSE worker[w]]
      /\ UNCHANGED <<release, lapses>>
  BY DEF ReviewHead
<1>2. J \in SUBSET JobsIn({"queued", "running"}) /\ J \subseteq Jobs
      /\ \A j \in JobsIn({"queued", "running"}) : j \in J <=> revoking /\ Source(j) = h
  BY DEF RevokedJobs, JobsIn
<1> HIDE DEF J
<1>3. \A j \in Jobs : IF j \in J THEN /\ JobSound(job'[j]) /\ job'[j].state = "cancelled"
                                      /\ job'[j].result = job[j].result
                                      /\ job[j].state \in {"queued", "running"}
                                 ELSE job'[j] = job[j]
  <2>1. \A j \in J : JobSound(job[j]) /\ job[j].state \in {"queued", "running"}
    BY <1>0, <1>2, TypeParts DEF JobsIn
  <2>2. \A j \in J : /\ JobSound(Settled(job[j], "cancelled"))
                     /\ Settled(job[j], "cancelled").state = "cancelled"
                     /\ Settled(job[j], "cancelled").result = job[j].result
    BY <2>1, SettledType
  <2> QED
    BY <1>1, <2>1, <2>2 DEF CancelJobs
<1>4. job' \in [Jobs -> Job] /\ \A j \in Jobs : JobSound(job'[j])
  BY <1>0, <1>1, <1>3, TypeParts DEF CancelJobs, JobSound
<1>5. /\ HeadsTypeOK' /\ TranslationsBound'
      /\ \A d \in Derived : head'[d].version >= head[d].version /\ head'[d].rev = head[d].rev
      /\ \A g \in Sources : InState(g, Confirmed) =>
           head'[g].state \in Confirmed \/ (g = h /\ InState(h, {"approved"}))
  BY <1>0, <1>1, ReviewFollows
<1>6. worker' \in [Workers -> Lane]
  <2>1. \A w \in Workers : [worker[w] EXCEPT !.revoked = TRUE] \in Lane
    BY <1>0 DEF TypeOK, Lane
  <2> QED
    BY <1>0, <1>1, <2>1 DEF TypeOK
<1>7. TypeOK'
  <2>1. line' \in SUBSET (Jobs \X Jobs)
    BY <1>0, <1>1 DEF Without, TypeOK
  <2> QED
    BY <1>0, <1>1, <1>4, <1>5, <1>6, <2>1, TypesKept DEF TypeOK
<1>8. ResultsMade' /\ ReleasesBound'
  <2>1. SameResults
    BY <1>3 DEF SameResults
  <2> QED
    BY <1>0, <1>1, <1>5, <2>1, NothingBound, ResultsKept DEF IInv
<1>9. SourcesConfirmed' /\ OneRuns' /\ LineOrders' /\ OrdinalsDense'
  <2>1. \A j \in JobsIn({"queued", "running"}) \ J : head'[Source(j)].state \in Confirmed
    <3> SUFFICES ASSUME NEW j \in JobsIn({"queued", "running"}), j \notin J
                 PROVE  head'[Source(j)].state \in Confirmed
      OBVIOUS
    <3>1. Source(j) \in Sources /\ InState(Source(j), Confirmed)
      BY TargetType DEF JobsIn, IInv, SourcesConfirmed
    <3> QED
      BY <1>2, <1>5, <3>1
  <2> QED
    BY <1>0, <1>1, <1>2, <1>3, <2>1, Settling DEF IInv
<1>10. RevokedLost'
  <2> SUFFICES ASSUME NEW w \in Workers, worker'[w].revoked, Owned(w)'
               PROVE  FALSE
    BY DEF RevokedLost
  <2>1. worker[w] \in Lane
    BY <1>0 DEF TypeOK
  <2>2. worker'[w].job = worker[w].job
    BY <1>1, <2>1 DEF Lane
  <2>3. worker[w].job \in Jobs /\ worker[w].job # NoJob
    BY <2>1, <2>2 DEF Owned, Holds, Lane
  <2>4. job'[worker[w].job].state = "running" /\ job'[worker[w].job].owner = w
    BY <2>2 DEF Owned
  <2>5. worker[w].job \notin J /\ job'[worker[w].job] = job[worker[w].job]
    BY <1>3, <2>3, <2>4
  <2>6. Owned(w)
    BY <2>3, <2>4, <2>5 DEF Owned, Holds
  <2>7. ~worker[w].revoked
    BY <2>6 DEF IInv, RevokedLost
  <2>8. revoking /\ Source(worker[w].job) = h
    BY <1>1, <2>7
  <2>9. worker[w].job \in JobsIn({"queued", "running"})
    BY <2>3, <2>4, <2>5 DEF JobsIn
  <2> QED
    BY <1>2, <2>5, <2>8, <2>9
<1> QED
  BY <1>5, <1>7, <1>8, <1>9, <1>10 DEF IInv

\* Steps that leave jobs, line and lanes alone.
LEMMA HeadStepSound ==
  ASSUME IInv, UNCHANGED <<job, line, worker, lapses>>,
         release' \in [sets : SUBSET SUBSET Entries, count : 0..MaxReleases],
         NEW F, EntriesBound(F),
         \A E \in release'.sets : E \in release.sets \/ E = F,
         HeadsTypeOK', TranslationsBound',
         \A d \in Derived :
           /\ head'[d].version >= head[d].version
           /\ head'[d].rev = head[d].rev \/ \E e \in F : e.head = d /\ e.rev = head'[d].rev,
         \A g \in Sources : InState(g, Confirmed) => head'[g].state \in Confirmed
  PROVE  IInv'
<1>1. TypeOK'
  BY TypesKept, TypeParts DEF IInv
<1>2. SameResults
  BY DEF SameResults
<1>3. ResultsMade' /\ ReleasesBound'
  BY <1>2, ResultsKept DEF IInv
<1>4. \A j \in Jobs : Source(j) \in Sources
  BY TargetType
<1>5. SourcesConfirmed'
  BY <1>4 DEF IInv, SourcesConfirmed, JobsIn, InState
<1>6. OneRuns' /\ LineOrders' /\ OrdinalsDense' /\ RevokedLost'
  BY DEF IInv, OneRuns, LineOrders, OrdinalsDense, RevokedLost, Running, JobsIn, Owned, Holds
<1> QED
  BY <1>1, <1>3, <1>5, <1>6 DEF IInv

LEMMA HandInSound ==
  ASSUME IInv, NEW s \in Sources, HandInArticle(s)
  PROVE  IInv'
<1>0. HeadsTypeOK /\ TranslationsBound
  BY DEF IInv, TypeOK
<1>1. DraftArticle(s) /\ UNCHANGED <<job, line, worker, release, lapses>>
  BY DEF HandInArticle
<1>2. /\ HeadsTypeOK' /\ TranslationsBound'
      /\ \A d \in Derived : head'[d] = head[d]
      /\ \A g \in Sources : InState(g, Confirmed) => head'[g].state \in Confirmed
  BY <1>0, <1>1, DraftFollows
<1>3. \A d \in Derived : head[d].version \in Nat
  BY <1>0 DEF HeadsTypeOK, Heads, LocaleHead
<1>4. release' \in [sets : SUBSET SUBSET Entries, count : 0..MaxReleases]
  BY <1>1 DEF IInv, TypeOK
<1>5. \A d \in Derived : head'[d].version >= head[d].version /\ head'[d].rev = head[d].rev
  BY <1>2, <1>3
<1> QED
  BY <1>1, <1>2, <1>4, <1>5, NothingBound, HeadStepSound

LEMMA PublishSound ==
  ASSUME IInv, PublishAll
  PROVE  IInv'
<1> DEFINE E == {[head |-> h, rev |-> head[h].rev] : h \in {g \in Heads : InState(g, Confirmed)}}
<1>0. HeadsTypeOK /\ TranslationsBound /\ TypeOK
  BY DEF IInv, TypeOK
<1>1. /\ release.count < MaxReleases
      /\ head' = ApplyReleaseHeads(E)
      /\ release' = [sets |-> release.sets \cup {E}, count |-> release.count + 1]
      /\ UNCHANGED <<job, line, worker, lapses>>
  BY DEF PublishAll
<1>2. \A e \in E : /\ e \in Entries /\ InState(e.head, Confirmed) /\ e.head \in Heads
                   /\ e.rev = head[e.head].rev
  BY <1>0 DEF Entries, HeadsTypeOK, LocaleHead
<1>3. \A h \in Heads : InState(h, Confirmed) => \E f \in E : f.head = h
  <2> SUFFICES ASSUME NEW h \in Heads, InState(h, Confirmed)
               PROVE  \E f \in E : f.head = h
    OBVIOUS
  <2>1. [head |-> h, rev |-> head[h].rev] \in E
    OBVIOUS
  <2> QED
    BY <2>1
<1> HIDE DEF E
<1>4. \A e \in E : e.head \in Derived => \E f \in E : f.head = SourceOf[e.head]
  BY <1>0, <1>2, <1>3, SourceIsHead DEF TranslationsBound
<1>5. EntriesBound(E)
  BY <1>2, <1>4 DEF EntriesBound, IInv, ResultsMade
<1>6. E \in SUBSET Entries
  BY <1>2
<1>7. /\ HeadsTypeOK' /\ TranslationsBound'
      /\ \A d \in Derived :
           /\ head'[d].version >= head[d].version
           /\ head'[d].rev = head[d].rev \/ \E e \in E : e.head = d /\ e.rev = head'[d].rev
      /\ \A g \in Sources : InState(g, Confirmed) => head'[g].state \in Confirmed
  BY <1>0, <1>1, <1>4, <1>6, ApplyFollows
<1>8. /\ release' \in [sets : SUBSET SUBSET Entries, count : 0..MaxReleases]
      /\ \A D \in release'.sets : D \in release.sets \/ D = E
  BY <1>0, <1>1, <1>6, Bounds DEF TypeOK
<1> QED
  BY <1>1, <1>5, <1>7, <1>8, HeadStepSound

LEMMA RollbackSound ==
  ASSUME IInv, NEW E \in release.sets, RollbackTo(E)
  PROVE  IInv'
<1>0. HeadsTypeOK /\ TranslationsBound /\ TypeOK /\ ReleasesBound
  BY DEF IInv, TypeOK
<1>1. /\ release.count < MaxReleases
      /\ head' = ApplyReleaseHeads(E)
      /\ release' = [release EXCEPT !.count = @ + 1]
      /\ UNCHANGED <<job, line, worker, lapses>>
  BY DEF RollbackTo
<1>2. E \in SUBSET Entries /\ EntriesBound(E)
  BY <1>0 DEF TypeOK, ReleasesBound, EntriesBound
<1>3. \A e \in E : e.head \in Derived => \E f \in E : f.head = SourceOf[e.head]
  BY <1>2 DEF EntriesBound
<1>4. /\ HeadsTypeOK' /\ TranslationsBound'
      /\ \A d \in Derived :
           /\ head'[d].version >= head[d].version
           /\ head'[d].rev = head[d].rev \/ \E e \in E : e.head = d /\ e.rev = head'[d].rev
      /\ \A g \in Sources : InState(g, Confirmed) => head'[g].state \in Confirmed
  BY <1>0, <1>1, <1>2, <1>3, ApplyFollows
<1>5. /\ release' \in [sets : SUBSET SUBSET Entries, count : 0..MaxReleases]
      /\ release'.sets = release.sets
  BY <1>0, <1>1, Bounds DEF TypeOK
<1> QED
  BY <1>1, <1>2, <1>4, <1>5, HeadStepSound

\* The ordinals of a head's jobs are 1 to their number.
LEMMA OrdinalsPrefix ==
  ASSUME OrdinalsDense, NEW d \in Derived
  PROVE  /\ Cardinality(Ordinals(d)) \in 0..MaxOrdinal
         /\ Ordinals(d) = 1..Cardinality(Ordinals(d))
<1> DEFINE S == Ordinals(d)
           k == Cardinality(S)
<1>1. S \in SUBSET (1..MaxOrdinal) /\ \A n \in S : 1..n \subseteq S
  <2>1. S \subseteq 1..MaxOrdinal
    BY DEF Ordinals
  <2>2. ASSUME NEW n \in S, NEW m \in 1..n
        PROVE  m \in S
    <3>1. n \in 1..MaxOrdinal /\ job[<<d, n>>].state # "none" /\ m \in 1..MaxOrdinal
      BY <2>1, <2>2, Bounds DEF Ordinals
    <3>2. job[<<d, m>>].state # "none"
      BY <2>2, <3>1 DEF OrdinalsDense
    <3> QED
      BY <3>1, <3>2 DEF Ordinals
  <2> QED
    BY <2>1, <2>2
<1> HIDE DEF S
<1>2. \A n \in Nat : IsFiniteSet(1..n) /\ Cardinality(1..n) = n
  BY FS_Interval
<1>3. IsFiniteSet(S) /\ k \in Nat /\ k <= MaxOrdinal
  <2>1. IsFiniteSet(1..MaxOrdinal) /\ Cardinality(1..MaxOrdinal) = MaxOrdinal
    BY <1>2, Bounds
  <2>2. IsFiniteSet(S) /\ Cardinality(S) <= Cardinality(1..MaxOrdinal)
    BY <1>1, <2>1, FS_Subset
  <2>3. Cardinality(S) \in Nat
    BY <2>2, FS_CardinalityType
  <2> QED
    BY <2>1, <2>2, <2>3
<1>4. ASSUME NEW n \in S
      PROVE  n \in 1..k
  <2>1. n \in Nat /\ n >= 1 /\ 1..n \in SUBSET S
    BY <1>1, <1>4, Bounds
  <2>2. Cardinality(1..n) <= Cardinality(S)
    BY <1>3, <2>1, FS_Subset
  <2>3. Cardinality(1..n) = n
    BY <1>2, <2>1
  <2> QED
    BY <1>3, <2>1, <2>2, <2>3
<1>5. ASSUME NEW m \in 1..k
      PROVE  m \in S
  <2> SUFFICES ASSUME m \notin S
               PROVE  FALSE
    OBVIOUS
  <2>1. m \in Nat /\ m >= 1 /\ m - 1 \in Nat
    BY <1>3, <1>5
  <2>2. S \in SUBSET (1..(m - 1))
    <3> SUFFICES ASSUME NEW n \in S
                 PROVE  n \in 1..(m - 1)
      OBVIOUS
    <3>1. n \in Nat /\ n >= 1 /\ m \notin 1..n
      BY <1>1, Bounds
    <3> QED
      BY <2>1, <3>1
  <2>3. Cardinality(S) <= Cardinality(1..(m - 1))
    BY <1>2, <2>1, <2>2, FS_Subset
  <2>4. Cardinality(1..(m - 1)) = m - 1
    BY <1>2, <2>1
  <2> QED
    BY <1>3, <1>5, <2>1, <2>3, <2>4
<1>6. S = 1..k
  BY <1>4, <1>5
<1> QED
  BY <1>3, <1>6, Bounds DEF S

\* A job joins the line: a new one, or one that failed or was cancelled.
LEMMA JoinSound ==
  ASSUME IInv, NEW j \in Jobs, Queued(j), InState(Source(j), Confirmed),
         job[j].state \in {"none", "failed", "cancelled"},
         \A m \in 1..(j[2] - 1) : job[<<j[1], m>>].state # "none",
         UNCHANGED <<head, worker, release, lapses>>
  PROVE  IInv'
<1> DEFINE Q == JobsIn({"queued"})
           Q1 == JobsIn({"queued"})'
           q == [job[j] EXCEPT !.state = "queued"]
<1>0. TypeOK /\ job \in [Jobs -> Job] /\ JobSound(job[j])
  BY TypeParts DEF IInv
<1>1. job' = [job EXCEPT ![j] = q] /\ line' = Joining(j)
  BY DEF Queued
<1>2. JobSound(q) /\ q.state = "queued" /\ q.owner = NoWorker /\ q.result = job[j].result
        /\ job[j].owner = NoWorker
  BY <1>0 DEF JobSound, Job
<1> HIDE DEF q
<1>3. /\ job'[j] = q /\ \A i \in Jobs : i # j => job'[i] = job[i]
      /\ job' \in [Jobs -> Job]
  BY <1>0, <1>1, <1>2 DEF JobSound
<1>4. TypeOK'
  <2>1. \A i \in Jobs : JobSound(job'[i])
    BY <1>0, <1>2, <1>3, TypeParts
  <2>2. line' \in SUBSET (Jobs \X Jobs)
    BY <1>0, <1>1 DEF Joining, JobsIn, TypeOK
  <2>3. HeadsTypeOK'
    BY <1>0 DEF TypeOK, HeadsTypeOK
  <2> QED
    BY <1>0, <1>3, <2>1, <2>2, <2>3, TypesKept DEF TypeOK
<1>5. SameResults
  BY <1>2, <1>3 DEF SameResults
<1>6. ResultsMade' /\ ReleasesBound'
  <2>1. \A d \in Derived : head'[d].version >= head[d].version /\ head'[d].rev = head[d].rev
    BY <1>0 DEF TypeOK, HeadsTypeOK, Heads, LocaleHead
  <2>2. HeadsTypeOK'
    BY <1>4 DEF TypeOK
  <2> QED
    BY <1>0, <1>5, <2>1, <2>2, NothingBound, ResultsKept DEF IInv
<1>7. Q1 = Q \cup {j} /\ j \notin Q /\ Running' = Running
      /\ JobsIn({"queued", "running"})' = JobsIn({"queued", "running"}) \cup {j}
  BY <1>2, <1>3 DEF JobsIn, Running
<1>8. SourcesConfirmed' /\ OneRuns' /\ TranslationsBound'
  BY <1>7 DEF IInv, SourcesConfirmed, OneRuns, TranslationsBound, InState
<1>9. LineOrders'
  <2>0. /\ line \subseteq Q \X Q
        /\ \A i, k \in Q : i # k => <<i, k>> \in line \/ <<k, i>> \in line
        /\ \A i \in Q : <<i, i>> \notin line
        /\ \A i, l, k \in Q : <<i, l>> \in line /\ <<l, k>> \in line => <<i, k>> \in line
    BY DEF IInv, LineOrders
  <2>1. line' = line \cup (Q \X {j})
    BY <1>1 DEF Joining
  <2> HIDE DEF Q, Q1
  <2>2. \A i, k : <<i, k>> \in line' <=> <<i, k>> \in line \/ (i \in Q /\ k = j)
    BY <2>1
  <2>3. \A i, k : <<i, k>> \in line => i \in Q /\ k \in Q
    BY <2>0
  <2>4. line' \subseteq Q1 \X Q1
    BY <1>7, <2>0, <2>1
  <2>5. \A i, k \in Q1 : i # k => <<i, k>> \in line' \/ <<k, i>> \in line'
    BY <1>7, <2>0, <2>2
  <2>6. \A i \in Q1 : <<i, i>> \notin line'
    BY <1>7, <2>0, <2>2, <2>3
  <2>7. \A i, l, k \in Q1 : <<i, l>> \in line' /\ <<l, k>> \in line' => <<i, k>> \in line'
    BY <1>7, <2>0, <2>2, <2>3
  <2> QED
    BY <2>4, <2>5, <2>6, <2>7 DEF LineOrders, Q1
<1>10. OrdinalsDense'
  <2> SUFFICES ASSUME NEW d \in Derived, NEW n \in 1..MaxOrdinal, NEW m \in 1..n,
                      job'[<<d, n>>].state # "none"
               PROVE  job'[<<d, m>>].state # "none"
    BY DEF OrdinalsDense
  <2>1. <<d, n>> \in Jobs /\ <<d, m>> \in Jobs
    BY Bounds DEF Jobs
  <2>2. CASE job[<<d, n>>].state # "none"
    <3>1. job[<<d, m>>].state # "none"
      BY <2>2 DEF IInv, OrdinalsDense
    <3> QED
      BY <1>2, <1>3, <2>1, <3>1
  <2>3. CASE job[<<d, n>>].state = "none"
    <3>1. <<d, n>> = j
      BY <1>3, <2>1, <2>3
    <3>2. j[1] = d /\ j[2] = n
      BY <3>1
    <3>3. CASE m = n
      BY <1>2, <1>3, <3>1, <3>3
    <3>4. CASE m # n
      <4>1. m \in 1..(n - 1)
        BY <3>4, Bounds
      <4>2. job[<<d, m>>].state # "none"
        BY <3>2, <4>1
      <4> QED
        BY <1>2, <1>3, <2>1, <4>2
    <3> QED
      BY <3>3, <3>4
  <2> QED
    BY <2>2, <2>3
<1>11. RevokedLost'
  <2>1. \A i \in Jobs : job'[i].state = "running" => job'[i] = job[i]
    BY <1>2, <1>3
  <2> QED
    BY <1>0, <2>1, RevokedKept DEF IInv
<1> QED
  BY <1>4, <1>6, <1>8, <1>9, <1>10, <1>11 DEF IInv

LEMMA EnqueueSound ==
  ASSUME IInv, NEW d \in Derived, EnqueueTranslation(d)
  PROVE  IInv'
<1> DEFINE k == Cardinality(Ordinals(d))
<1>1. k \in 0..MaxOrdinal /\ Ordinals(d) = 1..k
  BY OrdinalsPrefix DEF IInv
<1>2. InState(SourceOf[d], Confirmed) /\ UNCHANGED <<head, worker, release, lapses>>
  BY DEF EnqueueTranslation
<1>3. \A n \in 1..MaxOrdinal : <<d, n>> \in Jobs /\ Source(<<d, n>>) = SourceOf[d]
  BY DEF Jobs, Source, Target
<1>4. \A n \in 1..MaxOrdinal : n \in 1..k <=> job[<<d, n>>].state # "none"
  BY <1>1 DEF Ordinals
<1> HIDE DEF k
<1>5. ASSUME NEW n \in 1..MaxOrdinal, n <= k + 1, Queued(<<d, n>>),
             job[<<d, n>>].state \in {"none", "failed", "cancelled"}
      PROVE  IInv'
  <2>1. \A m \in 1..(n - 1) : m \in 1..MaxOrdinal /\ m \in 1..k
    BY <1>1, <1>5, Bounds
  <2>2. \A m \in 1..(n - 1) : job[<<d, m>>].state # "none"
    BY <1>4, <2>1
  <2>3. <<d, n>>[1] = d /\ <<d, n>>[2] = n
    OBVIOUS
  <2> QED
    BY <1>2, <1>3, <1>5, <2>2, <2>3, JoinSound
<1>6. CASE Ordinals(d) # {} /\ job[Latest(d)].state \in {"failed", "cancelled"}
  <2>1. k \in 1..MaxOrdinal
    BY <1>1, <1>6, Bounds
  <2>2. Latest(d) = <<d, k>> /\ Queued(<<d, k>>) /\ job[<<d, k>>].state \in {"failed", "cancelled"}
    BY <1>6 DEF EnqueueTranslation, Latest, k
  <2> QED
    BY <1>5, <2>1, <2>2
<1>7. CASE ~(Ordinals(d) # {} /\ job[Latest(d)].state \in {"failed", "cancelled"})
  <2>1. k < MaxOrdinal /\ Queued(<<d, k + 1>>)
    BY <1>7 DEF EnqueueTranslation, k
  <2>2. k + 1 \in 1..MaxOrdinal /\ k + 1 \notin 1..k
    BY <1>1, <2>1, Bounds
  <2>3. job[<<d, k + 1>>].state = "none"
    BY <1>4, <2>2
  <2> QED
    BY <1>5, <2>1, <2>2, <2>3
<1> QED
  BY <1>6, <1>7

-----------------------------------------------------------------------------
(* The steps of the workers, and faults.                                   *)

\* A worker's lane moves on and nothing else does.
LEMMA LaneStepSound ==
  ASSUME IInv, NEW w \in Workers, NEW q \in Lane,
         q.revoked => worker[w].revoked /\ q.job = worker[w].job,
         worker' = [worker EXCEPT ![w] = q],
         Lapse \/ lapses' = lapses,
         UNCHANGED <<head, job, line, release>>
  PROVE  IInv'
<1>0. TypeOK
  BY DEF IInv
<1>1. worker' \in [Workers -> Lane]
  BY <1>0 DEF TypeOK
<1>2. TypeOK'
  <2>1. lapses' \in 0..MaxLapses
    BY <1>0, LapseType
  <2> QED
    BY <1>0, <1>1, <2>1 DEF TypeOK, HeadsTypeOK
<1>3. TranslationsBound' /\ SourcesConfirmed' /\ OneRuns' /\ LineOrders' /\ OrdinalsDense'
  BY DEF IInv, TranslationsBound, SourcesConfirmed, OneRuns, LineOrders, OrdinalsDense,
         JobsIn, Running, InState
<1>4. ResultsMade' /\ ReleasesBound'
  BY DEF IInv, ResultsMade, ReleasesBound, Made, JobsIn
<1>5. RevokedLost'
  <2>1. \A v \in Workers : worker'[v].revoked => worker[v].revoked /\ worker'[v].job = worker[v].job
    BY <1>0 DEF TypeOK
  <2> QED
    BY <1>0, <2>1, RevokedKept DEF IInv
<1> QED
  BY <1>2, <1>3, <1>4, <1>5 DEF IInv

LEMMA StartSound ==
  ASSUME IInv, NEW w \in Workers, StartLane(w) \/ StopLane(w) \/ Crash(w)
  PROVE  IInv'
<1>1. /\ worker' = [worker EXCEPT ![w] = IdleLane] \/ worker' = [worker EXCEPT ![w] = DownLane]
      /\ Lapse \/ lapses' = lapses
      /\ UNCHANGED <<head, job, line, release>>
  BY DEF StartLane, StopLane, Crash
<1> QED
  BY <1>1, LaneType, LaneStepSound

LEMMA ExecutionSound ==
  ASSUME IInv, NEW w \in Workers,
         HeartbeatFenced(w) \/ RunPass(w) \/ ExecutionFails(w) \/ ExecutionEnds(w)
  PROVE  IInv'
<1>0. worker[w] \in Lane /\ worker \in [Workers -> Lane]
  BY DEF IInv, TypeOK
<1>1. CASE HeartbeatFenced(w)
  <2> DEFINE q == [worker[w] EXCEPT !.fenced = TRUE]
  <2>1. q \in Lane /\ q.job = worker[w].job /\ (q.revoked => worker[w].revoked)
    BY <1>0 DEF Lane
  <2>2. worker' = [worker EXCEPT ![w] = q]
    BY <1>0, <1>1 DEF HeartbeatFenced
  <2> HIDE DEF q
  <2>3. (Lapse \/ lapses' = lapses) /\ UNCHANGED <<head, job, line, release>>
    BY <1>1 DEF HeartbeatFenced
  <2> QED
    BY <2>1, <2>2, <2>3, LaneStepSound
<1>2. CASE RunPass(w)
  <2>1. PICK clean \in BOOLEAN :
          worker' = [worker EXCEPT ![w].pass = @ + 1, ![w].clean = clean]
    BY <1>2 DEF RunPass
  <2> DEFINE q == [worker[w] EXCEPT !.pass = @ + 1, !.clean = clean]
  <2>2. worker[w].pass + 1 \in 0..Passes
    <3>1. worker[w].pass \in 0..Passes /\ worker[w].pass < Passes
      BY <1>0, <1>2 DEF RunPass, Lane
    <3> QED
      BY <3>1, Bounds
  <2>3. q \in Lane /\ q.job = worker[w].job /\ (q.revoked => worker[w].revoked)
    BY <1>0, <2>2 DEF Lane
  <2>4. worker' = [worker EXCEPT ![w] = q]
    BY <1>0, <2>1 DEF Lane
  <2> HIDE DEF q
  <2>5. UNCHANGED <<head, job, line, release, lapses>>
    BY <1>2 DEF RunPass
  <2> QED
    BY <2>3, <2>4, <2>5, LaneStepSound
<1>3. CASE ExecutionFails(w)
  <2> DEFINE q == IF worker[w].fenced THEN IdleLane
                  ELSE [worker[w] EXCEPT !.stage = "failing", !.error = "process"]
  <2>1. q \in Lane /\ (q.revoked => worker[w].revoked /\ q.job = worker[w].job)
    BY <1>0, LaneType DEF Lane
  <2>2. worker' = [worker EXCEPT ![w] = q]
    BY <1>0, <1>3 DEF ExecutionFails
  <2> HIDE DEF q
  <2>3. UNCHANGED <<head, job, line, release, lapses>>
    BY <1>3 DEF ExecutionFails
  <2> QED
    BY <2>1, <2>2, <2>3, LaneStepSound
<1>4. CASE ExecutionEnds(w)
  <2> DEFINE q == [worker[w] EXCEPT !.stage = "committing"]
  <2>1. q \in Lane /\ q.job = worker[w].job /\ (q.revoked => worker[w].revoked)
    BY <1>0 DEF Lane
  <2>2. worker' = [worker EXCEPT ![w] = q] \/ worker' = [worker EXCEPT ![w] = IdleLane]
    BY <1>0, <1>4 DEF ExecutionEnds
  <2> HIDE DEF q
  <2>3. (Lapse \/ lapses' = lapses) /\ UNCHANGED <<head, job, line, release>>
    BY <1>4 DEF ExecutionEnds
  <2> QED
    BY <2>1, <2>2, <2>3, LaneType, LaneStepSound
<1> QED
  BY <1>1, <1>2, <1>3, <1>4

LEMMA RefusalSound ==
  ASSUME IInv, NEW w \in Workers, CommitRefused(w) \/ CommitThrows(w)
  PROVE  IInv'
<1>0. worker[w] \in Lane /\ worker \in [Workers -> Lane]
  BY DEF IInv, TypeOK
<1> DEFINE failing(e) == [worker[w] EXCEPT !.stage = "failing", !.error = e]
<1>1. \A e \in {"process", "output", "conflict"} :
        /\ failing(e) \in Lane /\ failing(e).job = worker[w].job
        /\ failing(e).revoked => worker[w].revoked
  BY <1>0 DEF Lane
<1>2. \A e : Failing(w, e) => worker' = [worker EXCEPT ![w] = failing(e)]
  BY <1>0 DEF Failing, Lane
<1> HIDE DEF failing
<1>3. \/ worker' = [worker EXCEPT ![w] = IdleLane]
      \/ \E e \in {"process", "output", "conflict"} : worker' = [worker EXCEPT ![w] = failing(e)]
  BY <1>2 DEF CommitRefused, CommitThrows
<1>4. (Lapse \/ lapses' = lapses) /\ UNCHANGED <<head, job, line, release>>
  BY DEF CommitRefused, CommitThrows
<1>5. CASE worker' = [worker EXCEPT ![w] = IdleLane]
  BY <1>4, <1>5, LaneType, LaneStepSound
<1>6. ASSUME NEW e \in {"process", "output", "conflict"}, worker' = [worker EXCEPT ![w] = failing(e)]
      PROVE  IInv'
  <2>1. /\ failing(e) \in Lane
        /\ failing(e).revoked => worker[w].revoked /\ failing(e).job = worker[w].job
    BY <1>1
  <2> QED
    BY <1>4, <1>6, <2>1, LaneStepSound
<1> QED
  BY <1>3, <1>5, <1>6

\* Steps that change neither heads nor releases nor results.
LEMMA ResultsStay ==
  ASSUME TypeOK, ResultsMade, ReleasesBound, SameResults, UNCHANGED <<head, release>>
  PROVE  HeadsTypeOK' /\ ResultsMade' /\ ReleasesBound'
<1>1. HeadsTypeOK'
  BY DEF TypeOK, HeadsTypeOK
<1>2. \A d \in Derived : head'[d].version >= head[d].version /\ head'[d].rev = head[d].rev
  BY DEF TypeOK, HeadsTypeOK, Heads, LocaleHead
<1> QED
  BY <1>1, <1>2, NothingBound, ResultsKept

\* A worker takes the first job in line, or one whose lease ran out.
LEMMA ClaimSound ==
  ASSUME IInv, NEW w \in Workers, Claim(w)
  PROVE  IInv'
<1>0. TypeOK
  BY DEF IInv
<1>1. PICK j \in IF Running # {} THEN Expired ELSE FirstInLine :
        /\ InState(Source(j), Confirmed)
        /\ job' = [job EXCEPT ![j].state = "running", ![j].owner = w, ![j].leased = TRUE]
        /\ line' = Without({j})
        /\ worker' = [worker EXCEPT ![w] = [IdleLane EXCEPT !.stage = "executing", !.job = j]]
  BY DEF Claim
<1>2. UNCHANGED <<head, release, lapses>>
  BY DEF Claim
<1>3. /\ j \in Jobs /\ job[j].state \in {"queued", "running"}
      /\ \A k \in Running : k = j
  BY <1>1 DEF Expired, FirstInLine, JobsIn, Running, IInv, OneRuns
<1> DEFINE q == [job[j] EXCEPT !.state = "running", !.owner = w, !.leased = TRUE]
           lane == [IdleLane EXCEPT !.stage = "executing", !.job = j]
<1>4. JobSound(q) /\ q.state = "running" /\ q.owner = w /\ q.result = job[j].result
  BY <1>0, <1>3, TypeParts, JobAssumption DEF JobSound, Job
<1>5. job' = [job EXCEPT ![j] = q]
  BY <1>0, <1>1, <1>3 DEF TypeOK
<1>6. lane \in Lane /\ ~lane.revoked
  BY <1>3, LaneType DEF Lane
<1> HIDE DEF q, lane
<1>7. /\ job'[j] = q /\ \A i \in Jobs : i # j => job'[i] = job[i]
      /\ job' \in [Jobs -> Job]
  BY <1>0, <1>3, <1>4, <1>5 DEF JobSound, TypeOK
<1>8. /\ worker' \in [Workers -> Lane] /\ worker'[w] = lane
      /\ \A v \in Workers : v # w => worker'[v] = worker[v]
  BY <1>0, <1>1, <1>6 DEF TypeOK, lane
<1>9. SameResults
  BY <1>3, <1>4, <1>7 DEF SameResults
<1>10. HeadsTypeOK' /\ ResultsMade' /\ ReleasesBound'
  BY <1>0, <1>2, <1>9, ResultsStay DEF IInv
<1>11. TypeOK'
  <2>1. \A i \in Jobs : JobSound(job'[i])
    BY <1>0, <1>4, <1>7, TypeParts
  <2>2. line' \in SUBSET (Jobs \X Jobs)
    BY <1>0, <1>1 DEF Without, TypeOK
  <2> QED
    BY <1>0, <1>2, <1>7, <1>8, <1>10, <2>1, <2>2, TypesKept DEF TypeOK
<1>12. /\ JobsIn({"queued"})' = JobsIn({"queued"}) \ {j} /\ Running' = {j}
       /\ JobsIn({"queued", "running"})' = JobsIn({"queued", "running"})
  BY <1>3, <1>4, <1>7 DEF JobsIn, Running
<1>13. SourcesConfirmed' /\ OneRuns' /\ TranslationsBound'
  BY <1>2, <1>12 DEF IInv, SourcesConfirmed, OneRuns, TranslationsBound, InState
<1>14. LineOrders'
  BY <1>1, <1>12, LineShrinks DEF IInv
<1>15. OrdinalsDense'
  <2>1. \A i \in Jobs : job'[i].state = "none" <=> job[i].state = "none"
    BY <1>3, <1>4, <1>7
  <2>2. \A d \in Derived : \A n \in 1..MaxOrdinal : \A m \in 1..n :
          <<d, n>> \in Jobs /\ <<d, m>> \in Jobs
    BY Bounds DEF Jobs
  <2> QED
    BY <2>1, <2>2 DEF IInv, OrdinalsDense
<1>16. RevokedLost'
  BY <1>0, <1>4, <1>6, <1>7, <1>8, RevokedKept DEF IInv
<1> QED
  BY <1>10, <1>11, <1>13, <1>14, <1>15, <1>16 DEF IInv

\* What a worker with a live claim ends.
LEMMA OwnedJob ==
  ASSUME TypeOK, LineOrders, NEW w \in Workers, Owned(w)
  PROVE  /\ worker[w].job \in Jobs /\ job[worker[w].job].state = "running"
         /\ JobSound(job[worker[w].job]) /\ job \in [Jobs -> Job]
         /\ {worker[w].job} \in SUBSET JobsIn({"queued", "running"})
         /\ line = Without({worker[w].job})
<1>1. worker[w].job \in Jobs /\ job[worker[w].job].state = "running"
  BY DEF TypeOK, Lane, Owned, Holds
<1>2. worker[w].job \notin JobsIn({"queued"})
  BY <1>1 DEF JobsIn
<1>3. line = Without({worker[w].job})
  BY <1>2 DEF LineOrders, Without
<1> QED
  BY <1>1, <1>3, TypeParts DEF JobsIn

LEMMA FailSound ==
  ASSUME IInv, NEW w \in Workers, FailJob(w)
  PROVE  IInv'
<1>0. TypeOK /\ LineOrders
  BY DEF IInv
<1> DEFINE j == worker[w].job
           q == Settled(job[j], "failed")
<1>1. worker' = [worker EXCEPT ![w] = IdleLane] /\ UNCHANGED <<head, line, release>>
  BY DEF FailJob
<1>2. CASE UNCHANGED job /\ (Lapse \/ lapses' = lapses)
  BY <1>1, <1>2, LaneType, LaneStepSound
<1>3. ASSUME LiveClaim(w), job' = [job EXCEPT ![j] = q], UNCHANGED lapses
      PROVE  IInv'
  <2>1. /\ j \in Jobs /\ job[j].state = "running" /\ JobSound(job[j]) /\ job \in [Jobs -> Job]
        /\ {j} \in SUBSET JobsIn({"queued", "running"}) /\ line' = Without({j})
    BY <1>0, <1>1, <1>3, OwnedJob DEF LiveClaim, Without
  <2> HIDE DEF j
  <2>2. JobSound(q) /\ q.state = "failed" /\ q.result = job[j].result
    BY <2>1, SettledType
  <2> HIDE DEF q
  <2>3. /\ job'[j] = q /\ \A i \in Jobs : i # j => job'[i] = job[i]
        /\ job' \in [Jobs -> Job]
    BY <1>3, <2>1, <2>2 DEF JobSound
  <2>4. SameResults
    BY <2>1, <2>2, <2>3 DEF SameResults
  <2>5. HeadsTypeOK' /\ ResultsMade' /\ ReleasesBound'
    BY <1>0, <1>1, <2>4, ResultsStay DEF IInv
  <2>6. worker' \in [Workers -> Lane] /\ \A v \in Workers : worker'[v].revoked =>
          worker[v].revoked /\ worker'[v].job = worker[v].job
    BY <1>0, <1>1, LaneType DEF TypeOK
  <2>7. TypeOK'
    <3>1. \A i \in Jobs : JobSound(job'[i])
      BY <1>0, <2>2, <2>3, TypeParts
    <3> QED
      BY <1>0, <1>1, <1>3, <2>3, <2>5, <2>6, <3>1, TypesKept DEF TypeOK
  <2>8. SourcesConfirmed' /\ OneRuns' /\ LineOrders' /\ OrdinalsDense'
    <3>1. \A i \in JobsIn({"queued", "running"}) \ {j} : head'[Source(i)].state \in Confirmed
      BY <1>1 DEF IInv, SourcesConfirmed, InState
    <3> QED
      BY <1>0, <2>1, <2>2, <2>3, <3>1, Settling DEF IInv
  <2>9. TranslationsBound'
    BY <1>1 DEF IInv, TranslationsBound, InState
  <2>10. RevokedLost'
    BY <1>0, <2>2, <2>3, <2>6, RevokedKept DEF IInv
  <2> QED
    BY <2>5, <2>7, <2>8, <2>9, <2>10 DEF IInv
<1> QED
  BY <1>2, <1>3 DEF FailJob

LEMMA LeaseSound ==
  ASSUME IInv, NEW j \in Jobs, LeaseExpires(j)
  PROVE  IInv'
<1>0. TypeOK /\ LineOrders /\ job \in [Jobs -> Job] /\ JobSound(job[j])
  BY TypeParts DEF IInv
<1> DEFINE q == [job[j] EXCEPT !.leased = FALSE]
<1>1. /\ job' = [job EXCEPT ![j].leased = FALSE] /\ UNCHANGED <<head, line, worker, release>>
      /\ Lapse \/ lapses' = lapses
  BY DEF LeaseExpires
<1>2. job' = [job EXCEPT ![j] = q]
  BY <1>0, <1>1
<1>3. /\ JobSound(q) /\ q.state = job[j].state /\ q.owner = job[j].owner
      /\ q.result = job[j].result
  BY <1>0 DEF JobSound, Job
<1> HIDE DEF q
<1>4. /\ job' \in [Jobs -> Job]
      /\ \A i \in Jobs : /\ job'[i].state = job[i].state /\ job'[i].owner = job[i].owner
                         /\ job'[i].result = job[i].result /\ JobSound(job'[i])
  BY <1>0, <1>2, <1>3, TypeParts DEF JobSound
<1>5. SameResults
  BY <1>4 DEF SameResults
<1>6. HeadsTypeOK' /\ ResultsMade' /\ ReleasesBound'
  BY <1>0, <1>1, <1>5, ResultsStay DEF IInv
<1>7. TypeOK'
  <2>1. lapses' \in 0..MaxLapses
    BY <1>0, <1>1, LapseType
  <2> QED
    BY <1>0, <1>1, <1>4, <1>6, <2>1, TypesKept DEF TypeOK
<1>8. SourcesConfirmed' /\ OneRuns' /\ LineOrders' /\ OrdinalsDense'
  <2>1. line' = Without({})
    BY <1>1 DEF Without
  <2>2. \A i \in JobsIn({"queued", "running"}) \ {} : head'[Source(i)].state \in Confirmed
    BY <1>1 DEF IInv, SourcesConfirmed, InState
  <2> QED
    BY <1>0, <1>4, <2>1, <2>2, Settling DEF IInv
<1>9. TranslationsBound'
  BY <1>1 DEF IInv, TranslationsBound, InState
<1>10. RevokedLost'
  BY <1>0, <1>1, <1>4, RevokedKept DEF IInv
<1> QED
  BY <1>6, <1>7, <1>8, <1>9, <1>10 DEF IInv

\* The commit: revision, head and job in one step. Its revision is newer
\* than every result before it.
LEMMA CommitSound ==
  ASSUME IInv, NEW w \in Workers, CommitSucceeds(w)
  PROVE  IInv'
<1> DEFINE j == worker[w].job
           d == Target(j)
           n == head[d].version + 1
           p == [Settled(job[j], "succeeded") EXCEPT !.result = n]
           S == JobsIn({"succeeded"})
           S1 == JobsIn({"succeeded"})'
<1>0. TypeOK /\ HeadsTypeOK /\ TranslationsBound /\ LineOrders
  BY DEF IInv, TypeOK
<1>1. /\ LiveClaim(w) /\ head' = Translated(d)
      /\ job' = [job EXCEPT ![j] = [Settled(@, "succeeded") EXCEPT !.result = head'[d].rev]]
      /\ worker' = [worker EXCEPT ![w] = IdleLane]
      /\ UNCHANGED <<line, release, lapses>>
  BY DEF CommitSucceeds
<1>2. /\ j \in Jobs /\ job[j].state = "running" /\ JobSound(job[j]) /\ job \in [Jobs -> Job]
      /\ {j} \in SUBSET JobsIn({"queued", "running"}) /\ line' = Without({j})
  BY <1>0, <1>1, OwnedJob DEF LiveClaim, Without
<1>3. d \in Derived /\ d \in Heads
  BY <1>2, TargetType
<1>4. /\ HeadsTypeOK' /\ TranslationsBound' /\ head'[d].rev = n /\ head'[d].version = n
      /\ head[d].version \in Nat /\ n \in Nat \ {0}
      /\ \A h \in Heads : h # d => head'[h] = head[h]
  BY <1>0, <1>1, <1>3, TranslationFollows
<1>5. job' = [job EXCEPT ![j] = p]
  BY <1>1, <1>2, <1>4
<1> HIDE DEF n
<1>6. JobSound(p) /\ p.state = "succeeded" /\ p.owner = NoWorker /\ p.result = n
  BY <1>2, <1>4, FinishedType
<1> HIDE DEF p, j
<1>7. /\ job'[j] = p /\ \A i \in Jobs : i # j => job'[i] = job[i]
      /\ job' \in [Jobs -> Job]
  BY <1>2, <1>5, <1>6 DEF JobSound
<1>8. S1 = S \cup {j} /\ j \notin S /\ S \subseteq Jobs
  BY <1>2, <1>6, <1>7 DEF JobsIn
<1> HIDE DEF d
<1>9. \A i \in S : /\ Target(i) \in Derived /\ Target(i) \in Heads
                   /\ job'[i] = job[i] /\ job[i].result \in Nat
                   /\ job[i].result <= head[Target(i)].version
                   /\ Target(i) = d => job[i].result < n
  <2> SUFFICES ASSUME NEW i \in S
               PROVE  /\ Target(i) \in Derived /\ Target(i) \in Heads
                      /\ job'[i] = job[i] /\ job[i].result \in Nat
                      /\ job[i].result <= head[Target(i)].version
                      /\ Target(i) = d => job[i].result < n
    OBVIOUS
  <2>1. Target(i) \in Derived /\ Target(i) \in Heads /\ job'[i] = job[i]
    BY <1>7, <1>8, TargetType
  <2>2. job[i].result \in Nat
    BY <1>2, <1>8 DEF Job
  <2>3. job[i].result <= head[Target(i)].version
    BY DEF IInv, ResultsMade
  <2> QED
    BY <1>4, <2>1, <2>2, <2>3 DEF n
<1>10. Target(j) = d /\ job'[j].result = n
  BY <1>6, <1>7 DEF d, j
<1> HIDE DEF S, S1
<1>11. \A e, rev : Made(e, rev) => Made(e, rev)'
  <2>1. \A e, rev : Made(e, rev) <=> \E i \in S : Target(i) = e /\ job[i].result = rev
    BY DEF Made, S
  <2>2. \A e, rev : Made(e, rev)' <=> \E i \in S1 : Target(i) = e /\ job'[i].result = rev
    BY DEF Made, S1
  <2> QED
    BY <1>8, <1>9, <2>1, <2>2
<1>12. ReleasesBound'
  BY <1>1, <1>11 DEF IInv, ReleasesBound
<1>13. ResultsMade'
  <2>1. \A i \in S1 : job'[i].result <= head'[Target(i)].version
    <3> SUFFICES ASSUME NEW i \in S1
                 PROVE  job'[i].result <= head'[Target(i)].version
      OBVIOUS
    <3>1. CASE i = j
      BY <1>4, <1>10, <3>1
    <3>2. CASE i # j
      <4>1. i \in S
        BY <1>8, <3>2
      <4>2. CASE Target(i) = d
        BY <1>4, <1>9, <4>1, <4>2
      <4>3. CASE Target(i) # d
        BY <1>4, <1>9, <4>1, <4>3
      <4> QED
        BY <4>2, <4>3
    <3> QED
      BY <3>1, <3>2
  <2>2. \A i, k \in S1 : Target(i) = Target(k) /\ job'[i].result = job'[k].result => i = k
    <3>1. \A i, k \in S : Target(i) = Target(k) /\ job[i].result = job[k].result => i = k
      BY DEF IInv, ResultsMade, S
    <3>2. \A i \in S : Target(i) = d => job'[i].result # n
      BY <1>4, <1>9
    <3> QED
      BY <1>8, <1>9, <1>10, <3>1, <3>2
  <2>3. ASSUME NEW e \in Derived, head'[e].rev # 0
        PROVE  Made(e, head[e].rev)'
    <3>1. CASE e = d
      <4>1. j \in S1 /\ Target(j) = e /\ job'[j].result = head'[e].rev
        BY <1>4, <1>8, <1>10, <3>1
      <4> QED
        BY <4>1 DEF Made, S1
    <3>2. CASE e # d
      <4>1. e \in Heads /\ head'[e] = head[e]
        BY <1>4, <3>2 DEF Heads
      <4>2. Made(e, head[e].rev)
        BY <2>3, <4>1 DEF IInv, ResultsMade
      <4>3. PICK i \in S : Target(i) = e /\ job[i].result = head[e].rev
        BY <4>2 DEF Made, S
      <4>4. i \in S1 /\ Target(i) = e /\ job'[i].result = head'[e].rev
        BY <1>8, <1>9, <4>1, <4>3
      <4> QED
        BY <4>4 DEF Made, S1
    <3> QED
      BY <3>1, <3>2
  <2> QED
    BY <2>1, <2>2, <2>3 DEF ResultsMade, S1
<1>14. worker' \in [Workers -> Lane] /\ \A v \in Workers : worker'[v].revoked =>
         worker[v].revoked /\ worker'[v].job = worker[v].job
  BY <1>0, <1>1, LaneType DEF TypeOK
<1>15. TypeOK'
  <2>1. \A i \in Jobs : JobSound(job'[i])
    BY <1>0, <1>6, <1>7, TypeParts
  <2> QED
    BY <1>0, <1>1, <1>4, <1>7, <1>14, <2>1, TypesKept DEF TypeOK
<1>16. SourcesConfirmed' /\ OneRuns' /\ LineOrders' /\ OrdinalsDense'
  <2>1. \A i \in JobsIn({"queued", "running"}) \ {j} : head'[Source(i)].state \in Confirmed
    <3> SUFFICES ASSUME NEW i \in JobsIn({"queued", "running"})
                 PROVE  head'[Source(i)].state \in Confirmed
      OBVIOUS
    <3>1. Source(i) \in Heads /\ Source(i) \notin Derived
      BY SourceIsHead, TargetType DEF JobsIn
    <3>2. head'[Source(i)] = head[Source(i)]
      BY <1>3, <1>4, <3>1
    <3> QED
      BY <3>2 DEF IInv, SourcesConfirmed, InState
  <2> QED
    BY <1>0, <1>2, <1>6, <1>7, <2>1, Settling DEF IInv
<1>17. RevokedLost'
  BY <1>0, <1>6, <1>7, <1>14, RevokedKept DEF IInv
<1> QED
  BY <1>4, <1>12, <1>13, <1>15, <1>16, <1>17 DEF IInv

-----------------------------------------------------------------------------
(* The invariant.                                                          *)

LEMMA InitSound == Init => IInv
<1> SUFFICES ASSUME Init
             PROVE  IInv
  OBVIOUS
<1>1. /\ HeadsInit
      /\ job = [j \in Jobs |-> [state |-> "none", owner |-> NoWorker, leased |-> FALSE,
                                result |-> 0]]
      /\ line = {} /\ worker = [w \in Workers |-> DownLane]
      /\ release = [sets |-> {}, count |-> 0] /\ lapses = 0
  BY DEF Init
<1>2. HeadsTypeOK /\ \A h \in Heads : head[h].state = "absent" /\ head[h].rev = 0
  BY <1>1 DEF HeadsInit, HeadsTypeOK, LocaleHead, HeadStates
<1>3. /\ JobsIn({"queued"}) = {} /\ JobsIn({"queued", "running"}) = {}
      /\ Running = {} /\ JobsIn({"succeeded"}) = {}
  BY <1>1 DEF JobsIn, Running
<1>4. TypeOK
  <2>1. job \in [Jobs -> Job]
    BY <1>1 DEF Job
  <2>2. worker \in [Workers -> Lane]
    BY <1>1, LaneType
  <2>3. release \in [sets : SUBSET SUBSET Entries, count : 0..MaxReleases] /\ lapses \in 0..MaxLapses
    BY <1>1, Bounds
  <2>4. \A j \in Jobs : JobSound(job[j])
    BY <1>1, <2>1 DEF JobSound
  <2> QED
    BY <1>1, <1>2, <2>1, <2>2, <2>3, <2>4, TypeParts
<1>5. TranslationsBound
  BY <1>2 DEF TranslationsBound, InState, Confirmed, Heads
<1>6. SourcesConfirmed /\ OneRuns /\ LineOrders
  BY <1>1, <1>3 DEF SourcesConfirmed, OneRuns, LineOrders
<1>7. OrdinalsDense
  <2>1. \A d \in Derived, n \in 1..MaxOrdinal : <<d, n>> \in Jobs
    BY DEF Jobs
  <2> QED
    BY <1>1, <2>1 DEF OrdinalsDense
<1>8. ResultsMade /\ ReleasesBound
  BY <1>1, <1>2, <1>3 DEF ResultsMade, ReleasesBound, Heads
<1>9. RevokedLost
  BY <1>1, LaneType DEF RevokedLost
<1> QED
  BY <1>4, <1>5, <1>6, <1>7, <1>8, <1>9 DEF IInv

LEMMA StuttersSound ==
  ASSUME IInv, UNCHANGED vars
  PROVE  IInv'
<1>1. UNCHANGED <<job, line, worker, release, lapses>> /\ UNCHANGED head
  BY DEF vars
<1> QED
  BY <1>1 DEF IInv, TypeOK, HeadsTypeOK, TranslationsBound, SourcesConfirmed, OneRuns,
              LineOrders, OrdinalsDense, ResultsMade, ReleasesBound, RevokedLost, Made,
              JobsIn, Running, Owned, Holds, InState

LEMMA StepSound ==
  ASSUME IInv, [Next]_vars
  PROVE  IInv'
<1>1. CASE ServerStep
  BY <1>1, HandInSound, ReviewSound, EnqueueSound, PublishSound, RollbackSound DEF ServerStep
<1>2. ASSUME NEW w \in Workers, Cycle(w)
      PROVE  IInv'
  BY <1>2, StartSound, ClaimSound, ExecutionSound, CommitSound, RefusalSound, FailSound DEF Cycle
<1>3. ASSUME NEW w \in Workers, StopLane(w) \/ HeartbeatFenced(w) \/ Crash(w)
      PROVE  IInv'
  BY <1>3, StartSound, ExecutionSound
<1>4. ASSUME NEW j \in Jobs, LeaseExpires(j)
      PROVE  IInv'
  BY <1>4, LeaseSound
<1>5. CASE UNCHANGED vars
  BY <1>5, StuttersSound
<1> QED
  BY <1>1, <1>2, <1>3, <1>4, <1>5 DEF Next

LEMMA Invariant == Spec => []IInv
<1>1. IInv /\ [Next]_vars => IInv'
  BY StepSound
<1> QED
  BY <1>1, InitSound, PTL DEF Spec

\* The schema's constraints hold in every state: a job has an owner and a
\* lease only while it runs, and a result exactly once it succeeded.
THEOREM TypeCorrect == Spec => []TypeOK
<1>1. IInv => TypeOK
  BY DEF IInv
<1> QED
  BY <1>1, Invariant, PTL

\* The review workflow, with the translations delivered and the rollbacks
\* that put any earlier release back, never leaves a translation confirmed
\* that has no confirmed source.
THEOREM BoundCorrect == Spec => []TranslationsBound
<1>1. IInv => TranslationsBound
  BY DEF IInv
<1> QED
  BY <1>1, Invariant, PTL

\* The queue never jams and never runs two jobs at once, however many
\* languages wait in it: each queued or running job has a confirmed source.
THEOREM SourcedCorrect == Spec => []JobsSourced
<1>1. ASSUME IInv
      PROVE  JobsSourced
  <2>1. Cardinality(Running) <= 1
    <3>1. CASE Running = {}
      BY <3>1, FS_EmptySet
    <3>2. CASE Running # {}
      <4>1. PICK j : Running = {j}
        BY <1>1, <3>2 DEF IInv, OneRuns
      <4>2. Cardinality({j}) = 1
        BY FS_Singleton
      <4> QED
        BY <4>1, <4>2
    <3> QED
      BY <3>1, <3>2
  <2> QED
    BY <1>1, <2>1 DEF IInv, SourcesConfirmed, JobsSourced
<1> QED
  BY <1>1, Invariant, PTL

\* The jobs that wait, and no others, stand in one order without ties or
\* cycles, through every cancellation and every job queued again: the claim
\* has one candidate, and no job is passed by one queued after it.
THEOREM LineCorrect == Spec => []LineOrders
<1>1. IInv => LineOrders
  BY DEF IInv
<1> QED
  BY <1>1, Invariant, PTL

\* Every revision of a translation that is shown was made by exactly one
\* finished job, whichever workers lost their leases over it.
THEOREM RevisionsCorrect == Spec => []RevisionsHaveJobs
<1>1. ASSUME IInv
      PROVE  RevisionsHaveJobs
  <2>1. \A j, k \in JobsIn({"succeeded"}) :
          Target(j) = Target(k) /\ job[j].result = job[k].result => j = k
    BY <1>1 DEF IInv, ResultsMade
  <2>2. ASSUME NEW d \in Derived, head[d].rev # 0
        PROVE  Cardinality({j \in JobsIn({"succeeded"}) :
                              Target(j) = d /\ job[j].result = head[d].rev}) = 1
    <3> DEFINE M == {j \in JobsIn({"succeeded"}) : Target(j) = d /\ job[j].result = head[d].rev}
    <3>1. Made(d, head[d].rev)
      BY <1>1, <2>2 DEF IInv, ResultsMade
    <3>2. PICK j : M = {j}
      BY <2>1, <3>1 DEF Made
    <3>3. Cardinality({j}) = 1
      BY FS_Singleton
    <3> QED
      BY <3>2, <3>3
  <2> QED
    BY <2>1, <2>2 DEF RevisionsHaveJobs
<1> QED
  BY <1>1, Invariant, PTL

\* Work begun under an approval that was withdrawn is never delivered: its
\* worker lost the claim with the approval and cannot win it back.
THEOREM RevokedCorrect == Spec => RevokedWorkNeverLands
<1> DEFINE Lands(w) == worker[w].stage = "committing" /\ head' # head /\ worker'[w].stage = "idle"
<1>1. ASSUME IInv, [Next]_vars, NEW w \in Workers, Lands(w)
      PROVE  ~worker[w].revoked
  <2>0. worker \in [Workers -> Lane]
    BY <1>1 DEF IInv, TypeOK
  <2>1. CASE ServerStep
    <3>1. worker'[w].stage = worker[w].stage
      BY <2>0, <2>1 DEF ServerStep, HandInArticle, ReviewHead, EnqueueTranslation, PublishAll,
                        RollbackTo, Lane
    <3> QED
      BY <1>1, <3>1
  <2>2. ASSUME NEW v \in Workers, Cycle(v)
        PROVE  ~worker[w].revoked
    <3>1. CommitSucceeds(v)
      BY <1>1, <2>2 DEF Cycle, StartLane, Claim, RunPass, ExecutionFails, ExecutionEnds,
                        CommitRefused, CommitThrows, FailJob
    <3>2. v = w
      BY <1>1, <2>0, <3>1 DEF CommitSucceeds
    <3> QED
      BY <1>1, <3>1, <3>2 DEF CommitSucceeds, LiveClaim, IInv, RevokedLost
  <2>3. ASSUME NEW v \in Workers, StopLane(v) \/ HeartbeatFenced(v) \/ Crash(v)
        PROVE  FALSE
    BY <1>1, <2>3 DEF StopLane, HeartbeatFenced, Crash
  <2>4. ASSUME NEW j \in Jobs, LeaseExpires(j)
        PROVE  FALSE
    BY <1>1, <2>4 DEF LeaseExpires
  <2>5. ~UNCHANGED vars
    BY <1>1 DEF vars
  <2> QED
    BY <1>1, <2>1, <2>2, <2>3, <2>4, <2>5 DEF Next
<1>2. IInv /\ [Next]_vars =>
        [\A w \in Workers : worker[w].stage = "committing" /\ head' # head /\ worker'[w].stage = "idle"
           => ~worker[w].revoked]_vars
  BY <1>1
<1> QED
  BY <1>2, Invariant, PTL DEF Spec, RevokedWorkNeverLands

=============================================================================
