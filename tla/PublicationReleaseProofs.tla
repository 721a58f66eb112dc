---------------------- MODULE PublicationReleaseProofs ----------------------
(***************************************************************************)
(* Proofs about PublicationRelease, for any articles, languages, releases, *)
(* consent bundles, requests and activations, and any number of releases   *)
(* kept: wherever a publication, a rollback or the pruning fails, or the   *)
(* server dies, a start finds a state it knows how to settle, and outside  *)
(* an activation the site shows what the workflow says is published.       *)
(***************************************************************************)
EXTENDS PublicationRelease, FiniteSetTheorems, TLAPS

-----------------------------------------------------------------------------
(* The inductive invariant.                                                *)

\* One revision per head; and no translation without its source.
Functional(E) == \A e, f \in E : e.head = f.head => e = f
Closed(E) == \A e \in E : e.head \in Derived => SourceOf[e.head] \in HeadsOf(E)

\* The entries of a release that is in force: what is published.
EntriesOf(r) == IF r = NoRelease THEN {} ELSE release[r].entries
PublishedHeads == {h \in Heads : InState(h, {"published"})}

\* A snapshot that a request builds is of its base: while that is still the
\* active release, the snapshot has everything that is published.
SnapshotsSound ==
  \A s \in builds :
    /\ Functional(s.entries) /\ Closed(s.entries)
    /\ s.base \in Releases =>
         release[s.base].state # "absent" /\ s.gen <= release[s.base].gen
    /\ BaseUnchanged(s) => PublishedHeads \subseteq HeadsOf(s.entries)

\* A directory that is there holds the site its release's row describes.
BooksSound ==
  \A r \in Releases :
    /\ release[r].state = "absent" => release[r].order = 0
    /\ release[r].state # "absent" =>
         /\ Functional(release[r].entries) /\ Closed(release[r].entries)
         /\ release[r].bundle \in Bundles
         /\ dir[r].state # "none" =>
              dir[r].site = [pages |-> release[r].entries,
                             linked |-> HeadsOf(release[r].entries),
                             bundle |-> release[r].bundle]

\* There is a last activation.
LastExists == \E n \in Activations \cup {0} : \A m \in Activations : m <= n

\* The published heads are the entries of the active release, which is on
\* disk, as every release is whose notice is outstanding.
ActiveStands ==
  /\ {[head |-> h, rev |-> head[h].rev] : h \in PublishedHeads} = EntriesOf(Active)
  /\ Active # NoRelease => OnDisk(Active)
  /\ \A r \in Releases : outbox[r] = "live" => OnDisk(r)

\* An open activation knows where the link was before, and the release of an
\* open publish has everything that is published.
JournalSound ==
  Open =>
    /\ journal.target \in Releases
    /\ IF journal.previous = NoRelease THEN journal.path \in {NoRelease, Bootstrap}
                                       ELSE journal.path = journal.previous
    /\ journal.op = "publish" =>
         PublishedHeads \subseteq HeadsOf(release[journal.target].entries)

\* The thread is where the journal says, and prunes retired releases only.
ThreadSound ==
  /\ sync.stage # "free" => up
  /\ sync.stage \in {"journaled", "linked", "marked"} => Open
  /\ sync.stage \in {"committed", "scanned", "moved"} => ~Open
  /\ sync.stage \in {"scanned", "moved"} =>
       /\ sync.todo \subseteq InRelease({"retired"})
       /\ \A r \in sync.todo : dir[r].state # "none"

IInv ==
  /\ TypeOK /\ IsFiniteSet(builds)
  /\ SnapshotsSound /\ BooksSound /\ LastExists
  /\ ActiveStands /\ JournalSound /\ ThreadSound
  /\ PointerExplained /\ JournalReplayable /\ TranslationsBound

-----------------------------------------------------------------------------
(* The active release, the last activation, and the entries of heads.      *)

ActiveSound ==
  /\ Active \in Releases \cup {NoRelease}
  /\ \A r \in Releases : release[r].state = "active" <=> r = Active

LEMMA OneActive == TypeOK => ActiveSound
<1> SUFFICES ASSUME TypeOK PROVE ActiveSound
  OBVIOUS
<1> DEFINE A == InRelease({"active"})
<1>1. \A r \in Releases : r \in A <=> release[r].state = "active"
  BY DEF InRelease
<1>2. A \subseteq Releases /\ \A r, s \in A : r = s
  BY DEF InRelease, TypeOK
<1>3. Active = IF A = {} THEN NoRelease ELSE CHOOSE r \in A : TRUE
  BY DEF Active
<1> HIDE DEF A
<1>4. CASE A = {}
  BY <1>1, <1>3, <1>4, NamesAssumption DEF ActiveSound
<1>5. CASE A # {}
  <2>1. Active \in A
    BY <1>3, <1>5
  <2> QED
    BY <1>1, <1>2, <2>1 DEF ActiveSound
<1> QED
  BY <1>4, <1>5

LEMMA SameActive ==
  ASSUME InRelease({"active"})' = InRelease({"active"})
  PROVE  Active' = Active
<1> DEFINE F(S) == IF S = {} THEN NoRelease ELSE CHOOSE r \in S : TRUE
<1>1. Active = F(InRelease({"active"})) /\ Active' = F(InRelease({"active"})')
  BY DEF Active
<1> HIDE DEF F
<1> QED
  BY <1>1

LEMMA ReleaseType ==
  ASSUME TypeOK, NEW r \in Releases
  PROVE  /\ release[r].state \in {"absent", "building", "active", "retired", "failed"}
         /\ release[r].gen \in Nat /\ release[r].order \in Nat
         /\ release[r].entries \subseteq Entry
         /\ release[r].bundle \in Bundles \cup {NoBundle}
  BY DEF TypeOK, Release

LEMMA LastOrderBounds ==
  ASSUME TypeOK, LastExists
  PROVE  LastOrder \in Nat /\ \A r \in Releases : release[r].order <= LastOrder
<1>1. PICK n \in Activations \cup {0} : \A m \in Activations : m <= n
  BY DEF LastExists
<1>2. LastOrder \in Activations \cup {0} /\ \A m \in Activations : m <= LastOrder
  BY <1>1 DEF LastOrder
<1>3. \A r \in Releases : release[r].order \in Activations /\ release[r].order \in Nat
  BY ReleaseType DEF Activations
<1>4. Activations \subseteq Nat
  BY ReleaseType DEF Activations
<1> QED
  BY <1>2, <1>3, <1>4

\* What a set of entries says of its heads, and of the heads published as such.
LEMMA HeadsOfPublished ==
  ASSUME TypeOK, ActiveStands
  PROVE  HeadsOf(EntriesOf(Active)) = PublishedHeads
<1> DEFINE E == {[head |-> h, rev |-> head[h].rev] : h \in PublishedHeads}
<1>1. \A h \in PublishedHeads : [head |-> h, rev |-> head[h].rev] \in E
  OBVIOUS
<1>2. \A e \in E : e.head \in PublishedHeads
  OBVIOUS
<1>3. PublishedHeads \subseteq HeadsOf(E)
  <2> SUFFICES ASSUME NEW h \in PublishedHeads PROVE h \in HeadsOf(E)
    OBVIOUS
  <2>1. [head |-> h, rev |-> head[h].rev].head = h
    OBVIOUS
  <2> QED
    BY <1>1, <2>1 DEF HeadsOf
<1>4. HeadsOf(E) \subseteq PublishedHeads
  BY <1>2 DEF HeadsOf
<1> QED
  BY <1>3, <1>4 DEF ActiveStands

LEMMA SourceIsHead == \A d \in Derived : SourceOf[d] \in Sources /\ SourceOf[d] \in Heads
  BY HeadAssumption DEF Heads

-----------------------------------------------------------------------------
(* Steps that leave the site and the heads alone.                          *)

Settled == <<head, site>>

LEMMA InitIInv == Init => IInv
<1> SUFFICES ASSUME Init PROVE IInv
  OBVIOUS
<1>1. \A r \in Releases : release[r] = [state |-> "absent", gen |-> 0, order |-> 0,
                                         entries |-> {}, bundle |-> NoBundle]
  BY DEF Init
<1>2. InRelease({"active"}) = {} /\ Active = NoRelease
  BY <1>1 DEF InRelease, Active
<1>3. TypeOK
  <2>1. HeadsTypeOK
    BY DEF Init, HeadsInit, HeadsTypeOK, LocaleHead, HeadStates
  <2>2. release \in [Releases -> Release] /\ NoDirectory \in Directory /\ Free \in Sync
    BY DEF Init, Release, NoDirectory, NoSite, Site, Directory, Free, Sync
  <2>3. NoJournal \in Journal
    BY DEF NoJournal, Journal, Link
  <2>4. Cardinality(builds) <= MaxBuilds
    BY FS_EmptySet, ReleaseAssumption DEF Init
  <2> QED
    BY <1>2, <2>1, <2>2, <2>3, <2>4 DEF TypeOK, Init, BundleStates, Link
<1>4. IsFiniteSet(builds) /\ SnapshotsSound
  BY FS_EmptySet DEF Init, SnapshotsSound
<1>5. BooksSound /\ LastExists
  <2>1. \A m \in Activations : m = 0
    BY <1>1 DEF Activations
  <2>2. \A m \in Activations : m <= 0
    BY <2>1
  <2> QED
    BY <1>1, <2>2 DEF BooksSound, LastExists
<1>6. ActiveStands
  <2>1. PublishedHeads = {}
    BY DEF PublishedHeads, InState, Init, HeadsInit
  <2> QED
    BY <1>2, <2>1 DEF ActiveStands, EntriesOf, Init
<1>7. JournalSound /\ ThreadSound /\ PointerExplained /\ JournalReplayable
  BY <1>2 DEF Init, NoJournal, Open, JournalSound, ThreadSound, Free, PointerExplained,
              JournalReplayable, Unpublished
<1>8. TranslationsBound
  BY SourceIsHead DEF TranslationsBound, InState, Confirmed, Init, HeadsInit, Heads
<1> QED
  BY <1>3, <1>4, <1>5, <1>6, <1>7, <1>8 DEF IInv

\* What refers to the site alone is kept by a step that leaves it alone.
LEMMA SiteKept ==
  ASSUME IInv, UNCHANGED <<release, dir, outbox, head>>
  PROVE  /\ Active' = Active /\ PublishedHeads' = PublishedHeads
         /\ BooksSound' /\ LastExists' /\ ActiveStands' /\ TranslationsBound'
<1>1. Active' = Active /\ PublishedHeads' = PublishedHeads
  BY DEF Active, InRelease, PublishedHeads, InState
<1>2. BooksSound'
  BY DEF IInv, BooksSound
<1>3. LastExists'
  BY DEF IInv, LastExists, Activations
<1>4. ActiveStands'
  BY <1>1 DEF IInv, ActiveStands, EntriesOf, OnDisk
<1>5. TranslationsBound'
  BY DEF IInv, TranslationsBound, InState
<1> QED
  BY <1>1, <1>2, <1>3, <1>4, <1>5

\* Requests that end leave the snapshots of the others.
LEMMA FewerSnapshots ==
  ASSUME IInv, builds' \subseteq builds, UNCHANGED <<release, head>>
  PROVE  SnapshotsSound' /\ IsFiniteSet(builds') /\ builds' \subseteq Snapshot
         /\ Cardinality(builds') <= MaxBuilds
<1>1. IsFiniteSet(builds') /\ Cardinality(builds') <= Cardinality(builds)
  BY FS_Subset DEF IInv
<1>2. Cardinality(builds') \in Nat /\ Cardinality(builds) \in Nat
  BY <1>1, FS_CardinalityType DEF IInv
<1>3. SnapshotsSound'
  BY DEF IInv, SnapshotsSound, BaseUnchanged, Generation, Active, InRelease, PublishedHeads,
         InState
<1> QED
  BY <1>1, <1>2, <1>3, ReleaseAssumption DEF IInv, TypeOK

\* A request ends, the thread becomes free, or the server dies or starts.
LEMMA RequestEnds ==
  ASSUME IInv, UNCHANGED Settled, builds' \subseteq builds, up' \in BOOLEAN, sync' \in Sync,
         ThreadSound'
  PROVE  IInv'
<1> USE DEF Settled, site
<1>1. /\ Active' = Active /\ PublishedHeads' = PublishedHeads
      /\ BooksSound' /\ LastExists' /\ ActiveStands' /\ TranslationsBound'
  BY SiteKept
<1>2. SnapshotsSound' /\ IsFiniteSet(builds') /\ builds' \subseteq Snapshot
         /\ Cardinality(builds') <= MaxBuilds
  BY FewerSnapshots
<1>3. TypeOK'
  BY <1>2 DEF IInv, TypeOK, HeadsTypeOK, InRelease
<1>4. JournalSound' /\ PointerExplained'
  BY <1>1 DEF IInv, JournalSound, PointerExplained, Open, Unpublished
<1>5. JournalReplayable'
  BY <1>1 DEF IInv, JournalReplayable, Open, Sealed, OnDisk, MetadataAgrees, InForce
<1> QED
  BY <1>1, <1>2, <1>3, <1>4, <1>5 DEF IInv

LEMMA StartPublishKeeps == ASSUME IInv, StartPublish PROVE IInv'
<1> USE DEF IInv, site
<1> DEFINE s(b) == Captured(b, Active, Generation(Active))
<1>1. PICK b \in Bundles : builds' = builds \cup {s(b)}
  BY DEF StartPublish
<1>2. ActiveSound
  BY OneActive
<1>3. /\ Active' = Active /\ PublishedHeads' = PublishedHeads
      /\ BooksSound' /\ LastExists' /\ ActiveStands' /\ TranslationsBound'
  BY SiteKept DEF StartPublish
<1>4. s(b) \in Snapshot
  <2>1. Generation(Active) \in Nat
    BY <1>2, ReleaseType DEF Generation, ActiveSound
  <2>2. \A h \in Heads : head[h].rev \in Nat /\ head[h].version \in Nat
    BY DEF TypeOK, HeadsTypeOK, LocaleHead
  <2>3. ApprovedPromotions \in SUBSET Promotion
    BY <2>2 DEF ApprovedPromotions, Promotion
  <2>4. {[head |-> h, rev |-> head[h].rev] : h \in {g \in Heads : InState(g, Confirmed)}}
          \in SUBSET Entry
    BY <2>2 DEF Entry
  <2> QED
    BY <1>2, <2>1, <2>3, <2>4 DEF Captured, Snapshot, ActiveSound
<1>5. /\ Functional(s(b).entries) /\ Closed(s(b).entries)
      /\ PublishedHeads \subseteq HeadsOf(s(b).entries)
  <2> DEFINE C == {g \in Heads : InState(g, Confirmed)}
             E == {[head |-> h, rev |-> head[h].rev] : h \in C}
  <2>1. s(b).entries = E
    BY DEF Captured
  <2>2. Functional(E)
    BY DEF Functional
  <2>3. \A h \in C : h \in HeadsOf(E)
    <3> SUFFICES ASSUME NEW h \in C PROVE h \in HeadsOf(E)
      OBVIOUS
    <3>1. [head |-> h, rev |-> head[h].rev] \in E /\ [head |-> h, rev |-> head[h].rev].head = h
      OBVIOUS
    <3> QED
      BY <3>1 DEF HeadsOf
  <2>4. \A e \in E : e.head \in C
    OBVIOUS
  <2>5. \A h \in C : h \in Derived => SourceOf[h] \in C
    BY SourceIsHead DEF TranslationsBound
  <2>6. Closed(E)
    BY <2>3, <2>4, <2>5 DEF Closed
  <2>7. PublishedHeads \subseteq C
    BY DEF PublishedHeads, InState, Confirmed
  <2> QED
    BY <2>1, <2>2, <2>3, <2>6, <2>7
<1>6. s(b).base = Active /\ s(b).gen = Generation(Active)
  BY DEF Captured
<1>7. SnapshotsSound'
  <2> SUFFICES ASSUME NEW x \in builds'
               PROVE  /\ Functional(x.entries) /\ Closed(x.entries)
                      /\ x.base \in Releases =>
                           release'[x.base].state # "absent" /\ x.gen <= release'[x.base].gen
                      /\ BaseUnchanged(x)' => PublishedHeads' \subseteq HeadsOf(x.entries)
    BY DEF SnapshotsSound
  <2>1. BaseUnchanged(x)' <=> BaseUnchanged(x)
    BY <1>3 DEF BaseUnchanged, Generation, StartPublish
  <2>2. CASE x = s(b)
    <3> HIDE DEF s
    <3>1. release' = release
      BY DEF StartPublish
    <3>2. x.base \in Releases => release[x.base].state = "active" /\ x.gen = release[x.base].gen
      BY <1>2, <1>6, <2>2, NamesAssumption DEF ActiveSound, Generation
    <3> QED
      BY <1>3, <1>5, <2>2, <3>1, <3>2, ReleaseType
  <2>3. CASE x \in builds
    BY <1>3, <2>1, <2>3 DEF SnapshotsSound, StartPublish
  <2> QED
    BY <1>1, <2>2, <2>3
<1>8. IsFiniteSet(builds') /\ Cardinality(builds') <= MaxBuilds
  <2> HIDE DEF s
  <2>1. IsFiniteSet(builds') /\ Cardinality(builds') =
          IF s(b) \in builds THEN Cardinality(builds) ELSE Cardinality(builds) + 1
    BY <1>1, FS_AddElement
  <2>2. Cardinality(builds) \in Nat
    BY FS_CardinalityType
  <2> QED
    BY <2>1, <2>2, ReleaseAssumption DEF StartPublish
<1>9. TypeOK'
  BY <1>1, <1>4, <1>8 DEF TypeOK, HeadsTypeOK, InRelease, StartPublish
<1>10. JournalSound' /\ PointerExplained' /\ ThreadSound'
  BY <1>3 DEF JournalSound, PointerExplained, ThreadSound, Open, Unpublished, InRelease, StartPublish
<1>11. JournalReplayable'
  BY <1>3 DEF JournalReplayable, Open, Sealed, OnDisk, MetadataAgrees, InForce, StartPublish
<1> QED
  BY <1>3, <1>7, <1>8, <1>9, <1>10, <1>11

LEMMA SettleOutboxKeeps ==
  ASSUME IInv, NEW r \in Releases, SettleOutbox(r)
  PROVE  IInv'
<1> USE DEF IInv, SettleOutbox
<1>1. Active' = Active /\ PublishedHeads' = PublishedHeads
  BY DEF Active, InRelease, PublishedHeads, InState
<1>2. SnapshotsSound' /\ IsFiniteSet(builds') /\ builds' \subseteq Snapshot
         /\ Cardinality(builds') <= MaxBuilds
  BY FewerSnapshots
<1>3. TypeOK'
  BY <1>2 DEF TypeOK, HeadsTypeOK, InRelease
<1>4. BooksSound' /\ LastExists'
  BY DEF BooksSound, LastExists, Activations
<1>5. ActiveStands'
  BY <1>1 DEF TypeOK, ActiveStands, EntriesOf, OnDisk
<1>6. JournalSound' /\ PointerExplained' /\ ThreadSound' /\ TranslationsBound'
  BY <1>1 DEF JournalSound, PointerExplained, ThreadSound, TranslationsBound, Open, Unpublished,
              InRelease, InState
<1>7. JournalReplayable'
  BY <1>1 DEF JournalReplayable, Open, Sealed, OnDisk, MetadataAgrees, InForce
<1> QED
  BY <1>1, <1>2, <1>3, <1>4, <1>5, <1>6, <1>7

\* Seeding leaves the bundle in force alone, and activation waits until no
\* activation is open.
LEMMA ConsentToolKeeps ==
  ASSUME IInv, NEW b \in Bundles, ConsentTool(b)
  PROVE  IInv'
<1> USE DEF IInv
<1>1. /\ UNCHANGED <<head, release, dir, outbox, pointer, journal, up, builds, sync>>
      /\ bundle' \in [Bundles -> BundleStates]
      /\ Open => \A c \in Bundles : bundle[c] = "active" => bundle'[c] = "active"
  <2>1. CASE SeedBundle(b)
    BY <2>1 DEF ConsentTool, SeedBundle, TypeOK, BundleStates
  <2>2. CASE ConsentFree /\ ActivateBundle(b)
    BY <2>2 DEF ConsentTool, ConsentFree, ActivateBundle, BecomesOf, TypeOK, BundleStates
  <2> QED
    BY <2>1, <2>2 DEF ConsentTool
<1>2. /\ Active' = Active /\ PublishedHeads' = PublishedHeads
      /\ BooksSound' /\ LastExists' /\ ActiveStands' /\ TranslationsBound'
  BY <1>1, SiteKept
<1>3. SnapshotsSound' /\ IsFiniteSet(builds') /\ builds' \subseteq Snapshot
         /\ Cardinality(builds') <= MaxBuilds
  BY <1>1, FewerSnapshots
<1>4. TypeOK'
  BY <1>1, <1>3 DEF TypeOK, HeadsTypeOK, InRelease
<1>5. JournalSound' /\ PointerExplained' /\ ThreadSound'
  BY <1>1, <1>2 DEF JournalSound, PointerExplained, ThreadSound, Open, Unpublished, InRelease
<1>6. JournalReplayable'
  <2> SUFFICES ASSUME Open
               PROVE  /\ Sealed(journal.target) /\ Sealed(journal.previous)
                      /\ Active = journal.previous
                      /\ release[journal.target].state \in {"building", "retired"}
                      /\ journal.op = "publish" => InForce(release[journal.target].bundle)'
    BY <1>1, <1>2 DEF JournalReplayable, Open, Sealed, OnDisk, MetadataAgrees
  <2>1. journal.op = "publish" => bundle[release[journal.target].bundle] = "active"
    BY DEF JournalReplayable, InForce
  <2>2. journal.target \in Releases
    BY DEF JournalSound
  <2>3. release[journal.target].bundle \in Bundles
    BY <2>2 DEF JournalReplayable, BooksSound
  <2> QED
    BY <1>1, <2>1, <2>3 DEF JournalReplayable, InForce
<1> QED
  BY <1>1, <1>2, <1>3, <1>4, <1>5, <1>6

-----------------------------------------------------------------------------
(* Changes of the heads.                                                   *)

\* A head that is published stays as it is, none becomes published, and no
\* translation loses its source.
HeadsStand ==
  /\ HeadsTypeOK' /\ TranslationsBound'
  /\ \A h \in Heads : /\ InState(h, {"published"}) <=> head'[h].state = "published"
                      /\ InState(h, {"published"}) => head'[h].rev = head[h].rev

LEMMA MovedType ==
  ASSUME NEW q \in LocaleHead, NEW s \in HeadStates
  PROVE  /\ Moved(q, s) \in LocaleHead /\ Moved(q, s).state = s /\ Moved(q, s).rev = q.rev
         /\ NewRevision(q, s) \in LocaleHead /\ NewRevision(q, s).state = s
<1>1. q.version + 1 \in Nat /\ q.rev \in Nat
  BY DEF LocaleHead
<1>2. Moved(q, s) = [q EXCEPT !.state = s, !.version = q.version + 1]
  BY DEF Moved
<1> QED
  BY <1>1, <1>2 DEF NewRevision, LocaleHead

LEMMA DraftStands ==
  ASSUME HeadsTypeOK, TranslationsBound, NEW s \in Sources, DraftArticle(s)
  PROVE  HeadsStand
<1>1. s \in Heads /\ head[s] \in LocaleHead /\ "draft" \in HeadStates
  BY DEF Heads, HeadsTypeOK, HeadStates
<1>2. head' = [head EXCEPT ![s] = NewRevision(head[s], "draft")]
  BY DEF DraftArticle
<1>3. HeadsTypeOK' /\ head'[s].state = "draft" /\ \A h \in Heads \ {s} : head'[h] = head[h]
  BY <1>1, <1>2, MovedType DEF HeadsTypeOK
<1>4. head[s].state = "absent"
  BY DEF DraftArticle, InState
<1>5. TranslationsBound'
  BY <1>3, <1>4, SourceIsHead DEF TranslationsBound, InState, Confirmed, Heads
<1> QED
  BY <1>1, <1>3, <1>4, <1>5 DEF HeadsStand, InState

LEMMA SlugStands ==
  ASSUME HeadsTypeOK, TranslationsBound, NEW h \in Heads, ChangeSlug(h)
  PROVE  HeadsStand
<1>1. head[h] \in LocaleHead /\ head[h].state \in HeadStates
  BY DEF HeadsTypeOK, LocaleHead
<1>2. head' = [head EXCEPT ![h] = Moved(head[h], head[h].state)]
  BY DEF ChangeSlug
<1>3. /\ HeadsTypeOK' /\ head'[h].state = head[h].state /\ head'[h].rev = head[h].rev
      /\ \A g \in Heads \ {h} : head'[g] = head[g]
  BY <1>1, <1>2, MovedType DEF HeadsTypeOK
<1>4. TranslationsBound'
  BY <1>3, SourceIsHead DEF TranslationsBound, InState, Heads
<1> QED
  BY <1>3, <1>4 DEF HeadsStand, InState

LEMMA TranslateStands ==
  ASSUME HeadsTypeOK, TranslationsBound, NEW d \in Derived, Translate(d)
  PROVE  HeadsStand
<1>1. d \in Heads /\ head[d] \in LocaleHead /\ "in_review" \in HeadStates
  BY DEF Heads, HeadsTypeOK, HeadStates
<1>2. head' = [head EXCEPT ![d] = NewRevision(head[d], "in_review")]
  BY DEF Translate, Translated
<1>3. HeadsTypeOK' /\ head'[d].state = "in_review" /\ \A h \in Heads \ {d} : head'[h] = head[h]
  BY <1>1, <1>2, MovedType DEF HeadsTypeOK
<1>4. head[d].state \in {"absent", "rejected"}
  BY DEF Translate, Replaceable, InState
<1>5. TranslationsBound'
  BY <1>3, SourceIsHead, HeadAssumption DEF TranslationsBound, InState, Confirmed, Heads
<1> QED
  BY <1>1, <1>3, <1>4, <1>5 DEF HeadsStand, InState

\* A source whose approval is revoked has no published derivative, and its
\* approved ones are demoted in the same step.
LEMMA ReviewStands ==
  ASSUME HeadsTypeOK, TranslationsBound, NEW h \in Heads, NEW s \in HeadStates, Review(h, s)
  PROVE  HeadsStand
<1> DEFINE revoking == h \in Sources /\ InState(h, {"approved"})
           down(g) == g # h /\ revoking /\ g \in Demoted(h)
<1>1. \A g \in Heads : head[g] \in LocaleHead
  BY DEF HeadsTypeOK
<1>2. /\ s \in ReviewTargets(head[h].state)
      /\ s = "approved" /\ h \in Derived => InState(SourceOf[h], Confirmed)
      /\ revoking => \A d \in DerivedFrom(h) : ~InState(d, {"published"})
      /\ head' = [g \in Heads |-> IF g = h THEN Moved(head[h], s)
                                  ELSE IF down(g) THEN Moved(head[g], "in_review")
                                  ELSE head[g]]
  BY DEF Review
<1>3. /\ head[h].state \in {"draft", "in_review", "approved"}
      /\ s \in {"draft", "in_review", "approved", "rejected"}
      /\ head[h].state = "approved" => s = "in_review"
      /\ head[h].state = "draft" => s # "approved"
  BY <1>2 DEF ReviewTargets
<1>4. \A g \in Heads : down(g) => g \in Derived /\ SourceOf[g] = h /\ head[g].state = "approved"
  BY DEF Demoted, DerivedFrom, InState
<1>5. \A d \in Derived : revoking /\ SourceOf[d] = h /\ head[d].state = "approved" /\ d # h => down(d)
  BY DEF Demoted, DerivedFrom, InState
<1> HIDE DEF down
<1>6. /\ head'[h] \in LocaleHead /\ head'[h].state = s /\ head'[h].rev = head[h].rev
      /\ \A g \in Heads \ {h} :
           /\ down(g) => head'[g] \in LocaleHead /\ head'[g].state = "in_review"
           /\ ~down(g) => head'[g] = head[g]
  BY <1>1, <1>2, MovedType DEF HeadStates
<1>7. HeadsTypeOK'
  BY <1>1, <1>2, <1>6 DEF HeadsTypeOK
<1>8. TranslationsBound'
  <2> SUFFICES ASSUME NEW d \in Derived, head'[d].state \in Confirmed
               PROVE  head'[SourceOf[d]].state \in Confirmed
    BY DEF TranslationsBound, InState
  <2>1. d \in Heads /\ SourceOf[d] \in Heads /\ SourceOf[d] \in Sources /\ SourceOf[d] \notin Derived
    BY SourceIsHead, HeadAssumption DEF Heads
  <2>2. ~down(SourceOf[d])
    BY <1>4, <2>1
  <2>3. head[SourceOf[d]].state \in Confirmed
    <3>1. CASE d = h
      BY <1>2, <1>3, <1>6, <2>1, <3>1 DEF Confirmed, TranslationsBound, InState
    <3>2. CASE d # h
      BY <1>6, <2>1, <3>2 DEF Confirmed, TranslationsBound, InState
    <3> QED
      BY <3>1, <3>2
  <2>4. CASE SourceOf[d] # h
    BY <1>6, <2>1, <2>2, <2>3, <2>4
  <2>5. CASE SourceOf[d] = h
    <3>1. head[h].state = "approved" /\ revoking /\ d # h
      BY <1>3, <2>1, <2>3, <2>5 DEF Confirmed, InState
    <3>2. ~down(d) /\ head[d].state \in Confirmed
      BY <1>6, <2>1, <3>1 DEF Confirmed
    <3>3. head[d].state # "published"
      BY <1>2, <2>5, <3>1 DEF DerivedFrom, InState
    <3> QED
      BY <1>5, <2>5, <3>1, <3>2, <3>3 DEF Confirmed
  <2> QED
    BY <2>4, <2>5
<1>9. \A g \in Heads : down(g) => head[g].state # "published"
  BY <1>4
<1> QED
  BY <1>3, <1>6, <1>7, <1>8, <1>9 DEF HeadsStand, InState

LEMMA EditsStand == ASSUME IInv, EditHeads PROVE HeadsStand
<1> USE DEF IInv
<1>1. HeadsTypeOK
  BY DEF TypeOK
<1>2. ASSUME NEW s \in Sources, DraftArticle(s) PROVE HeadsStand
  BY <1>1, <1>2, DraftStands
<1>3. ASSUME NEW h \in Heads, ChangeSlug(h) PROVE HeadsStand
  BY <1>1, <1>3, SlugStands
<1>4. ASSUME NEW h \in Heads, NEW s \in HeadStates, Review(h, s) PROVE HeadsStand
  BY <1>1, <1>4, ReviewStands
<1>5. ASSUME NEW d \in Derived, Translate(d) PROVE HeadsStand
  BY <1>1, <1>5, TranslateStands
<1> QED
  BY <1>2, <1>3, <1>4, <1>5 DEF EditHeads

LEMMA EditHeadsKeeps == ASSUME IInv, EditHeads PROVE IInv'
<1> USE DEF IInv
<1>1. HeadsStand
  BY EditsStand
<1>2. UNCHANGED <<site, up, builds, sync>>
  BY DEF EditHeads
<1> USE DEF site
<1>3. Active' = Active /\ PublishedHeads' = PublishedHeads
  BY <1>1, <1>2 DEF Active, InRelease, PublishedHeads, HeadsStand, InState
<1>4. TypeOK'
  BY <1>1, <1>2 DEF TypeOK, HeadsStand, InRelease
<1>5. SnapshotsSound'
  BY <1>2, <1>3 DEF SnapshotsSound, BaseUnchanged, Generation
<1>6. BooksSound' /\ LastExists'
  BY <1>2 DEF BooksSound, LastExists, Activations
<1>7. ActiveStands'
  <2> DEFINE e(h) == [head |-> h, rev |-> head[h].rev]
             f(h) == [head |-> h, rev |-> head'[h].rev]
  <2>1. \A h \in PublishedHeads : e(h) = f(h)
    BY <1>1 DEF HeadsStand, PublishedHeads
  <2>2. {e(h) : h \in PublishedHeads} = {f(h) : h \in PublishedHeads'}
    <3> HIDE DEF e, f
    <3> QED
      BY <1>3, <2>1
  <2> QED
    BY <1>2, <1>3, <2>2 DEF ActiveStands, EntriesOf, OnDisk
<1>8. JournalSound' /\ PointerExplained' /\ ThreadSound'
  BY <1>2, <1>3 DEF JournalSound, PointerExplained, ThreadSound, Open, Unpublished, InRelease
<1>9. JournalReplayable'
  BY <1>2, <1>3 DEF JournalReplayable, Open, Sealed, OnDisk, MetadataAgrees, InForce
<1> QED
  BY <1>1, <1>2, <1>3, <1>4, <1>5, <1>6, <1>7, <1>8, <1>9 DEF HeadsStand

-----------------------------------------------------------------------------
(* An activation from its journal to its commit.                           *)

LEMMA InsertKeeps ==
  ASSUME IInv, NEW snap \in builds, NEW r \in Releases, InsertPreparedRelease(snap, r)
  PROVE  IInv'
<1> USE DEF IInv
<1> DEFINE new == [state |-> "building", gen |-> 0, order |-> 0,
                   entries |-> snap.entries, bundle |-> snap.bundle]
<1>1. PICK s \in Prepared(snap) : dir' = [dir EXCEPT ![r] = [state |-> "sealed", site |-> s]]
  BY DEF InsertPreparedRelease
<1>2. /\ snap.entries \subseteq Entry /\ snap.bundle \in Bundles
      /\ snap.base \in Releases \cup {NoRelease}
      /\ Functional(snap.entries) /\ Closed(snap.entries)
  BY DEF TypeOK, Snapshot, SnapshotsSound
<1>3. /\ release' = [release EXCEPT ![r] = new] /\ release[r].state = "absent"
      /\ snap.base = Active /\ BaseUnchanged(snap) /\ ~Open
  BY DEF InsertPreparedRelease, BaseUnchanged
<1>4. ActiveSound
  BY OneActive
<1>5. Active # r /\ new \in Release /\ release[r].order = 0
  BY <1>2, <1>3, <1>4 DEF ActiveSound, Release, BooksSound
<1>6. release' \in [Releases -> Release] /\ release'[r] = new
        /\ \A q \in Releases \ {r} : release'[q] = release[q]
  BY <1>3, <1>5 DEF TypeOK
<1>7. /\ s = [pages |-> snap.entries, linked |-> HeadsOf(snap.entries), bundle |-> snap.bundle]
      /\ s \in Site
  <2>1. s \in SitesBuilt(Written(snap)) /\ ArticlesVerified(s, snap) /\ PoliciesVerified(s, snap)
    BY DEF Prepared
  <2>2. s \in [pages : SUBSET snap.entries, linked : SUBSET Heads,
               bundle : {snap.bundle, NoBundle}]
    BY <2>1 DEF SitesBuilt, Written
  <2>3. s.pages = snap.entries /\ s.linked = HeadsOf(snap.entries) /\ s.bundle = snap.bundle
    BY <2>1, <2>2 DEF ArticlesVerified, PoliciesVerified
  <2>4. s = [pages |-> s.pages, linked |-> s.linked, bundle |-> s.bundle]
    BY <2>2
  <2>5. s \in Site
    BY <1>2, <2>2 DEF Site
  <2> QED
    BY <2>3, <2>4, <2>5
<1>8. /\ dir' \in [Releases -> Directory]
      /\ dir'[r] = [state |-> "sealed", site |-> s]
      /\ \A q \in Releases \ {r} : dir'[q] = dir[q]
  BY <1>1, <1>7 DEF TypeOK, Directory
<1> HIDE DEF new
<1>9. \A q \in Releases : /\ release'[q].state = "active" <=> release[q].state = "active"
                          /\ release'[q].order = release[q].order
                          /\ release[q].state # "absent" => release'[q] = release[q]
  BY <1>3, <1>5, <1>6 DEF new
<1>10. Active' = Active /\ PublishedHeads' = PublishedHeads
  <2>1. InRelease({"active"})' = InRelease({"active"})
    BY <1>9 DEF InRelease
  <2>2. head' = head
    BY DEF InsertPreparedRelease
  <2> QED
    BY <2>1, <2>2, SameActive DEF PublishedHeads, InState
<1>11. Active # NoRelease => release'[Active] = release[Active]
  BY <1>4, <1>5, <1>6 DEF ActiveSound
<1>12. journal' = [state |-> "prepared", op |-> "publish", target |-> r, previous |-> Active,
                   path |-> IF Active = NoRelease THEN pointer ELSE Active]
  BY DEF InsertPreparedRelease
<1>13. IsFiniteSet(builds') /\ Cardinality(builds') <= MaxBuilds /\ builds' \subseteq builds
  <2>1. builds' \subseteq builds
    BY DEF InsertPreparedRelease
  <2>2. IsFiniteSet(builds') /\ Cardinality(builds') <= Cardinality(builds)
    BY <2>1, FS_Subset
  <2>3. Cardinality(builds') \in Nat /\ Cardinality(builds) \in Nat
    BY <2>2, FS_CardinalityType
  <2> QED
    BY <2>1, <2>2, <2>3, ReleaseAssumption DEF TypeOK
<1>14. TypeOK'
  <2>1. \A p, q \in InRelease({"active"})' : p = q
    BY <1>9 DEF TypeOK, InRelease
  <2>2. journal' \in Journal
    BY <1>4, <1>12 DEF ActiveSound, TypeOK, Journal, Link
  <2>3. sync' \in Sync
    BY DEF InsertPreparedRelease, Free, Sync
  <2> QED
    BY <1>6, <1>8, <1>13, <2>1, <2>2, <2>3 DEF TypeOK, HeadsTypeOK, InsertPreparedRelease
<1>15. SnapshotsSound'
  <2> SUFFICES ASSUME NEW x \in builds
               PROVE  /\ x.base \in Releases =>
                           release'[x.base].state # "absent" /\ x.gen <= release'[x.base].gen
                      /\ BaseUnchanged(x)' => BaseUnchanged(x)
    BY <1>10, <1>13 DEF SnapshotsSound
  <2>1. Generation(Active)' = Generation(Active)
    BY <1>10, <1>11 DEF Generation
  <2> QED
    BY <1>9, <1>10, <2>1 DEF SnapshotsSound, BaseUnchanged
<1>16. BooksSound'
  <2>1. \A q \in Releases \ {r} : release'[q] = release[q] /\ dir'[q] = dir[q]
    BY <1>6, <1>8
  <2>2. /\ release'[r].state # "absent" /\ release'[r].entries = snap.entries
        /\ release'[r].bundle = snap.bundle
    BY <1>6 DEF new
  <2> QED
    BY <1>2, <1>7, <1>8, <2>1, <2>2 DEF BooksSound
<1>17. LastExists'
  BY <1>9 DEF LastExists, Activations
<1>18. ActiveStands'
  <2>1. EntriesOf(Active)' = EntriesOf(Active)
    BY <1>10, <1>11 DEF EntriesOf
  <2>2. \A q \in Releases : OnDisk(q) => OnDisk(q)'
    BY <1>8 DEF OnDisk
  <2>3. Active # NoRelease => Active \in Releases
    BY <1>4 DEF ActiveSound
  <2> QED
    BY <1>10, <2>1, <2>2, <2>3 DEF ActiveStands, InsertPreparedRelease
<1>19. PointerExplained
  OBVIOUS
<1>20. Active = NoRelease => pointer \in {NoRelease, Bootstrap}
  BY <1>3, <1>19 DEF PointerExplained, Unpublished
<1>21. Active # NoRelease => pointer = Active
  BY <1>3, <1>19 DEF PointerExplained, Unpublished
<1>22. Open'
  BY <1>12 DEF Open
<1>23. JournalSound'
  <2>1. PublishedHeads \subseteq HeadsOf(snap.entries)
    BY <1>3 DEF SnapshotsSound
  <2>2. release'[r].entries = snap.entries
    BY <1>6 DEF new
  <2> QED
    BY <1>10, <1>12, <1>20, <2>1, <2>2 DEF JournalSound
<1>24. PointerExplained'
  BY <1>12, <1>21, <1>22 DEF PointerExplained, InsertPreparedRelease
<1>25. ThreadSound'
  BY <1>22 DEF ThreadSound, InsertPreparedRelease, Serving, Free
<1>26. JournalReplayable'
  <2>1. Sealed(r)'
    BY <1>6, <1>7, <1>8 DEF Sealed, OnDisk, MetadataAgrees, new
  <2>2. Sealed(Active)'
    <3>1. Sealed(Active)
      BY <1>3 DEF InsertPreparedRelease
    <3>2. Active # NoRelease => Active \in Releases \ {r}
      BY <1>4, <1>5 DEF ActiveSound
    <3> QED
      BY <1>8, <1>10, <1>11, <3>1, <3>2 DEF Sealed, OnDisk, MetadataAgrees
  <2>3. release'[r].state = "building" /\ InForce(release[r].bundle)'
    BY <1>6 DEF new, InsertPreparedRelease, InForce
  <2> QED
    BY <1>10, <1>12, <2>1, <2>2, <2>3 DEF JournalReplayable, Sealed, OnDisk, MetadataAgrees
<1>27. TranslationsBound'
  BY DEF TranslationsBound, InState, InsertPreparedRelease
<1> QED
  BY <1>13, <1>14, <1>15, <1>16, <1>17, <1>18, <1>23, <1>24, <1>25, <1>26, <1>27

LEMMA RollbackKeeps ==
  ASSUME IInv, NEW r \in Releases, Rollback(r)
  PROVE  IInv'
<1> USE DEF IInv
<1>1. UNCHANGED <<head, bundle, release, dir, outbox, pointer, up, builds>>
  BY DEF Rollback
<1>2. /\ Active' = Active /\ PublishedHeads' = PublishedHeads
      /\ BooksSound' /\ LastExists' /\ ActiveStands' /\ TranslationsBound'
  BY <1>1, SiteKept
<1>3. SnapshotsSound' /\ IsFiniteSet(builds') /\ builds' \subseteq Snapshot
         /\ Cardinality(builds') <= MaxBuilds
  BY <1>1, FewerSnapshots
<1>4. ActiveSound
  BY OneActive
<1>5. journal' = [state |-> "prepared", op |-> "rollback", target |-> r,
                  previous |-> Active, path |-> Active]
  BY DEF Rollback
<1>6. pointer = Active /\ Sealed(Active) /\ Active # NoRelease
  BY DEF Rollback, BaseConsistent, Unpublished
<1>7. TypeOK'
  <2>1. journal' \in Journal
    BY <1>4, <1>5 DEF ActiveSound, Journal, Link
  <2>2. sync' \in Sync
    BY DEF Rollback, Free, Sync
  <2> QED
    BY <1>1, <1>3, <2>1, <2>2 DEF TypeOK, HeadsTypeOK, InRelease
<1>8. JournalSound' /\ PointerExplained' /\ ThreadSound'
  BY <1>1, <1>2, <1>5, <1>6 DEF JournalSound, PointerExplained, ThreadSound, Open, Rollback,
                                Serving, Free
<1>9. JournalReplayable'
  BY <1>1, <1>2, <1>5, <1>6 DEF JournalReplayable, Sealed, OnDisk, MetadataAgrees, Rollback
<1> QED
  BY <1>2, <1>3, <1>7, <1>8, <1>9

\* The link switches to the target, and the journal says so.
LEMMA SwitchKeeps ==
  ASSUME IInv, SwitchCurrent \/ MarkActivationSwitched
  PROVE  IInv'
<1> USE DEF IInv
<1>1. UNCHANGED <<head, bundle, release, dir, outbox, up, builds>> /\ Open
  BY DEF SwitchCurrent, MarkActivationSwitched, ThreadSound
<1>2. /\ Active' = Active /\ PublishedHeads' = PublishedHeads
      /\ BooksSound' /\ LastExists' /\ ActiveStands' /\ TranslationsBound'
  BY <1>1, SiteKept
<1>3. SnapshotsSound' /\ IsFiniteSet(builds') /\ builds' \subseteq Snapshot
         /\ Cardinality(builds') <= MaxBuilds
  BY <1>1, FewerSnapshots
<1>4. /\ journal' \in Journal /\ Open'
      /\ journal'.op = journal.op /\ journal'.target = journal.target
      /\ journal'.previous = journal.previous /\ journal'.path = journal.path
      /\ pointer' \in {pointer, journal.target}
  BY <1>1 DEF SwitchCurrent, MarkActivationSwitched, TypeOK, Journal, Open
<1>5. /\ sync' \in Sync /\ sync'.stage \in {"linked", "marked"} /\ up
  BY DEF SwitchCurrent, MarkActivationSwitched, TypeOK, Sync, ThreadSound
<1>6. TypeOK'
  BY <1>1, <1>3, <1>4, <1>5 DEF TypeOK, HeadsTypeOK, InRelease, Link, JournalSound
<1>7. JournalSound' /\ PointerExplained' /\ ThreadSound'
  BY <1>1, <1>2, <1>4, <1>5 DEF JournalSound, PointerExplained, ThreadSound
<1>8. JournalReplayable'
  BY <1>1, <1>2, <1>4 DEF JournalReplayable, Sealed, OnDisk, MetadataAgrees, InForce
<1> QED
  BY <1>2, <1>3, <1>6, <1>7, <1>8

\* The heads after a commit: published as the release has them, and confirmed
\* if they were.
LEMMA AppliedHeads ==
  ASSUME HeadsTypeOK, NEW E \in SUBSET Entry, Functional(E)
  PROVE  LET H == ApplyReleaseHeads(E) IN
         /\ H \in [Heads -> LocaleHead]
         /\ \A e \in E : e.head \in Heads /\ H[e.head].state = "published"
                           /\ H[e.head].rev = e.rev
         /\ \A h \in Heads : H[h].state = "published" => h \in HeadsOf(E)
         /\ \A h \in Heads : h \notin HeadsOf(E) =>
              (H[h].state \in Confirmed <=> InState(h, Confirmed))
<1> DEFINE H == ApplyReleaseHeads(E)
           put(h, e) == IF InState(h, {"published"}) /\ head[h].rev = e.rev THEN head[h]
                        ELSE [state |-> "published", rev |-> e.rev, version |-> head[h].version + 1]
<1>1. \A h \in Heads : H[h] = IF \E e \in E : e.head = h
                              THEN put(h, CHOOSE e \in E : e.head = h)
                              ELSE IF InState(h, {"published"}) THEN Moved(head[h], "approved")
                              ELSE head[h]
  BY DEF ApplyReleaseHeads
<1>2. \A h \in Heads : head[h] \in LocaleHead
  BY DEF HeadsTypeOK
<1>3. ASSUME NEW h \in Heads, NEW e \in E, e.head = h
      PROVE  H[h] \in LocaleHead /\ H[h].state = "published" /\ H[h].rev = e.rev
  <2>1. (CHOOSE f \in E : f.head = h) = e
    BY <1>3 DEF Functional
  <2>2. H[h] = put(h, e)
    BY <1>1, <1>3, <2>1
  <2>3. e.rev \in Nat /\ head[h].version + 1 \in Nat /\ "published" \in HeadStates
    BY <1>2 DEF Entry, LocaleHead, HeadStates
  <2> HIDE DEF H
  <2> QED
    BY <1>2, <2>2, <2>3 DEF LocaleHead, InState
<1>4. ASSUME NEW h \in Heads, h \notin HeadsOf(E)
      PROVE  /\ H[h] \in LocaleHead /\ H[h].state # "published"
             /\ H[h].state \in Confirmed <=> InState(h, Confirmed)
  <2>1. ~\E e \in E : e.head = h
    BY <1>4 DEF HeadsOf
  <2>2. H[h] = IF InState(h, {"published"}) THEN Moved(head[h], "approved") ELSE head[h]
    BY <1>1, <2>1
  <2>3. Moved(head[h], "approved") \in LocaleHead /\ Moved(head[h], "approved").state = "approved"
    BY <1>2, MovedType DEF HeadStates
  <2> HIDE DEF H
  <2> QED
    BY <1>2, <2>2, <2>3 DEF InState, Confirmed
<1>5. \A h \in HeadsOf(E) : \E e \in E : e.head = h
  BY DEF HeadsOf
<1>6. \A e \in E : e.head \in Heads /\ e.head \in HeadsOf(E)
  BY DEF Entry, HeadsOf
<1>7. H \in [Heads -> LocaleHead]
  <2>1. \A h \in Heads : H[h] \in LocaleHead
    BY <1>3, <1>4, <1>5
  <2>2. H = [h \in Heads |-> H[h]]
    BY DEF ApplyReleaseHeads
  <2> HIDE DEF H
  <2> QED
    BY <2>1, <2>2
<1> HIDE DEF H
<1>8. \A h \in Heads : H[h].state = "published" => h \in HeadsOf(E)
  BY <1>4
<1>9. \A e \in E : e.head \in Heads /\ H[e.head].state = "published" /\ H[e.head].rev = e.rev
  BY <1>3, <1>6
<1>10. \A h \in Heads : h \notin HeadsOf(E) => (H[h].state \in Confirmed <=> InState(h, Confirmed))
  BY <1>4
<1> QED
  BY <1>7, <1>8, <1>9, <1>10 DEF H

\* What a commit makes of the releases.
LEMMA CommittedReleases ==
  ASSUME IInv, CommitActivation
  PROVE  LET t == journal.target IN
         /\ Open /\ t \in Releases /\ pointer = t
         /\ OnDisk(t) /\ release[t].state \in {"building", "retired"}
         /\ release' \in [Releases -> Release]
         /\ release'[t].state = "active" /\ release'[t].gen = release[t].gen + 1
         /\ release'[t].order = LastOrder + 1
         /\ \A r \in Releases :
              /\ release'[r].entries = release[r].entries
              /\ release'[r].bundle = release[r].bundle
              /\ release'[r].state = "absent" <=> release[r].state = "absent"
              /\ r # t => /\ release'[r].state # "active"
                          /\ release'[r].gen = release[r].gen
                          /\ release'[r].order = release[r].order
<1> USE DEF IInv
<1> DEFINE t == journal.target
<1>1. Open /\ pointer = t /\ Sealed(t)
  BY DEF CommitActivation, CommitReady
<1>2. t \in Releases /\ release[t].state \in {"building", "retired"}
  BY <1>1 DEF JournalSound, JournalReplayable
<1>3. OnDisk(t)
  BY <1>1, <1>2, NamesAssumption DEF Sealed
<1>4. LastOrder + 1 \in Nat /\ release[t].gen + 1 \in Nat
  BY <1>2, LastOrderBounds, ReleaseType
<1> DEFINE a == [release[t] EXCEPT !.state = "active", !.gen = release[t].gen + 1,
                                   !.order = LastOrder + 1]
           b(r) == [release[r] EXCEPT !.state = "retired"]
<1>5. release' = [r \in Releases |-> IF r = t THEN a
                                     ELSE IF release[r].state = "active" THEN b(r)
                                     ELSE release[r]]
  BY <1>2 DEF CommitActivation, Superseded
<1>6. \A r \in Releases : release[r] \in Release
  BY DEF TypeOK
<1>7. /\ a \in Release /\ a.state = "active" /\ a.gen = release[t].gen + 1
      /\ a.order = LastOrder + 1
      /\ a.entries = release[t].entries /\ a.bundle = release[t].bundle
  BY <1>2, <1>4, <1>6 DEF Release
<1>8. \A r \in Releases : /\ b(r) \in Release /\ b(r).state = "retired"
                          /\ b(r).gen = release[r].gen /\ b(r).order = release[r].order
                          /\ b(r).entries = release[r].entries /\ b(r).bundle = release[r].bundle
  BY <1>6 DEF Release
<1> HIDE DEF a, b
<1>9. release' \in [Releases -> Release]
  BY <1>5, <1>6, <1>7, <1>8
<1>10. release'[t] = a
  BY <1>2, <1>5
<1>11. \A r \in Releases \ {t} : release'[r] = IF release[r].state = "active" THEN b(r)
                                               ELSE release[r]
  BY <1>5
<1> QED
  BY <1>1, <1>2, <1>3, <1>7, <1>8, <1>9, <1>10, <1>11

LEMMA CommitKeeps ==
  ASSUME IInv, CommitActivation, UNCHANGED builds, up' \in BOOLEAN, sync' \in Sync, ThreadSound'
  PROVE  IInv'
<1> USE DEF IInv
<1> DEFINE t == journal.target
           E == release[t].entries
<1>1. /\ Open /\ t \in Releases /\ pointer = t
      /\ OnDisk(t) /\ release[t].state \in {"building", "retired"}
      /\ release' \in [Releases -> Release]
      /\ release'[t].state = "active" /\ release'[t].gen = release[t].gen + 1
      /\ release'[t].order = LastOrder + 1
  BY CommittedReleases
<1>2. \A r \in Releases :
        /\ release'[r].entries = release[r].entries
        /\ release'[r].bundle = release[r].bundle
        /\ release'[r].state = "absent" <=> release[r].state = "absent"
        /\ r # t => /\ release'[r].state # "active"
                    /\ release'[r].gen = release[r].gen
                    /\ release'[r].order = release[r].order
  BY CommittedReleases
<1>3. UNCHANGED <<bundle, dir, pointer>> /\ journal' = NoJournal
        /\ outbox' = [outbox EXCEPT ![t] = "live"] /\ head' = ApplyReleaseHeads(E)
  BY DEF CommitActivation
<1>4. ~Open'
  BY <1>3 DEF Open, NoJournal
<1>5. Active' = t
  <2>1. InRelease({"active"})' = {t}
    BY <1>1, <1>2 DEF InRelease
  <2> QED
    BY <2>1 DEF Active
<1>6. Functional(E) /\ Closed(E) /\ E \in SUBSET Entry
  BY <1>1, ReleaseType DEF BooksSound
<1>7. /\ head' \in [Heads -> LocaleHead]
      /\ \A e \in E : e.head \in Heads /\ head'[e.head].state = "published"
                        /\ head'[e.head].rev = e.rev
      /\ \A h \in Heads : head'[h].state = "published" => h \in HeadsOf(E)
      /\ \A h \in Heads : h \notin HeadsOf(E) =>
           (head'[h].state \in Confirmed <=> InState(h, Confirmed))
  BY <1>3, <1>6, AppliedHeads DEF TypeOK
<1>8. \A h \in HeadsOf(E) : \E e \in E : e.head = h
  BY DEF HeadsOf
<1>9. TypeOK'
  <2>1. \A r, s \in InRelease({"active"})' : r = s
    BY <1>2 DEF InRelease
  <2>2. NoJournal \in Journal
    BY DEF NoJournal, Journal, Link
  <2> QED
    BY <1>1, <1>3, <1>7, <2>1, <2>2 DEF TypeOK, HeadsTypeOK
<1>10. SnapshotsSound'
  <2> SUFFICES ASSUME NEW x \in builds
               PROVE  /\ x.base \in Releases =>
                           release'[x.base].state # "absent" /\ x.gen <= release'[x.base].gen
                      /\ ~BaseUnchanged(x)'
    BY DEF SnapshotsSound
  <2>1. x.gen \in Nat
    BY DEF TypeOK, Snapshot
  <2>2. x.base \in Releases =>
          release'[x.base].state # "absent" /\ x.gen <= release'[x.base].gen
    BY <1>1, <1>2, <2>1, ReleaseType DEF SnapshotsSound
  <2>3. ASSUME BaseUnchanged(x)' PROVE FALSE
    <3>1. x.base = t /\ x.gen = release[t].gen + 1
      BY <1>1, <1>5, <2>3, NamesAssumption DEF BaseUnchanged, Generation
    <3>2. x.gen <= release[t].gen
      BY <1>1, <3>1 DEF SnapshotsSound
    <3> QED
      BY <1>1, <3>1, <3>2, ReleaseType
  <2> QED
    BY <2>2, <2>3
<1>11. BooksSound'
  BY <1>1, <1>2, <1>3 DEF BooksSound
<1>12. LastExists'
  <2>1. \A r \in Releases : release'[r].order <= LastOrder + 1
    BY <1>1, <1>2, LastOrderBounds, ReleaseType
  <2>2. LastOrder + 1 \in Activations'
    BY <1>1 DEF Activations
  <2> QED
    BY <2>1, <2>2 DEF LastExists, Activations
<1>13. ActiveStands'
  <2> DEFINE f(h) == [head |-> h, rev |-> head'[h].rev]
  <2>1. \A e \in E : e = f(e.head) /\ e.head \in PublishedHeads'
    BY <1>6, <1>7 DEF Entry, PublishedHeads, InState
  <2>2. \A h \in PublishedHeads' : \E e \in E : e.head = h
    BY <1>7, <1>8 DEF PublishedHeads, InState
  <2>3. {f(h) : h \in PublishedHeads'} = E
    <3> HIDE DEF f
    <3> QED
      BY <2>1, <2>2
  <2>4. EntriesOf(Active)' = E
    BY <1>1, <1>2, <1>5, NamesAssumption DEF EntriesOf
  <2>5. \A r \in Releases : outbox'[r] = "live" => OnDisk(r)'
    BY <1>1, <1>3 DEF TypeOK, ActiveStands, OnDisk
  <2>6. OnDisk(Active)'
    BY <1>1, <1>3, <1>5 DEF OnDisk
  <2> QED
    BY <2>3, <2>4, <2>5, <2>6 DEF ActiveStands
<1>14. JournalSound' /\ JournalReplayable' /\ PointerExplained'
  BY <1>1, <1>3, <1>4, <1>5 DEF JournalSound, JournalReplayable, PointerExplained
<1>15. TranslationsBound'
  <2> SUFFICES ASSUME NEW d \in Derived, head'[d].state \in Confirmed
               PROVE  head'[SourceOf[d]].state \in Confirmed
    BY DEF TranslationsBound, InState
  <2>1. d \in Heads /\ SourceOf[d] \in Heads
    BY SourceIsHead DEF Heads
  <2>2. \A h \in HeadsOf(E) : head'[h].state \in Confirmed
    BY <1>7, <1>8 DEF Confirmed
  <2>3. CASE d \in HeadsOf(E)
    BY <1>6, <1>8, <2>2, <2>3 DEF Closed
  <2>4. CASE d \notin HeadsOf(E)
    BY <1>7, <2>1, <2>2, <2>4 DEF TranslationsBound
  <2> QED
    BY <2>3, <2>4
<1> QED
  BY <1>9, <1>10, <1>11, <1>12, <1>13, <1>14, <1>15

-----------------------------------------------------------------------------
(* Releases and directories that nothing refers to.                        *)

\* A release that is not active, or an activation that is dropped, changes its
\* state only, and loses its directory only when no notice needs it.
LEMMA RetiredChange ==
  ASSUME IInv, NEW r \in Releases,
         release[r].state \notin {"absent", "active"},
         UNCHANGED <<head, bundle, outbox, pointer, builds>>,
         ~Open', journal' \in Journal, up' \in BOOLEAN, sync' \in Sync, ThreadSound',
         ~Open \/ PointerExplained',
         release' \in {release, [release EXCEPT ![r].state = "failed"]},
         dir' \in [Releases -> Directory],
         \A q \in Releases \ {r} : dir'[q] = dir[q],
         dir'[r].state = "none" \/ (dir'[r].site = dir[r].site /\ dir[r].state # "none"),
         outbox[r] = "live" => OnDisk(r)'
  PROVE  IInv'
<1> USE DEF IInv
<1>1. \A q \in Releases : release[q] \in Release
  BY DEF TypeOK
<1>2. /\ release' \in [Releases -> Release]
      /\ \A q \in Releases : /\ release'[q].state = "active" <=> release[q].state = "active"
                             /\ release'[q].state = "absent" <=> release[q].state = "absent"
                             /\ release'[q].order = release[q].order
                             /\ release'[q].gen = release[q].gen
                             /\ release'[q].entries = release[q].entries
                             /\ release'[q].bundle = release[q].bundle
  <2>1. CASE release' = release
    BY <2>1 DEF TypeOK
  <2>2. CASE release' = [release EXCEPT ![r].state = "failed"]
    <3>1. release'[r] = [release[r] EXCEPT !.state = "failed"]
      BY <2>2 DEF TypeOK
    <3>2. /\ release'[r] \in Release /\ release'[r].state = "failed"
          /\ release'[r].order = release[r].order /\ release'[r].gen = release[r].gen
          /\ release'[r].entries = release[r].entries /\ release'[r].bundle = release[r].bundle
      BY <1>1, <3>1 DEF Release
    <3>3. \A q \in Releases \ {r} : release'[q] = release[q]
      BY <2>2 DEF TypeOK
    <3>4. release' \in [Releases -> Release]
      BY <1>1, <2>2, <3>1, <3>2 DEF TypeOK
    <3> QED
      BY <3>2, <3>3, <3>4
  <2> QED
    BY <2>1, <2>2
<1>3. ActiveSound
  BY OneActive
<1>4. InRelease({"active"})' = InRelease({"active"})
  BY <1>2 DEF InRelease
<1>5. Active' = Active /\ PublishedHeads' = PublishedHeads
  BY <1>4, SameActive DEF PublishedHeads, InState
<1>6. Active # NoRelease => Active \in Releases \ {r}
  BY <1>3 DEF ActiveSound
<1>7. TypeOK'
  <2>1. \A p, q \in InRelease({"active"})' : p = q
    BY <1>4 DEF TypeOK
  <2> QED
    BY <1>2, <2>1 DEF TypeOK, HeadsTypeOK
<1>8. SnapshotsSound'
  <2>1. Generation(Active)' = Generation(Active)
    BY <1>2, <1>5, <1>6 DEF Generation
  <2>2. \A x \in builds : BaseUnchanged(x)' => BaseUnchanged(x)
    BY <1>5, <2>1 DEF BaseUnchanged
  <2> QED
    BY <1>2, <1>5, <2>2 DEF SnapshotsSound
<1>9. BooksSound'
  BY <1>2 DEF BooksSound
<1>10. LastExists'
  <2>1. Activations' = Activations
    BY <1>2 DEF Activations
  <2> QED
    BY <2>1 DEF LastExists
<1>11. ActiveStands'
  <2>1. EntriesOf(Active)' = EntriesOf(Active)
    BY <1>2, <1>5, <1>6 DEF EntriesOf
  <2>2. \A q \in Releases \ {r} : OnDisk(q) => OnDisk(q)'
    BY DEF OnDisk
  <2>3. {[head |-> h, rev |-> head[h].rev] : h \in PublishedHeads}'
          = {[head |-> h, rev |-> head[h].rev] : h \in PublishedHeads}
    BY <1>5
  <2> QED
    BY <1>5, <1>6, <2>1, <2>2, <2>3 DEF ActiveStands
<1>12. JournalSound' /\ JournalReplayable'
  BY DEF JournalSound, JournalReplayable
<1>13. PointerExplained'
  BY <1>5 DEF PointerExplained, Unpublished
<1>14. TranslationsBound'
  BY DEF TranslationsBound, InState
<1> QED
  BY <1>7, <1>8, <1>9, <1>10, <1>11, <1>12, <1>13, <1>14

\* A dropped activation leaves the link where it was before.
LEMMA RevertKeeps ==
  ASSUME IInv, RestartReverts, UNCHANGED <<builds, sync>>, up' \in BOOLEAN,
         sync.stage = "free"
  PROVE  IInv'
<1> USE DEF IInv
<1>0. PICK t \in Releases : t = journal.target
  BY DEF RestartReverts, Droppable, JournalSound
<1>1. /\ Open /\ pointer # t /\ pointer = journal.path
      /\ Active = journal.previous /\ release[t].state \in {"building", "retired"}
  BY <1>0 DEF RestartReverts, Droppable, JournalReplayable
<1>2. journal' = NoJournal /\ ~Open' /\ UNCHANGED <<head, bundle, dir, outbox, pointer>>
  BY DEF RestartReverts, Open, NoJournal
<1>3. NoJournal \in Journal
  BY DEF NoJournal, Journal, Link
<1>4. ThreadSound'
  BY <1>2 DEF ThreadSound
<1>5. release' \in {release, [release EXCEPT ![t].state = "failed"]}
  <2>1. release[t].state = "building" => release' = [release EXCEPT ![t].state = "failed"]
    BY <1>0 DEF RestartReverts
  <2>2. release[t].state # "building" => release' = [release EXCEPT ![t].state = @]
    BY <1>0 DEF RestartReverts
  <2>3. [release EXCEPT ![t].state = @] = release
    BY <1>0 DEF TypeOK, Release
  <2> QED
    BY <2>1, <2>2, <2>3
<1>6. PointerExplained'
  <2>1. InRelease({"active"})' = InRelease({"active"})
    BY <1>1, <1>5 DEF InRelease, TypeOK, Release
  <2>2. Active' = Active
    BY <2>1, SameActive
  <2> QED
    BY <1>1, <1>2, <2>2 DEF PointerExplained, Unpublished, JournalSound
<1>7. outbox[t] = "live" => OnDisk(t)'
  BY <1>2 DEF ActiveStands, OnDisk
<1>8. dir' \in [Releases -> Directory] /\ sync' \in Sync /\ journal' \in Journal
  BY <1>2, <1>3 DEF TypeOK
<1>9. dir'[t].state = "none" \/ (dir'[t].site = dir[t].site /\ dir[t].state # "none")
  BY <1>2
<1> HIDE DEF IInv
<1> QED
  BY <1>1, <1>2, <1>4, <1>5, <1>6, <1>7, <1>8, <1>9, RetiredChange

LEMMA PruneNextKeeps ==
  ASSUME IInv, NEW r \in Releases, PruneNext(r)
  PROVE  IInv'
<1> USE DEF IInv
<1>1. /\ sync.stage = "scanned" /\ r \in sync.todo /\ up
      /\ UNCHANGED <<head, bundle, release, outbox, pointer, journal, up, builds>>
  BY DEF PruneNext, ThreadSound
<1>2. ~Open /\ ~Open' /\ release[r].state = "retired" /\ sync.todo \subseteq InRelease({"retired"})
        /\ \A q \in sync.todo : dir[q].state # "none"
  BY <1>1 DEF ThreadSound, Open, InRelease
<1>3. /\ sync' \in Sync /\ sync'.stage \in {"scanned", "moved"} /\ sync'.todo \subseteq sync.todo
      /\ dir' \in {dir, [dir EXCEPT ![r].state = "moved"]}
      /\ outbox[r] = "live" => dir' = dir
  BY <1>1 DEF PruneNext, Referenced, TypeOK, Sync
<1>4. InRelease({"retired"})' = InRelease({"retired"})
  BY <1>1 DEF InRelease
<1>5. /\ dir' \in [Releases -> Directory]
      /\ \A q \in Releases \ {r} : dir'[q] = dir[q]
      /\ dir'[r].site = dir[r].site /\ dir'[r].state # "none"
  <2>1. [dir[r] EXCEPT !.state = "moved"] \in Directory
           /\ [dir[r] EXCEPT !.state = "moved"].site = dir[r].site
           /\ [dir[r] EXCEPT !.state = "moved"].state = "moved"
    BY DEF TypeOK, Directory
  <2> QED
    BY <1>1, <1>2, <1>3, <2>1 DEF TypeOK
<1>6. ThreadSound'
  BY <1>1, <1>2, <1>3, <1>4, <1>5 DEF ThreadSound, InRelease
<1>7. outbox[r] = "live" => OnDisk(r)'
  BY <1>3 DEF ActiveStands, OnDisk
<1>8. journal' \in Journal /\ up' \in BOOLEAN
  BY <1>1 DEF TypeOK
<1> QED
  BY <1>1, <1>2, <1>3, <1>5, <1>6, <1>7, <1>8, RetiredChange

LEMMA PruneRecordKeeps ==
  ASSUME IInv, NEW r \in Releases, PruneRecord(r)
  PROVE  IInv'
<1> USE DEF IInv
<1>1. /\ sync.stage = "moved" /\ r \in sync.todo /\ up /\ dir[r].state = "moved"
      /\ UNCHANGED <<head, bundle, outbox, pointer, journal, up, builds>>
  BY DEF PruneRecord, ThreadSound
<1>2. /\ ~Open /\ ~Open' /\ release[r].state = "retired"
      /\ sync.todo \subseteq InRelease({"retired"})
      /\ \A q \in sync.todo : dir[q].state # "none"
  BY <1>1 DEF ThreadSound, Open, InRelease
<1>3. outbox[r] # "live"
  BY <1>1 DEF ActiveStands, OnDisk
<1>4. /\ release' \in {release, [release EXCEPT ![r].state = "failed"]}
      /\ dir' \in {[dir EXCEPT ![r] = NoDirectory], [dir EXCEPT ![r].state = "sealed"]}
      /\ sync' \in {Free, [stage |-> "scanned", todo |-> sync.todo \ {r}]}
  BY DEF PruneRecord
<1>5. /\ dir' \in [Releases -> Directory]
      /\ \A q \in Releases \ {r} : dir'[q] = dir[q]
      /\ dir'[r].state = "none" \/ dir'[r].site = dir[r].site
  <2>1. NoDirectory \in Directory /\ NoDirectory.state = "none"
    BY DEF NoDirectory, NoSite, Directory, Site
  <2>2. /\ [dir[r] EXCEPT !.state = "sealed"] \in Directory
        /\ [dir[r] EXCEPT !.state = "sealed"].site = dir[r].site
    BY DEF TypeOK, Directory
  <2> HIDE DEF NoDirectory
  <2> QED
    BY <1>4, <2>1, <2>2 DEF TypeOK
<1>6. \A q \in Releases \ {r} : release'[q] = release[q]
  BY <1>4 DEF TypeOK
<1>7. sync' \in Sync /\ ThreadSound'
  <2>1. CASE sync' = Free
    BY <2>1 DEF Free, Sync, ThreadSound
  <2>2. CASE sync' = [stage |-> "scanned", todo |-> sync.todo \ {r}]
    <3>1. sync'.todo \subseteq InRelease({"retired"})'
      BY <1>2, <1>6, <2>2 DEF InRelease
    <3>2. \A q \in sync'.todo : dir'[q].state # "none"
      BY <1>2, <1>5, <2>2 DEF InRelease
    <3>3. sync' \in Sync
      BY <2>2 DEF Sync, TypeOK
    <3> QED
      BY <1>1, <1>2, <2>2, <3>1, <3>2, <3>3 DEF ThreadSound
  <2> QED
    BY <1>4, <2>1, <2>2
<1>8. journal' \in Journal /\ up' \in BOOLEAN
  BY <1>1 DEF TypeOK
<1> QED
  BY <1>1, <1>2, <1>3, <1>4, <1>5, <1>7, <1>8, RetiredChange

\* The scan gives up retired releases only, and nothing is open meanwhile.
LEMMA PruneScanKeeps == ASSUME IInv, PruneScan PROVE IInv'
<1> USE DEF IInv
<1>1. /\ sync.stage = "committed" /\ up /\ ~Open /\ ~Open'
      /\ UNCHANGED <<head, bundle, dir, outbox, pointer, journal, up, builds>>
      /\ sync' = [stage |-> "scanned", todo |-> Verified \ Kept]
  BY DEF PruneScan, ThreadSound, Open
<1> DEFINE f(r) == [release[r] EXCEPT !.state = "failed"]
<1>2. release' = [r \in Releases |-> IF r \in InRelease({"retired"}) \ Verified
                                     THEN f(r) ELSE release[r]]
  BY DEF PruneScan
<1>3. \A r \in Releases : /\ release[r] \in Release /\ f(r) \in Release /\ f(r).state = "failed"
                          /\ f(r).order = release[r].order /\ f(r).gen = release[r].gen
                          /\ f(r).entries = release[r].entries /\ f(r).bundle = release[r].bundle
  BY DEF TypeOK, Release
<1>4. Verified \subseteq InRelease({"retired"}) /\ \A r \in Verified : OnDisk(r)
  BY NamesAssumption DEF Verified, Sealed, InRelease
<1> HIDE DEF f
<1>5. /\ release' \in [Releases -> Release]
      /\ \A q \in Releases : /\ release'[q].state = "active" <=> release[q].state = "active"
                             /\ release'[q].state = "absent" <=> release[q].state = "absent"
                             /\ release'[q].order = release[q].order
                             /\ release'[q].gen = release[q].gen
                             /\ release'[q].entries = release[q].entries
                             /\ release'[q].bundle = release[q].bundle
      /\ \A q \in Verified : release'[q].state = "retired"
  BY <1>2, <1>3, <1>4 DEF InRelease
<1>6. InRelease({"active"})' = InRelease({"active"})
  BY <1>5 DEF InRelease
<1>7. Active' = Active /\ PublishedHeads' = PublishedHeads
  BY <1>1, <1>6, SameActive DEF PublishedHeads, InState
<1>8. Active # NoRelease => Active \in Releases
  BY OneActive DEF ActiveSound
<1>9. /\ ThreadSound'
      /\ sync' \in Sync
  <2>1. Verified \ Kept \subseteq InRelease({"retired"})'
    BY <1>4, <1>5 DEF InRelease
  <2>2. \A r \in Verified : dir'[r].state # "none"
    BY <1>1, <1>4 DEF OnDisk
  <2>3. Verified \ Kept \subseteq Releases
    BY <1>4 DEF InRelease
  <2> QED
    BY <1>1, <2>1, <2>2, <2>3 DEF ThreadSound, Sync
<1>10. TypeOK'
  <2>1. \A p, q \in InRelease({"active"})' : p = q
    BY <1>6 DEF TypeOK
  <2> QED
    BY <1>1, <1>5, <1>9, <2>1 DEF TypeOK, HeadsTypeOK
<1>11. SnapshotsSound'
  <2>1. Generation(Active)' = Generation(Active)
    BY <1>5, <1>7, <1>8 DEF Generation
  <2>2. \A x \in builds : BaseUnchanged(x)' => BaseUnchanged(x)
    BY <1>7, <2>1 DEF BaseUnchanged
  <2> QED
    BY <1>1, <1>5, <1>7, <2>2 DEF SnapshotsSound
<1>12. BooksSound'
  BY <1>1, <1>5 DEF BooksSound
<1>13. LastExists'
  <2>1. Activations' = Activations
    BY <1>5 DEF Activations
  <2> QED
    BY <2>1 DEF LastExists
<1>14. ActiveStands'
  <2>1. EntriesOf(Active)' = EntriesOf(Active)
    BY <1>5, <1>7, <1>8 DEF EntriesOf
  <2>2. {[head |-> h, rev |-> head[h].rev] : h \in PublishedHeads}'
          = {[head |-> h, rev |-> head[h].rev] : h \in PublishedHeads}
    BY <1>1, <1>7
  <2> QED
    BY <1>1, <1>7, <2>1, <2>2 DEF ActiveStands, OnDisk
<1>15. JournalSound' /\ JournalReplayable' /\ PointerExplained'
  BY <1>1, <1>7 DEF JournalSound, JournalReplayable, PointerExplained, Unpublished
<1>16. TranslationsBound'
  BY <1>1 DEF TranslationsBound, InState
<1> QED
  BY <1>1, <1>9, <1>10, <1>11, <1>12, <1>13, <1>14, <1>15, <1>16

-----------------------------------------------------------------------------
(* The theorems.                                                           *)

LEMMA NextKeeps == IInv /\ [Next]_vars => IInv'
<1> SUFFICES ASSUME IInv, [Next]_vars PROVE IInv'
  OBVIOUS
<1>1. up \in BOOLEAN /\ sync \in Sync /\ Free \in Sync
  BY DEF IInv, TypeOK, Free, Sync
<1>2. CASE UNCHANGED vars
  BY <1>1, <1>2, RequestEnds DEF vars, Settled, site, IInv, ThreadSound, Open, InRelease
<1>3. CASE EditHeads
  BY <1>3, EditHeadsKeeps
<1>4. ASSUME NEW b \in Bundles, ConsentTool(b) PROVE IInv'
  BY <1>4, ConsentToolKeeps
<1>5. ASSUME NEW r \in Releases, SettleOutbox(r) PROVE IInv'
  BY <1>5, SettleOutboxKeeps
<1>6. ASSUME NEW r \in Releases, Rollback(r) PROVE IInv'
  BY <1>6, RollbackKeeps
<1>7. ASSUME NEW r \in Releases, PruneNext(r) PROVE IInv'
  BY <1>7, PruneNextKeeps
<1>8. ASSUME NEW r \in Releases, PruneRecord(r) PROVE IInv'
  BY <1>8, PruneRecordKeeps
<1>9. CASE StartPublish
  BY <1>9, StartPublishKeeps
<1>10. ASSUME NEW snap \in builds, AbandonBuild(snap) PROVE IInv'
  <2>1. UNCHANGED <<head, site, up, sync>> /\ builds' \subseteq builds
    BY <1>10 DEF AbandonBuild
  <2>2. ThreadSound'
    BY <2>1 DEF IInv, ThreadSound, Open, InRelease, site
  <2> QED
    BY <1>1, <2>1, <2>2, RequestEnds DEF Settled
<1>11. ASSUME NEW snap \in builds, NEW r \in Releases, InsertPreparedRelease(snap, r) PROVE IInv'
  BY <1>11, InsertKeeps
<1>12. CASE SwitchCurrent \/ MarkActivationSwitched
  BY <1>12, SwitchKeeps
<1>13. CASE PublishFails \/ PruneEnds
  <2>1. UNCHANGED <<head, site, up, builds>> /\ sync' = Free
    BY <1>13 DEF PublishFails, PruneEnds
  <2>2. ThreadSound'
    BY <2>1 DEF ThreadSound, Free
  <2> QED
    BY <1>1, <2>1, <2>2, RequestEnds DEF Settled
<1>14. CASE FinishPublish
  <2>1. CommitActivation /\ UNCHANGED <<up, builds>> /\ sync' = [sync EXCEPT !.stage = "committed"]
    BY <1>14 DEF FinishPublish
  <2>2. sync' \in Sync /\ sync'.stage = "committed" /\ up
    BY <1>1, <1>14, <2>1 DEF FinishPublish, Sync, IInv, ThreadSound
  <2>3. ThreadSound'
    BY <2>1, <2>2 DEF ThreadSound, CommitActivation, Open, NoJournal
  <2> QED
    BY <1>1, <2>1, <2>2, <2>3, CommitKeeps
<1>15. CASE PruneScan
  BY <1>15, PruneScanKeeps
<1>16. CASE Crash
  <2>1. UNCHANGED <<head, site>> /\ builds' \subseteq builds /\ sync' = Free /\ up' \in BOOLEAN
    BY <1>16 DEF Crash
  <2>2. ThreadSound'
    BY <2>1 DEF ThreadSound, Free
  <2> QED
    BY <1>1, <2>1, <2>2, RequestEnds DEF Settled
<1>17. CASE Restart
  <2>1. /\ UNCHANGED <<builds, sync>> /\ up' \in BOOLEAN /\ sync.stage = "free"
        /\ RestartConsistent \/ CommitActivation \/ RestartReverts
    BY <1>17 DEF Restart, IInv, ThreadSound
  <2>2. ThreadSound'
    BY <2>1 DEF ThreadSound
  <2>3. CASE RestartConsistent
    BY <1>1, <2>1, <2>2, <2>3, RequestEnds DEF Settled, RestartConsistent
  <2>4. CASE CommitActivation
    BY <1>1, <2>1, <2>2, <2>4, CommitKeeps
  <2>5. CASE RestartReverts
    BY <2>1, <2>5, RevertKeeps
  <2> QED
    BY <2>1, <2>3, <2>4, <2>5
<1> QED
  BY <1>2, <1>3, <1>4, <1>5, <1>6, <1>7, <1>8, <1>9, <1>10, <1>11, <1>12, <1>13, <1>14, <1>15,
     <1>16, <1>17 DEF Next

\* The invariant that carries the safety of the publication.
THEOREM Invariant == Spec => []IInv
  BY InitIInv, NextKeeps, PTL DEF Spec

\* The tables, the link and the directories keep their types, and at most one
\* release is active, whatever fails.
THEOREM TypeCorrect == Spec => []TypeOK
<1>1. IInv => TypeOK
  BY DEF IInv
<1> QED
  BY <1>1, Invariant, PTL

\* The link never points where neither the database nor the journal says.
THEOREM PointerCorrect == Spec => []PointerExplained
<1>1. IInv => PointerExplained
  BY DEF IInv
<1> QED
  BY <1>1, Invariant, PTL

\* An open activation stays committable until it is settled.
THEOREM JournalCorrect == Spec => []JournalReplayable
<1>1. IInv => JournalReplayable
  BY DEF IInv
<1> QED
  BY <1>1, Invariant, PTL

\* No translation is confirmed without its source.
THEOREM TranslationsCorrect == Spec => []TranslationsBound
<1>1. IInv => TranslationsBound
  BY DEF IInv
<1> QED
  BY <1>1, Invariant, PTL

LEMMA ActiveSealed ==
  ASSUME IInv, Active # NoRelease
  PROVE  /\ Active \in Releases /\ Sealed(Active)
         /\ dir[Active].site = [pages |-> release[Active].entries,
                                linked |-> HeadsOf(release[Active].entries),
                                bundle |-> release[Active].bundle]
<1>1. Active \in Releases /\ release[Active].state = "active"
  BY OneActive DEF IInv, ActiveSound
<1>2. OnDisk(Active)
  BY DEF IInv, ActiveStands
<1>3. dir[Active].site = [pages |-> release[Active].entries,
                          linked |-> HeadsOf(release[Active].entries),
                          bundle |-> release[Active].bundle]
  BY <1>1, <1>2 DEF IInv, BooksSound, OnDisk
<1> QED
  BY <1>1, <1>2, <1>3 DEF Sealed, MetadataAgrees

\* Outside an activation the published heads are, revision by revision, the
\* articles whose pages the link serves.
THEOREM ServedCorrect == Spec => []PublishedHeadsServed
<1>1. IInv => PublishedHeadsServed
  <2> SUFFICES ASSUME IInv, ~Open
               PROVE  LET served == IF pointer \in Releases THEN dir[pointer].site ELSE NoSite
                      IN /\ served.pages =
                              {[head |-> h, rev |-> head[h].rev] : h \in PublishedHeads}
                         /\ served.linked = PublishedHeads
    BY DEF PublishedHeadsServed, PublishedHeads
  <2>1. /\ {[head |-> h, rev |-> head[h].rev] : h \in PublishedHeads} = EntriesOf(Active)
        /\ PublishedHeads = HeadsOf(EntriesOf(Active))
    BY HeadsOfPublished DEF IInv, ActiveStands
  <2>2. CASE Active = NoRelease
    <3>1. pointer \notin Releases
      BY <2>2, NamesAssumption, ReleaseAssumption DEF IInv, PointerExplained, Unpublished
    <3>2. EntriesOf(Active) = {} /\ HeadsOf(EntriesOf(Active)) = {}
      BY <2>2 DEF EntriesOf, HeadsOf
    <3> QED
      BY <2>1, <3>1, <3>2 DEF NoSite
  <2>3. CASE Active # NoRelease
    <3>1. pointer = Active /\ Active \in Releases
      BY <2>3, ActiveSealed DEF IInv, PointerExplained, Unpublished
    <3>2. dir[Active].site.pages = EntriesOf(Active)
            /\ dir[Active].site.linked = HeadsOf(EntriesOf(Active))
      BY <2>3, ActiveSealed DEF EntriesOf
    <3> QED
      BY <2>1, <3>1, <3>2
  <2> QED
    BY <2>2, <2>3
<1> QED
  BY <1>1, Invariant, PTL

\* Pruning takes nothing that the link, an activation or a notice needs.
THEOREM PruningCorrect == Spec => []NothingNeededPruned
<1>1. IInv => NothingNeededPruned
  <2> SUFFICES ASSUME IInv, NEW r \in Releases, ~OnDisk(r)
               PROVE  /\ pointer # r /\ Active # r
                      /\ Open => r \notin {journal.target, journal.previous}
                      /\ outbox[r] # "live"
    BY DEF NothingNeededPruned
  <2>1. r # NoRelease /\ r # Bootstrap
    BY NamesAssumption, ReleaseAssumption
  <2>2. Active # r /\ outbox[r] # "live"
    BY <2>1 DEF IInv, ActiveStands
  <2>3. Open => r \notin {journal.target, journal.previous}
    BY <2>1 DEF IInv, JournalReplayable, Sealed
  <2>4. pointer # r
    BY <2>1, <2>2, <2>3 DEF IInv, PointerExplained, JournalSound, Unpublished
  <2> QED
    BY <2>2, <2>3, <2>4
<1> QED
  BY <1>1, Invariant, PTL

\* A start finds, at any moment the server may die, the site consistent, an
\* activation it can commit, or one it can drop: it never has to throw.
THEOREM RestartCorrect == Spec => []((~Open /\ BaseConsistent) \/ CommitReady \/ Droppable)
<1>1. IInv => (~Open /\ BaseConsistent) \/ CommitReady \/ Droppable
  <2> SUFFICES ASSUME IInv PROVE (~Open /\ BaseConsistent) \/ CommitReady \/ Droppable
    OBVIOUS
  <2>1. CASE ~Open
    BY <2>1, ActiveSealed DEF IInv, PointerExplained, Unpublished, BaseConsistent
  <2>2. CASE Open
    BY <2>2 DEF IInv, PointerExplained, JournalReplayable, CommitReady, Droppable
  <2> QED
    BY <2>1, <2>2
<1> QED
  BY <1>1, Invariant, PTL

\* A publish adds to the site and takes nothing away.
THEOREM KeepsCorrect == Spec => PublishKeepsHeads
<1>1. IInv /\ [Next]_vars =>
        (journal.op = "publish" =>
           \A h \in Heads : InState(h, {"published"}) => head'[h].state = "published")
  <2> SUFFICES ASSUME IInv, [Next]_vars, journal.op = "publish",
                      NEW h \in Heads, InState(h, {"published"})
               PROVE  head'[h].state = "published"
    OBVIOUS
  <2>1. CASE EditHeads
    <3>1. HeadsStand
      BY <2>1, EditsStand
    <3> QED
      BY <3>1 DEF HeadsStand
  <2>2. CASE CommitActivation
    <3> DEFINE E == release[journal.target].entries
    <3>1. Open /\ journal.target \in Releases
      BY <2>2, CommittedReleases
    <3>2. h \in HeadsOf(E)
      BY <3>1 DEF IInv, JournalSound, PublishedHeads
    <3>3. HeadsTypeOK /\ E \in SUBSET Entry /\ Functional(E)
      BY <3>1, ReleaseType DEF IInv, TypeOK, BooksSound, JournalReplayable
    <3>4. head' = ApplyReleaseHeads(E)
      BY <2>2 DEF CommitActivation
    <3>5. PICK e \in E : e.head = h
      BY <3>2 DEF HeadsOf
    <3>6. ApplyReleaseHeads(E)[e.head].state = "published"
      BY <3>3, AppliedHeads
    <3> QED
      BY <3>4, <3>5, <3>6
  <2>3. CASE head' = head
    BY <2>3 DEF InState
  <2>4. EditHeads \/ CommitActivation \/ head' = head
    BY DEF Next, vars, ConsentTool, SettleOutbox, Rollback, PruneNext, PruneRecord,
           StartPublish, AbandonBuild, InsertPreparedRelease, SwitchCurrent,
           MarkActivationSwitched, PublishFails, FinishPublish, PruneScan, PruneEnds, Crash,
           Restart, RestartConsistent, RestartReverts
  <2> QED
    BY <2>1, <2>2, <2>3, <2>4
<1>2. Spec => [][journal.op = "publish" =>
                   \A h \in Heads : InState(h, {"published"}) => head'[h].state = "published"]_vars
  BY <1>1, Invariant, PTL DEF Spec
<1> QED
  BY <1>2 DEF PublishKeepsHeads

-----------------------------------------------------------------------------
(* The releases to fall back to.                                           *)

Ever == {r \in Releases : release[r].gen > 0}
Usable == {r \in Ever : release[r].state \in {"active", "retired"} /\ OnDisk(r)}

\* A release that was ever active is usable, or there are enough that are; and
\* what the pruning still has to take leaves enough.
TargetsSound ==
  /\ IsFiniteSet(Ever)
  /\ \A r \in Releases : release[r].state \in {"absent", "building"} => release[r].gen = 0
  /\ \A r \in Releases : release[r].state \in {"active", "retired"} => release[r].gen > 0
  /\ Ever # {} => Active # NoRelease
  /\ Ever # Usable => Cardinality(Usable) > Keepers
  /\ sync.stage \in {"scanned", "moved"} /\ sync.todo # {}
       => Cardinality(Usable \ sync.todo) > Keepers

LEMMA InitTargets == ASSUME Init PROVE TargetsSound
<1>1. Ever = {} /\ Usable = {}
  BY DEF Init, Ever, Usable
<1> QED
  BY <1>1, FS_EmptySet DEF Init, TargetsSound, Free

\* A step that leaves the generations and the usable releases alone.
LEMMA TargetsFrame ==
  ASSUME TargetsSound,
         \A r \in Releases :
           /\ release'[r].gen = release[r].gen
           /\ release'[r].state \in {"absent", "building"} => release[r].gen = 0
           /\ release'[r].state \in {"active", "retired"} => release[r].gen > 0,
         Active' = Active,
         Usable' = Usable,
         sync'.stage \in {"scanned", "moved"} /\ sync'.todo # {}
           => Cardinality(Usable \ sync'.todo) > Keepers
  PROVE  TargetsSound'
<1>1. Ever' = Ever
  BY DEF Ever
<1> QED
  BY <1>1 DEF TargetsSound

\* Whatever is not pruning and not a commit leaves releases and directories alone.
LEMMA BooksAlone ==
  ASSUME TargetsSound, UNCHANGED <<release, dir>>,
         sync' = sync \/ sync'.stage \notin {"scanned", "moved"}
  PROVE  TargetsSound'
<1>1. Usable' = Usable /\ Active' = Active
  BY DEF Usable, Ever, OnDisk, Active, InRelease
<1> QED
  BY <1>1, TargetsFrame DEF TargetsSound

LEMMA InsertTargets ==
  ASSUME IInv, TargetsSound, NEW snap \in builds, NEW r \in Releases,
         InsertPreparedRelease(snap, r)
  PROVE  TargetsSound'
<1> DEFINE new == [state |-> "building", gen |-> 0, order |-> 0,
                   entries |-> snap.entries, bundle |-> snap.bundle]
<1>1. /\ release[r].state = "absent" /\ release' = [release EXCEPT ![r] = new]
      /\ \A q \in Releases \ {r} : dir'[q] = dir[q]
      /\ sync' = [Free EXCEPT !.stage = "journaled"]
  BY DEF InsertPreparedRelease, IInv, TypeOK
<1>2. release'[r] = new /\ \A q \in Releases \ {r} : release'[q] = release[q]
  BY <1>1 DEF IInv, TypeOK
<1>3. release'[r].state = "building" /\ release'[r].gen = 0 /\ release[r].gen = 0
  BY <1>1, <1>2 DEF TargetsSound
<1>4. Usable' = Usable
  BY <1>1, <1>2, <1>3 DEF Usable, Ever, OnDisk
<1>5. InRelease({"active"})' = InRelease({"active"})
  BY <1>1, <1>2, <1>3 DEF InRelease
<1>6. Active' = Active
  BY <1>5, SameActive
<1>7. sync'.stage = "journaled"
  BY <1>1 DEF Free
<1> QED
  BY <1>2, <1>3, <1>4, <1>6, <1>7, TargetsFrame DEF TargetsSound

LEMMA RevertTargets ==
  ASSUME IInv, TargetsSound, RestartReverts, UNCHANGED sync
  PROVE  TargetsSound'
<1>1. PICK t \in Releases : t = journal.target
  BY DEF RestartReverts, Droppable, IInv, JournalSound
<1>2. /\ release[t].state \in {"building", "retired"} /\ UNCHANGED dir
      /\ release' = [release EXCEPT ![t].state = IF @ = "building" THEN "failed" ELSE @]
  BY <1>1 DEF RestartReverts, Droppable, IInv, JournalReplayable
<1>3. release'[t] = [release[t] EXCEPT !.state = IF @ = "building" THEN "failed" ELSE @]
        /\ \A q \in Releases \ {t} : release'[q] = release[q]
  BY <1>2 DEF IInv, TypeOK
<1>4. /\ release'[t].gen = release[t].gen
      /\ release'[t].state = IF release[t].state = "building" THEN "failed" ELSE "retired"
  BY <1>2, <1>3 DEF IInv, TypeOK, Release
<1>5. release[t].state = "building" => release[t].gen = 0
  BY DEF TargetsSound
<1>6. Usable' = Usable
  BY <1>2, <1>3, <1>4, <1>5 DEF Usable, Ever, OnDisk
<1>7. InRelease({"active"})' = InRelease({"active"})
  BY <1>2, <1>3, <1>4 DEF InRelease
<1>8. Active' = Active
  BY <1>7, SameActive
<1> QED
  BY <1>2, <1>3, <1>4, <1>6, <1>8, TargetsFrame DEF TargetsSound

\* A commit adds its release to those ever active, and to the usable ones.
LEMMA CommitTargets ==
  ASSUME IInv, TargetsSound, CommitActivation,
         sync'.stage \notin {"scanned", "moved"}
  PROVE  TargetsSound'
<1> DEFINE t == journal.target
<1>1. /\ t \in Releases /\ OnDisk(t) /\ release[t].state \in {"building", "retired"}
      /\ release'[t].state = "active" /\ release'[t].gen = release[t].gen + 1
      /\ \A r \in Releases \ {t} : release'[r].gen = release[r].gen
      /\ dir' = dir
  BY CommittedReleases DEF CommitActivation
<1>2. \A r \in Releases \ {t} :
        /\ release'[r].state \in {"active", "retired"} <=> release[r].state \in {"active", "retired"}
        /\ release'[r].state \in {"absent", "building"} <=> release[r].state \in {"absent", "building"}
  <2> DEFINE f(r) == [release[r] EXCEPT !.state = "retired"]
  <2>1. \A r \in Releases : f(r).state = "retired"
    BY DEF IInv, TypeOK, Release
  <2>2. \A r \in Releases \ {t} : release'[r] =
          IF release[r].state = "active" THEN f(r) ELSE release[r]
    BY DEF CommitActivation, Superseded
  <2> HIDE DEF f
  <2> QED
    BY <2>1, <2>2
<1>3. release[t].gen \in Nat
  BY <1>1, ReleaseType DEF IInv
<1> HIDE DEF t
<1>4. Ever' = Ever \cup {t}
  BY <1>1, <1>3 DEF Ever
<1>5. Usable' = Usable \cup {t}
  BY <1>1, <1>2, <1>3 DEF Usable, Ever, OnDisk
<1>6. IsFiniteSet(Ever) /\ IsFiniteSet(Usable)
  <2>1. Usable \in SUBSET Ever /\ IsFiniteSet(Ever)
    BY DEF Usable, TargetsSound
  <2> QED
    BY <2>1, FS_Subset
<1>7. IsFiniteSet(Ever')
  BY <1>4, <1>6, FS_AddElement
<1>8. Cardinality(Usable') >= Cardinality(Usable) /\ Cardinality(Usable) \in Nat
        /\ Cardinality(Usable') \in Nat
  <2>1. IsFiniteSet(Usable \cup {t}) /\ Usable \in SUBSET (Usable \cup {t})
    BY <1>6, FS_AddElement
  <2>2. Cardinality(Usable) <= Cardinality(Usable \cup {t})
    BY <2>1, FS_Subset
  <2>3. Cardinality(Usable) \in Nat /\ Cardinality(Usable \cup {t}) \in Nat
    BY <1>6, <2>1, FS_CardinalityType
  <2> QED
    BY <1>5, <2>2, <2>3
<1>9. Ever' # Usable' => Cardinality(Usable') > Keepers
  BY <1>4, <1>5, <1>8, ReleaseAssumption DEF TargetsSound
<1>10. Active' # NoRelease
  <2>1. t \in InRelease({"active"})'
    BY <1>1 DEF InRelease
  <2>2. InRelease({"active"})' # {} /\ InRelease({"active"})' \subseteq Releases
    BY <2>1 DEF InRelease
  <2>3. Active' \in InRelease({"active"})'
    BY <2>2 DEF Active
  <2> QED
    BY <2>2, <2>3, NamesAssumption
<1>11. /\ \A r \in Releases : release'[r].state \in {"absent", "building"} => release'[r].gen = 0
       /\ \A r \in Releases : release'[r].state \in {"active", "retired"} => release'[r].gen > 0
  BY <1>1, <1>2, <1>3 DEF TargetsSound
<1> QED
  BY <1>7, <1>9, <1>10, <1>11 DEF TargetsSound

\* What the pruning takes next leaves all those usable that it does not want.
LEMMA PruneTargets ==
  ASSUME IInv, TargetsSound, NEW r \in sync.todo, sync.stage \in {"scanned", "moved"},
         release' \in {release, [release EXCEPT ![r].state = "failed"]},
         \A q \in Releases \ {r} : dir'[q] = dir[q],
         sync'.todo \subseteq sync.todo
  PROVE  TargetsSound'
<1> USE DEF IInv
<1>1. r \in Releases /\ release[r].state = "retired" /\ Cardinality(Usable \ sync.todo) > Keepers
  BY DEF ThreadSound, InRelease, TargetsSound
<1>2. /\ release'[r].gen = release[r].gen
      /\ release'[r].state \in {"retired", "failed"}
      /\ \A q \in Releases \ {r} : release'[q] = release[q]
  <2>1. [release[r] EXCEPT !.state = "failed"].state = "failed"
           /\ [release[r] EXCEPT !.state = "failed"].gen = release[r].gen
    BY <1>1 DEF TypeOK, Release
  <2>2. release' = [release EXCEPT ![r].state = "failed"]
          => release'[r] = [release[r] EXCEPT !.state = "failed"]
    BY <1>1 DEF TypeOK
  <2>3. \A q \in Releases \ {r} : release'[q] = release[q]
    BY <1>1 DEF TypeOK
  <2> QED
    BY <1>1, <2>1, <2>2, <2>3
<1>3. Ever' = Ever
  BY <1>1, <1>2 DEF Ever
<1>4. Usable \ sync.todo \subseteq Usable' \ sync'.todo
  BY <1>2, <1>3 DEF Usable, Ever, OnDisk
<1>5. Cardinality(Usable' \ sync'.todo) > Keepers /\ Cardinality(Usable') > Keepers
  <2>1. IsFiniteSet(Ever) /\ Usable' \in SUBSET Ever /\ Keepers \in Nat
    BY <1>3, ReleaseAssumption DEF Usable, TargetsSound
  <2>2. IsFiniteSet(Usable')
    BY <2>1, FS_Subset
  <2> DEFINE A == Usable \ sync.todo
             B == Usable' \ sync'.todo
             C == Usable'
  <2>3. A \in SUBSET B /\ B \in SUBSET C /\ IsFiniteSet(C)
    BY <1>4, <2>2
  <2>4. Cardinality(A) > Keepers
    BY <1>1
  <2> HIDE DEF A, B, C
  <2>5. IsFiniteSet(B) /\ Cardinality(B) <= Cardinality(C)
    BY <2>3, FS_Subset
  <2>6. IsFiniteSet(A) /\ Cardinality(A) <= Cardinality(B)
    BY <2>3, <2>5, FS_Subset
  <2>7. Cardinality(A) \in Nat /\ Cardinality(B) \in Nat /\ Cardinality(C) \in Nat
    BY <2>3, <2>5, <2>6, FS_CardinalityType
  <2>8. Cardinality(B) > Keepers /\ Cardinality(C) > Keepers
    BY <2>1, <2>4, <2>5, <2>6, <2>7
  <2> QED
    BY <2>8 DEF B, C
<1>6. InRelease({"active"})' = InRelease({"active"})
  BY <1>1, <1>2 DEF InRelease
<1>7. Active' = Active
  BY <1>6, SameActive
<1>8. /\ \A q \in Releases : release'[q].state \in {"absent", "building"} => release'[q].gen = 0
      /\ \A q \in Releases : release'[q].state \in {"active", "retired"} => release'[q].gen > 0
  BY <1>1, <1>2 DEF TargetsSound
<1> QED
  BY <1>3, <1>5, <1>7, <1>8 DEF TargetsSound

LEMMA PruneNextTargets ==
  ASSUME IInv, TargetsSound, NEW r \in Releases, PruneNext(r)
  PROVE  TargetsSound'
<1>1. /\ sync.stage = "scanned" /\ r \in sync.todo /\ release' = release
      /\ sync' \in {[sync EXCEPT !.todo = @ \ {r}], [sync EXCEPT !.stage = "moved"]}
      /\ dir' \in {dir, [dir EXCEPT ![r].state = "moved"]}
  BY DEF PruneNext
<1>2. \A q \in Releases \ {r} : dir'[q] = dir[q]
  BY <1>1 DEF IInv, TypeOK
<1>3. sync'.todo \subseteq sync.todo
  BY <1>1 DEF IInv, TypeOK, Sync
<1> QED
  BY <1>1, <1>2, <1>3, PruneTargets

LEMMA PruneRecordTargets ==
  ASSUME IInv, TargetsSound, NEW r \in Releases, PruneRecord(r)
  PROVE  TargetsSound'
<1>1. /\ sync.stage = "moved" /\ r \in sync.todo
      /\ release' \in {release, [release EXCEPT ![r].state = "failed"]}
      /\ sync' \in {Free, [stage |-> "scanned", todo |-> sync.todo \ {r}]}
      /\ dir' \in {[dir EXCEPT ![r] = NoDirectory], [dir EXCEPT ![r].state = "sealed"]}
  BY DEF PruneRecord
<1>2. \A q \in Releases \ {r} : dir'[q] = dir[q]
  BY <1>1 DEF IInv, TypeOK
<1>3. sync'.todo \subseteq sync.todo
  BY <1>1 DEF Free
<1> QED
  BY <1>1, <1>2, <1>3, PruneTargets

\* If any release is too old to be kept, Keepers newer ones are: of those too
\* old, one of the newest has none too old among those newer than it.
LEMMA KeptEnough ==
  ASSUME IsFiniteSet(Verified), \A r \in Releases : release[r].order \in Nat,
         NEW old \in Verified \ Kept
  PROVE  IsFiniteSet(Kept) /\ Cardinality(Kept) >= Keepers
<1> DEFINE N(r) == {s \in Verified : Newer(s, r)}
           Old == Verified \ Kept
           X == {N(r) : r \in Old}
<1>1. X \subseteq FiniteSubsetsOf(Verified) /\ X # {}
  <2>1. \A r : N(r) \in SUBSET Verified /\ IsFiniteSet(N(r))
    BY FS_Subset
  <2> QED
    BY <2>1 DEF FiniteSubsetsOf
<1>2. PICK m \in X : \A y \in X : ~(<<y, m>> \in StrictSubsetOrdering(Verified))
  BY <1>1, FS_StrictSubsetOrderingWellFounded, WFMin
<1>3. PICK r \in Old : m = N(r)
  BY <1>2
<1>4. Verified \subseteq Releases
  BY DEF Verified, InRelease
<1>5. \A s \in N(r) : s \notin Old
  <2> SUFFICES ASSUME NEW s \in N(r), s \in Old PROVE FALSE
    OBVIOUS
  <2>1. N(s) \subseteq N(r) /\ s \notin N(s) /\ s \in N(r)
    BY <1>3, <1>4 DEF Newer
  <2>2. <<N(s), m>> \in StrictSubsetOrdering(Verified)
    BY <1>3, <2>1 DEF StrictSubsetOrdering
  <2> QED
    BY <1>2, <2>2
<1>6. N(r) \in SUBSET Kept /\ Kept \in SUBSET Verified
  BY <1>5 DEF Kept
<1>7. IsFiniteSet(Kept) /\ IsFiniteSet(N(r)) /\ Cardinality(N(r)) <= Cardinality(Kept)
  <2>1. IsFiniteSet(Kept)
    BY <1>6, FS_Subset
  <2> QED
    BY <1>6, <2>1, FS_Subset
<1>8. ~(Cardinality(N(r)) < Keepers)
  BY <1>3 DEF Kept
<1>9. Cardinality(N(r)) \in Nat /\ Cardinality(Kept) \in Nat
  BY <1>7, FS_CardinalityType
<1> QED
  BY <1>7, <1>8, <1>9, ReleaseAssumption

\* The scan gives up no release that is usable, and wants none of those kept.
LEMMA PruneScanTargets ==
  ASSUME IInv, TargetsSound, PruneScan
  PROVE  TargetsSound'
<1> USE DEF IInv
<1>1. UNCHANGED dir /\ sync' = [stage |-> "scanned", todo |-> Verified \ Kept]
  BY DEF PruneScan
<1> DEFINE f(r) == [release[r] EXCEPT !.state = "failed"]
<1>2. \A r \in Releases : f(r).state = "failed" /\ f(r).gen = release[r].gen
  BY DEF TypeOK, Release
<1>3. \A r \in Releases : release'[r] = IF r \in InRelease({"retired"}) \ Verified
                                        THEN f(r) ELSE release[r]
  BY DEF PruneScan
<1> HIDE DEF f
<1>4. \A r \in InRelease({"retired"}) : OnDisk(r) => r \in Verified
  <2>1. \A r \in InRelease({"retired"}) : OnDisk(r) => MetadataAgrees(r)
    <3> SUFFICES ASSUME NEW r \in Releases, release[r].state = "retired", OnDisk(r)
                 PROVE  MetadataAgrees(r)
      BY DEF InRelease
    <3>1. dir[r].site = [pages |-> release[r].entries,
                         linked |-> HeadsOf(release[r].entries), bundle |-> release[r].bundle]
      BY DEF BooksSound, OnDisk
    <3> QED
      BY <3>1 DEF MetadataAgrees
  <2> QED
    BY <2>1 DEF Verified, Sealed
<1>5. \A r \in Verified : r \in Releases /\ release[r].state = "retired" /\ OnDisk(r)
  BY NamesAssumption DEF Verified, Sealed, InRelease
<1>6. Usable' = Usable
  BY <1>1, <1>2, <1>3, <1>4, <1>5 DEF Usable, Ever, OnDisk, InRelease
<1>7. InRelease({"active"})' = InRelease({"active"})
  BY <1>2, <1>3 DEF InRelease
<1>8. Active' = Active
  BY <1>7, SameActive
<1>9. /\ \A r \in Releases :
           /\ release'[r].gen = release[r].gen
           /\ release'[r].state \in {"absent", "building"} => release[r].gen = 0
           /\ release'[r].state \in {"active", "retired"} => release[r].gen > 0
  BY <1>2, <1>3 DEF TargetsSound
<1>10. ASSUME sync'.todo # {} PROVE Cardinality(Usable \ sync'.todo) > Keepers
  <2>1. PICK old : old \in Verified \ Kept
    BY <1>1, <1>10
  <2>2. Verified \in SUBSET Ever /\ Verified \subseteq Usable /\ IsFiniteSet(Ever)
    BY <1>5 DEF TargetsSound, Ever, Usable
  <2>3. IsFiniteSet(Kept) /\ Cardinality(Kept) >= Keepers
    BY <2>1, <2>2, FS_Subset, KeptEnough, ReleaseType
  <2>4. Active \in Usable /\ Active \notin Verified
    <3>1. Ever # {}
      BY <2>1, <2>2
    <3>2. Active \in Releases /\ release[Active].state = "active"
      BY <3>1, OneActive DEF TargetsSound, ActiveSound
    <3>3. OnDisk(Active) /\ release[Active].gen > 0
      BY <3>1, <3>2 DEF TargetsSound, ActiveStands
    <3> QED
      BY <1>5, <3>2, <3>3 DEF Usable, Ever
  <2> DEFINE A == Kept \cup {Active}
             B == Usable \ sync'.todo
  <2>5. A \in SUBSET B /\ Active \notin Kept
    BY <1>1, <2>2, <2>4 DEF Kept
  <2>6. IsFiniteSet(B)
    <3>1. B \in SUBSET Ever
      BY DEF Usable
    <3> QED
      BY <2>2, <3>1, FS_Subset
  <2>7. Cardinality(A) = Cardinality(Kept) + 1
    BY <2>3, <2>5, FS_AddElement
  <2> HIDE DEF A, B
  <2>8. Cardinality(A) <= Cardinality(B)
    BY <2>5, <2>6, FS_Subset
  <2>9. Cardinality(B) > Keepers
    BY <2>3, <2>6, <2>7, <2>8, FS_CardinalityType, ReleaseAssumption
  <2> QED
    BY <2>9 DEF B
<1> QED
  BY <1>6, <1>8, <1>9, <1>10, TargetsFrame

LEMMA TargetsKept == ASSUME IInv, TargetsSound, [Next]_vars PROVE TargetsSound'
<1>1. sync \in Sync
  BY DEF IInv, TypeOK
<1>2. CASE UNCHANGED vars
  BY <1>2, BooksAlone DEF vars, site
<1>3. CASE EditHeads \/ StartPublish
  BY <1>3, BooksAlone DEF EditHeads, StartPublish, site
<1>4. ASSUME NEW b \in Bundles, ConsentTool(b) PROVE TargetsSound'
  BY <1>4, BooksAlone DEF ConsentTool
<1>5. ASSUME NEW r \in Releases, SettleOutbox(r) \/ Rollback(r) PROVE TargetsSound'
  BY <1>5, BooksAlone DEF SettleOutbox, Rollback, Free
<1>6. ASSUME NEW r \in Releases, PruneNext(r) PROVE TargetsSound'
  BY <1>6, PruneNextTargets
<1>7. ASSUME NEW r \in Releases, PruneRecord(r) PROVE TargetsSound'
  BY <1>7, PruneRecordTargets
<1>8. ASSUME NEW snap \in builds, AbandonBuild(snap) PROVE TargetsSound'
  BY <1>8, BooksAlone DEF AbandonBuild, site
<1>9. ASSUME NEW snap \in builds, NEW r \in Releases, InsertPreparedRelease(snap, r)
      PROVE TargetsSound'
  BY <1>9, InsertTargets
<1>10. CASE SwitchCurrent \/ MarkActivationSwitched
  <2>1. UNCHANGED <<release, dir>>
          /\ sync' \in {[sync EXCEPT !.stage = "linked"], [sync EXCEPT !.stage = "marked"]}
    BY <1>10 DEF SwitchCurrent, MarkActivationSwitched
  <2>2. sync'.stage \in {"linked", "marked"}
    BY <1>1, <2>1 DEF Sync
  <2> QED
    BY <2>1, <2>2, BooksAlone
<1>11. CASE PublishFails \/ PruneEnds \/ Crash
  BY <1>11, BooksAlone DEF PublishFails, PruneEnds, Crash, Free, site
<1>12. CASE FinishPublish
  <2>1. sync'.stage = "committed" /\ CommitActivation
    BY <1>1, <1>12 DEF FinishPublish, Sync
  <2> QED
    BY <2>1, CommitTargets
<1>13. CASE PruneScan
  BY <1>13, PruneScanTargets
<1>14. CASE Restart
  <2>1. sync' = sync /\ sync.stage = "free"
    BY <1>14 DEF Restart, IInv, ThreadSound
  <2>2. CASE RestartConsistent
    BY <2>1, <2>2, BooksAlone DEF RestartConsistent, site
  <2>3. CASE CommitActivation
    BY <2>1, <2>3, CommitTargets
  <2>4. CASE RestartReverts
    BY <2>1, <2>4, RevertTargets
  <2> QED
    BY <1>14, <2>2, <2>3, <2>4 DEF Restart
<1> QED
  BY <1>2, <1>3, <1>4, <1>5, <1>6, <1>7, <1>8, <1>9, <1>10, <1>11, <1>12, <1>13, <1>14 DEF Next

\* Of the releases ever active, the active one and Keepers retired ones are there
\* to fall back to, whatever is pruned and wherever the pruning fails.
THEOREM TargetsCorrect == Spec => []RollbackTargetsRemain
<1>1. IInv /\ TargetsSound => RollbackTargetsRemain
  <2> SUFFICES ASSUME IInv, TargetsSound
               PROVE  Cardinality(Usable) >= IF Cardinality(Ever) <= Keepers
                                             THEN Cardinality(Ever) ELSE Keepers + 1
    <3>1. Usable = {r \in InRelease({"active", "retired"}) : OnDisk(r)} \cap Ever
      BY DEF Usable, Ever, InRelease
    <3> QED
      BY <3>1 DEF RollbackTargetsRemain, Ever
  <2>1. IsFiniteSet(Ever) /\ Usable \in SUBSET Ever
    BY DEF TargetsSound, Usable
  <2>2. /\ Cardinality(Ever) \in Nat /\ Cardinality(Usable) \in Nat
        /\ Cardinality(Usable) <= Cardinality(Ever)
    BY <2>1, FS_Subset, FS_CardinalityType
  <2> QED
    BY <2>2, ReleaseAssumption DEF TargetsSound
<1>2. Init => TargetsSound
  BY InitTargets
<1>3. IInv /\ TargetsSound /\ [Next]_vars => TargetsSound'
  BY TargetsKept
<1>4. Spec => []TargetsSound
  BY <1>2, <1>3, Invariant, PTL DEF Spec
<1> QED
  BY <1>1, <1>4, Invariant, PTL

-----------------------------------------------------------------------------
(* The interface to the search engines' notices.                           *)

Notices == INSTANCE ReleaseNotices WITH active <- Active, notice <- outbox

\* Only a commit changes which release is active.
LEMMA ActiveMoves ==
  ASSUME IInv, [Next]_vars, ~CommitActivation
  PROVE  Active' = Active
<1> SUFFICES InRelease({"active"})' = InRelease({"active"})
  BY SameActive
<1>1. SUFFICES ASSUME release' # release
               PROVE  \A q \in Releases :
                        release'[q].state = "active" <=> release[q].state = "active"
  BY DEF InRelease
<1>2. \A q \in Releases : release[q] \in Release
  BY DEF IInv, TypeOK
<1>3. ASSUME NEW snap \in builds, NEW r \in Releases, InsertPreparedRelease(snap, r)
      PROVE  \A q \in Releases : release'[q].state = "active" <=> release[q].state = "active"
  <2>1. release[r].state = "absent" /\ release'[r].state = "building"
          /\ \A q \in Releases \ {r} : release'[q] = release[q]
    BY <1>3 DEF InsertPreparedRelease, IInv, TypeOK
  <2> QED
    BY <2>1
<1>4. ASSUME RestartReverts
      PROVE  \A q \in Releases : release'[q].state = "active" <=> release[q].state = "active"
  <2>1. PICK t \in Releases : t = journal.target
    BY <1>4 DEF RestartReverts, Droppable, IInv, JournalSound
  <2>2. release[t].state \in {"building", "retired"}
    BY <1>4, <2>1 DEF RestartReverts, Droppable, IInv, JournalReplayable
  <2>3. release'[t].state \in {"failed", "retired"}
          /\ \A q \in Releases \ {t} : release'[q] = release[q]
    BY <1>2, <1>4, <2>1, <2>2 DEF RestartReverts, IInv, TypeOK, Release
  <2> QED
    BY <2>2, <2>3
<1>5. ASSUME PruneScan
      PROVE  \A q \in Releases : release'[q].state = "active" <=> release[q].state = "active"
  <2> SUFFICES ASSUME NEW q \in Releases
               PROVE  release'[q].state = "active" <=> release[q].state = "active"
    OBVIOUS
  <2>1. release'[q] = IF q \in InRelease({"retired"}) \ Verified
                      THEN [release[q] EXCEPT !.state = "failed"] ELSE release[q]
    BY <1>5 DEF PruneScan
  <2> QED
    BY <1>2, <2>1 DEF InRelease, Release
<1>6. ASSUME NEW r \in Releases, PruneRecord(r)
      PROVE  \A q \in Releases : release'[q].state = "active" <=> release[q].state = "active"
  <2>1. release[r].state = "retired"
    BY <1>6 DEF PruneRecord, IInv, ThreadSound, InRelease
  <2>2. release' = [release EXCEPT ![r].state = "failed"]
    BY <1>1, <1>6 DEF PruneRecord
  <2>3. release'[r].state = "failed" /\ \A q \in Releases \ {r} : release'[q] = release[q]
    BY <1>2, <2>2 DEF IInv, TypeOK, Release
  <2> QED
    BY <2>1, <2>3
<1>7. \/ \E snap \in builds, r \in Releases : InsertPreparedRelease(snap, r)
      \/ RestartReverts \/ PruneScan \/ \E r \in Releases : PruneRecord(r)
  BY <1>1 DEF Next, vars, site, EditHeads, ConsentTool, SettleOutbox, Rollback, PruneNext,
              StartPublish, AbandonBuild, SwitchCurrent, MarkActivationSwitched, PublishFails,
              FinishPublish, PruneEnds, Crash, Restart, RestartConsistent
<1> QED
  BY <1>3, <1>4, <1>5, <1>6, <1>7

\* The publication keeps its side of ReleaseNotices, which the outbox of the
\* notices implements: it makes a notice outstanding by activating its release,
\* one that was not active, and never withdraws one.
THEOREM NoticesUsed == Spec => Notices!Init /\ [][Notices!Next]_Notices!vars
<1>1. Init => Notices!Init
  BY DEF Init, Notices!Init, Active, InRelease
<1>2. IInv /\ [Next]_vars => [Notices!Next]_Notices!vars
  <2> SUFFICES ASSUME IInv, [Next]_vars
               PROVE  [Notices!Next]_Notices!vars
    OBVIOUS
  <2>1. ASSUME CommitActivation
        PROVE  \E r \in Releases : Notices!Activated(r)
    <3>1. PICK t \in Releases : t = journal.target
      BY <2>1, CommittedReleases
    <3>2. /\ release[t].state \in {"building", "retired"}
          /\ release' \in [Releases -> Release] /\ release'[t].state = "active"
          /\ \A r \in Releases : r # t => release'[r].state # "active"
      BY <2>1, <3>1, CommittedReleases
    <3>3. Active # t
      BY <3>2, OneActive DEF IInv, ActiveSound
    <3>4. InRelease({"active"})' = {t}
      BY <3>2 DEF InRelease
    <3>5. Active' = t
      BY <3>4 DEF Active
    <3>6. outbox' = [outbox EXCEPT ![t] = "live"]
      BY <2>1, <3>1 DEF CommitActivation
    <3> QED
      BY <3>3, <3>5, <3>6 DEF Notices!Activated
  <2>2. ASSUME ~CommitActivation
        PROVE  [Notices!Next]_Notices!vars
    <3>1. Active' = Active
      BY <2>2, ActiveMoves
    <3>2. CASE outbox' = outbox
      BY <3>1, <3>2 DEF Notices!vars
    <3>3. CASE \E r \in Releases : SettleOutbox(r)
      BY <3>1, <3>3 DEF SettleOutbox, Notices!Next, Notices!SettleOutbox
    <3>4. outbox' = outbox \/ \E r \in Releases : SettleOutbox(r)
      BY <2>2 DEF Next, vars, site, EditHeads, ConsentTool, Rollback, PruneNext, PruneRecord,
              StartPublish, AbandonBuild, InsertPreparedRelease, SwitchCurrent, PruneScan,
              MarkActivationSwitched, PublishFails, FinishPublish, PruneEnds, Crash, Restart,
              RestartConsistent, RestartReverts
    <3> QED
      BY <3>2, <3>3, <3>4
  <2> QED
    BY <2>1, <2>2 DEF Notices!Next
<1> QED
  BY <1>1, <1>2, Invariant, PTL DEF Spec

=============================================================================
