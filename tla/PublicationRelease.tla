------------------------- MODULE PublicationRelease -------------------------
(***************************************************************************)
(* Publication of the public site by the control server: a release is      *)
(* built aside, journaled, made current by switching the symbolic link     *)
(* public-current, and recorded in the database. The link and the database *)
(* cannot change in one step, so the server may die, or a statement may    *)
(* fail, between any two of them; a start of the server settles what the   *)
(* journal says is open. Retired releases are kept for rollback and pruned *)
(* beyond the newest few.                                                  *)
(*                                                                         *)
(* The server is one thread: after the build, which it awaits, a publish   *)
(* runs to its end with no other request in between. The translation       *)
(* worker, the IndexNow worker and the consent tool are other processes.   *)
(***************************************************************************)
EXTENDS PublicationBuild, FiniteSets

CONSTANTS
  Bootstrap,        \* the site the machine was installed with, no release
  MaxBuilds,        \* bound: publish requests that wait for a build at once
  Keepers,          \* retired releases kept by pruning (2 in the code)
  MaxActivations    \* bound: activations ever committed

ASSUME ReleaseAssumption ==
  /\ Bootstrap \notin Releases \cup {NoRelease}
  /\ MaxBuilds \in Nat \ {0}
  /\ Keepers \in Nat
  /\ MaxActivations \in Nat

VARIABLES
  release,   \* releases and their release_entries
  dir,       \* release directories
  outbox,    \* publication_outbox row of a release
  pointer,   \* target of public-current
  journal,   \* the incomplete row of release_activations
  up,        \* the server serves
  builds,    \* the snapshots open publish requests are building
  sync       \* the synchronous part of a publish or rollback

site == <<bundle, release, dir, outbox, pointer, journal>>
vars == <<head, site, up, builds, sync>>

Release == [state : {"absent", "building", "active", "retired", "failed"},
            gen : Nat, order : Nat, entries : SUBSET Entry,
            bundle : Bundles \cup {NoBundle}]
Link == Releases \cup {NoRelease, Bootstrap}
Journal == [state : {"none", "prepared", "switched"}, op : {"publish", "rollback"},
            target : Releases \cup {NoRelease}, previous : Releases \cup {NoRelease},
            path : Link]
Directory == [state : {"none", "sealed", "moved"}, site : Site]
Sync == [stage : {"free", "journaled", "linked", "marked", "committed", "scanned", "moved"},
         todo : SUBSET Releases]

-----------------------------------------------------------------------------
NoJournal == [state |-> "none", op |-> "publish", target |-> NoRelease,
              previous |-> NoRelease, path |-> NoRelease]
NoDirectory == [state |-> "none", site |-> NoSite]
Free == [stage |-> "free", todo |-> {}]

InRelease(S) == {r \in Releases : release[r].state \in S}
Active == IF InRelease({"active"}) = {} THEN NoRelease
          ELSE CHOOSE r \in InRelease({"active"}) : TRUE
Generation(r) == IF r = NoRelease THEN 0 ELSE release[r].gen
\* A release gets a new name: which unused one it is makes no difference, so
\* it is always the same.
NextName == CHOOSE r \in InRelease({"absent"}) : TRUE

\* A release verifies: its files are those its manifest names, and the consent
\* bundle sealed into them is the one its row and the database have.
OnDisk(r) == dir[r].state = "sealed"
MetadataAgrees(r) == dir[r].site.bundle = release[r].bundle
Sealed(r) == r # NoRelease => OnDisk(r) /\ MetadataAgrees(r)
\* Before the first publication the link is absent or on the bootstrap site.
Unpublished == Active = NoRelease /\ pointer \in {NoRelease, Bootstrap}
BaseConsistent == Unpublished \/ (Active # NoRelease /\ pointer = Active /\ Sealed(Active))
Open == journal.state # "none"
Activations == {release[r].order : r \in Releases}
LastOrder == CHOOSE n \in Activations \cup {0} : \A m \in Activations : m <= n

\* The schema of the tables, with its index of at most one active release.
TypeOK ==
  /\ HeadsTypeOK
  /\ bundle \in [Bundles -> BundleStates]
  /\ release \in [Releases -> Release]
  /\ \A r, s \in InRelease({"active"}) : r = s
  /\ dir \in [Releases -> Directory]
  /\ outbox \in [Releases -> {"none", "live", "settled"}]
  /\ pointer \in Link
  /\ journal \in Journal
  /\ up \in BOOLEAN
  /\ builds \subseteq Snapshot /\ Cardinality(builds) <= MaxBuilds
  /\ sync \in Sync

\* A request is handled: the server is up and its thread is not publishing.
Serving == up /\ sync.stage = "free"

Init ==
  /\ HeadsInit
  /\ bundle = [b \in Bundles |-> "absent"]
  /\ release = [r \in Releases |->
       [state |-> "absent", gen |-> 0, order |-> 0, entries |-> {},
        bundle |-> NoBundle]]
  /\ dir = [r \in Releases |-> NoDirectory]
  /\ outbox = [r \in Releases |-> "none"]
  /\ pointer \in {NoRelease, Bootstrap}
  /\ journal = NoJournal
  /\ up = TRUE
  /\ builds = {}
  /\ sync = Free

-----------------------------------------------------------------------------
(* The actors around a publication.                                        *)

EditHeads ==
  /\ \/ Serving /\ \E s \in Sources : DraftArticle(s)
     \/ Serving /\ \E h \in Heads : ChangeSlug(h) \/ \E s \in HeadStates : Review(h, s)
     \/ \E d \in Derived : Translate(d)
  /\ UNCHANGED <<site, up, builds, sync>>

\* Mutant: an open publication does not block the consent tool.
ConsentAlwaysFree == TRUE

ConsentFree == ~Open

\* The consent tool: consent:activate replaces the bundle the next publication
\* will seal.
ConsentTool(b) ==
  /\ SeedBundle(b) \/ (ConsentFree /\ ActivateBundle(b))
  /\ UNCHANGED <<head, release, dir, outbox, pointer, journal, up, builds, sync>>

\* The IndexNow worker has sent a notice, or given it up.
SettleOutbox(r) ==
  /\ outbox[r] = "live"
  /\ outbox' = [outbox EXCEPT ![r] = "settled"]
  /\ UNCHANGED <<head, bundle, release, dir, pointer, journal, up, builds, sync>>

-----------------------------------------------------------------------------
(* Publishing.                                                             *)

(***************************************************************************)
(* A publish captures everything published, everything approved and the    *)
(* active consent bundle, and goes away to build it.                       *)
(***************************************************************************)
StartPublish ==
  /\ Serving
  /\ Cardinality(builds) < MaxBuilds
  /\ BaseConsistent
  /\ \A h \in Heads : InState(h, Confirmed) => Documentable(h)
  /\ \E b \in Bundles :
       /\ InForce(b)
       /\ builds' = builds \cup {Captured(b, Active, Generation(Active))}
  /\ UNCHANGED <<head, site, up, sync>>

\* Mutant: the base release is not looked at again.
BaseIgnored(snap) == TRUE

BaseUnchanged(snap) ==
  /\ snap.base = Active
  /\ snap.gen = Generation(Active)

PromotionsUnchanged(snap) ==
  \A p \in snap.promotions :
    /\ InState(p.head, {"approved"})
    /\ head[p.head].rev = p.rev
    /\ head[p.head].version = p.version

\* The build is done and what it was made from has not changed: the release,
\* its entries and the open activation are written in one transaction.
InsertPreparedRelease(snap, r) ==
  /\ Serving
  /\ release[r].state = "absent" /\ r = NextName
  /\ Sealed(snap.base)
  /\ BaseUnchanged(snap) /\ PromotionsUnchanged(snap)
  /\ InForce(snap.bundle)
  /\ ~Open
  /\ LastOrder < MaxActivations
  /\ \E s \in Prepared(snap) :
       dir' = [dir EXCEPT ![r] = [state |-> "sealed", site |-> s]]
  /\ release' = [release EXCEPT ![r] =
       [state |-> "building", gen |-> 0, order |-> 0,
        entries |-> snap.entries, bundle |-> snap.bundle]]
  /\ journal' = [state |-> "prepared", op |-> "publish", target |-> r,
                 previous |-> Active, path |-> IF Active = NoRelease THEN pointer ELSE Active]
  /\ builds' = builds \ {snap}
  /\ sync' = [Free EXCEPT !.stage = "journaled"]
  /\ UNCHANGED <<head, bundle, outbox, pointer, up>>

\* The build fails, a check of the prepared release does, or the database is
\* busy: the request ends and its files are removed.
AbandonBuild(snap) ==
  /\ Serving
  /\ builds' = builds \ {snap}
  /\ UNCHANGED <<head, site, up, sync>>

\* A rollback journals the return to a retired release.
Rollback(r) ==
  /\ Serving
  /\ release[r].state = "retired" /\ Sealed(r)
  /\ Active # NoRelease /\ BaseConsistent
  /\ ~Open
  /\ LastOrder < MaxActivations
  /\ journal' = [state |-> "prepared", op |-> "rollback", target |-> r,
                 previous |-> Active, path |-> Active]
  /\ sync' = [Free EXCEPT !.stage = "journaled"]
  /\ UNCHANGED <<head, bundle, release, dir, outbox, pointer, up, builds>>

SwitchCurrent ==
  /\ sync.stage = "journaled"
  /\ pointer' = journal.target
  /\ sync' = [sync EXCEPT !.stage = "linked"]
  /\ UNCHANGED <<head, bundle, release, dir, outbox, journal, up, builds>>

MarkActivationSwitched ==
  /\ sync.stage = "linked"
  /\ journal' = [journal EXCEPT !.state = "switched"]
  /\ sync' = [sync EXCEPT !.stage = "marked"]
  /\ UNCHANGED <<head, bundle, release, dir, outbox, pointer, up, builds>>

\* The link cannot be switched, or the database is busy: the request fails
\* with its activation still open.
PublishFails ==
  /\ sync.stage \in {"journaled", "linked", "marked"}
  /\ sync' = Free
  /\ UNCHANGED <<head, site, up, builds>>

-----------------------------------------------------------------------------
(* Committing an activation.                                               *)

\* Both releases verify, nothing else became active, and a publish still
\* carries the consent bundle that is active.
CommitReady ==
  LET j == journal IN
  /\ Open /\ pointer = j.target
  /\ Sealed(j.target) /\ Sealed(j.previous)
  /\ Active = j.previous
  /\ j.op = "publish" => InForce(release[j.target].bundle)

\* Mutant: a rollback leaves the release it replaces active.
SupersededByPublish(r) == release[r].state = "active" /\ journal.op = "publish"

Superseded(r) == release[r].state = "active"

CommitActivation ==
  LET t == journal.target IN
  /\ CommitReady
  /\ release' = [r \in Releases |->
       IF r = t /\ release[r].state \in {"building", "retired"}
       THEN [release[r] EXCEPT !.state = "active", !.gen = @ + 1, !.order = LastOrder + 1]
       ELSE IF Superseded(r) THEN [release[r] EXCEPT !.state = "retired"]
       ELSE release[r]]
  /\ head' = ApplyReleaseHeads(release[t].entries)
  /\ outbox' = [outbox EXCEPT ![t] = "live"]
  /\ journal' = NoJournal
  /\ UNCHANGED <<bundle, dir, pointer>>

FinishPublish ==
  /\ sync.stage = "marked"
  /\ CommitActivation
  /\ sync' = [sync EXCEPT !.stage = "committed"]
  /\ UNCHANGED <<up, builds>>

-----------------------------------------------------------------------------
(* Pruning, at the end of a publish or rollback.                           *)

Newer(r, s) == release[r].order > release[s].order
Verified == {r \in InRelease({"retired"}) : Sealed(r)}

\* Mutant: one release too few is kept.
KeptFew == {r \in Verified : Cardinality({s \in Verified : Newer(s, r)}) + 1 < Keepers}

Kept == {r \in Verified : Cardinality({s \in Verified : Newer(s, r)}) < Keepers}

\* Retired releases that do not verify are given up, the newest others kept.
PruneScan ==
  /\ sync.stage = "committed"
  /\ release' = [r \in Releases |->
       IF r \in InRelease({"retired"}) \ Verified
       THEN [release[r] EXCEPT !.state = "failed"] ELSE release[r]]
  /\ sync' = [stage |-> "scanned", todo |-> Verified \ Kept]
  /\ UNCHANGED <<head, bundle, dir, outbox, pointer, journal, up, builds>>

\* Mutant: a release is pruned although its IndexNow notice is outstanding.
ReferencedByJournal(r) == Open /\ r \in {journal.target, journal.previous}

Referenced(r) ==
  (Open /\ r \in {journal.target, journal.previous}) \/ outbox[r] = "live"

\* The next candidate's directory is moved aside, unless it is referenced.
PruneNext(r) ==
  /\ sync.stage = "scanned"
  /\ r \in sync.todo
  /\ \A s \in sync.todo \ {r} : Newer(r, s)
  /\ \/ /\ Referenced(r)
        /\ sync' = [sync EXCEPT !.todo = @ \ {r}]
        /\ UNCHANGED dir
     \/ /\ ~Referenced(r) /\ pointer # r
        /\ dir' = [dir EXCEPT ![r].state = "moved"]
        /\ sync' = [sync EXCEPT !.stage = "moved"]
  /\ UNCHANGED <<head, bundle, release, outbox, pointer, journal, up, builds>>

\* The pruned release is recorded, then removed; a transaction that fails
\* moves the directory back. A failure here ends the pruning.
PruneRecord(r) ==
  /\ sync.stage = "moved"
  /\ r \in sync.todo /\ dir[r].state = "moved"
  /\ \/ /\ ~Referenced(r)
        /\ release' = [release EXCEPT ![r].state = "failed"]
        /\ dir' = [dir EXCEPT ![r] = NoDirectory]
        /\ sync' \in {Free, [stage |-> "scanned", todo |-> sync.todo \ {r}]}
     \/ /\ Referenced(r)
        /\ dir' = [dir EXCEPT ![r].state = "sealed"]
        /\ sync' = [stage |-> "scanned", todo |-> sync.todo \ {r}]
        /\ UNCHANGED release
     \/ /\ dir' = [dir EXCEPT ![r].state = "sealed"]
        /\ sync' = Free
        /\ UNCHANGED release
  /\ UNCHANGED <<head, bundle, outbox, pointer, journal, up, builds>>

\* No candidate is left, or a file or the database refuses one: the request
\* ends, its activation committed all the same.
PruneEnds ==
  /\ sync.stage \in {"committed", "scanned"}
  /\ sync' = Free
  /\ UNCHANGED <<head, site, up, builds>>

-----------------------------------------------------------------------------
(* Death and start of the server.                                          *)

Crash ==
  /\ up
  /\ up' = FALSE
  /\ builds' = {}
  /\ sync' = Free
  /\ UNCHANGED <<head, site>>

(***************************************************************************)
(* The server settles an open activation before it serves: it commits one  *)
(* whose link was switched and drops one whose link was not. A start that  *)
(* finds anything else throws, and launchd tries again.                    *)
(***************************************************************************)
RestartConsistent ==
  /\ ~Open /\ BaseConsistent
  /\ UNCHANGED <<head, site>>

\* Mutant: an activation is dropped although its link was switched.
DroppableAlways == Open

Droppable == Open /\ pointer # journal.target /\ pointer = journal.path

RestartReverts ==
  /\ Droppable
  /\ journal' = NoJournal
  /\ release' = [release EXCEPT ![journal.target].state =
                   IF @ = "building" THEN "failed" ELSE @]
  /\ UNCHANGED <<head, bundle, dir, outbox, pointer>>

Restart ==
  /\ ~up
  /\ RestartConsistent \/ CommitActivation \/ RestartReverts
  /\ up' = TRUE
  /\ UNCHANGED <<builds, sync>>

Next ==
  \/ EditHeads
  \/ \E b \in Bundles : ConsentTool(b)
  \/ \E r \in Releases : SettleOutbox(r) \/ Rollback(r) \/ PruneNext(r) \/ PruneRecord(r)
  \/ StartPublish
  \/ \E snap \in builds :
       AbandonBuild(snap) \/ \E r \in Releases : InsertPreparedRelease(snap, r)
  \/ SwitchCurrent \/ MarkActivationSwitched \/ PublishFails \/ FinishPublish
  \/ PruneScan \/ PruneEnds
  \/ Crash \/ Restart

Spec == Init /\ [][Next]_vars

\* launchd starts the server again for as long as it is down.
FairSpec == Spec /\ WF_vars(Restart)

-----------------------------------------------------------------------------
(* Properties.                                                             *)

\* The link never points where neither the database nor the journal says:
\* wherever the server died, a start finds a state it knows how to settle.
PointerExplained ==
  IF Open THEN pointer \in {journal.target, journal.path} ELSE Unpublished \/ pointer = Active

\* An open activation stays committable until it is settled: nothing that
\* other requests, pruning or the consent tool do meanwhile makes the commit
\* refuse it, so that a switched link is never stranded.
JournalReplayable ==
  Open =>
    /\ Sealed(journal.target) /\ Sealed(journal.previous)
    /\ Active = journal.previous
    /\ release[journal.target].state \in {"building", "retired"}
    /\ journal.op = "publish" => InForce(release[journal.target].bundle)

\* Outside an activation the workflow and the site agree: the published
\* heads are, revision by revision, the articles whose pages the link serves,
\* and those that a page links to.
PublishedHeadsServed ==
  LET published == {h \in Heads : InState(h, {"published"})}
      served == IF pointer \in Releases THEN dir[pointer].site ELSE NoSite
  IN ~Open => /\ served.pages = {[head |-> h, rev |-> head[h].rev] : h \in published}
              /\ served.linked = published

\* Pruning takes nothing anybody needs: not the release the link points at,
\* not one an activation refers to, not one whose notice is outstanding.
NothingNeededPruned ==
  \A r \in Releases : ~OnDisk(r) /\ release[r].gen > 0 =>
    /\ pointer # r /\ Active # r
    /\ Open => r \notin {journal.target, journal.previous}
    /\ outbox[r] # "live"

\* There is always a release to fall back to: of the releases ever active,
\* the active one and Keepers retired ones remain on disk and in the books.
RollbackTargetsRemain ==
  LET ever == {r \in Releases : release[r].gen > 0}
      usable == {r \in InRelease({"active", "retired"}) : OnDisk(r)}
  IN Cardinality(usable \cap ever) >=
       IF Cardinality(ever) <= Keepers THEN Cardinality(ever) ELSE Keepers + 1

\* A publish adds to the site and takes nothing away, however long its build
\* ran and whatever was published meanwhile: only a rollback retires a head.
PublishKeepsHeads ==
  [][journal.op = "publish" =>
       \A h \in Heads : InState(h, {"published"}) => head'[h].state = "published"]_vars

\* A server that died comes back, with no activation left open.
RestartRecovers == ~up ~> (up /\ ~Open)

\* The error page of a failed publish and of a failed rollback: the verified
\* public release pointer remains unchanged.
FailureKeepsPointer ==
  [][sync.stage # "free" /\ sync'.stage = "free" /\ up' /\ Open'
       => pointer' = journal'.path]_vars

=============================================================================
