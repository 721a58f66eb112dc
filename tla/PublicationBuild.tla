-------------------------- MODULE PublicationBuild --------------------------
(***************************************************************************)
(* What a publication is made from, and what is checked of the result. The *)
(* consent documents come in bundles of all kinds and languages, seeded as *)
(* drafts from the command line and activated there, one at a time. A      *)
(* publish captures what is published, what is approved and the active     *)
(* bundle in one transaction and writes them to files; the site generator, *)
(* a process of its own that runs for minutes, reads these and builds the  *)
(* pages; and what it built is verified against the snapshot before it is  *)
(* sealed with a manifest of hashes.                                       *)
(*                                                                         *)
(* A page is the revision of a head it shows; article pages link to all    *)
(* languages of their article, themselves included. The generator is       *)
(* trusted with nothing: it may leave out any page, link or policy, and    *)
(* link to what is not there.                                              *)
(***************************************************************************)
EXTENDS ArticleHeads

CONSTANTS
  Bundles,      \* consent bundles
  NoBundle,     \* none of them
  Releases,     \* release ids
  NoRelease     \* no active release; the link absent or on the bootstrap

ASSUME NamesAssumption == NoBundle \notin Bundles /\ NoRelease \notin Releases

VARIABLE bundle    \* lifecycle of the consent bundles

Entry == [head : Heads, rev : Nat]
Promotion == [head : Heads, rev : Nat, version : Nat]
Snapshot == [base : Releases \cup {NoRelease}, gen : Nat, entries : SUBSET Entry,
             promotions : SUBSET Promotion, bundle : Bundles]

\* A site: its article pages, the heads these link to, and the bundle its
\* policy pages show.
Site == [pages : SUBSET Entry, linked : SUBSET Heads, bundle : Bundles \cup {NoBundle}]

NoSite == [pages |-> {}, linked |-> {}, bundle |-> NoBundle]

-----------------------------------------------------------------------------
(* Consent bundles.                                                        *)

BundleStates == {"absent", "draft", "active", "retired"}

\* The documents of a bundle only ever move on.
MayBecome(old, new) ==
  \/ new = old
  \/ <<old, new>> \in {<<"absent", "draft">>, <<"draft", "active">>, <<"active", "retired">>}

BecomesOf(b, c) ==
  IF c = b THEN "active" ELSE IF bundle[c] = "active" THEN "retired" ELSE bundle[c]

\* Which of the unseeded names a new bundle takes makes no difference.
NextBundle == CHOOSE b \in Bundles : bundle[b] = "absent"

\* A bundle is seeded whole, once: the same again changes nothing, and
\* another content under its name is refused.
SeedBundle(b) ==
  /\ bundle[b] = "absent" /\ b = NextBundle
  /\ bundle' = [bundle EXCEPT ![b] = "draft"]

\* The bundle the visitors of the next release shall agree to.
InForce(b) == bundle[b] = "active"

\* A draft takes the place of the active bundle.
ActivateBundle(b) ==
  /\ bundle[b] = "draft"
  /\ \A c \in Bundles : MayBecome(bundle[c], BecomesOf(b, c))
  /\ bundle' = [c \in Bundles |-> BecomesOf(b, c)]

-----------------------------------------------------------------------------
(* The snapshot and its files.                                             *)

\* A translation is shown beside the confirmed source it was made from only.
Documentable(h) == h \in Derived => InState(SourceOf[h], Confirmed)

ApprovedPromotions ==
  {[head |-> h, rev |-> head[h].rev, version |-> head[h].version] :
     h \in {g \in Heads : InState(g, {"approved"})}}

Captured(b, base, gen) ==
  [base |-> base, gen |-> gen, bundle |-> b, promotions |-> ApprovedPromotions,
   entries |-> {[head |-> h, rev |-> head[h].rev] : h \in {g \in Heads : InState(g, Confirmed)}}]

Written(snap) ==
  [manifest |-> snap.entries, documents |-> snap.entries, bundle |-> snap.bundle]

\* The generator finds every document the manifest names, as it names it,
\* and no other.
Reads(files, entry) == entry \in files.documents
Loads(files) ==
  files.documents \subseteq files.manifest /\ \A e \in files.manifest : Reads(files, e)

-----------------------------------------------------------------------------
(* The build.                                                              *)

\* The generator is killed at its time limit, and any failure is the build's.
SitesBuilt(files) ==
  IF Loads(files)
  THEN [pages : SUBSET files.documents, linked : SUBSET Heads, bundle : {files.bundle, NoBundle}]
  ELSE {}

HeadsOf(E) == {e.head : e \in E}

\* Mutant: a language that no page links to is not noticed.
ArticlesUnlinked(site, snap) ==
  snap.entries \subseteq site.pages /\ site.linked \subseteq HeadsOf(snap.entries)

\* Every document of the snapshot has its page, and the pages link to the
\* languages there are, no more and no fewer.
ArticlesVerified(site, snap) ==
  snap.entries \subseteq site.pages /\ HeadsOf(snap.entries) = site.linked

\* The policy pages show the bundle of the snapshot.
PoliciesVerified(site, snap) == site.bundle = snap.bundle

LinksResolve(site) == site.linked \subseteq HeadsOf(site.pages)

\* The sites a build of a snapshot may leave sealed.
Prepared(snap) ==
  {site \in SitesBuilt(Written(snap)) :
     ArticlesVerified(site, snap) /\ PoliciesVerified(site, snap) /\ LinksResolve(site)}

=============================================================================
