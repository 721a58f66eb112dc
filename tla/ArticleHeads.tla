---------------------------- MODULE ArticleHeads ----------------------------
(***************************************************************************)
(* The locale heads of the articles: which revision each language version  *)
(* of an article shows, and its place in the review workflow. A source     *)
(* head is created by the Hermes intake with the only revision a source    *)
(* ever gets; a derived head is created, or replaced once it was rejected, *)
(* by the translation worker. PublicationRelease adds the steps that       *)
(* publish heads and take them back.                                       *)
(***************************************************************************)
EXTENDS Naturals

CONSTANTS
  Sources,      \* heads in their article's source locale
  Derived,      \* heads in the other locales
  SourceOf,     \* source head of a derived head
  MaxVersion    \* bound: row_version reached by reviews and translations

Heads == Sources \cup Derived

ASSUME HeadAssumption ==
  /\ Sources \cap Derived = {}
  /\ SourceOf \in [Derived -> Sources]
  /\ MaxVersion \in Nat

VARIABLE head   \* article_locale_heads

HeadStates == {"absent", "draft", "in_review", "approved", "published", "rejected"}

LocaleHead == [state : HeadStates, rev : Nat, version : Nat]

HeadsTypeOK == head \in [Heads -> LocaleHead]

HeadsInit ==
  head = [h \in Heads |-> [state |-> "absent", rev |-> 0, version |-> 0]]

InState(h, S) == head[h].state \in S
Confirmed == {"approved", "published"}
DerivedFrom(s) == {d \in Derived : SourceOf[d] = s}

Moved(q, s) == [q EXCEPT !.state = s, !.version = @ + 1]
\* A revision is numbered by the row version it came with: ids are never reused.
NewRevision(q, s) == [state |-> s, rev |-> q.version + 1, version |-> q.version + 1]

\* Hermes hands in an article: a draft in the source locale.
DraftArticle(s) ==
  /\ InState(s, {"absent"})
  /\ head' = [head EXCEPT ![s] = NewRevision(@, "draft")]

ReviewTargets(s) ==
  CASE s = "draft" -> {"in_review", "rejected"}
    [] s = "in_review" -> {"draft", "approved", "rejected"}
    [] s = "approved" -> {"in_review"}
    [] OTHER -> {}

\* Mutant: approved derivatives of a revoked source stay approved.
DemotedNone(s) == {}

Demoted(s) == {d \in DerivedFrom(s) : InState(d, {"approved"})}

(***************************************************************************)
(* An administrator reviews a head with the row version on the page; a     *)
(* stale version, or a transition not offered, changes nothing. A derived  *)
(* head is approved against a confirmed source only, and a source whose    *)
(* approval is revoked takes the approvals of its derivatives with it.     *)
(***************************************************************************)
Review(h, s) ==
  LET revoking == h \in Sources /\ InState(h, {"approved"}) IN
  /\ head[h].version < MaxVersion
  /\ s \in ReviewTargets(head[h].state)
  /\ s = "approved" /\ h \in Derived => InState(SourceOf[h], Confirmed)
  /\ revoking => \A d \in DerivedFrom(h) : ~InState(d, {"published"})
  /\ head' = [g \in Heads |->
       IF g = h THEN Moved(head[h], s)
       ELSE IF revoking /\ g \in Demoted(h) THEN Moved(head[g], "in_review")
       ELSE head[g]]

\* An administrator gives a head that is not approved yet another address,
\* one that no other article has in its language.
ChangeSlug(h) ==
  /\ head[h].version < MaxVersion
  /\ InState(h, {"draft", "in_review"})
  /\ head' = [head EXCEPT ![h] = Moved(@, head[h].state)]

\* The head a translation may give a new revision, and what it makes of it.
Replaceable(d) == InState(d, {"absent", "rejected"})
Translated(d) == [head EXCEPT ![d] = NewRevision(@, "in_review")]

\* The translation worker delivers a revision of a derived head.
Translate(d) ==
  /\ head[d].version < MaxVersion
  /\ InState(SourceOf[d], Confirmed)
  /\ Replaceable(d)
  /\ head' = Translated(d)

\* The heads show what the release contains, whatever they showed before;
\* a published head it does not contain is an approved one again.
ApplyReleaseHeads(E) ==
  [h \in Heads |->
    IF \E e \in E : e.head = h
    THEN LET e == CHOOSE e \in E : e.head = h IN
         IF InState(h, {"published"}) /\ head[h].rev = e.rev THEN head[h]
         ELSE [state |-> "published", rev |-> e.rev, version |-> head[h].version + 1]
    ELSE IF InState(h, {"published"}) THEN Moved(head[h], "approved")
    ELSE head[h]]

\* No translation is confirmed without its source: the languages of an
\* article are approved, published and taken back together, so that a later
\* publication never finds a translation of a source that is not.
TranslationsBound ==
  \A d \in Derived : InState(d, Confirmed) => InState(SourceOf[d], Confirmed)

=============================================================================
