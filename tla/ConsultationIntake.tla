------------------------- MODULE ConsultationIntake -------------------------
(***************************************************************************)
(* The way of a consultation from the form on the public site into the     *)
(* database. The form loads the consent documents of the active release    *)
(* and a token that binds them; the visitor submits, perhaps again and     *)
(* again, because answers get lost; the control server takes the           *)
(* submission in, in one transaction, if the documents are still those of  *)
(* the release that serves. Publications, rollbacks and the purge of       *)
(* expired records run at any time between.                                *)
(*                                                                         *)
(* The server looks the active release up through a cache, valid only for  *)
(* the activation it was verified under. Contents are a matter of the      *)
(* form's edition; one subject stands for the address, phone and mail of   *)
(* a visitor, one window for the two that are counted. The intake's effect *)
(* on the notification queue is NotificationOutbox's AcceptConsultation.   *)
(***************************************************************************)
EXTENDS Integers, FiniteSets

CONSTANTS
  Visitors,        \* visitors, each with a form open
  Bundles,         \* consent bundles
  NoBundle,        \* none of them
  Editions,        \* contents a visitor may enter
  FillTime,        \* MINIMUM_FILL_MS: a form is not filled faster
  TokenAge,        \* MAXIMUM_AGE_MS of a form token (2 h)
  KeyLife,         \* IDEMPOTENCY_TTL_MS (24 h)
  Window,          \* length of a rate limit window
  Grace,           \* EXPIRY_GRACE_MS of a bucket
  Limit,           \* threshold of a window
  MaxTime,         \* bound: the clock
  MaxKeys,         \* bound: bodies submitted by all visitors
  MaxTries,        \* bound: submissions of one body
  MaxActivations   \* bound: publications and rollbacks

\* A token never outlives the key of the submission it came with.
ASSUME IntakeAssumption ==
  /\ FillTime \in Nat /\ TokenAge \in Nat /\ KeyLife \in Nat
  /\ TokenAge <= KeyLife
  /\ Window \in Nat \ {0} /\ Grace \in Nat /\ Limit \in Nat \ {0}
  /\ NoBundle \notin Bundles
  /\ Visitors # {} /\ Editions # {}
  /\ {MaxTime, MaxKeys, MaxTries, MaxActivations} \subseteq Nat

VARIABLES
  now,      \* the clock
  site,     \* the active release, as the journal and the link show it
  cache,    \* the verified consent authority the server remembers
  form,     \* the forms in the visitors' browsers
  keys,     \* idempotency keys given out so far
  net,      \* submissions on their way; a lost one stays there
  idem,     \* idempotency_keys
  bucket,   \* abuse_buckets
  taken     \* consultations

server == <<idem, bucket, taken>>
vars == <<now, site, cache, form, keys, net, server>>

Keys == 1..MaxKeys
Times == 0..MaxTime

\* The serial is the activation generation; 0 is a server without release.
Site == [serial : 0..MaxActivations, bundle : Bundles \cup {NoBundle}, open : BOOLEAN]
Authority == [serial : 0..MaxActivations, bundle : Bundles \cup {NoBundle}]
Body == [visitor : Visitors, bundle : Bundles \cup {NoBundle}, issued : Times,
         edition : Editions]
Form == [stage : {"closed", "ready", "waiting"}, body : Body,
         key : 0..MaxKeys, sent : Body, try : 0..MaxTries, receipt : 0..MaxKeys]
Submission == [key : Keys, body : Body, try : 1..MaxTries]
Key == [live : BOOLEAN, body : Body, at : Times]
Consultation == [key : Keys, body : Body, at : Times,
                 recorded : Bundles, serving : Site]

BlankBody(v) == [visitor |-> v, bundle |-> NoBundle, issued |-> 0,
                 edition |-> CHOOSE e \in Editions : TRUE]
ClosedForm(v) == [stage |-> "closed", body |-> BlankBody(v), key |-> 0,
                  sent |-> BlankBody(v), try |-> 0, receipt |-> 0]
NoAuthority == [serial |-> 0, bundle |-> NoBundle]

Start(t) == (t \div Window) * Window

\* The schema of the tables, and one bucket per subject and window.
TypeOK ==
  /\ now \in Times
  /\ site \in Site
  /\ cache \in Authority
  /\ form \in [Visitors -> Form]
  /\ keys \in 0..MaxKeys
  /\ net \subseteq Submission
  /\ idem \in [Keys -> Key]
  /\ bucket \in [Visitors \X {Start(t) : t \in Times} -> Nat]
  /\ taken \subseteq Consultation

Init ==
  /\ now = 0
  /\ site = [serial |-> 0, bundle |-> NoBundle, open |-> FALSE]
  /\ cache = NoAuthority
  /\ form = [v \in Visitors |-> ClosedForm(v)]
  /\ keys = 0
  /\ net = {}
  /\ idem = [k \in Keys |-> [live |-> FALSE, at |-> 0,
                             body |-> BlankBody(CHOOSE v \in Visitors : TRUE)]]
  /\ bucket = [s \in Visitors \X {Start(t) : t \in Times} |-> 0]
  /\ taken = {}

Tick ==
  /\ now < MaxTime
  /\ now' = now + 1
  /\ UNCHANGED <<site, cache, form, keys, net, server>>

-----------------------------------------------------------------------------
(* The consent authority.                                                  *)

OpenActivation ==
  /\ ~site.open /\ site.serial < MaxActivations
  /\ site' = [site EXCEPT !.open = TRUE]
  /\ UNCHANGED <<now, cache, form, keys, net, server>>

\* The activation is committed, with the bundle sealed into its release, or
\* taken back.
SettleActivation ==
  /\ site.open
  /\ \/ \E b \in Bundles : site' = [serial |-> site.serial + 1, bundle |-> b, open |-> FALSE]
     \/ site' = [site EXCEPT !.open = FALSE]
  /\ UNCHANGED <<now, cache, form, keys, net, server>>

\* Mutant: what was verified once is good for ever.
CacheTrusted == cache.serial # 0

CacheValid == ~site.open /\ cache.serial = site.serial /\ cache.serial # 0

Resolved == IF CacheValid THEN cache ELSE NoAuthority

Verified == [serial |-> site.serial, bundle |-> site.bundle]

\* The release is verified in full, in the background or by the timer; what
\* cannot be verified is forgotten.
RefreshAuthority ==
  /\ ~site.open /\ site.serial # 0
  /\ cache' = Verified
  /\ UNCHANGED <<now, site, form, keys, net, server>>

RefreshFails ==
  /\ cache' = NoAuthority
  /\ UNCHANGED <<now, site, form, keys, net, server>>

-----------------------------------------------------------------------------
(* The form.                                                               *)

\* The consent documents arrive with a form token. The page keeps them until
\* they are loaded again.
LoadConsent(v) ==
  /\ form[v].stage # "waiting"
  /\ CacheValid
  /\ form' = [form EXCEPT ![v].stage = "ready",
                          ![v].body.bundle = cache.bundle, ![v].body.issued = now]
  /\ UNCHANGED <<now, site, cache, keys, net, server>>

Edit(v) ==
  /\ form[v].stage = "ready"
  /\ \E e \in Editions \ {form[v].body.edition} :
       form' = [form EXCEPT ![v].body.edition = e]
  /\ UNCHANGED <<now, site, cache, keys, net, server>>

\* The key of a body that is submitted again is the same.
Resubmitted(v) == form[v].key # 0 /\ form[v].sent = form[v].body

Submit(v) ==
  LET again == Resubmitted(v)
      key == IF again THEN form[v].key ELSE keys + 1
      try == IF again THEN form[v].try + 1 ELSE 1
  IN
  /\ form[v].stage = "ready"
  /\ key <= MaxKeys /\ try <= MaxTries
  /\ net' = net \cup {[key |-> key, body |-> form[v].body, try |-> try]}
  /\ form' = [form EXCEPT ![v].stage = "waiting", ![v].key = key, ![v].try = try,
                          ![v].sent = form[v].body, ![v].receipt = 0]
  /\ keys' = IF again THEN keys ELSE key
  /\ UNCHANGED <<now, site, cache, server>>

\* Ten seconds without an answer; the submission may still be on its way.
TimeOut(v) ==
  /\ form[v].stage = "waiting"
  /\ form' = [form EXCEPT ![v].stage = "ready"]
  /\ UNCHANGED <<now, site, cache, keys, net, server>>

-----------------------------------------------------------------------------
(* The server.                                                             *)

\* The answer reaches the page if it still waits for it. It shows the receipt,
\* loads stale documents again, or lets the visitor try once more.
Answer(q, stage, receipt) ==
  LET v == q.body.visitor IN
  /\ \/ form' = form
     \/ /\ form[v].stage = "waiting" /\ form[v].key = q.key /\ form[v].try = q.try
        /\ form' = [form EXCEPT ![v].stage = stage, ![v].receipt = receipt]
  /\ net' = net \ {q}
  /\ UNCHANGED <<now, site, keys>>

KeyLive(k) == idem[k].live /\ idem[k].at + KeyLife > now

\* A submission taken in before is answered with its receipt. (The page
\* never sends one key with two bodies; that would be a conflict.)
Replay(q) ==
  /\ q \in net /\ KeyLive(q.key)
  /\ idem[q.key].body = q.body
  /\ Answer(q, "ready", q.key)
  /\ UNCHANGED <<cache, server>>

\* Mutant: the age of a token is not bounded.
TokenGoodForever(b) == now - b.issued >= FillTime

TokenGood(b) == now - b.issued >= FillTime /\ now - b.issued < TokenAge

DocumentsCurrent(b) == b.bundle = Resolved.bundle

\* What is looked at before anything is counted or written.
Admissible(q) ==
  /\ Resolved # NoAuthority
  /\ TokenGood(q.body)
  /\ DocumentsCurrent(q.body)

Refuse(q) ==
  /\ q \in net /\ ~KeyLive(q.key)
  /\ ~Admissible(q)
  /\ cache' = Resolved
  /\ Answer(q, IF Resolved # NoAuthority /\ TokenGood(q.body) THEN "closed" ELSE "ready", 0)
  /\ UNCHANGED server

Subject(q) == <<q.body.visitor, Start(now)>>
Counted(q) == [bucket EXCEPT ![Subject(q)] = @ + 1]

WithinLimit(n) == n <= Limit

\* A refusal for the rate is counted as well.
RateLimit(q) ==
  /\ q \in net /\ ~KeyLive(q.key) /\ Admissible(q)
  /\ bucket' = Counted(q)
  /\ ~WithinLimit(bucket'[Subject(q)])
  /\ idem' = [idem EXCEPT ![q.key].live = FALSE]
  /\ Answer(q, "ready", 0)
  /\ UNCHANGED <<cache, taken>>

\* One transaction: the counts, the consultation, its consents under the
\* documents of the authority, and the key for its retries.
Accept(q) ==
  /\ q \in net /\ ~KeyLive(q.key) /\ Admissible(q)
  /\ bucket' = Counted(q)
  /\ WithinLimit(bucket'[Subject(q)])
  /\ taken' = taken \cup {[key |-> q.key, body |-> q.body, at |-> now,
                           recorded |-> Resolved.bundle, serving |-> site]}
  /\ idem' = [idem EXCEPT ![q.key] = [live |-> TRUE, body |-> q.body, at |-> now]]
  /\ Answer(q, "ready", q.key)
  /\ UNCHANGED cache

\* Mutant: a bucket is dropped as soon as its window began.
BucketExpiredEarly(s) == s + Grace <= now

BucketExpired(s) == s + Window + Grace <= now

\* The retention job deletes what has expired.
PurgeExpiredRecords ==
  /\ idem' = [k \in Keys |-> [idem[k] EXCEPT !.live = KeyLive(k)]]
  /\ bucket' = [s \in DOMAIN bucket |-> IF BucketExpired(s[2]) THEN 0 ELSE bucket[s]]
  /\ <<idem, bucket>>' # <<idem, bucket>>
  /\ UNCHANGED <<now, site, cache, form, keys, net, taken>>

-----------------------------------------------------------------------------
Next ==
  \/ Tick \/ OpenActivation \/ SettleActivation \/ RefreshAuthority \/ RefreshFails
  \/ \E v \in Visitors : LoadConsent(v) \/ Edit(v) \/ Submit(v) \/ TimeOut(v)
  \/ \E q \in net : Replay(q) \/ Refuse(q) \/ RateLimit(q) \/ Accept(q)
  \/ PurgeExpiredRecords

Spec == Init /\ [][Next]_vars

-----------------------------------------------------------------------------
(* Properties.                                                             *)

\* However often a visitor presses the button, and whichever answers get lost
\* or come late: an unchanged submission becomes one consultation, even after
\* its key has expired, and a receipt on the page is of that consultation.
RetriesAreOne ==
  /\ \A c, d \in taken : c.key = d.key => c = d
  /\ \A v \in Visitors : form[v].receipt # 0 =>
       \E c \in taken : c.key = form[v].receipt /\ c.body = form[v].sent

\* What is on record as consented to is what the visitor was shown, and what
\* the release that served at that moment said; nothing is taken in while a
\* publication is open.
ConsentAsShown ==
  \A c \in taken :
    /\ c.recorded = c.body.bundle
    /\ c.recorded = c.serving.bundle
    /\ ~c.serving.open

\* Whatever is purged and refused between: a visitor gets no more than the
\* limit in within one window, so no more than twice that in any stretch of
\* time as long.
FloodBounded ==
  \A v \in Visitors, t \in Times :
    LET within(first) == {c \in taken : /\ c.body.visitor = v
                                        /\ c.at \in first..(first + Window - 1)}
    IN  /\ Cardinality(within(Start(t))) <= Limit
        /\ Cardinality(within(t)) <= 2 * Limit

=============================================================================
