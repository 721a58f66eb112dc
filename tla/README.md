# A verification project for wisdom_web_portal

TLA+ modules that model the parts of this repository in which several processes,
a database, a file system and the outside world have to agree, TLC
configurations that check them on small instances, and TLAPS proofs of what
matters most for every instance. Definitions keep the names of the source where
they can; `PROJECT.json` maps each of them to the lines it stands for.

## 1. The system

One Mac mini runs the portal under launchd. All state is one SQLite database
(WAL, `BEGIN IMMEDIATE` transactions, `busy_timeout` of 5 s) and a directory of
sealed releases with the symbolic link `public-current`. These processes share it:

| process | what it does |
| --- | --- |
| control server (`apps/control/src/server.ts`) | Hono application: consultation intake, withdrawal pages, admin pages, Hermes intake, publication |
| notification worker (`notifications/runner.ts`) | sends queued notifications by SMTP, SMS, Kakao and Telegram |
| content worker (`articles/content-lanes.ts`) | translates articles with an external tool; sends IndexNow notices |
| command line tools | migrations, consent bundles, retention purge, administrators |
| ops tools (`ops/`) | deploy, roll back, back up, restore, monitor |

### Components, their state, operations and hard behaviours

**Notification queue.** `notification_outbox` rows (`pending`, `processing`, `sent`,
`failed`, `cancelled`; a delivery cycle, an attempt count, a lease, an owner, the
mark `PROVIDER_HANDOFF_STARTED`) and the ledger `notification_delivery_attempts`.
Rows are added by the intake, by status changes and by test messages; a worker
claims one (after recovering expired leases), looks at the consultation, prepares,
looks again and hands it to the provider inside a transaction, and finalises. Purge
and withdrawal cancel rows from other processes; an administrator requeues failed
ones and switches channels. Hard: everything between two transactions of a worker
can be overtaken; a worker can die after the provider took the message; the row and
the ledger are updated by separate statements. Correct means: ledger and queue
agree, nobody is written to after the right to do so ended, outcomes are final,
attempts bound the hand-overs, and every notification settles.

**Articles.** `article_locale_heads` gives the revision and review state of each
language version. Hermes creates the source version, the translation worker the
derived ones, an administrator reviews with an optimistic `row_version`, and a
publication moves approved heads to `published` and back. Hard: translations depend
on a source that can lose its approval, and a rollback puts older revisions back
over newer ones. Correct means: no confirmed translation without its source.

**Publication.** `releases`, `release_entries`, `release_activations` (the journal),
`publication_outbox`, the directories and the link. A publish captures a snapshot,
awaits a build of minutes, then in one go without awaiting: checks that nothing
changed and journals, switches the link, marks, commits, prunes. A rollback does the
same without a build. A start of the server reconciles what the journal left open.
Hard: link and database cannot change together; a crash or a busy database may come
between any two steps; other requests and processes run during the build, other
processes also afterwards. Correct means: every crash can be settled, the workflow
shows what the site shows, no concurrent publish is lost, and pruning takes nothing
anybody needs.

**Translation jobs.** `article_translation_jobs` with one running job, a lease, a
heartbeat and a fencing token, and a worker that runs an external translator three
times per job. Hard: a job that outlives its lease, a heartbeat that races the commit,
an approval withdrawn and given again while the translator runs, a head of the queue
that cannot be claimed. Correct means: one result per job, no result of revoked work,
and every job ends.

**IndexNow outbox.** A row of addresses per release, claimed under a lease, posted,
retried, and rearmed by each activation of its release, also while it is being sent.
Correct means: sent means accepted as it is now, and what left the site is announced.

**Consent and intake.** Bundles of consent documents, of which one is active;
`consultations` with idempotency keys, rate-limit buckets and form tokens; a cached
authority that tells the intake which documents the active release shows. Hard: lost
answers and retries around expiries, the cache around a publication, windows. Correct
means: one consultation per submission, under the documents shown, within the limit.

**Withdrawal**: capability and landing tokens, consent events, shortened retention.
**Retention purge**: batches of expired consultations.

**Administrator authentication.** Password step (throttle admission, awaited key
derivation behind a gate of four, challenge), second factor (time step counter, recovery
codes, challenge used once), sessions (idle and absolute expiry, revocation), and the
command line, another process that resets the password or replaces the factor. Hard:
rows read before an await and used after it, admissions of logins that die, codes used
twice. Correct means: guesses are bounded, resets stand, factors are used once, and
every login is answered.

**Operations.** Two directory locks with an owner file and a guarded recovery; deploys
that copy, build, migrate, run a canary, switch a link and fall back; backups as
artifact and status pairs with retention; a restore that replaces the database and can
put the old one back; a monitor with incident fingerprints and a cooldown. Hard: each
command may fail or be killed at each step, releases and database have different locks,
the services are started by both. Correct means: one holder per lock, a link that names
a whole release, releases that fit the schema, nothing accepted lost, and failures heard.

**Left aside.** The Astro site and the prototypes (no shared state), the shared
schemas and Markdown rules (pure validation), cryptography (pure functions over
opaque bytes), providers' protocols, templates and runbooks.

How components interact: through rows of the database (publication → IndexNow
worker; intake, workflow → notification worker; purge, withdrawal → queue), through
the journal (publication ↔ consent tool: activation of a bundle is refused while a
publication is open), and through the link (publication → web server). Nothing calls
another process directly; a shared row, its state column and its fencing columns are
the whole protocol, which is what the models are about.

## 2. Modules

| module | models | extends |
| --- | --- | --- |
| `NotificationOutbox` | queue, ledger, workers and the transactions that race with them | |
| `NotificationDelivery` | the abstract courier the queue implements | |
| `NotificationTiming` | the queue with the time its workers may take | `NotificationOutbox` |
| `NotificationOutboxProofs` | theorems about the queue, its courier and its leases | `NotificationTiming` |
| `ArticleHeads` | heads, review, demotion, new drafts and translations | |
| `PublicationBuild` | consent bundles, snapshots, the generator and what is verified of its site | `ArticleHeads` |
| `PublicationRelease` | publish, rollback, prune, crash and reconciliation | `PublicationBuild` |
| `PublicationReleaseProofs` | theorems about the publication | `PublicationRelease` |
| `TranslationJobs` | jobs, claims, passes, commits; reviews and publications around them | `ArticleHeads` |
| `TranslationJobsProofs` | theorems about the jobs | `TranslationJobs` |
| `IndexNowOutbox` | notices, their workers, and the activations that rearm them | |
| `IndexNowOutboxProofs` | theorems about the notices | `IndexNowOutbox` |
| `ReleaseNotices` | what a publication may rely on about notices (abstract) | |
| `ConsultationIntake` | form, submissions, consent authority, limits and keys | |
| `ConsultationIntakeProofs` | theorems about the intake | `ConsultationIntake` |
| `AdminAuth` | logins, throttle, gate, factors, sessions, command line | |
| `AdminAuthProofs` | theorems about the way in | `AdminAuth` |
| `OperationLock` | commands and the two locks they take | |
| `PortalServices` | link, services and the schema of the database | `OperationLock` |
| `ReleaseOperations` | deploy and rollback | `PortalServices` |
| `DatabaseOperations` | backup and restore | `PortalServices` |
| `Operations` | all of these side by side | the two above |
| `OperationsProofs` | theorems about the operations | `Operations` |
| `Monitor` | runs of the monitor, incidents and their reports | |
| `MonitorProofs` | theorems about the monitor | `Monitor` |
| `MC...` | instances for TLC | |

### NotificationOutbox

One action per transaction or per stretch of a worker's cycle between two of them.
`row` is the table, `ledger` the attempts of each row, `job` the local variables of
each worker (`claim`, the stage it awaits in, the channels whose adapters it loaded at
the start of the cycle). `handed` counts calls of `deliver()` in the current cycle and
`linked` the consultations whose visitor holds a withdrawal link: both are what the
outside world has seen.

* Transactions are atomic and serialised, as `BEGIN IMMEDIATE` makes them. A caller
  reads the clock before it waits for the write lock, so a transaction works with any
  `Stamps` reading at most `LockWait` old.
* `Claim` contains the recovery of expired leases, which is part of the same
  transaction. `last_error_code` is abstracted to `mark`; it is overwritten by every step
  that leaves `processing`.
* `Handoff` is the transaction with the last look at the consultation, the mark and the
  call of `deliver()`. `HandoffUncommitted` is the same call with a failed COMMIT.
* Any finalisation may fail on a busy database; the row then waits for its lease to end.
* `Crash` may come wherever a claim is held. A restarted worker keeps its id in the
  model; in the code it gets a new one, which only makes a stale claim easier to tell.
* Test messages skip the looks at the consultation, as in the code, but purge cancels
  them; status notifications of purged consultations are inserted, as in the code, and
  cancelled by the worker.
* Left out: claims that fail on a busy database (they change nothing), the texts, the
  reasons of a cancellation, misconfiguration of the withdrawal links, the expiry of the
  links themselves.
* Time stops once every deadline (and every late reading of it) has passed: no
  comparison in the code changes after that.

### NotificationDelivery and NotificationTiming

The courier promises at most `MaxAttempts` sends between two requeues, no delivery
without a send, and no send once barred. `Courier` in `NotificationOutbox` maps the queue
to it; `ImplementsCourier` is the refinement.

`NotificationOutbox` lets a worker be arbitrarily slow. `NotificationTiming` adds
deadlines: provider time limits (90 s in the code, refused when not below the lease of
120 s) and waits for the lock (4 × 5 s at most). It assumes that a process is not
suspended; a suspended one is a slow worker of the other module.

### ArticleHeads, PublicationBuild and PublicationRelease

`head` holds state, revision and row version of a head. Source revisions are created by
Hermes only, once, so that the comparison of a translation's source revision with its
source head reduces to the source's state. A revision is numbered by the row version it
came with, which never repeats. `Translate` is the whole translation pipeline in one step;
`TranslationJobs` has its parts.

`PublicationBuild` has what a publish is made of and what is checked of the result. A site
is its pages, the heads these link to, and the bundle its policies show. The generator is
trusted with nothing: `SitesBuilt` lets it leave out any page, link or policy, and
`Prepared` are the sites that pass the verification.

`release`, `dir`, `outbox`, `pointer`, `bundle` and `journal` (the one incomplete activation)
survive a crash; `builds` (the snapshots of the requests that await their builds) and `sync`
(where the thread is in the part without awaits) do not. While `sync` is not `free` no
request is served, because the server is one thread; translations, notices and the consent
tool still run, because they are other processes.

* `StartPublish` captures; `InsertPreparedRelease` checks again and journals; then
  `SwitchCurrent`, `MarkActivationSwitched`, `FinishPublish` (= `CommitActivation`), pruning.
* `PublishFails` is any error after the journal row: the request ends, the row stays.
* `CommitActivation` is shared by requests and by `Restart`, as `commitActivation` is.
* Pruning is three steps per release: moved aside, recorded, removed.
* A release that "verifies" is one whose directory is in place with the consent bundle of
  its row (`Sealed`): hashes and manifests are assumed to detect what they are meant to.
* Before the first publication the link is absent or on the bootstrap site of the
  machine's set-up; the command that makes that site is run once, before (deployment.md:13).
* Two requests that captured the same snapshot are one member of `builds`: only one of
  them can succeed, because the other finds its base changed.
* Left out: PII scans, limits on the number of promotions and of addresses, the directory a
  crash can leave between the rename and the COMMIT of `insertPreparedRelease` (nothing
  refers to it), audit rows, the addresses of articles (`ChangeSlug` is the step of the row
  version that makes an open build stale).

### TranslationJobs

One action per transaction of `translation-jobs.ts` and per stretch of the worker's cycle.
A job is a derived head and its ordinal; `line` is the order of the queued ones, as pairs:
the claim's `ORDER BY available_at_ms`, where a job that is queued, or queued again, goes to
the end. `locked_by`
with `fencing_token` is the worker, which holds at most one claim. A heartbeat that finds
nothing to report is time alone: a lease of a worker that is alive and not fenced runs out
only by a lapse. The publications and rollbacks around the jobs are steps that change the
heads as `ApplyReleaseHeads` does. `revoked` is history: the approval under which a worker
began was withdrawn. Left out: the schema of the translator's output, and its sandbox.

`PromptHashed` is what the executor hashes as the prompt of a pass. `translations` takes
what the commit expects, so that the rest of the pipeline is exercised; the executor
does the other (see Findings).

### IndexNowOutbox and ReleaseNotices

`CommitActivation` writes or rearms the row of the release with its sitemap and the one it
replaces; `Claim` recovers expired leases and takes a row; `Accept` is the search engine's
step and `SendFails` everything else the request can end with, also after it was accepted;
`CompleteDelivery` and `FailDelivery` record under a live claim or are fenced. The delay before
a retry is abstracted: a row that may be tried again is claimed at any later moment.
`ReleaseNotices` is the promise `PublicationRelease` builds on (its `outbox` and `SettleOutbox`):
pruning reads the same `Live` that the worker's claim obeys. Both sides of it are shown to keep
to it (section 4). Fencing by `version` and
`taken` is history of the model only; the code fences by owner and token.

### ConsultationIntake

The form in the browser, the network, and the server. A submission is a key with a body; the
body contains the token, so that one sent again after the documents were loaded again is a
new submission. `Refuse`, `RateLimit`, `Accept` and `Replay` are the ends of
`createConsultation`, in its order of checks. The cached authority is valid for the activation
it was verified under, and none is while an activation is open; `site` is the publication as
the intake sees it. Versions of a consent document are unique per kind and language, so
that a bundle stands for its documents. Left out: encryption and key rotation, changes of the
language, the bucket per address of the consent read, the 30 s throttle of refreshes, and
the conflict of one key with two bodies, which the page never sends.

### AdminAuth

`Reserve`, `ReadAdmin`, the wait in `gate`, and `VerificationSucceeds` or `VerificationFails` are
`beginAdminLogin`, which takes its clock once; `CompleteMfa` and `MfaFails` are the second factor in
one transaction; sessions are used and ended; `ResetPassword` and `ReplaceMfa` are the command
line's. A password is its version. There is one owner, and one subject for username and
source. Left out: cookies, request-forgery tokens, digests, and functions no caller uses. No
code disables an administrator, so that nothing does here.

### Operations

A command is a process; what tells a lock's owner in the code (host, boot, pid, start time) is
whether that process still runs. `OperationLock` has the directory, the owner file and the
guarded recovery; `ReleaseOperations` and `DatabaseOperations` one action per step, each of which may
fail before or after it took effect; `PortalServices` what both do to the services.
Deploy and rollback hold another lock than backup and restore, so that all pairs of them
interleave.

* The fifteen minutes an unnamed lock must age are longer than a live command needs between
  directory and owner file, and one operator recovers at a time.
* Renames are durable when they return in order; what a loss of power undoes of an
  unsynced rename is not modelled. The failed sync after one is.
* `NothingLost` counts what restores put aside, and leaves out the window `exposed`: a release
  operation that starts the services while a restore is between its last look at them and
  its rename.
* Retired releases and hourly backups kept are scaled down (1 each). The clearing of expired
  records in a restore, the maintenance deployment of the runbook, and a restore to a
  place without a database are left out.

### Monitor

A run opens, reads and looks again at each source, at its own moment; then it is silent,
forgets the incident, or hands it over and remembers it. Ages stand for the clock, which is
not set back; `MaxRunTime` is what the timeouts of checks and attempts add up to. An unreadable
state file ends the run without a report, as in the code; a file that could not be written
keeps the older incident. Retries carry the same nonce and may arrive twice. `watched` and
`silence` are history. Left out: dry runs, the validation of secret and configuration.

## 3. Runs

| run | configuration | states | shows |
| --- | --- | --- | --- |
| `notif_races` | 2 workers, a marketing mail and a test message, 2 attempts, lease 1, retention 2 and 3 | 1,620,193 | ledger, mark, contact, cancellation and outcome rules, refinement of the courier |
| `notif_settles` | 2 workers, a status notification, 2 attempts, 2 cycles, channel switched | 144,282 | hand-over budget over requeues; every notification settles |
| `notif_timing` | 2 workers, lease 6, I/O 1, lock wait 1 | 84,029 | the lease outlives the delivery |
| `pub_recovery` | a source and a translation, 3 releases, 2 bundles, 2 builds at once, 3 activations, 1 keeper | 1,230,022 | journal, link, heads, pages, pruning and rollback targets under crashes and failures; a server that died recovers |
| `pub_failure` | as above, source only | violation | the first finding below |
| `translations` | 2 workers, one translation, 2 jobs of 2 passes, 4 publications or rollbacks, 2 lapses | 324,512 | the queue never jams, one result per job, revoked work never lands, every job ends |
| `translation_evidence` | as above, with the hashes the executor records | violation | the second finding below |
| `indexnow` | 2 workers, 2 releases that share an address, 2 attempts, 5 activations | 149,771 | sent means accepted, removals are announced, refinement of the notices |
| `intake` | one visitor, 2 contents, 2 bundles, 2 bodies sent twice, 2 publications | 489,462 | one consultation per submission, documents as shown, the limit |
| `admin_auth` | 2 logins, 1 permit, limit 1, a reset, a new factor, 3 steps of time | 540,804 | the throttle holds, resets stand, factors are used once, every login is answered |
| `operations` | 3 commands, 3 releases of 2 schemas, a consultation, a kill | 1,838,074 | one holder per lock, link, schema, nothing lost |
| `monitor` | 2 sources, 2 attempts, cooldown 1, a kill | 447,104 | silence is earned, lasting failures are heard |

Why the bounds are enough. Two workers are what a stale and a current claim need. Two
attempts have a first, a retry and an exhaustion; two cycles a requeue. A retention that
ends after the lease lets purge meet a retry; a marketing retention longer than the
privacy one lets a withdrawal shorten it. Three releases with one keeper have an active
one, a kept one and a pruned one; three activations a publish, a second and a rollback,
or three publishes; two builds at once are a publish that commits over another. Row
versions allow a rejection and a second translation, or an approval, its withdrawal and a
new one (up to 6 in `translations`, which has the withdrawal while a translator runs and
the approval after it). Five activations of two releases bring one back while its notice is
outstanding, sent or given up, with another payload or the same. Two bodies are an edit
between two submissions; two tries a retry; a window of two with a clock of three turns.
Two logins and one permit make one wait, with a limit of one make one refused. Three commands are two side by side
and one that finds what they left; the third release knows one migration more than the
others, the case a deployment must refuse.

Larger instances were run too and passed: `MaxVersion = 4` without changes of address
(3,812,077 states) and `Keepers = 2` (806,701) for the publication, three releases and three
activations for the notices (435,878), three logins with a limit of two for the
authentication (7,866,668), two overlapping monitors with one source and a cooldown of two.

Deadlock is not checked except in the notification runs and in `monitor`: elsewhere the system
may rest once the bounded numbers of releases, reviews, submissions or commands are used.

**Fairness.** `notif_settles` assumes that time passes and that each worker keeps making
steps: launchd restarts it, its runner schedules a next cycle after every error, and each
await ends with a provider time limit. It assumes nothing about success. `pub_recovery`
assumes only that launchd starts a dead server again. `translations` and `indexnow` assume
the same of their workers, whose lanes schedule the next cycle after every outcome, and that
leases run out; a key for IndexNow is configured. `admin_auth` assumes that a request that
runs goes on and that a key derivation ends. `monitor` assumes that time passes, that
launchd starts it, and that neither the state file is unreadable nor Hermes silent for ever
(strong fairness: they come and go).

**Mutants.** Each property of a passing run is broken by a plausible bug: a definition
and its mutated form, defined before it, are paired in `PROJECT.json`.

### Findings

`pub_failure`: when the database is busy after the link was switched, the request fails
and its page says "The verified public release pointer remains unchanged"
(`apps/control/src/admin/routes.ts:676`; the rollback page says the same). The link is
already on the new release, the activation stays open, publishing, rollback and
consent activation are refused from then on, and the next start of the server commits
the release. `PointerExplained` and `JournalReplayable` show that nothing worse happens.

`translation_evidence`: the commit demands that the prompt hash of each pass is that of the
pass's fixed instructions (`translation-jobs.ts:322`, `codex-executor.ts:242`), but the executor
records the hash of the whole input it sends (`codex-executor.ts:623` and `658`). The two never
agree, so that every completed translation is refused as invalid output; the tests of
either side feed it what the other does not produce.

Met while modelling, and not stated by a run:

* Running `seed-public.mjs` again after a publication switches the public link to the
  bootstrap site, although `deployment.md:13` says that there is no way back to it; the checks
  of the link refuse to start on it afterwards, the command does not refuse to switch.
* When the directory sync after the rename of a restore fails (`restore.mjs:231`), the database
  counts as unchanged and the services are started on the restored one; `recovery.md` promises
  that the quarantined one is put back after a failure past the replacement. `NothingLost`
  shows that the old database stays in quarantine.
* A backup that dies between the daily artifact and its status fails every further backup of
  that day (`backup.mjs:305`). Two operators who recover one lock at the same time can move a
  live one away (`exclusive-lock.mjs:318`), and a command that stalls between directory and
  owner file for longer than the age gate removes, when the owner file cannot be written,
  whatever lock is there then (`exclusive-lock.mjs:195`).

## 4. Proofs

`NotificationOutboxProofs` proves, for any number of workers, channels, notifications,
attempts and cycles, and any times, from the assumptions named in `NotificationOutbox`
(`NullAssumption`, `RowAssumption`, `TimingAssumption`):

| theorem | statement |
| --- | --- |
| `TypeCorrect` | `Spec => []TypeOK` |
| `Invariant` | `Spec => []IInv` |
| `LedgerCorrect`, `MarkCorrect`, `BudgetCorrect` | the three state invariants, from `Invariant` |
| `ContactCorrect`, `OutcomesCorrect`, `WireCorrect` | the three action properties |

The inductive invariant `IInv` conjoins the properties with three facts that make them
inductive. `JobsSound`: a worker past its claim has a row and a legal attempt number.
`RowsFollowIntake`: a row inserted at intake has its consultation, so that accepting one
never overwrites a row. `AttemptUnused`: a worker that owns its claim and has not handed
over has not used its attempt up, which is why the next hand-over stays within the
budget. `LedgerAgrees` needs no more: a recovered, released or cancelled row closes
exactly its one open attempt. The action properties follow from `IInv` action by action.
The type of the queue is proved and not checked again by a run.

The module also proves `CourierImplemented`, that the queue refines the courier of
`NotificationDelivery`, step by step. It needs `IInv` and one more invariant, `IntakeFirst`:
nothing is known of a consultation before it is accepted, so that accepting one never lifts the
bar of a purge or a withdrawal. The guard of the courier's send follows from `AttemptUnused` and
`HandoverBudget` together with the check a worker repeats at the hand-over, and the guard of
its delivery from `MarkGuardsWire`; a retried failure is no step of the courier.

The third part is about the queue with deadlines: `LeaseCorrect` (`DeliveryKeepsLease`), and
from it `OneAtTheProvider`, that no two workers have one notification at their providers at the
same time. They hold for any lease longer than the provider's time limit and four waits for the
lock (`LeaseAssumption`; 90 s and 4 × 5 s of 120 s in the code), while no worker is suspended.
The invariant is `TIInv`, which TLC checked on the instance of `notif_timing`: no stage is over
its deadline (`StageInTime`), a worker that owns its claim has enough of the lease left for its
stage and all it may still have to wait for (`LeaseSuffices`, with `StillNeeded` stage by stage),
and so a message at the provider belongs to a live claim (`WireHeld`). The last two need each
other: a claim is lost only once its lease is over, which time cannot reach before the deadline.

`PublicationReleaseProofs` proves, for any number of articles, releases, bundles, requests,
activations and keepers, from the assumptions named in `ArticleHeads`, `PublicationBuild` and
`PublicationRelease`:

| theorem | statement |
| --- | --- |
| `Invariant` | `Spec => []IInv` |
| `TypeCorrect`, `PointerCorrect`, `JournalCorrect`, `TranslationsCorrect` | the type invariant, `PointerExplained`, `JournalReplayable`, `TranslationsBound` |
| `ServedCorrect`, `PruningCorrect` | `PublishedHeadsServed`, `NothingNeededPruned` |
| `TargetsCorrect` | `RollbackTargetsRemain` |
| `KeepsCorrect` | the action property `PublishKeepsHeads` |
| `RestartCorrect` | a start always finds a consistent site, a commit or a drop |
| `NoticesUsed` | the publication implements `ReleaseNotices` too |

The properties about the link and the journal are not inductive: whether a commit restores
them depends on what was captured before the build. `IInv` adds `SnapshotsSound` (a snapshot
whose base is still the active release has everything published, because every commit raises
a generation above all those captured), `BooksSound` (the directory of a release holds the
site its row describes, which is what the verification of the build is for), `ActiveStands`
(the published heads are the entries of the active release, and releases with an outstanding
notice are on disk), `JournalSound` (the path an activation remembers is where the link was),
`ThreadSound` (where the thread is, an activation is open or is not, and what it may prune is
retired) and `LastExists`, which makes the numbers of activations well defined. TLC checked
`IInv` on the instance of `pub_recovery` before it was proved. `PublishedHeadsServed` and
`NothingNeededPruned` then follow from `IInv` in one state, and so does `RestartCorrect`, the part
of `RestartRecovers` that is about states: what remains of it is that the start is tried.

`TargetsCorrect` needs an invariant of its own, `TargetsSound`: either every release that was
ever active is usable or more than `Keepers` are, and those that the pruning has still to take
leave more than `Keepers` behind, whatever it skips, puts back or dies over. What the pruning
decides at its start is the hard part (`KeptEnough`): of the releases it takes, one has a minimal
set of newer ones, none of which is taken, so that at least `Keepers` are kept. The order of
releases is not assumed to be total for this, and `Keepers` is any number.

`NoticesUsed` is one half of a composition whose other half is `NoticesImplemented` below. Both
components implement `ReleaseNotices` with their own idea of the active release and of an
outstanding notice, so that the `outbox` of the one is the rows of the other as far as either can
tell: a commit, and nothing else, makes a notice outstanding, always for a release that was not
active, and only the worker settles it.

`IndexNowOutboxProofs` proves `TypeCorrect`, `SentCorrect` (`SentMeansAccepted`) and
`NoticesImplemented`, the refinement of `ReleaseNotices` without its fairness. The invariant adds
`ClaimsCurrent`: while a row is a worker's own, the worker carries the payload the row has now,
because a rearmed row has no owner.

`ConsultationIntakeProofs` proves all that `intake` checks, for any number of visitors, contents
and submissions, from `IntakeAssumption` (a token never outlives the key it came with): `RetriesCorrect`,
`ConsentCorrect`, `FloodCorrect`, and the types. `OneBody` says that a key stands for one body in the
browser, on the way and in the tables, and `KeysHeld` that a consultation keeps its key until no
token can bring its body back; so what is admitted was not taken in before, which is where the
assumption is needed. `CacheSound`: what the server remembers of an activation is what its release
says. `BucketsCount`: until its window and the grace after it are over, a bucket counts at least
what was taken in.

`AdminAuthProofs` proves the four invariants of `admin_auth`, for any number of logins, permits, resets
and factors, from `AuthAssumption`. `LoginsSound` is the heart of `ResetsCorrect`: a login that is
admitted and has read the owner's row has read the newest hash, because a reset drops every
admission. `FactorsMarked`: each factor used is at or below the counter, not among the spare codes, or
of an older enrolment. `ThrottleSound`: those of a window who learnt of their failure and those
admitted to it are together no more than the limit, and an open window's bucket counts the former.

`OperationsProofs` proves all that `operations` checks, for any number of commands, releases,
consultations and kills, and any schemas. Its `IInv` has four parts. `Base`: a command is at a step
of its kind and holds its lock, and a lock being moved away is one of a command that ended, which
never comes back to it; hence `Alone`, at most one command at work in the releases, and one in a
restore, from which the rest follows. `Pointing`: from its canary on a release is verified, from
the rename on it is current, so that pruning spares it. `Fitting`: the release about to be sealed
fits the database, and so do the copies a restore may rename over it; a schema therefore changes
only from that of a new database, when no release is sealed. `Keeping`: between a restore's copy and
its rename services that are up were started by a release operation, so that what the copy lacks is
`exposed`; and no copy put aside is overwritten.

`TranslationJobsProofs` proves the four invariants of `translations` and `RevokedWorkNeverLands`,
for any number of articles, languages, jobs, workers, passes and lapses, from `HeadAssumption`
and `JobAssumption`; so it covers queues with jobs of several languages, which the run does not
have. Apart from the types none of these is inductive. The parts of `IInv` are `SourcesConfirmed` and
`OneRuns` (which are `JobsSourced`), `LineOrders` (the queued jobs stand in a strict total
order), `OrdinalsDense` (the ordinals of a head's jobs are 1 to their number, so that the newest
is the one the code counts to), `ResultsMade` (no finished job's result is newer than its head, no
two are the same, and every revision shown was made by one), `ReleasesBound` (the same for the
entries of each release that a rollback may put back, and each holds the sources of its
translations) and `RevokedLost` (a worker whose approval was withdrawn does not own its job, and
no claim gives it back to it). A commit stays within them because a new revision is newer than
all results before it. TLC checked `IInv` on the instance of `translations`, and on one with two
translations that share the queue (621,722 states). `LineCorrect` states the order of the line
as a theorem of its own: the claim has one candidate, and no job is passed by a later one.

`MonitorProofs` proves the types and `SilenceCorrect` (`SilenceIsEarned`), for any number of
sources and of runs that overlap, any attempts, cooldown and time of a run. `HeardSince` carries it:
Hermes accepted a report of the watched incident no longer ago than the file's entry is old, and
than the run has lasted that is about to write one; a run that overtakes another, or whose write
fails, can only make the file older.

Only checked by TLC: `RemovalsAnnounced` and all liveness, which is outside the prover's reach,
with the fairness part of `ImplementsNotices`. Every safety property of a passing run is proved.

## 5. Plan and limits

Next, in order:

1. `MarketingWithdrawal`: capabilities, landing tokens and their expiry, around
   `NotificationOutbox`'s `WithdrawConsent`.
2. The addresses of articles in heads, releases and rollbacks.
3. The drain of a retention backlog in batches.

Not modelled, and why: cryptography and schemas (pure functions over one value; a model would
assume what it should show), the texts and layout of pages and the prototypes (no state),
the protocols of the providers (external; the adapters' time limits and outcomes are
modelled), the preparation of the machine, launchd and Caddy files (configuration), the drill
of a restore, and reading pages of the administration (no state changes).
