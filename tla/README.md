# Darwin Journal: a verification project

TLA+ models of Darwin Journal (Next.js server actions on PostgreSQL, an SMTP
outbox, a small CMS, its administration pages in the browser, and the scripts
around it), checked with TLC and, but for liveness, proved with TLAPS. Paths are
relative to the repository's `src/` unless they start with `docs/` or
`scripts/`; `admin/` is `src/components/admin/`.

## 1. Inventory

| Component | State it keeps | Operations | What makes it correct |
| --- | --- | --- | --- |
| Mail outbox (`src/lib/mail/queue.ts`, `worker.ts`) | `mail_jobs` rows with status, attempts, due time and lease; in memory a batch, its lanes, a send with a timer | `enqueueMail`, `claimDueMailJobs`, `runMailWorkerBatch`, `markSent`, `markRetry`, `release`, `markSuppressed`, stale recovery | no job is lost, two batches never hold one job, every terminal status has its cause, nobody who revoked is sent to |
| Mail administration (`mail/actions.ts`, `config.ts`, `crypto.ts`, `admin/MailManager.tsx`) | `mail_settings`, the encrypted password, the secrets of the deployment | save, test, `retryMailJob`, key rotation | disabling stops sending; mail that is on has a password somebody can decrypt |
| Subscriptions (`community/actions.ts`, `tokens.ts`, `publication.ts`) | `community_subscribers`, `community_action_tokens` | subscribe, confirm, unsubscribe, remove, push a post | double opt-in, single-use tokens, nothing after unsubscribing, one mail per post and subscriber |
| Applications (`community/actions.ts`, `admin.ts`) | `community_applications` | submit, confirm, change status, delete | nothing private leaves before the address is proved; a deletion leaves nothing in the outbox |
| Rate limits (`community/rate-limit.ts`) | fixed-window counters | consume | all buckets or none; a limit holds under concurrency |
| Documents (`cms/documents.ts`) | `documents`, `revisions`, `community_publications` | save, seven transitions, restore a revision | no lost update, one revision per version, a snapshot is what the publisher saw, one automatic notice ever |
| Taxonomy, members, media (`cms/*.ts`) | their rows, image files | save, delete, upload | a check before a deletion overlooks no reference; file and row agree |
| Site settings, special pages, site access | rows of `settings`; the environment's addresses | save, publish, reconfigure | a valid navigation; no lost update of a page; always an address to log in from |
| Users and sessions (`cms/users.ts`, `auth/server.ts`, `scripts/bootstrap.ts`) | `user`, `session`, `account` | log in, save, reset, change password, bootstrap | an active administrator remains; a session from before a replaced password can do nothing but change it |
| Administration pages (`admin/*.tsx`) | React state: a form, its saved version, a running call | edit, autosave, transition, dialogs | what was typed is not lost, what is shown is stored, a confirmed call acts once |
| Scripts (`scripts/`) | processes, databases, files | dev lifecycle, backup, restore, environment files | no orphan process, never database and media of different times, no torn file |

How they interact. Server actions run in READ COMMITTED transactions of one
PostgreSQL database and are otherwise uncoordinated. Publishing, pushing,
subscribing and applying insert outbox rows in their own transaction;
unsubscribing, withdrawing, unpublishing and deleting cancel or delete outbox
rows in theirs. `kickMailWorker` (after a commit, and from a timer in every
server process) starts a batch that leases due rows, and before each send reads
the community tables and its own lease again. The pages call server actions and
get answers late or never; the scripts share files and processes only.

What is hard: several processes run batches; a send outlives the timeout that
gave up on it; a process dies with leased rows; an answer is lost after the
server took a message; reads before a send go stale; document actions decide on
an unlocked read; deletes check references first; the two halves of an upload
or a restore can fail apart; a page goes on while its call runs.
`PROJECT.json` lists each at its line.

## 2. Plan

| # | Module | About | State |
| --- | --- | --- | --- |
| 1 | `OutboxContract` | abstract: the promise about one job | done |
| 2 | `MailOutbox` | rows, leases, batches, lanes, sends, crashes, time | done |
| 3 | `MailOutboxProofs`, `MailOutboxOutcomes` | theorems about 2 | done, section 5 |
| 4 | `DocumentWorkflow`, `Documents`, `DocumentsProofs` | version check, revisions, transitions, pushes, first-publication marker; the editorial workflow as their specification | done |
| 5 | `DoubleOptIn`, `Subscriptions`, `SubscriptionsProofs` | tokens and subscriber rows, statement by statement, deadlocks; atomic double opt-in as their specification | done |
| 6 | `Applications`; `Community` composes 5 and 6; `CommunityProofs` | verification before disclosure, complete deletion, final withdrawal | done |
| 7 | `Accounts`, `References`, `MailSettings`, `SiteSettings`, `SiteAccess`, `RateLimits`; `Services` composes them; `ServicesProofs` | the other server actions | done |
| 8 | `DocumentEditor`, `ManagementPanels`, `CommunityPanel`, `SpecialPages`; `FrontEnd` composes them; `FrontEndProofs` | the pages in the browser and what they call | done |
| 9 | `DevelopmentLifecycle`, `EnvironmentFiles`, `BackupRestore`; `Operations` composes them; `OperationsProofs` | processes, files, swaps | done |

Runs stay at one or two rows, two or three actors and one or two faults: every
hazard of the list needs at most two actors and one row, and a second row only
where a batch or a limit counts rows.

A proof module holds the inductive invariant of each component, the lemmas that
its actions keep it, and at the end the theorems, each under the name of what it
says; a composition's invariant is the conjunction, since a step of one
component leaves the variables of the others alone.

## 3. What is modelled

### `MailOutbox`

A member of `Jobs` is a dedupe key, hence at most one row. A member of `Runs`
is one call of `runMailWorkerBatch` with its random `workerId`; an identifier is
taken again only when no row names it, which is a fresh id up to renaming.

| State | Code |
| --- | --- |
| `jobs[j]` | the row: `status`, `attempts`, `wait` (`next_attempt_at` minus now), `age` (now minus `locked_at`), `owner` (`locked_by`) |
| `run[r]` | phase of the batch, live lanes of `runBounded`, time it spent without (`idle`) and with (`busy`) a message on the wire |
| `lane[r][j]` | where the batch is with the job, `seen` (the `attempts` of its copy of the row), `timer` of `withTimeout` |
| `enabled`, `eligible[j]` | `mail_settings.enabled`; what `shouldSuppressMailJob` would read |
| `looked` | jobs a revocation under way has looked at and not found open |
| `limbo` | sends nobody awaits any more, which SMTP may still take |
| `accepted`, `revoked`, `lost`, `overtaken` | history: acceptances by SMTP, jobs ever revoked, jobs with an attempt whose outcome was not recorded, open jobs the last revocation has missed |

Each SQL statement, or each short transaction nothing can observe half of, is
one action. `Enqueue` is the commit of a job; mail may have been disabled since
its transaction read the settings. `Claim` is the transaction of `claimDueMailJobs` (stale leases back
to the queue, then lease due rows); its order and `SKIP LOCKED` are an arbitrary
choice of rows within the limit. `CheckLease` joins `isLeaseActive` with the
start of the send: no await lies between them. A send has an acceptance
(`SmtpAccepts`), an answer (`SmtpAnswers`), an error before or after the
acceptance (`SmtpFails`), a timeout that does not stop it (`SendTimesOut`) and a
late outcome (`LateOutcome`). Every database call may throw, applied or not
(`LaneCallThrows`, `FinalWriteThrows`), and a process may die anywhere
(`Crash`). `Revoke` is any transaction that revokes a recipient or a subject and
suppresses its open jobs; one step, since the row it cancels is locked until the
commit. A job it does not find open may be committed or retried before it ends
(`RevokeLooks`, `RevokeOvertaken`): such a job keeps its lease. `Purge` is
`deleteApplication`.

Abstractions. Lanes are `Concurrency` rather than `min(Concurrency, items)`: a
lane without a job does nothing. `kickMailWorker`'s in-process guard is absent:
it only lowers the number of simultaneous batches, which several processes have
anyway. A purged dedupe key never comes back, since its application id is gone.
Times are relative to now; the claim reads the clock and commits in one step.
With `Prompt`, a batch spends at most `Margin` outside its sends, the
assumption the comment at `worker.ts:22-24` computes `LOCK_TIMEOUT_MS` from;
without it, batches stall for any time.

### `OutboxContract`

Per job a fate (absent, pending, sent, failed, suppressed, purged): committed
once, settled as sent only after an acceptance and as suppressed only after a
revocation, reopened only from failed, never lost. A revocation cancels the
pending job, or leaves one committed meanwhile to the check before delivery.
`MailOutbox` is shown to
implement it, with queued and processing mapped to pending.

### `Documents` and `DocumentWorkflow`

The life of one post (`cms/documents.ts`), the users who work on it and the
mail about it. A client's server action has three steps, since nothing but a
version stands between them: `Ask` (the action starts, with the version of the
page; publishing has read the mail settings), `Begin` (the transaction reads
the row without a lock) and `Update` or `Delete` (the `UPDATE ... WHERE version
= expected` and everything after it). `Refuse` is every early return and every
failed transaction; the answer of an `Update` may be lost, and the user may
repeat a request from the old page.

| State | Code |
| --- | --- |
| `doc` | the row: status, version, draft, published snapshot, `trashed` (`deletedAt` is set) |
| `revisions` | rows of `revisions` by version |
| `marker` | the row of `community_publications` |
| `notice` | the mail job about the post for one confirmed subscriber, and the snapshot in it |
| `lock` | `SELECT ... FOR UPDATE` of a manual push |
| `client[u]` | the page (`seen`), the request, what its transaction read (`current`) |
| `approved`, `automatic`, `retried` | history |

Abstractions. What follows the `UPDATE` in a transaction sees the row locked, so
it is one step with it, and `PushQueue` is one step for the same reason. (A
failed job can be retried between the suppression of mail and the commit; to the
worker that is as good as a retry after both.) The post has one confirmed
subscriber; `automatic` counts mailings, since another subscriber may have no
job yet. Mail settings are not tracked: each read of them may find anything.
Roles do not change. A slug, a category or an autosave (which differs in its
audit row only) is not represented; what they can do is make a transaction fail.
Only posts: pages have the same code without the mail.

`DocumentWorkflow` is what the editorial rules promise when every step is
decided on the document as it is: no versions, no copies, no requests. The
mapping takes the row and its revisions as they are.

### `Subscriptions` and `DoubleOptIn`

One address. Every request is a transaction at READ COMMITTED and every
statement of it a step: an `UPDATE` finds its rows in what is committed,
waits for a row another transaction has written and looks again. Row locks are
`tx[r].subscriber` and `tx[r].used`, the uncommitted writes of a request.

| State | Code |
| --- | --- |
| `subscriber` | status of the row of `community_subscribers` |
| `token[t]` | row of `community_action_tokens`: its purpose, or used up |
| `job[p]` | the mail job about the post `p`, and the link it carries |
| `mailed` | links that have arrived |
| `tx[r]` | kind and next statement of a request, what it has written |
| `overtaken` | history: jobs queued after an opt-out had looked for open ones |

`subscribe` writes the subscriber and then invalidates the tokens; the links
use up their token, then write the subscriber, and `unsubscribe` then
invalidates the other tokens: they can deadlock, and `BreakDeadlock` is what
PostgreSQL does about it. A publication reads the confirmed subscribers and
writes the token and the job later; it holds the row of its document, so one
post has one publication at a time. The outbox is reduced to its fates; the
details are in `MailOutbox`.

Abstractions. A token stands for 256 random bits: a token is fresh when no
row, request or job refers to it. A confirmation link may be clicked as soon as
it exists. A link may have expired at any time (`ConsumeToken`). Rate limits and
the honeypot only refuse requests. `DoubleOptIn` is the promise: confirmed only
by the one link of the latest request, and an opt-out ends that request too.

### `Applications`

One application, its token and its three mails (`verification`, the applicant's
`copy`, the society's `notification`), with the same transactions.

| State | Code |
| --- | --- |
| `application` | row of `community_applications`: status (pending, reviewing, accepted and declined are `open`) and whether `email_verified_at` is set |
| `token` | its row of `community_action_tokens` |
| `job[k]` | the mail job of each kind; queued and processing are `open`, sent and suppressed `closed` |
| `checked`, `sent` | jobs a worker has found eligible and not sent yet; jobs sent |
| `tx[r]` | kind and next statement of a request, the rows it has locked, the jobs it has suppressed or deleted |
| `overtaken` | history: jobs retried after a withdrawal had looked for open ones |

`confirmApplicationReceipt` locks the token, then the application;
`deleteApplication` the application, then the outbox rows, then by the cascade
the token; `changeApplicationStatus` the application. A submission is one step:
nobody knows its rows before the commit. The worker checks a job (`CheckJob`),
and later reads the lease and sends (`SendJob`); leases and lanes are in
`MailOutbox`.

### `Community`, `Services`, `FrontEnd`, `Operations`

Each composes components that interact with one and the same caller or machine
but lock no row in common. A variable (`part`, `service`, `open`), chosen at the
beginning and constant, says which of them is at work; the others rest in one of
their initial states. Nothing is lost by it: since two such components read and
write disjoint variables, every interleaving of them is a shuffle of two
behaviours that are explored here, and no property relates the variables of two
of them. `Community` takes the requests of `Subscriptions` and of
`Applications`, whose mail shares only the outbox (`MailOutbox`) and whose
counters `RateLimits` has.

### `Accounts`

| State | Code |
| --- | --- |
| `account[u]` | rows of `user` and `account`: role (editors are `author` here), `disabled`, `mustChangePassword`, the password |
| `session[b]` | the row a browser's cookie names, with the password its login verified, and `spared`, why it may outlive a change |
| `call[x]` | the action a browser waits for, or the command in the `Shell`, its next statement, what it was given and the sessions it has deleted |
| `holder` | `pg_advisory_xact_lock` of `saveUser` |

Every statement is a step. A login has three (the password, the hook that
refuses a disabled account, the session row). `saveUser` takes its lock, reads
the row and the count, updates the user, the credential if it was given a
password, deletes the sessions if it disables the account, and commits;
`resetUserPassword` and `changeOwnPassword` (after the library's own change) have
the same statements in their order, and `bootstrap.ts` sets the password after
its commit. What a transaction writes is there for the others at its commit;
until then whoever writes one of its rows waits (`UserRowFree`, `AccountRowFree`,
`SessionRowFree`). `Fail` is any statement that fails, a deadlock that is broken,
and any process that stops.

Two kinds of sessions outlive a change, and `spared` names them. One that is
inserted after its password was replaced or its account disabled, or after the
deletion and before the commit, is `late`: the code has no guard against it. And
`saveUser`, given a password for an account that exists, replaces it and ends no
session unless it disables the account: those are `kept`. The form gives none,
the exported action takes it (`users.ts:155`, `186-187`), although
`docs/使用指南.md:72` says that a password that is reset ends the sessions. What
the property says of a kept session is that its user must change the password,
without which no action of the administration is allowed.

### `References`

One category (a tag has the same code), one member, one image. `content` says
which of them the draft, the published snapshot and the revisions of a document
refer to, and whether a member's portrait or a special page shows the image. A
deletion reads its sources side by side (`ReadSource`), then deletes, writes
the audit row and unlinks the file, each a step, outside any transaction; the
draft's category has a join row and a foreign key. An upload is file, row, audit
row; its failure removes the file. `stable` remembers which sources have
referred to the item ever since a deletion started, `reported` that an upload
was reported as successful.

### `MailSettings`, `SiteSettings`, `SiteAccess`, `RateLimits`

`MailSettings`: the row, the two secrets of the deployment as numbers, and the
page of each administrator. A save reads the row, decrypts a password it has to
keep, and writes row and audit row in two statements. A rotation is a restart
with both secrets, one save, and a restart without the old one, as
`docs/SMTP配置.md:58-67` has it; a restart ends what runs.

`SiteSettings`: the row with the introduction and the navigation, the page of an
administrator who adds, removes, moves and edits entries, and an editor who
replaces the introduction. A save reads, validates and writes in separate
statements. The navigation has two fixed entries of the code's four.

`SiteAccess`: the addresses in the environment file, in the two containers
created from it and in the row, and the page that edits the row.
`EffectivePublicUrl` and `EffectiveTrustedOrigins` are the functions of
`site-access/store.ts` and `auth/origins.ts`. `SITE_URL` and `BETTER_AUTH_URL`
are one address, as `README.md:129` of the repository asks for. A login needs an
effective origin (`MayLogIn`); the action that saves the addresses does not
check one itself, as `requireMutationUser` does not.

`RateLimits`: `counts` is the table, a row for each action, kind, bucket and
window. A request takes its counters in order; each is locked until its
transaction ends; a full one rolls it back.

### `DocumentEditor`, `ManagementPanels`, `CommunityPanel`, `SpecialPages`

The administration's pages: React state as variables, an action for each event,
answer and timer, and the server's side of each call in short (the full one is
in the modules above). `seen` in `DocumentEditor` is the text of the last
rendering, which the callbacks hold; a text is a number that each change
increments. In `ManagementPanels` one variable `request` is the call the page
waits for, and dialogs open and close meanwhile. `CommunityPanel` follows a push
from preview to confirmation to the two checks of the server, and one
application from before its address is confirmed. `SpecialPages` has
both sides in full: an advisory lock, one row for two pages, versions, and
editors who save and publish. Any answer may be lost and any call refused.
Others change the document, the posts, the subscribers, the application and the
special pages meanwhile; `ManagementPanels` is about the only administrator at
work.

### `DevelopmentLifecycle`, `EnvironmentFiles`, `BackupRestore`

`DevelopmentLifecycle`: where `run()` of `scripts/dev.ts` waits, how far the
one run of `cleanup()` is, both child processes and which were told to stop; and
how far `run()` of `scripts/dev-db.ts` is (`db`), the PostgreSQL it starts
(`server`), and what its one run of `stopDatabase` has found (`shutdown`). An
action is what runs between two awaits. Signals come at any moment, from a
terminal (which reaches the children too) or not; after the first, the handlers
of the launcher are gone and a second one kills it, which `dev-db` notices unless
it is still being loaded. `embedded-postgres` is a library: its `start()` looks
for its binaries before it spawns the server (`Spawn`), and it may stop its
server and exit at a signal by itself (`ExitHook`). `stopDatabase` never runs
twice, so two servers are `Forgotten`: the one spawned when the stop came
inside `start()` before it (`missed`), and the one that did not answer its
health check in time (`alarm`, `dev-db.ts:170-176`). Whether they live on
depends on the library; the properties name them as exceptions. A SIGKILL of
`dev-db` itself is left out.

`EnvironmentFiles`: the file as lines with a name, a value and whether they
open or end a quoted value that spans lines; three commands read it, edit it
line by line, and replace it (`Write` and `Synced` are the temporary file,
`Rename` the replacement) or, `dev-db.ts`, append to it. Each may die between
two steps. A value in backticks, or of a name with a dot or a dash, is `hidden`:
the readers of the file take its lines together, `site-configure.mjs:310-327`
does not see that it spans them.

`BackupRestore`: a content is the number of changes in it, so that database and
files that belong together are equal. Each command of either script is an
action, `BackupFails` and `RestoreFails` are their exit traps after any command,
`BackupKilled` and `RestoreKilled` skip the trap.

## 4. Runs

| Run | Bounds | Shows |
| --- | --- | --- |
| `outbox_batch` | 2 jobs, 2 batches, 1 lane, `BatchSize = MaxBatch = 2`, 1 fault | a full batch with sequential sends is the worst case of the lock timeout: `LiveLeaseNeverStale`, `NoDoubleSend` |
| `outbox_stalled` | 1 job, 2 batches, 2 attempts, 2 faults, 1 retry, 1 settings change, `SendTimeout = Margin = 1`, `Prompt = FALSE` | types; batches that outlive their leases still write nothing stale: `SnapshotFresh`, `OutcomeJustified`, the contract; a send begins for somebody revoked only as in `outbox_overtaken` |
| `outbox_settles` | 1 job, fair servers, 1 fault, no retry, 2 settings changes | every committed job is settled once mail stays enabled; SMTP takes a job twice only after a lost outcome |
| `outbox_overtaken` | 1 job, 1 attempt, no fault | violated: mail is sent to somebody who has unsubscribed when its job was queued while the revocation was under way (`docs/SMTP配置.md:54`) |
| `outbox_disabled` | 1 job, no fault | violated: a batch goes on sending after mail was disabled (`docs/SMTP配置.md:27`) |
| `community` | 3 requests, 3 tokens, 1 post; 2 requests about one application; fair | the refinement of `DoubleOptIn`; links work once; which mail an opt-out can leave open; a deletion leaves no mail, a withdrawal is final and mail is sent only while wanted (`WithdrawalIsFinal`), the application is disclosed to both or neither; deadlocks are broken and every request is answered |
| `subscriptions_link` | 2 requests, 4 tokens, 2 posts | violated: a delivered mail may carry a link that is used up (`docs/使用指南.md:47`, `app/(site)/subscribe/page.tsx:26`) |
| `documents` | an author and two editors, at most two at work, 2 contents, 4 versions | the refinement of `DocumentWorkflow`; nobody overwrites what he has not seen; what is public was in front of an editor; one automatic mailing; no open mail about a withdrawn post; mail carries what is public |
| `front_end` | 2 entries, 3 changes and 3 versions of a text, 2 posts, 2 subscribers, 2 pages, 2 editors | typed text and changes are kept, what is shown as stored is stored, a confirmed call acts once, two editors of the special pages lose nothing |
| `services` | 2 accounts, 2 browsers and the shell, 2 passwords, 2 callers at a time; 2 editors, 2 administrators and 2 keys, a navigation of 2 or 3, 2 secure origins, 2 requests in 2 windows | an administrator remains; a disabled account or a replaced password leaves no session, but for late and kept ones; references hold; settings stay usable; counters are exact |
| `operations` | 7 environment files, 6 names, 2 values (one of them new), 3 changes, a backup or a restore at a time (`Overlap = FALSE`) | `NothingIsHalfDone`: nothing is left running, torn or served half done; `CommandEnds`: a signal ends everything, PostgreSQL included; `SiteChangesOnlyItself` |
| `environment_edition` | the same files, 2 values | violated: `set-site-edition` changes an entry that is not its own (`scripts/set-site-edition.mjs:133`) |

Bounds. A lease conflict needs two batches and one row; the second row and the
single lane make a batch as slow as it can be. Two attempts make a first failure
(retried) and a last one. Unit delays keep every order of the timers reachable:
only which of two clocks runs out first matters. `MaxFaults`, `MaxRetries` and
`MaxToggles` bound what the environment does, never what the code does.

A stale page needs one other user and two versions between load and save; three
versions also publish what another user has changed meanwhile, and the fourth
withdraws and publishes again. Two contents tell the page's draft from the
row's. The three users are the author and the two editors that a push and a
transition need; `InBounds` keeps two of them at work, since every race is
between two. Of `Subscriptions`, two requests make every pairwise race and the
circle of two; the third adds a publication between them. Three tokens are a
link in the mail or in a job, the one of the latest request and a fresh one;
`subscriptions_link` has both of the first. Every race of `Applications` is
between two requests, and what happened before is in the rows.

In `services` two accounts are the fewest with which a last administrator can be
lost, and two browsers the fewest that race; browsers and editors are
interchangeable (symmetry), and `InBounds` keeps two of the three callers at
work. Two passwords tell the old one from the new one, two
keys are one rotation. One removable entry beside two fixed ones makes every
change of the navigation. The limits of `MCServices` make a bucket that both
requests share full before another one. In `front_end` three changes of a text
are one before a call, one during it, and one after; untitled texts are among
them. In `operations` an archive of an earlier change and the present one differ
after two changes; the third is made after a restore. The files of
`MCEnvironmentFiles` have none or some of the managed entries, one twice, and
values that span lines which look like entries, one of them hidden.

`CHECK_DEADLOCK` is off where the system really stops: a deleted post has no
next step once everybody has left; `DocumentEditor` ends at its bounds or after
leaving the page; the development command has ended; the environment file has
all its entries.

Fairness. `outbox_settles`: the interval timer and the kicks start batches for
ever (weak fairness of claiming); Node's event loop resumes a batch whose awaited
call has come back (weak fairness of its steps); time passes. Users,
administrators, faults and the outcome of a send are not fair.
`community`: the next statement of a request is strongly fair, since rows are
locked and released over and over and PostgreSQL queues those who wait for a
row. Its deadlock detector is weakly fair; users are not fair. `operations`:
every wait of the development command has a timeout (`scripts/dev.ts`), so its
run and its cleanup are weakly fair, and so are the steps of `dev-db` whose
awaits return or have to reject, a PostgreSQL that `stopDatabase` has stopped
(`pg_ctl` and the library wait for its end), and a site that was told to end;
signals, failures and a database that somebody else runs are not.

The findings. `outbox_disabled`: the settings are read once per batch
(`worker.ts:438`), so a batch sends on after the administrator disabled mail.
`outbox_overtaken`: a revocation suppresses the jobs its `UPDATE` finds
(`revocation.ts:13-52`); the worker checks the state first (`worker.ts:471`) and
then only the lease (`worker.ts:480`), so a job queued or retried after that
`UPDATE`, and checked before the revocation commits, is sent.
`subscriptions_link`: subscribing again invalidates the links of all earlier
mail (`actions.ts:109-118`), also of mail still to be sent: a job that failed
and is retried, or one a publication queued while its reader unsubscribed.
`environment_edition`: `set-site-edition.mjs:144-158` edits every physical line
that assigns `SITE_EDITION`, also one inside the quoted value of another entry;
`site-configure.mjs` refuses a file in which it sees such a value.

What the passing runs leave out, because the code does not promise it: text
typed while a restoration or a settings save runs is replaced by its answer, and
a save asked for before its text was rendered carries the text rendered last; a
first save whose answer was lost and that is repeated makes a second document;
the session of a login that crosses a password reset, a disabling or the
bootstrap command stays, and so do the sessions of an account whose password
`saveUser` replaces; a server that `dev-db` has forgotten; a file in which
`site-configure` does not see that a value spans lines; a reference added
between a check and its deletion dangles; two saves of the settings, or two
commands on the environment file, undo each other. Each has its history variable
(`overlap`, `excused`, `lostFirst`, `spared`, `stable`) or its note in
`PROJECT.json`.

## 5. Proofs

All theorems are about the specification without fairness (`CommunitySpec` and
`OperationsSpec` include it, no proof uses it), for every value of the constants
that satisfies the named assumptions. Most of these say what a constant is: a
bound is a natural number, `None` and its like are no value of the data, a table
is finite, a limit is natural and has a window. Four say something of the code:

| Assumption | Why |
| --- | --- |
| `OutboxAssumption`, `BatchAssumption` (`MailOutbox`) | at least one attempt; a batch is at most as large as the one `LOCK_TIMEOUT_MS` is computed for (`worker.ts:22-24`) |
| `UsersAssumption` (`Documents`) | administrators are editors, editors are users |
| `SettingsAssumption` (`Services`) | whoever edits all settings and whoever edits the introduction wait for a save each; there is a text |
| `ScriptAssumption` (`Operations`) | the names the scripts write are names; what they write are values |

Two theorems have a hypothesis besides: `OperationsTyped` and
`NothingStaysHalfDone` are for `~Overlap`, an operator who runs backup and
restore one after the other. Nothing in the scripts keeps him from running both
at once; the hazard of `restore.sh:201` in `PROJECT.json` says so.

`MailOutboxProofs`

- `TypeCorrect`: `TypeOK`, that a row has an owner exactly while it is processed
  included; one lemma for each shape of a write.
- `LeaseOutlivesBatch`, `OneBatchPerJob`: `LiveLeaseNeverStale` and
  `NoDoubleSend` by the inductive `LeaseInv`, which only speaks of prompt
  batches. A batch with `u` unsent jobs has had a message on the wire for at
  most `(BatchSize - u) * SendTimeout` and spent at most `Margin` otherwise
  (`TimeSpent`); the age of its lease is at most the sum (`LeaseAge`), so below
  the lock timeout; so no claim takes over what a live batch has in hand
  (`HeldOnce`). `NoDoubleSend` alone is not inductive: that two batches never
  meet is a matter of time.

`MailOutboxOutcomes`

- `CopyIsFresh`, `EveryOutcomeHasItsCause`, `NobodyRevokedIsSentTo` (but for
  `overtaken` jobs): by `OutcomeInv`, for batches that may stall. It adds to the
  properties why each lane is where it is (a lane that is marking sent knows of
  an acceptance, one that retries has the attempts of the row while it owns the
  lease).
- `OutboxKeepsItsContract`: the refinement of `OutboxContract`; each action is a
  stutter of every other job and a contract step or a stutter of its own.
- `DuplicatesNeedALoss`: by `OnceInv` under `Prompt`: a job SMTP has taken
  without a loss is settled or in the one batch that has its answer.

`DocumentsProofs`

- One inductive invariant `IInv`: types, `Copies` (a copy of the row is not
  newer than the row, and equal to it if it has its version), `Recording` (a
  post has a draft and exactly one revision per version), `Asking`, `Locking`,
  `Mailing`. With `Copies` an `UPDATE` guarded by the version of the page finds
  the row that the page showed and the transaction read (`AsIfAlone`,
  `UpdateAlone`): the unlocked read was right after all.
- From it: `TypeCorrect`, `PublicationWasApproved`, `OneAutomaticMailing`,
  `MailFollowsThePost`, `NoLostUpdate`, `EditorsDecide`, `MailCarriesThePost`,
  `WithdrawalClosesMail`, and `TeamFollowsTheWorkflow`, the refinement of
  `DocumentWorkflow`.

`SubscriptionsProofs`

- `SubscriptionInv`. The row of the subscriber serialises the transactions that
  write it: whoever has locked it knows the status and every link that would
  confirm him (`Sees`), as nobody else can issue one. So there is at most one
  such link (`OneConfirmation`, a part of `CommunityTypeOK`), and only while the
  address is pending (`OneLink`). An opt-out that
  has looked for mail has closed what was open, but for jobs retried or queued
  since; without that, `OpenMailIsWanted` is not inductive.

`CommunityProofs`

- `ApplicationInv`: a transaction beyond its lock has found the application as
  its update needs it (`Reviewed`) and its next statement covers every job there
  is (`FitsMail`); a job a worker has found eligible still is, or was retried
  after a withdrawal, or will never be open again (`Checking`).
- `CommunityTyped`, `DeletionsAreComplete`, `DisclosureIsMutual`,
  `OptOutEndsMail`, `WithdrawalsAreFinal`, `LinksAreUsedOnce`, and
  `SubscriptionsImplementDoubleOptIn`, the refinement: the commit that writes the
  subscriber is the step of `DoubleOptIn`, every other statement a stutter.

`ServicesProofs`

- `AccountInv`: the lock of `saveUser` makes the count it decides on true until
  it writes, and whoever is about to commit the end of a password or of an
  account leaves it no session that has to end: they are among the rows it has
  deleted, since what was inserted after the deletion is `late` (`Deciding`);
  one transaction at a time has written the row of a user (`RowsHeldOnce`).
- `ReferenceInv`: what a deletion has read did not refer to the item (`Reads`),
  so a reference that stayed all the time is read (`Stays`); the file is stored
  before its row and removed after it (`Kept`).
- `MailInv`: a row saved since the rotation is encrypted with the current secret
  (`Saving`). `SettingsInv`: every navigation on a page, in a save or in the row
  has distinct entries, the fixed ones, and the numbers of their places
  (`SoundSettings`); that moving, adding and removing keep this is proved for
  sequences of any length. `AccessInv`: only addresses the deployment can have
  are configured.
- `CountersInv`: no two requests under way hold one counter, and none holds a
  full one, so that a commit adds one to each of its counters and stays within
  their limits.
- `ServicesTyped`, `AccountsStaySafe`, `ReferencesStay`, `SettingsStayUsable`,
  `CountersStayExact`.

`OperationsProofs`

- `DevelopmentInv`: a cleanup begins when nothing is started any more, and what
  it has passed was told to stop (`CleanedBehind`); PostgreSQL is spawned by
  `start()` alone, which is not called after a stop, and a run of `dev-db` that
  is over has had its stop (`ServerIsFound`): `NothingStaysRunning`.
- `ContentInv`: the app is down whenever the database and the files may differ
  (`Served`); at each command of a backup or a restore, what belongs together
  and what the old content is (`BackedUp`, `Restored`), and what its trap knows
  of that (`Flagged`): `NothingStaysHalfDone`.
- `EnvironmentInv`: what a command is about to write is the update of what it
  has read, of a file it did not refuse (`Drafted`). `SiteKeepsTheOthers` then
  needs that the update keeps every entry of other names, for files of any
  number of lines without a hidden value; the scan for open quotes is a recursive function, and the
  first line where two scans differ (`LeastNatural`) is the induction.

`FrontEndProofs`

- `ManagerInv`: the list lacks nothing but what the pending answer will change
  in it (`Agreed`), a call carries what was typed (`Typed`).
- `EditorInv`: the page's version is one the document has (`Known`); a served
  call is the version after the one the page knows (`Served`), so that a save
  that runs when a restoration was served is refused (`Stale`); what a save
  carries is on the page, or the page can tell that it changed (`Telling`), even
  by the text of an older rendering; there is one document, or none until its
  first save is answered (`Only`).
- `PanelInv`: a push carries what was confirmed (`Asked`). `SpecialInv`: the
  snapshot of whoever holds the lock is the row, an editor's version is not
  newer than the row's, and a clean page of the same version has its draft
  (`Writing`).
- `FrontEndTyped`, `WorkStaysOnThePage`, `PagesShowWhatIsStored`,
  `CallsActOnce`, `PagesFollowTheScreen`.

Every safety property that a passing run checks is stated by a theorem. Left to
TLC: liveness (`CommittedIsSettled`, `RequestsEnd`, `CommandEnds`), as fairness
and `ENABLED` are out of the prover's reach; and the violations. What a
recursive definition computes is proved only where the recursion can be unfolded
at one place, as in `SiteKeepsTheOthers`; elsewhere the proofs need no more of
it than its type.

## 6. Not modelled

Validation of texts, formatting, rendering, SMTP and TLS themselves, AES, Better
Auth, PostgreSQL beyond row locks and READ COMMITTED. The public content reader
only reads. `migrate.ts` runs generated SQL. What a component leaves out is in
its note in `PROJECT.json`.
