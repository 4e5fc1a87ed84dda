# MailGate: verification development

TLA+ models of [MailGate](../src/README.md), the TLC configurations that check
them, and machine-checked proofs. The models are translated from the code under
`src/`; `PROJECT.json` names, for every definition, the lines it stands for.

Run `tlc -config X.cfg MCModule` for a model, `tlapm XProofs.tla` for a proof.

## 1. The system

MailGate puts a quarantine between a mailbox and an AI agent. A worker copies
mail read-only from an IMAP INBOX into PostgreSQL, where every message starts
quarantined; an owner approves or rejects it in a web UI; an agent reads the
approved messages through a token-protected API; a retention job deletes old
rows; host scripts rotate keys and passwords and make backups.

| Part | State it keeps | Operations | Talks to |
|---|---|---|---|
| worker (`app/gateway/ingestion.py`, `worker/mailgate_worker`) | rows read at the start of a cycle, the cursor and the batch of the current sync (memory only) | poll loop, `sync_all_mailboxes`, `sync_mailbox`, `_store_message` | INBOX through the egress relay, DKIM resolver, database |
| owner UI (`views.py`, `forms.py`) | none of its own | owner setup, mailbox create / edit / delete, decisions, tokens issue / revoke | database |
| agent API (`api.py`, `api_auth.py`) | none of its own | authorize, list, summary, categories | database function and view |
| database (`models.py`, `migrations/`) | mailboxes with cursor, `config_version` and status; messages; tokens; audit events; users | two triggers, the authorization function, the approved view | everybody |
| retention (`lifecycle.py`, `purge_retention`) | none | delete expired messages, tokens, audit events in one transaction | database |
| credential encryption (`crypto.py`, `rotate_mailbox_credentials`) | keyring in each process's settings | encrypt, decrypt, re-encrypt all rows | database, secret files |
| host scripts (`scripts/`) | secret files, lock files, archives | keyring and admin-password rotation, backup, restore, doctor | database, Compose |
| DKIM resolver (`worker/mailgate_dkim_resolver`) | times of recent requests, shared by its threads | one bounded TXT lookup per request, rate limit | worker, DNS over HTTPS |
| owner export (`owner_export.py`, `export_owner_data`) | none; one output file | write all tables as one NDJSON file | database |
| mail processing (`mail.py`, `authentication.py`) | per message: results of its signatures, the DNS budget | parse, verify DKIM, assess, classify | worker, DKIM resolver |
| proxies, settings, health, self test, providers, templates | configuration | - | - |

The behaviours that are hard here:

* **Stale reads.** The worker reads all enabled rows at once and works on them
  for a whole cycle of network traffic; views and scripts read a row, check it
  and save it later. `config_version` and `update_fields` are what protects.
* **Partial progress.** Messages are committed one by one, the cursor once per
  batch, and the process may die or fail anywhere between.
* **Numbering.** UIDs mean something only within a UIDVALIDITY generation.
* **Time.** The authorization function takes its timestamp before it waits for
  a row lock, and counts audit events that retention deletes.
* **Check then act.** Three looks for an existing owner, only one of them under
  a lock.
* **Files and databases changed together** by the rotation scripts, and copied
  one after the other by the backup.
* **Transactions of many statements.** Retention, mailbox deletion and the export
  each read, lock and delete rows while the others do.
* **Answers that come late.** The worker gives up on a lookup, the resolver's
  thread goes on, and its rate limiter is used by threads out of order.

What makes each part correct: no message is lost or skipped, no stale write
survives a change by the owner, only an explicit decision takes a message out of
quarantine (worker, UI, retention); no call without an active token, no more
calls than the limit, each answer audited (API); one owner (setup); every
credential stays readable with the current keyring and the secret
file always authenticates (rotation); an archive is complete and restores
(backup); only expired rows are removed and the audited counts are true
(retention, deletion); the export is one consistent picture (export); an outage
never condemns a message and a low risk is earned (mail processing, resolver). `PROJECT.json` lists the individual hazards at their lines.

## 2. Modules

| Module | Models | Composes / used by |
|---|---|---|
| `Gate` | the promise about one message's state, abstractly | refined by `Ingestion` and `Lifecycle` |
| `Vault` | the promise about the keys of stored credentials, abstractly | refined by `Keyring` (and so by `Backup`) |
| `Door` | the promise about the tokens and calls of the agent API, abstractly | refined by `ApiAccess` |
| `Verdict` | the promise about the check of one message after another, abstractly | refined by `MailCheck` |
| `Ingestion` | worker, remote INBOX, mailbox and message views, triggers, message retention, re-encryption | instantiates `Gate` as `GateView` |
| `ApiAccess` | token issue and revocation, authorization function, retention of tokens and audit events, API calls | instantiates `Door` as `TheDoor` |
| `OwnerSetup` | `setup_owner` and its form under concurrent requests | - |
| `Keyring` | the credential keyring: the host tool, processes with an older file, re-encryption, retirement of keys | instantiates `Vault` as `TheVault`; extended by `Backup` |
| `Backup` | `backup.py` and `restore.py` beside all of that | composes with `Keyring` |
| `AdminRotation` | the rotation of the PostgreSQL admin password with rollback and fallback | - |
| `Lifecycle` | the transactions of retention, `mailbox_delete` and the owner export, with decisions and the worker on the same rows | instantiates `Gate` as `GateView` |
| `MailPolicy` | limits, signals, claims, aggregation and risk of one message, as operators | extended by `MailCheck` |
| `MailCheck` | the worker checking messages and the DKIM resolver with its threads and limiter | uses `MailPolicy`; instantiates `Verdict` as `TheVerdict` |
| `IngestionProofs`, `ApiAccessProofs`, `OwnerSetupProofs`, `KeyringProofs`, `AdminRotationProofs`, `LifecycleProofs`, `MailCheckProofs`, `BackupProofs` | theorems and inductive invariants | extend the module they are about; `BackupProofs` also `KeyringProofs` |
| `MCIngestion`, `MCApiAccess`, `MCOwnerSetup`, `MCKeyring`, `MCBackup`, `MCAdminRotation`, `MCLifecycle`, `MCMailCheck` | TLC instances, symmetry | extend the module they check |

### Ingestion

`mailbox` and `message` are the tables: per mailbox its presence, `enabled`,
`config_version`, `uid_validity`, `last_uid` and the status that
`last_sync_at` and `last_error_code` show (`never`, `ok`, `failed`); per unique
key (mailbox, UIDVALIDITY, UID) the message state, or `absent`. `inbox` is the
provider's side. `posts` holds decision requests between reading the row and
saving it. The worker's memory is `pc` (where it is), `queue` (rows of this
cycle as they were read), `sync` (the object `sync_mailbox` works on, with its
in-memory cursor and `expected_config_version`) and `todo` (UIDs of the batch).

One action is one IMAP exchange or one committed transaction. The transactions
lock the rows they depend on before they read them (`select_for_update`), so at
READ COMMITTED each appears as one step. `StartSync` to `Finish` follow
`sync_mailbox` in order: `Select` (connect, login, UIDVALIDITY, SEARCH), per UID
`Fetch` then `Store` or `StoreRefused`, then the guarded cursor update.
`ImapFailure` and `FetchMissing` are its except branch, `UnexpectedError` the
catch-all in `sync_all_mailboxes`, `Crash` the death of the process. An error
between two exchanges has the same effect as one in the next exchange.

`ingested`, `dirty` and `tested` are history: no guard reads them.

### The abstract specifications

`Gate` has one state per message (`row`) and the decisions that were asked for it
(`asked`): a message enters in quarantine, leaves it by an asked decision, may be
removed, and returns only through quarantine. The same decision may be submitted
twice, so a decision that is taken may stay in `asked`.

`Vault` has the keys that a process started now can decrypt with, the primary key
and the key of each credential. Its steps are whole: `Rotate`, `Encrypt`,
`EncryptAll`, `Retire`. `Keyring` maps the file and the rows to it; what runs of
the tool, processes and jobs hold in memory is not visible there.

`Door` is an API that deletes nothing: it knows every token ever issued, which of
them were closed, and every call it granted. A call is decided in one step. It is
granted only if its token is issued, not closed, not expired at the call's
timestamp, and fewer than `Limit` calls were granted since the start of its window
(`GrantedSince`); it is refused only if the token is missing, closed or expired
by now, and limited only if the window is full. `ApiAccess` maps a purged row to
an issued token, and its two-step revocation to one `Close`.

`Verdict` checks a message in at most three steps: `Begin`, `Find` (its DKIM
result, one of the `Findings` its signatures allow) and `Judge` (its risk, one of
the `Risks` of a message with that result). `MailCheck` gives `Findings` as what
follows from the possible lookups of each signature by itself (`PossibleLookup`),
where a lookup depends on the others only through the query limit; `found` is
`Dkim` once every signature is done.

### ApiAccess

A call takes its timestamp (`Ask`), waits for the token row (`Tick` may pass
meanwhile, at most `MaxWait`), and is then granted or refused in one step
(`Authorize`, `Unauthorized`, `RateLimited`) against the row as it is when the
lock is granted. `Answer` is the view's own statement. `OpenRevoke` and
`SaveRevoke` are the two halves of `token_revoke`. `Purge(n)` uses a timestamp
`n` that may lie in the past, because `purge_retention` takes it before waiting
for its advisory lock. `events` holds the committed `api.read` events.

### OwnerSetup

Each request goes through the look at the top of the view (`Arrive`), form
validation (`Validate`), the advisory lock (`Lock`), the look under the lock
(`Recheck` or `OwnerExists`), the inserts (`Save`) and the commit (`Commit`);
`Fail` is the death of the process or its connection, which rolls back.

### Keyring

`ring` is the file `master_keyring` (its primary and its key IDs), or `NoFile`
in an installation that only has `master_key`; `cred` says which key each stored
credential needs, `Untagged` standing for `master_key`, which Compose mounts
everywhere. `tool` holds the runs of `rotate_credential_keyring`: where each is
and the document it prepared in memory. `web` and `job` hold what each process
loaded when it started, since `settings.py` reads the file once.

A run takes the lock (`Acquire`; a run that finds the lock taken changes
nothing), prepares a document (`Prepare`, from the file or from `master_key`) or
leaves (`Refuse`, also when the key is already primary), replaces the file
(`Write`, or `WriteFails`, which may have replaced it all the same), and
verifies it. `RunJob` is the transaction of `rotate_mailbox_credentials`: all
rows or none. Which rows an encryption changes under a running sync is
`Ingestion`'s `Reencrypt`. Runs and jobs may be started again without limit;
`Tools` and `Jobs` only bound how many are under way at one time.

### Backup

`Backup` extends `Keyring`: its `BackupNext` has every step of `Keyring` and those
of the copies. `backup` holds the runs of `create_backup` with what each has
encrypted so far (`content`): the keys (`ReadKeys`, from `credential_bundle`),
then the rows as `pg_dump` reads them in one snapshot (`Snapshot`), then whether
`pg_dump` returned 0 (`DumpEnds`). `Publish` is `os.replace`; every error or kill
before it is `BackupStops`. `archive` is the file at the output, which may be
damaged later (`Damage`). Of a row only the key of its credential is modelled,
and an ID stands for its key.

`restore` is the run of `restore_backup`: `Authenticate` (the whole archive is
decrypted and its tag checked before anything else), `RestoreStops` (it ends with
the database untouched) or `BeginLoad` and `LoadEnds` or `LoadFails` (`pg_restore --clean`, which replaces object by object), then, if a
directory was named, `OpenDirectory`, `KeysWritten` or `RecoveryFails`. `target`
is the database of the restore project, `recovered` the directory. A restore may
be repeated, into the same database and the same or another directory. `seen`
and `same` are history.

### AdminRotation

`db` and `file` are the password PostgreSQL accepts and the one in the secret
file; a run of the tool stands for the password it generates. `pc` follows
`rotate_postgres_admin_password` operation by operation; each takes `ok`, and a
failed one (`~ok`) may or may not have taken effect. The except branch is
`RollbackDatabase`, then `RestoreFile` and `VerifyRestored`, or, when the
rollback fails, `KeepNew` and `VerifyKept`. The final values of `pc` are the
tool's reports; `Leave` removes the lock file, and an error there replaces the
report (`unreleased`). `writer` is history: no guard reads it.

In both rotation modules `RemoveStaleLock` is the operator who removes the lock of a run
that is gone, and `Kill` stops a run without its finally branches.

### Lifecycle

`row` holds the message rows as committed, with their state and the time from
which they age (`Coalesce(decided_at, ingested_at)`); a row is `Absent` before it is
inserted and `Gone` after it is deleted, and its key is not used again. At READ COMMITTED a
statement sees what is committed at that moment and waits for rows another
transaction has locked or deleted, so each statement is an action:

* `purge` is the run of `purge_retention`: `BeginPurge` takes the time, `SelectBatch`
  reads the keys of a batch without a lock, `LockRow` locks one of them, waiting
  if it must, and checks it again, `DeleteBatch` deletes and counts, `NextCategory`
  goes on when no expired row is left, `CommitPurge` writes the audit event and
  commits. `PurgeFails` is the rollback. `Matches` excludes the transaction's own
  deletions, which `Expired` does not: that is why the loop ends.
* `del` is the transaction of `mailbox_delete`: `CountMessages` (the mailbox row is
  locked, so the worker's `Ingest` waits), `OpenDeletion`, `DeleteMessage` row by
  row, `CommitDeletion` or `DeletionFails`. There is one attempt per mailbox.
* `Deadlocked` says that the two wait for each other; `AbortOne` is PostgreSQL's
  answer.
* `posts` are decisions between `timezone.now()` and their UPDATE.
* `export` holds the runs of `export_owner_data` with the snapshot they read from
  (`StartExport`) and what they have written (`WriteMessages`); `Publish` links the
  finished file to `file`, the output path, unless it exists.

### MailPolicy and MailCheck

`MailPolicy` has no state: `Refused`, `Signals`, `Claims`, `Overall`, `Reasons` and
`Risk` are `parse_message`, `parse_authentication_results`, the end of
`verify_dkim`, and `assess`, over contents described by what the code looks for
in them. `classify` chooses a label only and is left out.

In `MailCheck`, `pc`, `sigs`, `index`, `results`, `budget` and `request` are the
worker inside `verify_dkim`: `StartMessage`, then per signature `VerifyOffline`
(decided without a key), `LookupRefused` (`_DnsBudget.lookup` returns `None` by
itself) or `Ask`, which opens a request at a thread of the resolver; then
`Assess`. The timeout that `resolve_txt` gives to `urlopen` holds for each socket
operation (connect, send, receive the headers, receive the body), so a request
waits until `request.deadline` for the present one, and `Progress` begins the next
with a deadline of its own. `Patience` is that timeout, the floor of 0.1 s
included (`QueryFloor`). The request ends with the answer (`Respond`), the
`Timeout` of one of its operations, or a restart. `thread` holds the resolver's handler threads;
`Stamp` reads the clock and `Admit` or `Deny` is `_rate_allowed` under its lock,
a separate step, so threads overtake each other. `times` is `REQUEST_TIMES`.
`waited` marks the one thread whose answer the worker still waits for: a thread
that the worker gave up on goes on and uses the limiter. `got`, `admitted` and
`latest` are history.

## 3. What TLC checks

| Run | Instance | Distinct states | Question |
|---|---|---|---|
| `ingestion_sync` | 1 mailbox, 3 UIDs, 2 generations, batch 2, no edits | 883 000 | is anything ever skipped? |
| `ingestion_gate` | 1 mailbox, 2 UIDs, 3 versions, 1 decision in flight, batch 1 | 479 000 | is the gate implemented? are cursor, status and writes of the worker never stale? |
| `ingestion_live` | 1 mailbox, 2 UIDs, 2 versions, batch 1, fairness | 11 500 | is every lasting message ingested? |
| `expired_imported_again` | 1 mailbox, 2 UIDs, batch 2 | violation | are expired messages never imported again? |
| `api_access` | 1 token, 3 calls, limit 2, window 1, audit age 2 | 665 000 | is the door implemented? rate bound, revocation, audit |
| `owner_setup` | 3 requests, 2 usernames, fairness | 2 800 | one owner, all requests end |
| `admin_rotation` | 3 invocations (symmetric) | 8 700 | is a mismatch of database and file ever unnoticed, a report ever false? |
| `keyring` | `Backup`: 3 key IDs (symmetric), limit 2, 2 runs of the tool (symmetric), 1 web process, 1 job, 1 mailbox, 1 backup, 1 restore | 2 500 000 | can every credential be read, now and from the backup? is the vault implemented? |
| `activation_adds_key` | `Keyring` alone, 2 mailboxes | violation | does reactivation only activate? |
| `lifecycle` | 1 mailbox, 2 messages, batch 1, 1 decision in flight, 1 export, fairness | 743 000 | is the gate implemented? are removals, counts and export right, does retention end? |
| `lifecycle_mailboxes` | 2 mailboxes, 1 message each at a time, batch 4, no decisions or exports, fairness | 94 000 | does a purge that meets two deletions at once end? |
| `mail_check` | 3 signatures, 2 queries of 2 socket operations, 2 threads, 2 requests per window, fairness | 354 000 | budget, judgement, risk and limiter; is a verdict implemented? does the check end? |

Properties:

* `NothingSkipped`: every UID at or below the saved cursor of the current
  generation that is still in the INBOX was stored at some time.
* `NoStaleWorkerWrite`: after an edit, re-encryption or deletion, the worker
  changes neither row nor messages of that mailbox until it has read it again.
* `StatusIsCurrent`: the shown status is about the configuration in force since
  the last password change or re-enabling.
* `CursorStable`: the cursor never moves back within a generation, and a removed
  message can only come back from beyond the saved cursor.
* `ImplementsGate`: `Ingestion` refines `Gate`, and so does `Lifecycle`, where each
  statement of a transaction is a step of its own; requests in flight map to
  `asked`, except those whose row has gone.
* `EventuallyIngested`: a message that stays in an enabled mailbox's INBOX is
  ingested.
* `RateBound`: no window of timestamps of length `Window`, closed at both ends,
  holds more than `Limit` granted calls of a token.
* `NoGrantWhenInactive`: no call stamped after the first saved revocation or
  at or after the expiry is granted.
* `AnswersAreAudited`: an answered call is in the log until `AuditAge` passed.
* `ImplementsDoor`: `ApiAccess` refines `Door`. The row, its lock, the events that
  retention trims and the revocations in flight neither let in a call nor keep one
  out that the door without deletions would have decided otherwise.
* `SingleAuditedOwner`, `EveryRequestEnds`.
* `CredentialsReadable`: no stored credential needs a key that is missing from
  the keyring file.
* `ImplementsVault`: `Keyring` refines `Vault`. What a run writes after others came
  and went is one rotation of the file as it is then, what a process or job
  encrypts with an old keyring is a key still in the file, and nothing but
  `Retire` removes a key.
* `ArchiveRestorable`: what is at the output is a whole dump, and its own keys
  read every credential in it, unless the keyring file was replaced between the
  reading of the keys and the dump. Re-encryption and retirement of keys in
  between do not matter.
* `RestoreIsFaithful`: a restore that reports success has loaded all of an
  authentic archive and recovered the keys that belong to it, whatever earlier
  attempts left behind.
* `OnlyExpiredPurged`, `PurgeIsCounted`: retention removes only rows that, as they
  were committed when they were removed, had outlived the age of their state, and
  the audited counts are what it removed.
* `DeletionIsCounted`: the audited count of a mailbox deletion is what it removed
  and what retention removed between the count and the commit. The difference is
  real: the audit event may name more messages than the deletion removed.
* `ExportIsClosed`: a published export refers to nothing outside itself.
* `PurgeEnds`: retention that begins ends, whoever decides or deletes meanwhile.
* `BudgetKept`: a message asks at most `MaxQueries` keys and begins no query when
  its time budget is used up. It may still be waited for later than that, but
  only by a query that was begun with a rest `r` of the budget, and by no more
  than the `Operations` of that one query, each of `Patience(r)`.
* `SignaturesAreJudgedAlone`: the result of a signature follows from its form and
  its own lookup.
* `OutageIsNotGuilt`: when a lookup failed temporarily the message passes or is
  `temperror`; it is never given a DKIM failure.
* `LowIsEarned`: low risk takes a content without any doubt and a signature
  verified with its key or, when there is none, a DMARC pass claimed by the first
  header of a trusted server.
* `ImplementsVerdict`: `MailCheck` refines `Verdict`. Nothing that is left from an
  earlier message, an abandoned request or an earlier signature enters the
  result: timeouts, restarts and the limiter change only what a lookup may give.
* `RateBounded`: a request admitted by the resolver, unless another overtook it
  between the clock and the lock, is within the limit of its window.
* `CheckEnds`: the check of a message ends although the resolver may never
  answer.
* `NoSilentMismatch`: database and file disagree only while the run that last
  tried to change one of them is at work, or after it reported trouble, was kept
  from reporting or was killed.
* `ClaimsAreTrue`: when a run reports success, a complete rollback or that the
  new password was kept, database and file are as it says.

Every property of a passing run has a mutant: a plausible wrong version of one
mapped definition, kept beside it in the module (for example
`ResumedInPlace` beside `Resumed`), under which the property fails.

**Findings.** `expired_imported_again` shows a divergence from
`docs/operations.md`, line 106: *"It preserves mailbox UID cursors so locally
expired messages are not imported again."* With a batch of two, the first
message is committed, the second fetch fails, the cursor stays (it is saved only
at `ingestion.py` 223-233), retention removes the first message, and the next
cycle imports it again, in quarantine. `CursorStable` and `ImplementsGate` state
what does hold. In the default policy it takes a batch that keeps failing for
the whole retention age.

`activation_adds_key` shows that `--activate-existing-id` does not only
*"Atomically reactivate a retained key, for example during rollback"*
(`scripts/rotate_credential_keyring.py`, line 159): with an ID that is not in
the keyring the test at line 95 fails and lines 130-142 generate a new key, store
it under that ID and make it the primary. `CredentialsReadable` holds all the
same, since no key is dropped.

Four smaller observations, for which the project has no run of its own:

* `docs/operations.md`, line 63, says of a backup that *"an existing output is
  never overwritten"*. `create_backup` looks at line 82 and replaces at line 131;
  an archive that another run published in between is overwritten. `Backup` has
  this step, and `ArchiveRestorable` holds for any number of runs all the same.
* An overtaken thread of the resolver judges the window by its older clock, so a
  window may hold more than the limit (`__main__.py` 44, 122).
* `DNS_TOTAL_TIMEOUT_SECONDS` decides whether a query is begun, and is no bound on
  the wait: line 88 of `authentication.py` waits at least 0.1 s although less may be
  left, and `urlopen` applies the timeout to each socket operation. `BudgetKept`
  states the bound that the code does keep.
* In the resolver's `do_GET`, `except ValueError` (line 127) comes before
  `json.JSONDecodeError` (130), which is a `ValueError`: an upstream answer that is
  not JSON is reported as 400. The worker takes both as temporary.

### Bounds, and why they are enough

* `MaxUid = 3` with `BatchSize = 2` has a full batch, a partial one and a UID
  left behind; two UIDs with batch 1 or 2 are used where only the order of two
  messages matters.
* `MaxValidity = 2`: one change of generation before, during and after a sync.
* `MaxVersion = 2` or `3`: one or two changes between a read and a write, the
  two that a disable and enable pair needs. Where a run does not ask about
  edits, the version stays 1.
* `MaxPosts`: decisions are independent of each other except on the same row.
  One in flight races with everything else, and `Gate` describes each singly.
* The runs of `Ingestion` have one mailbox: its row is read into the queue before it
  is synced, as any other, and edits may come in between. That several mailboxes do
  not disturb each other is what the theorems of section 4 say for any number.
* Three calls against a limit of two: the first one over the limit.
  `MaxTime = 3` leaves room for a window, the audit age and a token's life.
* `MaxWait = 1` lets calls be overtaken by others with later timestamps.

* Two runs of the keyring tool are what a lost update needs; with three IDs and
  a limit of two, a key must be retired before the third can be added. One web
  process and one job hold the file as it was at two different times.
* Three invocations of the admin rotation: one that left a lock or a mismatch
  behind, and two that follow or meet.
* One mailbox is enough beside the backup, because credentials do not influence
  each other but through the key that `Retire` and `RunJob` look for in all of
  them; the theorems cover any number. One backup and one restore at a time:
  what a restore reads was published before.
* In `lifecycle` two messages and batches of one give a second batch, a lock held
  from an earlier batch, and a deadlock with the deletion. `MaxTime = 2` with ages
  of zero ticks makes a row expire while a decision restarts its age. Two mailboxes
  with decisions and exports would be too large; `lifecycle_mailboxes` has what
  only two mailboxes have, one purge between two deletions, without them. With one
  decision in flight no decision is asked twice; the theorem covers that.
* In `mail_check` a message of three signatures asks for three keys where two are
  allowed, and one of four is refused (in the code both limits are 5). With
  `TotalTime = 3` and `QueryTime = 2` a query that times out leaves time for a second
  one, which overlaps with the abandoned thread of the first; it begins with a rest
  of one tick, less than `QueryFloor = 2`, so it is waited for beyond the budget.
  Two `Operations` are enough for one more deadline after the first. Two threads are
  what overtaking needs. `MaxTime = 0` bounds the clock without stopping it inside a
  message: the messages of the instance begin before its first tick, several of
  them if the worker is restarted or answered at once, and from then on the clock
  goes on while the last of them is checked. That the properties hold for messages
  begun later, the theorems say.

Most runs stop at these bounds, and those of `OwnerSetup` and `AdminRotation`
when every request or invocation has ended, so deadlock is checked only in the
runs of `Keyring` and `Backup`, whose web process can always start and stop.

### Fairness

`Ingestion!Fairness`: the poll loop and its bookkeeping are weakly fair (the
loop has no exit but a signal, Compose restarts the container). `StartSync`,
`Select`, `Fetch`, `Store` and `Finish` are strongly fair per mailbox and UID:
failures, restarts and edits may recur without end, but no operation on a
present message fails every single time it is attempted. Without this the code
does not deliver: a UID whose fetch always fails blocks those behind it, which
the hazards list. Nothing is assumed about the owner, retention or provider.

`OwnerSetup!Fairness`: a request that started goes on unless its process dies
(weak), and whoever waits for the lock gets it if it is free again and again
(strong; PostgreSQL queues lock requests in order).

`Lifecycle!Fairness`: the statements of retention and of a deletion go on unless
they wait (weak), and PostgreSQL ends a deadlock. Nothing is assumed about
decisions, the worker or the export. A killed retention counts as ended.

`MailCheck!Fairness`: the worker and the clock go on (weak). Nothing is assumed
about the resolver: it may never answer.

### Environment assumptions

* The IMAP server lists UIDs in ascending order, never reuses one within a
  generation and never returns to an earlier UIDVALIDITY (RFC 3501). The code
  takes the order from the server.
* One worker process, as in `compose.yaml`.
* Primary keys, UUIDs and token digests are not reused.
* Database host and web host agree on the time; `MaxWait` bounds the wait for a
  token row, and `AuditAge >= Window + MaxWait` (`ApiConstants`). One day of
  retention satisfies it. `audit_days = 0`, which `RetentionPolicy` permits,
  does not: retention would then delete the events the limiter counts.
* A lock file is removed by hand only when its run is gone, and a key is taken
  out of the keyring by hand only while no run of the tool or job is under way,
  the web processes run with the current file and every credential uses its
  primary key (`docs/operations.md`, step 8). A removed ID is not given to
  another key while something still needs the old one.
* `pg_dump` reads one snapshot and returns 0 only if its output is whole;
  `pg_restore` succeeds only on a whole dump. A damaged archive fails its
  authentication. The backup key does not change.
* The message keys are random UUIDs, so nothing is assumed about the order in
  which transactions lock rows. PostgreSQL aborts one party of a deadlock.
* dkimpy asks for at most one key per signature and finds a signature invalid
  when it gets none. When it has a key it may still raise an exception (`weak`).
* A request to the resolver takes at most `Operations` socket operations, the
  resolver's host name is looked up in no time, and an operation that times out
  ends at its deadline. An answer too large or of another type than bytes
  (`authentication.py`, lines 108 and 150 to 155) does not occur: the resolver of
  this repository refuses such a record itself.
* A Docker command that timed out does not take effect later. If it could, no
  order of the tool's steps would keep database and file aligned.
* In `Ingestion` retention may remove any stored messages at any time, which
  covers every policy.

## 4. What is proved

All theorems hold for every value of the constants that satisfies the module's
`ASSUME`, for states of any size.

| Theorem | States | Inductive invariant |
|---|---|---|
| `TypeCorrect` | `Spec => []TypeOK` | `Types` |
| `CursorSkipsNothing` | `Spec => []NothingSkipped` | `Types /\ CursorInv` |
| `NoStaleWrites` | `Spec => NoStaleWorkerWrite` | `Types /\ ReadInv` |
| `StatusNeverStale` | `Spec => []StatusIsCurrent` | `Types /\ StatusInv` |
| `CursorNeverBack` | `Spec => CursorStable` | `Types /\ CursorInv /\ ReadInv /\ HeldInv` |
| `IngestionImplementsGate` | `Spec => ImplementsGate` | `Types` |
| `ApiTypeCorrect`, `AnswersAudited` | `[]TypeOK`, `[]AnswersAreAudited` | `Inv` |
| `RateIsBounded` | `Spec => []RateBound` | `Inv /\ RateBound` |
| `InactiveTokensDenied` | `Spec => []NoGrantWhenInactive` | `Inv /\ NoGrantWhenInactive` |
| `ApiAccessImplementsDoor` | `Spec => ImplementsDoor` | `Inv /\ ClosedInv` |
| `SetupTypeCorrect`, `AtMostOneOwner` | `[]TypeOK`, `[]SingleAuditedOwner` | `Inv` |
| `RotationTypeCorrect`, `MismatchIsReported` | `[]TypeOK`, `[]NoSilentMismatch` | `Inv` |
| `ReportsAreTrue` | `Spec => ClaimsAreTrue` | `Inv` |
| `KeyringTypeCorrect`, `CredentialsStayReadable` | `[]TypeOK`, `[]CredentialsReadable` | `Inv` |
| `KeyringImplementsVault` | `Spec => ImplementsVault` | `Inv /\ PlanInv` |
| `BackupsLeaveKeyringAlone` | `BackupSpec => Spec` of `Keyring` | - |
| `BackupTypeCorrect`, `ArchivesAreRestorable`, `RestoresAreFaithful` | `[]BackupTypes`, `[]ArchiveRestorable`, `[]RestoreIsFaithful` | `Inv /\ BackupInv` |
| `LifecycleTypes` | `Spec => []TypeOK` | `Locks` |
| `RetentionRemovesExpired`, `RetentionCountsWhatItRemoves` | `OnlyExpiredPurged`, `PurgeIsCounted` | `Locks`, `Locks /\ PurgeCounts` |
| `DeletionCountsWhatItRemoves` | `Spec => DeletionIsCounted` | `Locks /\ DeletionCounts` |
| `LifecycleImplementsGate` | `Spec => ImplementsGate` | `Locks /\ Opened` |
| `ExportsAreClosed` | `[]ExportIsClosed` | `ExportInv` |
| `LimiterIsBounded` | `Spec => RateBounded` | `LimiterInv` |
| `MailCheckTypes`, `BudgetIsKept`, `SignaturesJudgedAlone`, `OutageNeverCondemns`, `LowRiskIsEarned` | `[]TypeOK`, `[]BudgetKept`, `[]SignaturesAreJudgedAlone`, `[]OutageIsNotGuilt`, `LowIsEarned` | `CheckInv` |
| `MailCheckImplementsVerdict` | `Spec => ImplementsVerdict` | `CheckInv /\ QueryInv` |
| `FirstTrustedDecides` | `Claims(u \o h \o v) = Claims(h)` if `u` has no trusted server and `h` has one | - |

* `Types` adds `WorkerSane`: while it synchronises, the worker holds a row it
  really read and the generation the server announced. The same conjunct ties
  each decision in flight to a stored row, which the refinement needs.
* `NothingSkipped` is about the saved cursor only and is not inductive: `Finish`
  copies the cursor from memory. `CursorInv` therefore says of *every* cursor,
  saved, queued or in memory, that it may be used (`CursorSafe`): it belongs to
  no future generation, and in the current one everything present at or below it
  was stored, and later arrivals lie above it. `BatchSafe` adds that the batch
  continues the in-memory cursor without a gap, which is where the ascending
  order of `Batches` enters.
* `ReadInv` says that what the worker holds is never newer than the row, and
  strictly older once the row is dirty; the guard on `config_version` then
  refuses every write for a dirty mailbox.
* `StatusInv` adds that a credential change is never newer than the version it was
  given; a report passes the guard only for the version in force, so it is about
  a configuration at least as new.
* `HeldInv` says that, while the version is the one that was read, the saved
  cursor is the one that was read, and the one in memory is ahead of it within
  the same generation. It needs that the worker holds one copy of each row
  (`OneCopy`), because its own report writes the cursor without a new version.
* The refinement maps each step to a step of `Gate` or a stutter; the lemmas
  `UnstoreIsRemove`, `OpenIsAsk`, `SaveIsDecide`, `FailureIsStutter` and
  `StoreIsIngest` are one per kind of step.
* `RateBound` is preserved by `Authorize` because every earlier grant within one
  window of the new timestamp, before *or after* it, is among the events
  counted: `Timely` bounds the age of a waiting call, so retention cannot have
  deleted one (`WindowIsCounted`, `GrantWithinLimit`).
* `ApiAccessImplementsDoor` rests on two facts. `NothingForgotten`: while a call
  waits, the events still in the log are exactly the granted calls that `Door`
  counts. `ActiveDecides`: a row that lets a call in belongs to a token neither
  closed nor expired, and one that keeps it out (or is gone) to one that is closed
  or has expired by now; `ClosedInv` says why a purged row is one of these.
* In `AdminRotationProofs`, `StageInv` says what the run that holds the lock may
  conclude about database and file at each of its steps, whatever failed before:
  for example, that the database holds its password once the change succeeded.
  The reports follow from it, because each is preceded by a login that used
  both.
* In `KeyringProofs`, readability alone is not inductive, since a process writes
  with the key it loaded. `SourcesInv` says that every such key is still in the
  file, and `DocumentInv` that a run about to replace the file keeps all keys
  that are in it: the lock excludes other runs, and `Retire` needs that none is
  at work.
* `PlanInv` is what the refinement of `Vault` needs on top: the document that a run
  prepared is one rotation away from the file as it is *now* (`OneRotation`), which
  the lock preserves from `Prepare` to `Write`. `KeyringImplementsVault` reaches
  `Backup` through `BackupsLeaveKeyringAlone`.
* In `BackupProofs` the step from `BackupNext` to `Next` makes every invariant of
  `Keyring` available. `BackupInv` says that a run whose file was `same` holds rows
  its bundle reads (from `CredentialsReadable` at the moment of the snapshot), and
  that a restore past its load has exactly the archive's rows in the database.
* In `LifecycleProofs`, `Locks` says that rows locked by retention or deleted by a
  transaction are still stored, still match, and belong to one transaction only:
  a decision or a deletion cannot have changed them. `PurgeCounts` relates the
  counts to the rows deleted so far by category; `DeletionCounts` says that what a
  deletion counted is what it still owns and what it has lost to retention.
* `LifecycleImplementsGate` maps every statement before a commit to a stutter, and
  each commit of retention or a deletion to one `Remove` of all its rows
  (`CommitIsGateRemove`); `Locks` makes the rows still stored at that moment.
  `Opened` ties each decision in flight to a row that was inserted.
* `LimiterInv` describes the queue as the end of the history of admissions:
  everything before it is older than one window of the latest time asked, so the
  length of the queue bounds the window (`QueueIs`). Times out of order make this
  true only relative to `latest`, which is why the property has its premise.
* `CheckInv` says for each signature before `index` that its result is its own,
  for the one being looked up what the budget may hold, and that exactly one
  thread is waited for. `InTime` is its part for `BudgetKept`: with `Begun`, `Ask`
  begins with a rest `r` of the budget, and from then on the present deadline and
  the whole time of the operations left end by `Overdue(r)`, which `Progress` keeps
  because no operation ends after its deadline.
* `QueryInv` says that the budget has counted one query for each signature so far
  that asks for a key (`AskedNext`), and that every lookup so far gave what it can
  give there. With the part of `CheckInv` about own results, the aggregate is one
  of the `Findings` (`FindingIsPossible`), the step at which the last signature
  ends is `Find`, and all others before `Judge` are stutters.
* `LockInv` says that a request which saw no owner under the lock still sees
  none until it commits.

Only model-checked: the liveness properties (`EventuallyIngested`,
`EveryRequestEnds`, `PurgeEnds`, `CheckEnds`), which the prover cannot reach.
Every invariant and action property of a passing run is stated by a theorem.

## 5. Not modelled

* Text processing: header decoding, HTML to text, sanitising, URL normalisation,
  the patterns of prompt injection, `classify`. `MailPolicy` starts from what they
  find. Pure string functions without state.
* `SystemDnsTxtResolver`, used only when no resolver service is configured. It
  takes an ambiguous or oversized answer as permanent, the service as temporary.
* Audit events other than `api.read`, `owner.created` and the counts of retention
  and deletion; several views write theirs in a transaction of its own.
* Presentation, static database grants, proxies, settings, provider tables, the
  self test and the doctor: no state of their own. Sessions and login are
  Django's. Schema migrations and `create_local_secrets` run once before
  anything else exists.
* The order and wording of reports, file modes and ownership, temporary files of
  killed scripts.

`PROJECT.json` gives the reason for every part.

## 6. Plan

Done: all modules above and their proofs.

What is left, in order of worth: the audit events of the owner's actions with a
crash between the two commits; `create_local_secrets` killed halfway through a
file, which the next run takes as complete.
