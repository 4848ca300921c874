# Edgewarden in TLA+

Edgewarden is a Bitwarden-compatible server on Cloudflare Workers with a web
vault. Its state lives in a D1 (SQLite) database, encrypted files in R2 or KV,
live notifications in one Durable Object per user. Requests run concurrently in
many isolates, and nothing but the database orders them: one `db.batch([...])`
is one transaction, and between two awaited calls any other request may run.
Almost every request therefore reads, decides, and then commits a batch whose
`WHERE` clauses must find out whether what it read still holds. These modules
are about those clauses, and about what is done when two stores (D1 and the
file store) have to agree without a transaction across them.

Paths below are relative to `src/apps/api/src` unless they begin otherwise.

- [The system's parts](#the-systems-parts)
- [What each module models](#what-each-module-models)
- [What each run checks](#what-each-run-checks)
- [Fairness](#fairness)
- [What is proved](#what-is-proved)
- [Where code and documents part](#where-code-and-documents-part)
- [What is not modelled](#what-is-not-modelled)
- [Plan](#plan)

## The system's parts

| Part | State | Operations | Meets |
|---|---|---|---|
| Data operation lease (`services/backup/operation-lease.ts`) | a row of `config`: token, expiry; each holder's in-memory expiry | acquire, renew, require fresh, release | backups, restores, settings, maintenance run under it |
| File storage (`handlers/attachments.ts`, `sends-file.ts`, `sends-public.ts`, `services/blob-gc.ts`, `blob-store.ts`) | `attachments`, `attachment_uploads`, `sends.storage_key`, `blob_gc_queue`, the objects | create, upload, publish, discard, delete, drain the queue | restore replaces every row and key; items own attachments |
| Sessions and devices (`services/identity-*.ts`, `auth.ts`, `handlers/identity-*.ts`, `devices.ts`, `accounts.ts`, `two-factor.ts`, `admin/users.ts`) | `users` (stamp, hash, recovery code, status), `devices` (session stamp), `refresh_tokens` | password, recovery and refresh grant, revocation, security change, device removal | every authenticated request checks stamps |
| Items (`handlers/ciphers*`, `services/ciphers/access.ts`) | `ciphers` (mutation token, dates), `cipher_user_settings` (a member's folder and archive mark of a shared item) | create, edit, file, share, trash, erase, restore, archive, purge, import; alone and in bulk | folders, organization, revisions, attachments |
| Folders (`handlers/folders.ts`) | `folders` (mutation token) | create, rename, delete | items and views filed in them |
| Revisions and sync (`handlers/sync.ts`, `services/db/revisions.ts`, `services/db/batch/revisions.ts`) | `user_revisions` | announce in a batch, read at a stable revision | every batch; notifications; clients |
| Organizations (`handlers/organizations.ts`, `organization-members.ts`, `organization-collections.ts`) | `organizations`, `org_members`, `collections`, their tokens | create, invite (a member is confirmed at once), change, remove, leave, rename, delete; collections; filing of items | who sees an item; account deletion |
| Backup and restore (`handlers/backup*.ts`, `services/backup/`) | settings in `config`, archives, shadow tables | export, scheduled run, import, remote import | the lease; every table; file storage |
| Maintenance (`services/maintenance.ts`, `index.ts`) | none of its own | hourly: expired rows, file garbage | the lease; file storage |
| Sends (`handlers/sends*.ts`, `services/db/sends.ts`) | `sends` (access count, dates) | create, edit, delete, access, download | file storage |
| Login with another device (`handlers/auth-requests.ts`, `services/db/auth-requests.ts`) | `auth_requests` | ask, approve, consume | sessions; notifications |
| Second factor and passkeys (`handlers/two-factor*`, `yubikey.ts`, `account-passkeys/`) | `webauthn_challenges`, `webauthn_credentials`, the user's factors | challenge, register, assert, remove | sessions |
| Lockout (`services/login-attempts.ts`) | `login_attempts` | record, clear, ask | the password grant |
| Registration (`handlers/public.ts`, `services/registration-policy.ts`, `handlers/admin/invites.ts`) | `invites`, locks in `config` | register, invite, bootstrap | users |
| Account deletion (`services/account-deletion.ts`) | tombstone columns of `users` | delete | sessions, items, memberships |
| Audit (`services/audit.ts`) | `audit_logs` | insert with the change | every administrative batch |
| Notifications (`durable-objects/vault-realtime.ts`, `services/realtime.ts`, `push-relay.ts`) | sockets | publish, relay | after each change; web vault |
| Web vault (`src/apps/web/src/lib`) | decrypted copy, IndexedDB snapshot, last revision | sync, lock, unlock, watch, act | sync; notifications; other tabs |
| Domain rules (`services/domain-rules.ts`) | `domain_settings` | read, save | sync |

What is hard in them, and what would make each correct:

- **Lease.** A statement's time is read when it is called and compared when it
  runs; answers get lost; Workers stop while they hold the lease; a holder works
  on from memory between checkpoints. Correct: no one takes over a live lease, a
  holder is alone within its margin, and whoever keeps asking gets its turn.
- **File storage.** Publication is a D1 batch, storing an object is not. A put,
  a batch or a delete may take effect and still throw; a queued key may be in use
  by the time it is deleted; a restore changes every row at once. Correct: no row
  without its object, nothing forgotten, garbage goes in the end, a published
  attachment never changes.
- **Sessions.** A grant makes four or five reads before its batch, and a ban, a
  password change, a factor change or the removal of the device may commit
  between any two. Correct: no token survives what should have ended it, a
  rotation never forks, no ordinary race costs a user the login, what was
  revoked stays revoked.
- **Items and folders.** Two requests on one item, each fenced by the token it
  read; batches over many items, some of which changed; folder deletion that
  does not touch tokens; members who come and go. Correct: a batch writes over
  exactly what its request saw, an edit never overwrites something newer than its
  client had, a purge is final, nothing is left in a folder that is gone.
- **Revisions and sync.** Four or more reads without a transaction, second
  precision, batches that announce late. Correct: an answer is one state of the
  vault, and stays current while the revision does.
- **Restore and backups.** Both run under one lease and both outlast it: a remote
  call takes longer than the lease lives, a Worker dies, and the next operation
  begins on the same shadow tables or the same settings row. Correct: the live
  tables are one archive, whole; no pruning takes the last good archive; no copy
  of the settings undoes what was written since it was loaded.
- **Organizations.** Actor, member and collection are read in separate
  statements and ranked in the handler. Correct: whoever changes a member
  outranks the member at the commit, not only at the read; a member's access is
  one request's grant and not two halves; whoever loses or gains sight of
  something is told, though the rows that say whom to tell go in the same batch.
- **Who gets in.** First account, invites, second factors, passkeys, approvals by
  another device and the lockout are all good *once*, or *so many times*, or *as
  long as nothing changed*, and all are read before the batch that uses them.
- **The others**, the web vault's copy above all: see `hazards` in
  `PROJECT.json`, which names each at its line with the property that covers it
  or the reason why none does.

## What each module models

One action is one statement or one batch, with everything it changes; a request
that awaits between two is a process whose state records what it read. Where a
batch is fenced, the action's guard is the batch's `WHERE`, evaluated against
the database of that moment, not against what the handler saw.

**`OperationMutex`** is what the lease promises: of all data operations at most
one is inside. **`DataLease`** is the lease. `stored` is the row of `config`;
`called`, `expiry` and `phase` are the variables of the `async` functions (the
timestamp taken at the call, the expiry in memory, the point reached). A call
and its execution are two actions, so time and other operations may pass between
them. `AcquireAnswerLost`, `RenewFailed` and `Abandon` are the failures;
`checkpoint` is a ghost that records when an operation last had its lease
confirmed. `Mutex` is the refinement: inside is who holds a lease in memory.

**`BlobLifecycle`** models the objects. `row` and `ref` are the attachment and
Send rows with their keys, `queue` is `blob_gc_queue`, `blobs` the file store.
Uploads, drains and restores are processes. Times are abstracted: a due time
that passes is a choice, and a claim (`next_attempt_at`) is identified with the
drain that wrote it. Keys are identified with the request that draws them, for
they carry a random part. A file Send starts under a placeholder key that
nothing is stored under. Any put, batch or delete may fail before or after its
effect, and any process may die. When a handler sees a batch throw, that batch
has committed or never will; and restores run one at a time, which is the
lease's promise.

**`Restore`** models the tables of a restore, where the lease does lapse. Of each
table, `shadow` and `live` hold which archives' rows are in it; a restore
(`importing[n]`) downloads, resets, creates and fills the shadow tables, stores
files (removing the rows of those it cannot store), and switches, renewing the
lease in `lockRow` before each part. A lapsed lease can be taken by the next
restore while the late one stores files, removes rows or cleans up. Tables are
taken together in three groups (the vault's rows, rows of files that can be
stored, rows of files that cannot).

**`Backups`** models scheduled and manual runs and changes of the settings:
`settings` is the one JSON row with the administrator's choices and each
destination's last attempt, success and failure; `archives` is each
destination's list, in the order of upload, each archive whole or not. An
operation loads the settings once, works on its copy and writes the whole back.
Uploading, verifying, pruning and recording are separate steps, any of which
fails, lapses or is the last before the Worker dies.

**`SendAccess`** models a visit, from the access token to the counted opening
(one guarded `UPDATE`, then another read for a text), against the owner's
edits and deletion, which write what they were given over a row read earlier.

**`Storage`** puts `BlobLifecycle`, `Restore`, `Backups` and `SendAccess` side by
side. A behaviour drives one of them (`driven`), the others rest: they share no
rows but the lease, which each models as far as it needs it.

**`Sessions`** models one account: `account` is the row of `users`, `devices`
and `tokens` the rows of their tables. A login goes through reading the user,
spending a recovery code and reading again, reading the device, the batch, and
the one retry after a device conflict; a refresh reads token, user and device
before its batch; security changes (password, factors, ban, unban, deletion,
ending all devices) and device removals read and then commit. The name of a
request stands for each random value it draws. The fields `stamp`, `password`
and `family` of a token, `access` and `removed` are history.

**`Registration`** models how accounts come to be. A registration makes its three
reads (is there an account, the policy, the invite) and commits one batch that
inserts the bootstrap lock, the invite's consumption lock and the user; primary
keys, the unique address and a foreign key abort it as a whole. Administrators
make, revoke and expire invites and change the policy; accounts are deleted
meanwhile, which frees the address and keeps the row.

**`TwoFactor`** models the factors of an account: `account` (stamp, TOTP secret,
recovery code, YubiKeys), `passkeys` with counter and purpose, `challenges`.
`exchange[n]` is a request from what it read (`seen`) over what it proved to its
batch: password and passkey sign-ins, recovery, every addition and removal.
Every removal and addition renews the stamp and drops the sessions.

**`DeviceApproval`** models the prompt another device approves, the sign-in that
presents its access code and then waits for the second factor, the one batch
that claims the prompt and stores the session, and the `login_attempts` row,
which one upsert counts in. Time passes; prompts lapse and are cleaned.

**`Identity`** puts the last three side by side, as `Storage` does (`active`).

**`Vault`** models items, folders, one organization with one collection, and
revisions. `ciphers[c]` has owner, state, folder, archive mark, `updated_at`,
mutation token, and `content`, which names the write that stored the encrypted
fields; tokens are named by the number of the batch that wrote them. `views` is
the members' own folder and archive mark of shared items. A request reads
(`StartItem`, `StartBulk`, `OpenItem` for a client that sends
`lastKnownRevisionDate`) and commits (`CommitItems`). Publishing or deleting an
attachment is such a request too: it reads the item, and a file's transfer later
`CommitAttach` writes one more than the date it read, or the clock if that is
later, whatever the item is by then. Bulk filing and archiving
go on with a second and a third batch (`UpdateViews`, `AnnounceViews`), imports
with as many as they need. `GiveUp` is a 409, a 500 or a dead Worker.
`unannounced` is a ghost: users to whom a committed change was not announced,
which happens between the batches of a bulk request or an import and after a
share that takes an item from its former owner, who may not be a member any more.

**`VaultSync`** adds GET /api/sync to `Vault`: revision, items, folders,
membership, shared items, revision again, and up to `MaxAttempts` attempts.

**`Organizations`** models one organization in depth: `members` with role,
all-collections flag and mutation token, `access` the collections granted,
`collections` and `links` (which items are filed where), `fences` the items'
tokens. A request (`request[r]`) reads the actor's row in the middleware and the
target's in the handler; its batch tests both tokens again. Its kinds: invite
(again, too), change and remove a member, or leave; make, rename and delete a
collection; file items in collections one by one and in bulk; rename and delete
the organization; found another. Accounts are banned, unbanned and deleted. `told` is the set of users whose revision the last step advanced.

`MCDataLease`, `MCBlobLifecycle`, `MCStorage`, `MCSessions`, `MCVault`,
`MCVaultSync` and `MCOrganizations` instantiate them (`Identity` needs nothing but
its configuration); the modules `...Proofs` hold the theorems. A definition that
begins with `\* Deviation:` is a mutated form of the definition after it (a
guard dropped, a field not set, a comparison with the wrong value); no
specification uses it, and replacing the definition by it must break a property
(`mutants` in `PROJECT.json`).

## What each run checks

A run is a configuration of TLC. "Violation" marks those that show that the
code does something other than a document, comment or test says of it.

| Run | Instance and bounds | Question |
|---|---|---|
| `lease` | 2 operations, leases of 3 s with a margin of 1 s, failures until second 5, clock to 9 | safety, refinement and liveness of the lease |
| `storage` | an attachment, a file Send, an upload to each, a drain, a restore, every failure; or 3 restores' tables; or 2 backup operations on 2 destinations within 2 hours, retention of 1 archive or of all of them; or 2 visitors and 2 edits of a Send with a maximum of 1 or none | rows keep their objects, a restore is whole, archives and settings survive, visits are counted |
| `blob_fair` | a Send, two uploads to it, a drain; puts, batches and deletes fail, uploads and drains die; fair | garbage goes in the end |
| `blob_switch` (violation) | as in `storage`, without failures | are all old keys queued at the switch? |
| `sessions` | 2 devices; at most five out of a login, a recovery login, 2 refreshes, 2 changes of any kind, a removal | revocation against rotation and concurrent logins; what a login proves when the account changes under it; bans and their end |
| `session_device` (violation) | 1 device, 2 logins, a removal | is a revoked device's access final? |
| `vault_items` | 2 users, 1 item, 2 requests of all kinds, members; 3 batches, 2 s | does the token fence what it should? |
| `vault_bulk` | 1 user, 2 items, 1 folder, 2 requests on items and 1 on folders, creation, import, attachments, deletion of the organization; 2 batches | folders and bulk sharing |
| `vault_sync` | 2 users, one of whom synchronizes, 1 item, 1 folder, a request of each kind; 2 batches | is an answer whole and current? |
| `vault_attach` (violation) | 2 users, 1 item, edits and attachments | does an edit only overwrite what its client had? |
| `organizations` | 3 users, 2 collections, 1 item, 2 requests of all kinds, offers of an administrator, a manager and two restricted members | who may change whom, whole grants, who is told |
| `identity` | 3 registrations, 2 addresses, 1 invite; or 2 requests on the factors, 2 challenges, 2 passkeys, 1 YubiKey, counters to 1; or 2 sign-ins, 2 prompts of 1 device, 2 failures to the lock, clock to 2, 1 renewal of the stamp | locks, challenges, codes and approvals are good once |

**Why these bounds.** Each hazard here needs one request between the read and
the batch of another; the bounds allow that for every pair of kinds, and one more
writer where a pair cannot go wrong alone (two batches of others in one second
for `EditsKeepNewer`, a second change for the end of a ban, a third registration
for an address given up and taken again). In `lease`, nine
seconds hold three lifetimes: a lease lost to failure, its takeover, and a late
answer to the first owner. A failure is possible only until second 5, so that
every operation still has time to get its turn before the clock's bound, which
the code does not have. Three restores are a late one, the one that took its lease
over, and the one after, whom the first one's clean-up would hurt; two backups
suffice, for a copy of the settings is stale as soon as one other wrote. In
`sessions`, a behaviour has five of the seven requests, whichever (`AtMostFive`),
the most that can be explored. One item is enough for the
token, since tokens of different items do not meet but in bulk requests, for
which `vault_bulk` has two; one folder and one organization, since nothing in the
code relates two. `vault_bulk` and `vault_sync` stay in one second: every batch of
theirs falls into it, the worst case for dates and revisions. `organizations` needs
a third user, who is neither actor nor target, to be told or not, and a second
collection so that an item can keep one.

**Why deadlock is not checked.** The requests of an instance are finitely many
and end; a state in which all have ended is no error. That nobody waits for
somebody else for ever is what the liveness properties say where something waits.

**Why `EditsKeepNewer` has a run without folders and attachments.** It holds
with every other operation on items, which `vault_items` shows, and fails with
attachments (`vault_attach`): they move an item's date and leave its token. It
also fails when a folder is deleted, which does the same to its items
(`folders.ts:109-124`), so a request that read an item before commits after it with
the very date the deletion gave it (one more than the date it read), and a client
that opened the item in between has that date for the older contents.

What the properties say:

- *Lease.* `MemoryImpliesRow` (what an operation remembers is true) and
  `CheckpointWindow` (within the margin it is alone) are what it may rely on
  between two checkpoints. `ImplementsMutex` is the refinement,
  `EveryOperationRuns` the liveness.
- *Files.* `PublishedObjectsKept` says no row loses its object,
  `AttachmentObjectImmutable` that only a restore changes an attachment's object,
  `QueuedUntilErased` that a queue row survives until its object is gone, and
  `GarbageCollected` that it goes in the end, though uploads and deletes fail.
  `QueuedUntilErased` excepts one case that the
  code has: a drain that read "referenced" removes the queue row, and in between
  the reference may have been replaced by a publication or a restore, so that the
  object is left with neither row nor queue row (`StaleVerdict`). It takes a key
  that was queued while in use, which happens when the answer of the publishing
  batch is lost and the handler discards its own published object
  (`handlers/attachments.ts:275`, about which `services/maintenance.ts:112` says
  that the queue only holds unreferenced objects).
- *Restore.* `RestoresAreWhole`: what is live is what one restore wrote, complete,
  though all that is validated are counts. Two things the code allows and the
  property does not exclude: the switch puts back the lease as read at the start, so
  that another operation may begin during the clean-up; and a late restore's
  clean-up may drop the next one's shadow tables, which then fails.
- *Backups.* `VerifiedBackupsSurvive`: a destination that once had a verified
  archive always has a whole one. `SavesGoForward`: no whole-row write undoes a
  later one. It excepts a run that failed and went on with no lease in force
  (`astray`), for the failure path saves what it loaded without asking for the lease
  (`services/backup/scheduler.ts:149`). Not excluded: a crash between pruning and
  recording leaves a `lastUploadedFileName` that names a pruned archive.
- *Sends.* `GrantsWithinTheMaximum` counts who was let in. An owner's edit may
  bring a deleted Send back (`handlers/sends.ts:241` writes the date it is given).
- *Sessions.* `TokensAreCurrent` is what `services/auth.ts:19-21` demands;
  `SessionsProveThePassword` excepts recovery logins, which read the account again
  after spending the code and may go on under a stamp newer than the password they
  verified; `OneTokenPerLogin` is rotation; and `LoginsYieldOnlyToRevocation` is the
  point of the retry after a device conflict. `RevocationIsFinal` (stamp and status)
  holds; `DeviceRevocationIsFinal` (device stamps) does not.
- *Who gets in.* `LocksNameTheAdmitted` and `RevokedInvitesAdmitNobody` are about
  the locks of `handlers/public.ts`. `SessionsProveAFactor`: a sign-in in flight
  while the factors change gets no session, and none outlives a change; a session
  by recovery code may be younger than a new factor, for it reads the account
  again after its batch. `ProofsAreSpentOnce` is about challenges and recovery
  codes (turning the authenticator off drops the code too,
  `handlers/two-factor.ts:232`), `PasskeysAdvanceAndStay` about counters and the last
  passkey. `ApprovalsLetInOnce` is the claim in the session's batch;
  an older prompt can be approved once the newest is answered, as the code
  orders prompts only while they are undecided. `FailuresAreCounted` is the upsert.
- *Vault.* `TokensNameVersions` is what every compare-and-swap of the handlers
  presumes; `PurgeIsFinal`, `EditsKeepNewer`, `FoldersHoldOwnItems` and
  `SharedTogether` are what users would notice. `AnswersAreWhole` is the second
  read of the revision, `SyncedVaultIsCurrent` the first: an unchanged revision
  means an unchanged vault, whatever the clock does.
- *Organizations.* `OnlyHigherRolesManage` is the rank at the commit;
  `GrantsAreWhole` that a member's access is one request's; `LinkedItemsStayLinked`
  that an item is filed nowhere only if a member asked for that;
  `DeletedAccountsBelongNowhere` that no invitation under way outlives an account;
  `ChangesAreTold` that the revision advances for whoever's next synchronization
  would differ.

## Fairness

Only two specifications state fairness.

`DataLease!FairSpec`: time passes; D1 answers; a caller that was told that an
operation is running asks again (the hourly trigger does, and so does an
administrator); a callback ends. Acquisition is strongly fair because it is
disabled whenever another operation holds the lease, and no operation gets it
infinitely often in a finite set; `Finish` is, because renewals interrupt it.

`BlobLifecycle!FairSpec`: a request that does not die finishes; maintenance runs
every hour and takes the queue rows that are due, so that a row that stays queued
is claimed again and again; a store that is only sometimes unavailable accepts one of
the deletes, and a drain is not killed at the same point for ever. The last three
are strong fairness for each key, since a failure disables the step.
`GarbageCollected` is about a time without restores, and excepts two things the
code lets happen: what an upload leaves behind whose Worker dies between storing an
object and naming it, for which there is no sweep, and an object whose queue row
goes under a stale verdict.

The other modules state none: a request may stop anywhere, and what they promise
is safety. Nothing in that code waits for another request.

## What is proved

The theorems hold for every value of the constants, with the assumptions that the
modules name (`LeaseAssumption`, `KeyAssumption`, `RequestAssumption`,
`VaultAssumption`, `RestoreAssumption`, `RegistrationAssumption`,
`TwoFactorAssumption`, `DeviceApprovalAssumption`, `OrganizationAssumption`,
`SendAccessAssumption`, `BackupsAssumption`, `ReaderAssumption`): that names which
stand for random values or for NULL differ from the others, that what is counted is
finite, and that the bounds are numbers. The bounds on clocks, batches and requests
occur in guards only, so the theorems hold for bounds as large as one likes. One
theorem, `EditSafety`, has a hypothesis of its own. Every safety property of the
passing runs is now a theorem, except `EditsKeepNewer` beyond that hypothesis, where
it does not hold.

**`DataLeaseProofs`**: types, `MemoryImpliesRow`, `CheckpointWindow`,
`NoTakeoverWhileLive` (the row changes owner only after it expired or was released),
and that every step is one of `OperationMutex` or none. The inductive invariant adds
to `MemoryImpliesRow` that calls lie in the past and that a checkpoint leaves a margin
in memory (`MarginAfterCheckpoint`); the window follows since memory implies the row
and the row has one owner.

**`BlobLifecycleProofs`**: types, `PublishedObjectsKept`, `QueuedUntilErased`,
`AttachmentObjectImmutable`. The argument is that a key is *undecided* until its
upload is published, discarded or dies, or its restore switches or gives up. Only
undecided keys are stored or become referenced by a publication; only decided ones
are queued, collected or erased; and no key becomes undecided again. So a drain's
verdict "unreferenced" about a decided key stays true until it erases the object,
which is why check and delete need no transaction.

**`RestoreProofs`**: types, `RestoresAreWhole`. Whoever has the lease in force finds
the shadow tables as its own last step left them (`OwnerSees`), because others only
reset, create and fill them under a lease of their own, and a late restore only
removes rows whose files cannot be stored, or all tables, in which case the owner
fails. A restore that is not late holds the lease it remembers (`OwnLock`,
`Steady`), and the switch tests it in its batch.

**`SessionsProofs`**: types and all the safety properties of the sessions. A stamp is written once, and nothing carries it
before (`RequestsFresh`): so a batch that still finds the stamp it read proves
that no security change came between, even though changes are fenced by the
password or the factor and not by the stamp. A token is inserted once, by the
request it is named for (`Made`), what a rotation spent had been given out and is
gone (`Spent`), and what a refresh holds is the row as stored (`RowsStand`): so
rotations do not fork. That lifted bans accept nothing old needs that no claim was issued
under a banned account's stamp (`BansAreFresh`). That a login is refused for a
revocation only is an invariant about logins under way (`LoginsGoOn`): while the
stamp is the one it read, its account may sign in, a recovery code it uses is still
there, and until its device is removed the device's stamp is one that its second
attempt takes over. So what refuses it has renewed the stamp or removed the device.

**`IdentityProofs`**: types and every property of the `identity` run.
*Registration:* a batch takes each lock it needs or aborts, so the administrators and
the accounts of an invite are exactly those the locks name; the induction needs that
accounts made are of registrations that are done (`AccountsAreDone`) and that an
unused code admitted nobody (`UnusedAdmitNobody`). *Second factors:* a stamp renewed
is a number nobody has seen (`NumbersAreFresh`), so a request whose batch still finds
the stamp it read has read the factors as they are, and its proof stands; closed
challenges and replaced codes stay so (`SpentForGood`). *Approval:* a counted failure
is one of a sign-in that is over, so none counts twice (`FailuresAreOver`); a prompt
is claimed once because the claim writes the row it tests. `EachRunsAsItself` shows
that the composition's behaviours are behaviours of each component, so that the
theorems of the three hold in it; that is why the run of the composition and the
theorems speak of the same thing.

**`OrganizationsProofs`**: types and every property of the run.
A row's token names the request that wrote it last, and a request writes once: so
what a request read is what stands while the token does (`RequestsKnow`), and the
rank it found is the rank at its commit (`Outranks`). What a token granted were
collections that exist or existed (`GrantsExist`), requests not yet committed have
their tokens nowhere (`Settled`). `ChangesAreTold` needs no more than the types: a
batch on one member's rows tells the member, and whoever keeps all rows sees the same
(`SameRowsSameView`); a batch on what is shared tells all members, and nobody else
sees any of it (`OutsidersSeeNothing`).

**`StorageProofs`**, *Backups:* types, `VerifiedBackupsSurvive`, `SavesGoForward`.
Leases are taken in turn (`InTurn`), so whoever holds one is the latest operation to
have begun; and where a run deletes archives or writes the settings, a renewal lies
so little behind that its lease is in force (`LeaseIsSure`). Hence nobody else
deletes the archive that a pruning run has verified, and that run spares its own
(`OwnArchiveStands`): what it deletes has a whole archive after it. And nobody saves
between a run's loading of the settings and its saving, so the copy it writes
differs from what is there by what it did itself (`CopyIsCurrent`), which goes
forward, for times recorded lie in the past (`InThePast`) and a destination still to
be served was last attempted before (`StillToDo`). `SavesGoForward` excepts what comes
after a failed run went on with no lease in force (`astray`), and so do `CopyIsCurrent`
and, between destinations, `LeaseIsSure`; `VerifiedBackupsSurvive` excepts nothing.
*Sends:* types and `GrantsWithinTheMaximum`, by counting: the
one statement that lets a visitor in tests and writes the same row. *Composition:*
`PartsRunAsThemselves` is for `Storage` what `EachRunsAsItself` is for `Identity`, and
`StorageTypes` collects the parts' types.

**`VaultProofs`**: types and every property of the runs of `Vault` and `VaultSync`.

*Tokens:* they are bounded by the batches that ran (`WritesBoundTokens`), so a new
one is new; what a request has read exists since (`SeenRowsExist`), and an id is given
to one item (`IdsFresh`). Each step of any request then keeps a row's version or marks
it with the new token, or makes an item; `TokensNameVersions` is inductive with these,
and a purged item stays purged since whoever read it before holds an old token.

*Folders:* `FoldersHoldOwnItems` is inductive with whose items a request is about
(`RequestsOwn`). A batch files an item for the owner it has, which the token says is
the one the request read, or fails on the foreign key; deletion takes out all that
is in the folder, for all of it is its user's. `SharedTogether` needs the same: a
share has read all of its items, and claims all or none.

*Dates:* `EditSafety` proves `EditsKeepNewer` for instances whose `Operations` have
neither attachments nor folders, as in the run `vault_items`; without that it is
false (`vault_attach`, and above). What a request has seen of an item then dates
from no later than the item, from earlier if the token has changed, and has its
contents if the dates agree (`DatesTell`).

*Synchronization:* `Tells(u)` says of a step that it moves `u`'s revision forward or
leaves `u` to be told, or changes nothing that `u` sees; `StepsTell` proves it of
every step of `Vault`, which is the part of the argument that each handler has to
do its share for. So while the revision is the one that a synchronization began with,
what it has read by now is the vault (`ReadsHold`), and the comparison at the end
makes it the answer (`AnswersAreWhole`), which stays true as long as the revision
does (`SyncedVaultIsCurrent`).

**Only model-checked.** Liveness (`EveryOperationRuns`, `GarbageCollected`), for
the proof system has no support for fairness and ENABLED here. Of the properties that
fail, the runs show the counterexample.

**Assumed of the platform.** A D1 batch is atomic and isolated; a batch whose call
threw has committed by then or never will; random values do not repeat; Workers
agree on the time (`DataLease`, `Vault`, `DeviceApproval`).

## Where code and documents part

Each of these is a run that finds what it looks for, with the details under
`findings` in `PROJECT.json`.

- `blob_switch`: a file published while a restore is staging loses its row at the
  switch and is not queued, because the keys to queue were collected before
  (`services/backup/import.ts:98`; `docs/operations.md:71`).
- `session_device`: a login that read the device before it was deleted registers
  it again under the revoked stamp (`services/identity-session.ts:249`;
  `services/auth.ts:19-21`).
- `vault_attach`: an attachment moves its item's date, to the later of the clock
  and one more than the date it read (`handlers/attachments.ts:247`, `:387`), and
  neither asks for the item's mutation token nor renews it
  (`services/db/batch/attachments.ts:62`, `:119`). The trace: a save and an
  attachment have both read the item; the attachment commits; a client opens the
  item at its new date; the save passes its fence, for the token is still the one
  it read, and stores other contents under the same date, which it computes from
  the same row; the client's edit carries that date, passes the check of
  `lastKnownRevisionDate` and overwrites what the client never had
  (`docs/compatibility.md:7`). Folder deletion has the same consequence (above).

Things met on the way that are worth knowing and that no run is about:

- An item can be shared into an organization that has been deleted
  (`services/ciphers/access.ts:266`; `docs/operations.md:83` says that nothing of
  a deleted organization is shown).
- Archiving a shared item writes back the folder it read, so a concurrent move by
  the same user is lost (`handlers/ciphers/lifecycle.ts:175`).
- A logout deletes the token presented; a refresh that rotated it a moment before
  leaves the successor (`handlers/identity.ts:43`).
- The queue of objects may hold a key in use (above).
- A failure that is counted after the window ended starts a new row, and with it a
  lock that has time left goes (`services/login-attempts.ts:60`): a sign-in that
  found no lock may fail that late. `FailuresAreCounted` is about one window.
- Retention considers every `*.zip` of the destination's path
  (`services/backup/remote-utils.ts:6`), whoever put it there; `docs/operations.md:53`
  calls what it considers "matching backup ZIPs".

## What is not modelled

`components` in `PROJECT.json` lists every part with its status. Within the
modelled ones:

- Items: restricted collections and read-only access, favourites, the folders an
  import makes, the guard of a share against attachments that changed, a share's
  own `lastKnownRevisionDate`, account deletion's tombstones, and the expiry of
  the trash.
- Sync: collections, Sends, policies, the profile beyond membership. The access
  count of a Send changes without an announcement by design.
- Organizations: names, members' public and encryption keys and the fence of an
  invitation on them; the several reads by which an item's rights are computed are
  one read.
- Registration and factors: KDF and keys, mail, provider slots, the keys a passkey
  decrypts with (PRF), trust tokens, the Yubico service.
- Restore: the conversion of rows, the audit entries carried over in the switch's
  batch; a file that one restore cannot store no restore can; the lease lapses in
  downloads, while files are stored, and after a Worker's death. In
  `BlobLifecycle` the archive is any archive; the older `user_revisions` it brings
  back are not in `Vault`.
- Backups: the calendar behind a slot (every hour is one), destinations that are
  added and removed, archives an administrator deletes.
- Sessions: API keys, passkey grants, device trust tokens, the time at which
  tokens expire, the user cache of one isolate (`services/auth.ts` rereads the
  stamp).
- Files: expiry and renewal of upload tokens, download tokens, sizes. Sends: the
  password, the text, purge tokens, which nothing sets.

Not at all:

- Cryptography, formatting, validation and schemas, the S3, WebDAV and R2 clients,
  pages and forms, scripts, and the scenarios of the API's tests. They are
  sequential, or are input and output only, or are not the program; they are most
  of the repository's lines, which is why the map names a small share of them.
- The audit log, which nothing reads to decide, and the notifications, which are
  hints that may be lost.
- The web vault's copy. It was read for this project. Its watcher remembers a
  revision before the synchronization that the revision triggers
  (`src/apps/web/src/lib/services/vault-revision-watcher.ts:30`), so what one would
  state of it (an unlocked tab shows the last revision in the end) is kept neither
  by the code nor promised by a document.

## Plan

Done: the lease; files; sessions; the vault and its synchronization; organizations;
restores, backups and Sends; registration, factors and approvals; the proofs above,
which cover every safety property of the passing runs. What is left, in order:

1. An abstract specification of a restore (what is live is replaced at once, by one
   archive, or not at all) with `Restore` proved to implement it from `RestoresAreWhole`
   and its invariant, as `DataLease` implements `OperationMutex`.
2. Restricted collections and read-only access in `Vault`, from `Organizations`'
   grants, and Sends and collections in the answers of `VaultSync`.
3. API keys, passkey grants and trust tokens in `Sessions`; download tokens in
   `BlobLifecycle`.
4. The web vault's watcher, notices and snapshot, as soon as something is promised.
