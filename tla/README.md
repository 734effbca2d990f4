# Dynamic Panel Sync Server: specifications

TLA+ specifications of the sync server in this repository, the TLC models that
check them on small instances, and TLAPS proofs of the theorems that matter
most.  Source paths below are relative to the repository.

## 1. The system

The server keeps *accounts*; an account owns *spaces*; a space has *clients*
(desktop installations, each with a client key) that replicate typed *records*
through the space.  A space has one change stream, numbered by the space's
`next_sequence`.  Binary *objects* are uploaded in parts.  *Backups* are
encrypted logical points on a target; a *restore* stages one and activates it.

| Component | State | Operations | Interacts with |
| --- | --- | --- | --- |
| Record replication (`src/records/`, `migrations/0002_records.sql`) | per space: records, record_versions, operations, conflicts, changes, category_state, next_sequence, restore epoch, stream floor | push, restore, pull, reconcile, first-sync plan, listing and resolving conflicts, stats, setFloor, advanceEpoch | called by routes/sync.js and by the console's space routes; publishes invalidations; its tables are backed up and restored |
| Realtime invalidation (`src/realtime/`, routes/realtime.js) | live sockets by space, client, key generation | register, publish, close by client / space / account / generation | authenticates through identity; published to by records |
| Identity (`src/auth/`, db/identity-store.js, account, space and client routes) | accounts with an auth epoch, sessions, spaces (at most 10 active), clients (at most 10 active), key generations | login, re-authentication, password change and reset, disable, space life cycle, key rotation, revocation, installation reset and binding | every request is authenticated through it; closes sockets |
| Objects (`src/objects/`) | uploads and their parts, committed objects, references, files | createUpload, putPart, completeUpload, cancelUpload, download, setReferences, cleanup | references from records; files read by backup |
| Backup and restore (`src/backup/`) | files of a target: temporary and published points; restore stages | create, verify, list, prune, stage, apply, activateStage, drill | snapshots and rewrites every table of a scope |
| Jobs and worker (`src/jobs/`, worker.js, routes/operations.js) | the timer and running flag of the scheduler; rows of backup_jobs, operational_alerts and export_jobs | run, schedule, retry, start, stop; export, download | calls backup; its rows are what health reports |
| Command line (`src/cli/`) | leases and files of a target while a package is imported | import, backup, verify, restore, prune; account commands | backup, restore, identity |
| Database plumbing (`src/db/`) | schema_migrations, advisory lock | migrate, transactions | everything |
| Server and console (server.js, config.js, `src/console/`) | none of its own | wiring, user interface | everything |

What is hard here:

* **Interleaving of whole operations.**  A space's transactions are serial, but
  what a client sends was made against a revision it saw earlier; merging,
  retaining conflicts and refusing stale resolutions must lose nothing.
* **Replays.**  Answers get lost and clients send an operation again, and a batch
  may fail half way through.
* **Paging.**  pull and reconcile hand out pages over a moving stream.
* **Awaits between a check and its use**: restoring a record, registering a socket,
  rotating a key, resetting a password.
* **Crashes and partial failures** between the files of a backup point, the parts
  of an upload, the steps of an import.
* **Restores**: sequences, floors and epochs move under readers that hold cursors.

`PROJECT.json` lists these one by one, each at its line, under `hazards`.

What makes each part correct:

* *Records*: the record is its latest version; an operation takes effect once; no
  field changed by one client is undone by another's older edit; nothing pushed
  disappears; a tombstone ends only by an operation made from it; conflicts
  settle once; the change stream is an append-only log without holes.
* *Readers*: a cursor at position n has handed out exactly the wanted changes up to n;
  a reconciled reader is never behind what its cursor claims; readers catch up; they
  learn of every deletion.
* *Realtime*: no socket outlives the authorization it was opened under.
* *Identity*: a bumped epoch stays bumped; limits hold; at most two live keys.
* *Objects*: an upload that can go on has what it says it has; it answers one object;
  the file of a committed object, of which anyone may have been told, stays while
  something refers to it.
* *Backup*: a listed point is complete; pruning never leaves a half point listed; a
  ready stage can be activated.
* *Jobs*: a job ends once; a failure is told until a later run succeeds; the scheduler
  goes on.
* *Packages*: an import publishes all of a point or nothing; a package that passes for
  a point is one.

## 2. Plan

1. `SpaceLog`, `RecordReplication` and its proofs (**done**): the core.
2. `SpaceReader` (**done**): pull and reconcile over `SpaceLog`, with epochs, floors,
   crashes of the reader, and liveness of catching up.
3. `FirstSync` and its proofs (**done**): recovery point, plan, execution against
   concurrent pushes.
4. `BackupPoints` (**done**): the commit protocol of a point, its failures and crashes,
   listing, and retention, whose slots are shared by points of every scope and reason.
5. `RestoreActivation` (**done**): staging, the point taken before, activation against
   the tables' keys and triggers.  What a restore means for readers' cursors has no
   behaviour to check: activation never commits (section 5).
6. `IdentityStore`, `ClientAccess` (**done**): accounts, auth epochs, sessions, client
   keys and their sockets, with the awaits between a check and its use.
7. `ObjectUploads` (**done**): completion, references, cleanup, crashes.
8. `BackupWorker`, `SpaceExport`, `PackageImport` over `BackupPoints`, composed by
   `BackupOperations` (**done**): everyone who works on one backup target.
9. `ClientAccessProofs`, `ObjectUploadsProofs`, `BackupOperationsProofs` (**done**): an
   inductive invariant and the checked properties of each.
10. `SpaceReaderProofs` (**done**): what pages hand out and what a reconciliation leaves.
11. `RecoveryTarget` (**done**): the abstract target that `BackupOperations` implements,
   checked and proved.

Abstract specifications: `SpaceLog` (what readers need of records) and `RecoveryTarget`
(what those who look for a recovery point need of backup).

## 3. Modules

### SpaceLog

The abstract specification of the record service for its readers: `log`, an
append-only sequence of changes numbered 1, 2, ..., and `head`, the current
revision of each entity.  A step appends a revision (`Revise`) or a conflict
(`Dispute`).  `KindAfter` says when a change is a record, tombstone or restore.

### RecordReplication

`src/records/service.js` over one space.  `transaction()` of both repositories
serialises the transactions of a space (a promise chain in
`memory-repository.js`, `SELECT ... FOR UPDATE` on the spaces row in
`postgres-repository.js`), so one transaction is one step.

| In the model | In the code |
| --- | --- |
| `records`, `versions`, `operations`, `conflicts`, `changes`, `categoryPresent`, `nextSequence` | the tables of `0002_records.sql` / the maps of `newSpace` |
| `Push`, `ApplyOperation`, `ApplyCurrent`, `ApplyStale`, `ResolveConflict` | `push`, `applyOperation`, `applyStale`, `resolveConflict` |
| `Accept`, `Retain`, `MarkResolved`, `Answer` | `accept`, `conflict`, `updateConflict`, `putOperation` |
| `ChangedFields`, `ConflictingFields`, `MergedPayload` | `mergeFields` |
| `Replay` | the lookup of a prior operation: duplicates and reused ids write nothing |
| `Restore` | `restore`: its read and its push are two transactions, so the payload may be that of any tombstone since the client chose its base |
| `Administer`, `ResolveForAccount` | `resolveConflictForAccount` |

A batch is its operations one after the other, because each is a transaction of
its own; a batch that throws half way is a client that stops and sends again.
Operations are what the schema and `validateEntity` let through; in particular
a delete may name any category (`DeleteCategories`), because `applyOperation`
validates the category of other kinds only.

Left out: times and retention deadlines, `originClientId` attribution,
`changedFields` and `reason` of a conflict, sizes and forbidden fields of payloads,
the restore epoch (checked when the transaction starts), and the invalidation
published after the commit.

`MCRecordReplication` gives the constants their values for TLC.
`RecordReplicationProofs` holds the theorems.

### SpaceReader

A client that reads a space: `pull` and `reconcile` over `SpaceLog`, for one reader
(readers change nothing on the server).  Each request is one transaction; writers,
the floor and the restore epoch move between requests.  `Write` is a step of `SpaceLog`
by construction, with the categories that operations have: what has a payload, that of
the registry; a deletion, and a conflict over one, any that its client names
(`DeleteCategories`).  What the server filters by is the category of the change or of
the current row, never that of the entity.

| In the model | In the code |
| --- | --- |
| `log`, `head`, `epoch`, `floor`, `cleared` | changes, records, `restoreEpoch`, `floorSequence`; changes deleted by `advanceEpoch` |
| `Write`, `SetFloor`, `AdvanceEpoch` | `accept` / `conflict`, `setFloor`, `advanceEpoch` of the repositories |
| `WantedChange`, `Wanted` | the filter of `listChanges`, by the change's category, and of `listRecords`, by the row's |
| `ListChanges`, `Upper`, `NextSequence`, `CursorRefused` | `listChanges` and the position arithmetic of `pull`; `cursor_expired`, `restore_epoch_changed` |
| `Differences`, `RanksAfter` | the filter of `reconcile` and its `key > afterKey` |
| `Pull`, `Reconcile`, `StartOver`, `TakeUpperCursor` | a page of either; a refused cursor or token; a pull made for its `upperCursor` |
| `cursor`, `token` | what `CursorCodec` seals: a reader can only send back what it was given |
| `mode`, `copy`, `Applied`, `PullAndCrash` | the client, which is not in this repository: external |

The client's protocol is the one the design gives: take an upper cursor, reconcile
everything, then pull from that cursor; apply pages idempotently by revision; store
the cursor after the page; start over when told to.  The rows of a query and the page cut
from them are sets; their order is the place of each row in the list: `Number` for
changes, `ListRank` for records.  `KeyRank` is the order in which `>` compares keys, and
not `ListRank`, because the code uses two different ones.  Left out: cursors of another space or filter (refused), and
the text of a cursor.

### FirstSync

The two routes of `routes/sync.js` that replace or clear what a server has, with
`firstSyncImpact`, `createFirstSyncPlan` and `executeFirstSyncPlan`.

| In the model | In the code |
| --- | --- |
| `rows`, `Push` | the records table; any operation another client has accepted |
| `Measure`, `Save`, `Plan`, `Refuse` | the steps of the recovery-point route: impact, snapshot, verification and second impact, or its 409 and 503 answers |
| `Impact` | `impactForRows`; its hash is taken to be injective |
| `Verify`, `Execute`, `RefuseExecution`, `Expire` | the steps of the execute route; `planned` persists because the server keeps nothing of a plan |
| `removed` | history |

Plans of mode `server-wins` only read.  The recovery point's rows are modelled as its
snapshot; that the snapshot is written and read back whole is `BackupPoints`'.  A
pruning that removes the point between `Verify` and `Execute` is in neither module.
No property speaks of it.

### BackupPoints

`create`, `verify`, `list` and `prune` of `backup/service.js` over the calls of
`backup/targets.js`, with the retention of `backup/retention.js`.  Every call of the
target is a step; any of them may fail, and the process may stop between two.

| In the model | In the code |
| --- | --- |
| `temporary`, `published` | the files under `temporary/<id>` and `points/<id>`; all chunks, and all objects, stand for one file |
| `stage`, `Begin` ... `VerifyPublished`, `AfterFailure` | how far `create` has come: snapshot, chunks and objects, manifest, `verifyAt`, the moves, the marker, `verify` |
| `Fail`, `CleanUp`, `FailMove` | the catch block, or a process that stops; an S3 move that copied and did not delete |
| `created` | `createdAt`: a day of the configured time zone, and the order of creation |
| `List` | `list`, taken as one step: a point it verifies late was complete when it read the keys, because files of a committed point only disappear; a point that cannot be read counts for nothing |
| `Keep` | `selectRetention` |
| `doomed`, `keys`, `ListFiles`, `Delete`, `StopPruning` | what `prune` has still to remove, and of the first point the files it has listed |
| `Place`, `Precedes`, `First`, `NextKey` | the order in which a target lists files, in which `create` moves them and `prune` deletes them |

`keys` is the set of listed files that are still to be deleted; the order of the listing
is that of `Precedes`, the same for every listing.  The marker sorts before every other
file (`C` precedes `c` by code unit), and `prune` deletes in listed order: that is what
keeps a half-pruned point from counting.  Left
out: a second attempt under the id of an earlier one (ids are random), `health`,
damage of files at rest.

### BackupWorker

The process of `worker.js` with `DailyScheduler` and `BackupJob` of `jobs/backup.js`.
It EXTENDS `BackupPoints`: a run begins a point of the server and waits until
`BackupPoints` has made it or failed it, then lists and prunes with the actions there.

| In the model | In the code |
| --- | --- |
| `process`, `timer`, `run` | the process and `stopped`; the timer; `running` and the place in `run` |
| `StartWorker`, `TimerFires`, `StopScheduler`, `ClosePool`, `KillWorker` | `start`, the timer's callback, `stop` on a signal, the end of the process, its death |
| `QueueJob`, `StartJob`, `CreatePoint`, `PointReturned`, `PruneList`, `Pruned`, `FinishJob` | the calls of `BackupJob.run`, one each |
| `CallFails`, `PruneFails`, `FailJob`, `FailUnrecorded` | its catch block, and what leads there |
| `jobs`, `alert` | `backup_jobs`; the unresolved row of `operational_alerts` |
| `JobsHealthy` | `backupHealth` and `assessBackupJobHealth`, without ages |
| `told` | history: what the last transaction that ended a run said |

Each database call fails, succeeds, or commits and loses its answer; so a row may stay
queued, and a verified job may be followed by a retry.  Times of day and the delay of a
retry are left out: an armed timer may fire at any moment.

### SpaceExport

Exports and their downloads, on the same target.

| In the model | In the code |
| --- | --- |
| `exporting`, `exportJobs`, `SaveJob`, `CreateExport`, `SaveOutcome` | the route that creates an export, and `saveExportJob` |
| `ListPackage`, `ReadFile`, `HandOut`, `DownloadFails` | `downloadExport` of `server.js`: the files are listed, read, and put into a package |
| `packages` | what the client has downloaded |

If the point was pruned in part before the listing, the answer is a package without a
marker, or of no files; an import refuses it.

### PackageImport

`stageFile` of `cli/import-package.js`.  Every call of the target is a step, but the
puts under the temporary prefix, which nobody else uses, are one, and so are the
deletions of a failed import.

| In the model | In the code |
| --- | --- |
| `lease`, `TakeLease`, `Refused`, `CleanUpImport` | `imports/<manifest>.lock`, put exclusively, and deleted in `finally` |
| `ReadPackage`, `ListDestination`, `PutFiles`, `VerifyCopies` | validation, the check that the destination is empty, the temporary copies, `verifyAt` |
| `NextFile`, `Publish`, `LoseAnswer`, `PublishFails` | the moves, the marker last: `moveExclusive` of either target |
| `SaveStage`, `Undo` | the stage that is saved; the deletions of the catch block |
| `StopImport` | the process stops |
| `faulty`, `disturbed` | history: the import was misled by an answer or could not clean up; the point was published under a pruning, or its marker put without an answer |

### BackupOperations

The four modules above on one target, as `composeOperationalServices` composes them:
`NextOperations` takes a step of one of them.  The properties of the target and of the
jobs are stated here, because they are about steps of different modules.
`MCBackupOperations` holds the instance for TLC, and `Focus`, the three scenarios the
run explores (section 4).

### RecoveryTarget

What all of it amounts to for those who look for a point: `made`, the moments of the
points ever committed, and `offered`, those that can be restored from.  A point appears
at once (`Make`), is taken away only when newer ones hold its place in every tier
(`Withdraw`), and may come back (`BringBack`).  `BackupOperations` instantiates it with
the committed points and the complete ones; `ImplementsTarget` states the refinement.
Its rule of retention is about all points ever made, not about a list: that lists grow
old while prunings work from them is what the refinement has to bridge.

### RestoreActivation

`stage` and `apply` of `backup/restore.js` over `activateStage` of
`backup/postgres-repository.js`.  A transaction works on rows of its own, `rows`, until
`Commit`; locked spaces and stages make others wait.

| In the model | In the code |
| --- | --- |
| `spaces` | the row of a space, and the tables that have rows of it |
| `Created` | the trigger `spaces_initialize_stream`: a new space has a floor |
| `TakePoint`, `StagePoint` | a verified point; `stageVerifiedPayload`, `saveStage` |
| `GetStage`, `CreatePreRestore` | `apply` until the activation |
| `LockStage`, `LockSpace`, `PutObjects`, `ReplaceSpaces`, `InsertTable`, `RowExists`, `Commit` | `activateStage`, statement by statement, each table in the order of the code |
| `Publish` | the invalidations |
| `Fault`, `NotReady` | a call that fails, a deadlock that is broken; a stage that is used up |

### IdentityStore

The rows of one account and the transactions of `db/identity-store.js`, each an
operator, with the triggers of `0001_identity_core.sql` that count active spaces and
clients under a lock.

### ClientAccess

`auth/identity-service.js` over `IdentityStore`: an action is what a handler does from
one await to the next, and `at` names what it does next with what it has read.

| In the model | In the code |
| --- | --- |
| `request` | requests of the console and commands of the administrator |
| `ReadForAdmin`, `SetStatus`, `SetPassword`, `RevokeSessions` | `setAccountStatus`, `resetPassword` |
| `Login`, `CreateSession`; `FindSession`, `Authenticate`, `ExpireSession` | `login`; `authenticateSession`, before every other request |
| `Reauthenticate`, `Logout`, `RevokeOtherSessions`, `ChangePassword`, `RevokeOthers` | the operations on sessions |
| `CreateSpace`, `UpdateSpace`, `DeleteSpace`, `CloseSpace`, `ReadForRestore`, `RestoreSpace` | the life of a space |
| `CreateClient`, `RequireClient`, `ListKeys`, `RotateKey`, `ResetInstallation`, `RevokeKey`, `RevokeClient`, `CloseClient` | clients and their keys: read the client, list its keys, write, close its sockets |
| `device`, `PresentKey`, `ReadAccount`, `ReadSpace`, `ReadClient`, `Bind`, `Register`, `Disconnect` | `authenticateClient`, read by read, then a sync session, which binds, or a socket |
| `Close` | `closeClient`, `closeSpace` of `realtime/registry.js` |
| `history`, `late`, `raced` | history: see the properties |

A request that fails or stops simply takes no further step.  The command line is
composed without the registry of the server's process (`cli/index.js`), so disabling
an account or resetting its password closes no socket.

### ObjectUploads

`objects/service.js` over the rows of `objects/repository.js` (PostgreSQL) and the blobs
of `objects/storage.js`, for one space.

| In the model | In the code |
| --- | --- |
| `uploads`, `objects`, `references`; `partBlobs`, `blobs` | the rows; the files |
| `late`, `unreferenced`, `retained` | `expiresAt`, `unreferencedAt` with the time of grace, `retainUntil`, against the clock |
| `Locked`, `NoOtherInsert` | `#locked`: promise chains per upload and per client, in memory |
| `CountActive`, `InsertUpload`; `PutPart`, `StorePart`, `RecordPart` | `createUpload`; `putPart` |
| `BeginCompletion` ... `DeleteParts`, `AnswerAgain` | `completeUpload`, its two failure paths, and its answer to a repetition |
| `FindExpired`, `WriteExpired`; `BeginCancel`, `WriteCancelled` | `#requireUpload`, also without a lock from `uploadStatus`; `cancelUpload` |
| `BeginReference`, `RemoveReferences`, `PutReferences`, `CommitReferences` | `setReferences`: the look-up and the first read, the `DELETE`, the insertions and what the last `UPDATE` sees, its writes and the commit |
| `BeginRemoval`, `DeleteReferences`, `CommitReferences` | `deleteReferences`, likewise |
| `found`, `SeenBy`, `RowsFree`, `KeysHold` | the rows a `DELETE` found; what a statement sees under READ COMMITTED; the row locks it waits for; the keys that an insertion needs |
| `ListExpired`, `ReadListed`, `ExpireUpload`, `DeleteExpiredParts` | `cleanup` of uploads, without a lock: the list, each listed row read again in a transaction of its own, the row written back as expired with the object it had then, its parts |
| `ListObjects` ... `EndCleanup` | `cleanup` of objects |
| `UpdateUpload` | `updateUpload`: the row as it was read earlier, with what the caller changed |
| `answered`, `taken`, `reopened`, `overtaken` | history |

`reopened` are uploads whose commit went through and lost its answer, so that the failure
path put them back.  `answered` are the objects that `completeUpload` answered with;
`uploadStatus` needs no action, because it only reads: of the object of an upload that is
complete it may tell anyone at any moment, also between such a commit and the discard of
its blob, and so the property of blobs is about every committed object, told of or not.

The transactions on references run without a lock of the service, under READ COMMITTED.
What crosses is their statements: each sees what was committed before it began and the
writes of its own transaction.  So two of them that drop the same object may each see the
other's row, and neither marks it; and one that drops an object may mark it after another,
which it did not see, has come to refer to it.  An upload that cleanup reads again after a
client completed it is written back as expired and keeps its object: `StatusTells` says
what a status and an object have to do with each other then.

## 4. Runs

| Run | Instance | Shows |
| --- | --- | --- |
| `records_edits` | one client, one entity of two binary fields merged by field, five sequence numbers, five operation ids | types; the record/version agreement; no lost update; edits kept; no stale resurrection; conflicts settle once; refinement of `SpaceLog` |
| `records_clients` | two clients, a note (`copy`) and a preference (`lww`) of one category, three ids each, five sequence numbers; deletions of the note name either of two categories | operations take effect once; a category is present exactly when it has a live record, but for one that a deletion abandoned |
| `records_lww_resurrection` (violation) | as above | a stale edit revives a deleted last-writer-wins record |
| `reader_pages` | three entities in two categories, the reader wants one; deletions name either category; pages of one or two; three sequence numbers, two epochs | pages neither skip nor repeat; the copy is never behind the cursor in rows of wanted categories; cursors move forward; the reader catches up |
| `reader_key_order` (violation) | as above, keys compared by code unit | a reconciliation in pages leaves a record out |
| `reader_foreign_delete` (violation) | three entities in two categories, deletions name either | a reader keeps a record that was deleted under another category |
| `first_sync` | two records in two categories, two requests for all or one category, pushes up to revision 3 | a plan deletes only what its recovery point holds, and acts once |
| `client_access` | one active client in the one active space, one more of each, a space in its days of grace; two sessions; three requests, of which any two, or with devices any two together, are under way at once; two devices | resets and changes of password end sessions; sockets are authorised; limits hold; an active client has a key and at most two; a binding stays |
| `object_uploads` | two requests, or one and cleanup, at once; two uploads of one part and two objects without references, or one upload, one object and two references; at most one transfer under way, at most one past its time | limit of transfers; parts are kept; one object is answered; the blob of a committed object stays, however reference transactions cross |
| `restore_activation` (violation) | two spaces, one stage, one apply, two points, two changes of a space | activating a ready stage fails by itself |
| `backup_points` | three points, two prunings and the worker's, three days, two daily slots and one monthly; two jobs; one export, one download, two imports | a point with a marker is complete; what retention keeps stands; packages are complete; leases, imports, jobs, alerts and the scheduler as promised; the target implements `RecoveryTarget` |
| `backup_server_point` (violation) | two points, one of them of a space | pruning removes the day's server-wide backup |

Bounds.  `MaxSequence` bounds the number of accepted revisions and conflicts.  The
longest scenarios the properties speak of take four or five: create, edit,
delete, stale edit retained as a conflict, resolution.  A merge takes three
revisions with two fields and two values: each side changes one field, both
change the same field to equal values, both to different ones.  One client is
enough for everything except replays, because only the operation's base, not its
sender, matters to merging; `records_clients` has two clients because operation
ids are scoped to a client.  `IdsInOrder` makes clients use their ids in
ascending order: ids are opaque to the code, so this loses no behaviour up to
renaming.  Values, fields and clients are symmetric.

For the reader, three sequence numbers give a stretch of two pages with a change
behind its bound, and a floor in every position; one more epoch is enough to make
every kept cursor and token stale.  For first sync, revision 3 lets a record be
deleted by a plan and restored by a push before the plan comes again.

For identity, a session or key is in danger when one request or device stops between two
awaits while another runs: `AtOnce` is two, and `Request` three, so that a third can
come after both and use what they left.  Both limits are one, so that the second space,
the second client and the space in its grace are each at the limit.  Requests and
devices are symmetric, and so are the requests, uploads, objects and references of the objects:
in `object_uploads`, two uploads are the fewest that exceed `MaxTransfers`, two objects the
fewest that an upload could answer, and one part is either there or not.  `MaxLate` bounds
uploads past their time; only one can matter to a crossing, the other one stays for the
limit.  `Focus`, a constraint in `MCObjectUploads`, keeps two scenarios, because the product
of uploads and references has too many states: uploads whose objects never had a reference,
which is what the limit, the parts and the answers are about; and references to the object
of one upload.  Two references are the fewest of which one can keep, take or drop an object
while the other does, and whether the blob of an object may go is a question about that
object and the upload that makes it.  The theorems (section 6) are about uploads and
references together, any number of each.

For the restore, two spaces make a scope that is smaller than the stage, and a failing
statement is found with one apply already.

For recovery points, three are the fewest of which one can be displaced in its day by a
second and lose its slot to a third; two prunings give one that works from a list the
other has made old.  With three days and two daily slots a day falls out of the daily
tier and is still held by the monthly one, or not.

The whole of `BackupOperations` has too many states for these constants, so that
`Focus`, a constraint, keeps three overlapping scenarios: points and prunings by
themselves (what `BackupPoints` is about); the worker, with at most one point for each
of its jobs, on one day, beside one pruning by a command; and packages, with at most two
points of one day, the first of them exported, then downloaded, then imported twice,
beside one pruning at a time.  Each property is about steps of one scenario: the worker
touches no package, and an import sees of other points only the pruning of its own.
Days matter to retention, which the first scenario explores in full.  Two jobs are
enough for a run that fails or is killed before one that succeeds, and the reverse.  Two
imports are the fewest that compete for a lease.

Deadlock is checked in the records and reader runs: a client can always replay, push
or pull.  In `first_sync` the requests are finitely many and the system stops when all
are answered, refused or expired; in `backup_points` when all points are created and
there is nothing to prune, in `client_access` and `object_uploads` when the requests,
uploads and objects there are have been used up, in `restore_activation` when the apply
is over.

Fairness.  Only `SpaceReader` assumes any: `WF_vars(Read)`, one condition for all that
the reader does next.  A client polls at the latest every 30 seconds
(`docs/project-factory/sync/05-technical-design.md:247`) and each answer leaves it one
thing to do.  Writers, floors and epochs are not fair; they are bounded, and the reader
catches up once they rest.  Crashes of the reader are possible at every page and not
fair either.

Exemptions.  Some properties leave cases out in which the code does not keep what they
say; each is named by a history variable, so that the property says exactly how far the
promise reaches.

| Property | Left out | What happens there |
| --- | --- | --- |
| `CategoryPresence` | `Abandoned` | a deletion that names another category writes the presence of that one only; the category that the record leaves stays present until an operation on a record of it recomputes it |
| `ResetEndsSessions` | `staleEpoch` | `setAccountStatus` and `resetPassword` write back an epoch read earlier; two that cross may lose a raise, and sessions of the old password stay valid |
| `ChangeEndsOtherSessions` | `late` | a login that verified the old password before the change inserts its session after it |
| `SocketsAreAuthorised` | `raced`, `Closing` | a device past the rows that were revoked registers its socket after the close; a request has yet to close |
| `TwoKeysAtMost` | `staleKeys` | two rotations list the same keys, and each adds one |
| `TransferLimit` | `reopened` | a commit whose answer was lost is put back to open |
| `CommittedObjectStays` | `overtaken` | references come to the object between cleanup's list and its deletion; the blob goes, and the row later, unless an upload names it |
| `CommittedObjectStays` | a completion that takes its object back | the commit went through and its answer was lost; `completeUpload` has answered no one with the object, but `uploadStatus` may have told of it, and references may name it |
| `CommittedObjectStays` | the row's mark is not the truth | the property speaks of what the row says and what refers to the object when its blob goes, not of when the last reference went: crossing transactions can mark an object that is referred to, which goes at once when its last reference does, or leave one unmarked, which is never collected |
| `CopyReachesCursor`, `CatchesUp` | rows of the category they have now | a record deleted under another category is not wanted any more, and the reader keeps it: `DeletionsReachCursor` says what is missing, and `reader_foreign_delete` refutes it |
| `CommittedIsComplete`, `PackageWithMarkerIsComplete` | `disturbed` | on S3, an import's marker put without an answer stays when its files are deleted; a pruning whose list is older than an import goes on deleting what was imported |
| `ImportIsAllOrNothing` | `faulty` | deletions that fail are passed over; a stopped import leaves its lease, which operators remove |

## 5. Findings

* **Stale edits revive deleted preferences.**  `applyStale` takes the
  last-writer-wins branch before it looks at the tombstone; the design
  (`docs/project-factory/sync/05-technical-design.md:238`) says such an operation
  becomes a retained conflict, "never resurrection".
* **A delete may move a record to another category.**  The category of a delete is
  not validated; `accept` writes it.  The category the record left keeps
  `present = true` without a live record; the design declares it "per space category
  presence" (`docs/project-factory/sync/05-technical-design.md:140`), and `Abandoned` in
  `CategoryPresence` names the case.  Readers who
  filter by it are never told, neither by changes nor by a reconciliation, and keep the
  record (`reader_foreign_delete`), although "pull is authoritative"
  (`docs/project-factory/sync/05-technical-design.md:150`).
* **A reconciliation in pages may skip records.**  `listRecords` sorts with
  `localeCompare` (a database collation in PostgreSQL), `reconcile` resumes with
  `key > afterKey`, which compares code units: after a page that ends at `a`, `B` is
  not greater and is never returned, and the client then pulls from a cursor beyond it.
* **A space's recovery point displaces the server's.**  `selectRetention` pools points of
  every scope and reason; the one taken before a destructive first sync of one space
  becomes the newest of its day, and the next pruning removes that day's server-wide
  point.  The design (`docs/project-factory/sync/05-technical-design.md:289`) declares a
  worst-case loss of 24 hours.
* **A restore never commits on PostgreSQL.**  `activateStage` inserts the spaces, for
  which the trigger `spaces_initialize_stream` inserts a stream floor at once, and then
  the staged rows of `space_stream_floors` without `ON CONFLICT`: the primary key
  collides, and the transaction is rolled back.  The design
  (`docs/project-factory/sync/05-technical-design.md:303`) describes the activation as one
  transaction; only the activation of the memory repository has a test.
Read in the code, and claimed by no run:

* `completeUpload` takes every failure of `commitObject` for a rollback.  When the commit
  went through and its answer was lost, it puts the upload back to open; it ignores a failure
  of that and deletes the blob.  The upload is then complete and its object committed
  without anything in storage.  The model takes these steps (`CommitFails`, `Reopen`,
  `Discard`); the exemption of `CommittedObjectStays` names them.
* The upload that made an object keeps naming it, and the foreign key of
  `object_upload_sessions` (`migrations/0003_objects.sql:46`) refuses the deletion of the
  object's row, after its blob is gone; `cleanup` throws there, and so does every later one.
  The guard of `DeleteRow` has the key.  `test/objects.test.js:113` expects one object
  deleted, of the memory repository, which has none.
* `ExportSource.validateSnapshot` (`src/backup/export.js:20`) rebuilds the snapshot without
  its `objects`, so the comparison of `objects.length` with the manifest's count
  (`src/backup/postgres-repository.js:85-89`) refuses every export of a space that has
  objects.  What a point contains is outside `BackupPoints` and `SpaceExport`.

## 6. Proofs

`RecordReplicationProofs` proves, for every value of the constants that
satisfies `ConstantAssumption`:

* `InductiveInvariant`: `Spec => []IInv`, where `IInv` strengthens `TypeOK` with
  `SequencesInStep` (changes are numbered by position and are as many as
  `nextSequence`; no table is ahead of it), `RecordsWellFormed`, `VersionsUnique` (the
  versions of an entity are numbered without repetition) and the checked
  `RecordIsLatestVersion`.  `TypeOK` alone does not carry it: that a revision stays
  the latest needs new revisions and sequence numbers to be fresh.
* `TypeCorrect`, `RecordsAreLatestVersions`: consequences of it.
* `NoUpdateIsLost`, `DeletedStaysDeleted`: a second invariant, `EditInv`
  (`BasesPrecede /\ NoLostUpdate /\ NoStaleResurrection`), says of every version that it
  respects the one before it given its base; the step lemma
  `MergeRespectsCurrent` is the algebra of `MergedPayload`.
* `OperationsApplyOnce`: `OperationAppliedOnce`, with `SourcesAnswered`: a version a
  client made has an answered operation, so that an operation that finds no answer
  finds no version of its own either.
* `EditsAreKept`: `EditKept`.  `MergeKeepsEdit` is the other half of the algebra of
  merging: without conflicting fields, every field the incoming side changed has its
  value.  That what was kept stays kept (`KeptStays`) needs the agreement of records
  and versions: a new revision never comes between a version and the one before it.
* `ConflictsAreSettledOnce`: the action property `ConflictsSettleOnce`.
* `CategoriesPresent`: `CategoryPresence`, whatever categories deletions name.
  `PresenceInv` adds that live records are in their own category (`LiveInPlace`: what is
  not a deletion was validated) and that the last change of a live entity in the log is
  the one that put it there (`LiveTold`): so a deletion under another category leaves in the
  log what `Abandoned` asks for, and only an operation that names the category left, and
  so recomputes its presence, takes that away.
* These four rest on `NextKinds`: a step accepts or retains one operation that was not
  answered before, or settles one conflict, or changes nothing.
* `RecordsImplementLog`: every step of `Spec` is a step of `SpaceLog` or a stutter
  under the mapping `log <- changes`, `head <- revision and deleted of records`.

`FirstSyncProofs` proves, under `FirstSyncAssumption`:

* `PlansDeleteOnlyWhatIsSaved`: `DeletedIsSaved`, for any number of records, requests and
  revisions.  Revisions only grow and determine the row (`Succeeds`), so the invariant
  orders three moments: what was measured first is not newer than what was saved
  (`MeasuredBeforeSaved`), which is not newer than what is there (`SavedBeforeNow`).
  When the second measurement equals the first, the saved rows are squeezed between
  equal ones (`PlannedIsSaved`); execution compares once more in its own transaction.
* `PlansActOnce`: `PlanActsOnce`, because what a plan deleted was in its impact and has a
  newer revision ever after (`RemovedIsPlanned`).

`ClientAccessProofs` proves, under `StoreAssumption` (both limits at least one: the
triggers have ten) and `AccessAssumption` (the two spaces a client can be in at first are two),
for any number of sessions, spaces, clients, requests and devices:

* `InductiveInvariant`: `Spec => []IInv`.  Besides `TypeOK` and the two properties of
  keys, `IInv` says what an actor half way still knows.  `LimitsKept`: the active spaces
  and clients are finitely many and within the limits, because the triggers count under
  the lock of the parent row, never the handler before.  `ResetsOrdered`: a session or a
  login that carries the account's present epoch was verified with no password from
  before the last reset; the epoch alone does not say so, and a command that writes back
  an old epoch (`staleEpoch`) breaks it.  `ChangesOrdered`: what was verified before the
  last change and is still to be inserted is marked late.  `DevicesAreAuthorised`: what a
  device has read, at each of its stages, still holds, or a request has yet to close what
  it revoked, or the device was under way then and is marked raced.
* `TypeCorrect`, `LimitsHold`, `KeysLast`, `KeysAreFew`, `ResetsEndSessions`,
  `ChangesEndOtherSessions`, `SocketsStayAuthorised`: consequences of it.
* `BindingsLast`: the action property `BoundUntilReset`, from types alone once the
  transactions that write an installation are told apart (`ClientStays`).

`ObjectUploadsProofs` proves, under `ObjectAssumption`, for any number of uploads, parts,
objects, references and requests:

* `InductiveInvariant`: `IInv` says for every stage of a request what its earlier reads
  are still worth.  `OneHolder`: an upload's lock has one holder.  `StatusWhileHeld`,
  `PartsAreThere`, `AnswersFit`: what the holder left, the parts and the answers, agree with
  the upload's status, and only an expiry, which takes no lock, may interfere; so they are
  stated for uploads before their time.  `CountHolds`: who is about to insert has counted
  alone.  `ObjectsOwned`: an object belongs to one completion until it is answered.
  `CleanerKnows`: what cleanup has listed may still go, unless references came to it
  since (`overtaken`).  `StatusTells`, part of `TypeOK`: a complete upload names its
  object, and only one that is complete, or was when cleanup read it again, names any.
* `TypeCorrect`, `OneObject`, `PartsKept`, `LimitHolds`: consequences of it.
* `CommittedObjectsKept`: the action property `CommittedObjectStays`.  Two steps take a
  blob.  `DeleteBlob` does it with what `CleanerKnows`.  `Discard` owns its object, so that
  no `completeUpload` answered with it; when its commit had gone through, `uploadStatus`
  may have told of it all the same, which the property allows and does not deny.
  `ReferencesCommitted` says that what a transaction on references may mark was left by
  it, whatever it did not see.

`BackupOperationsProofs` proves, under the assumptions of the four modules it composes,
about `SpecOperations` as a whole: TLC explores only the three slices of `Focus`, the
theorems hold for every interleaving of any number of points, prunings, workers, jobs,
exports, downloads and imports.

* `InductiveInvariant`: `IInv` orders what happens to one point.  `OrdersFit`: creations
  are numbered as the days pass.  `CreationFits`: how far a creation has come says what is
  published, nothing before its last file has a marker.  `MarkerGoesFirst`: a pruning that
  holds files of a point has taken its marker before.  `PointsVerified`: who is given a
  point (a job, an export, a download, an import) is given a verified one.  `ImportsFit`:
  what an import has published is what it knows it has moved.  `SupersededGoes`:
  prunings, whose lists may be old, hold only points that retention does not need, and
  this stays true because newer points only add to what supersedes them.
* `TypeCorrect`, `MarkersTell`, `PackagesComplete`, `LeasesHold`, `FailuresTold`,
  `SchedulersGoOn`: consequences of it.
* `RetentionHolds`: `RetainedPointsStand`.  A superseded point is in no tier among the
  newest of the last slots, a statement about cardinalities of sets of slots; it needs
  that slots do not decrease with the days (`BackupAssumption`: `selectRetention` takes
  the day, the Monday of its week, or the month of one date).
* `TargetImplemented`: `SpecOperations => ImplementsTarget`.  A commit is `Make`
  (`CommitMakes`); of the other steps only those that write `published` matter, and each
  changes the files of one point (`OnePointMoves`), which loses files as a complete one
  only when `SupersededGoes` says that its place is taken.
* `ImportsWhole` and `JobsEndOnce`: the action properties, from `IInv` and from lemmas
  (`ImportsMove`, `JobsMove`) that say how each row may move.

`SpaceReaderProofs` proves, under `ReaderAssumption`, for any log, filter, page size and
number of writes, floors and restores between the pages:

* `PagesAreExact`, `CursorsMoveForward`, `TypeCorrect`: `PagesInv` adds to `TypeOK` and
  `PagesExact` that the cursor lies within the log (`CursorWithinLog`) and that what was
  deleted lies below the floor (`ClearedBelowFloor`): so a cursor that is not refused has
  missed nothing.  `PageReachesPosition` says what `hasMore` and `changes.at(-1)` amount
  to: the page is every wanted change between the cursor and the next position.
* `LogTellsRows`: revisions of an entity rise in the log and its current row is the last
  of them (`RowsInv`).  That the log in this module is a `SpaceLog` holds by the shape of
  `Write`; that the record service writes such a log is `RecordsImplementLog`.
* `CopiesReachCursor`: `CopyReachesCursor`, under the hypothesis `KeysInListOrder` that
  rows are listed in the order in which `>` compares keys; `reader_key_order` shows the
  property violated without it.  `CopyInv` says what holds between two pages of a
  reconciliation (`PagesSoFar`): before the token's key the copy has every row not newer
  than the token, after it the copy is what the reader declared; and that a copy is
  behind the row or equal to it (`CopyLags`), which is why a page may be applied twice.
  It is about rows that have a wanted category themselves, whatever deletions name.
* `DeletionsReach`: `DeletionsReachCursor`, under `KeysInListOrder` and the hypothesis
  `DeletesNameTheirs`, that deletions name the category of what they delete: then a
  record's category never changes, and every row of a wanted category is one the copy
  reaches.  The record service does not check the second hypothesis, and
  `reader_foreign_delete` shows the property violated without it.
* The lemmas on rows in a list (`LastExists`, `FirstRows`, `RecordPage`) rest on the least
  element of a set of numbers, from the library's well-founded order.

Only model-checked: `CatchesUp`, which rests on fairness and is out of the prover's reach.
The properties of the runs that expect a violation are refuted, not proved.
`RestoreActivation` has no theorem: its one run refutes that an activation succeeds, and
what it would promise after a commit no state of the model reaches.

## 7. Not modelled

* *Records*: retention deadlines, listing and statistics; the text of cursors, and cursors
  made for another filter or space, which are refused.
* *Realtime*: `publish`.  A hint that is lost costs time, not data, because readers poll.
  `PostgresInvalidationListener` is started by nothing in `src/`.
* *Identity*: creating accounts, renaming, `lastSeenAt`, listings, auditing, rate limits.
* *Objects*: download, metadata, usage and completeness, which only read;
  `backupRetainUntil`.  `cleanup` is modelled although only tests call it.
* *Backup*: the contents of points, their encryption and digests, the inspection of a
  stage, the drill, which stages a point and checks it, and damage of files at rest.
* *Jobs*: times of day, retry delays, and the ages that make health worse with time.
* *Memory repositories*: the same operations on maps, for tests; what the models take from
  them is said where they do.
* *Migrations and set-up*: they run once, under an advisory lock, before anything is
  served, and keep no state that a later step depends on.
* *Configuration, logging, error formatting, static files*: no protocol state.
  Cryptography is taken as perfect.

The console (`src/console/app.js`) is the largest file that no module covers.  Its state is
the page: the route, the view, the signed-in account, the dialog that is open, and the
export jobs of the space it shows.  It decides nothing by what it keeps, since every
action is a request that the server checks, and those requests are `ClientAccess`'s and
`SpaceExport`'s.  What can go wrong between two of its awaits is what the reader of the page
sees: two renderings under way at once append to the same view; an export's refresh
files the job under the space shown by then; a dialog closed by a late answer may be
another one.  Nothing in the repository says what the page must show then, so there is
no statement to check a model against.
