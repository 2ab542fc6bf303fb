# A TLA+ verification of Mezair's accounts: sync, jobs, sessions and shares

Mezair (`mezair-app/`) is a desktop application whose installations share
workspaces, settings and work through an account in the cloud. The part of the
repository that is hard to get right, and hard to test, is the distributed one:

* a Cloudflare durable object per account, the **AccountCoordinator**
  (`cloud/backend/src/account-coordinator.ts`, 15,000 lines), which keeps a
  change journal, keeps snapshots of it in R2, hands out jobs to devices, and
  relays approvals;
* one more durable object for all accounts, the **SessionCoordinator**
  (`cloud/backend/src/session-coordinator.ts`, 4,500 lines), which enrolls and
  refreshes devices, keeps their trust and the recovery root, hosts shared
  artifacts, and drives the deletion of an account;
* the **sync engine** of every device (`src/main/services/sync-engine.service.ts`,
  `sync-persistence.service.ts`), which edits offline, pushes, pulls, recovers
  and lets the user resolve conflicts.

This project models that core, model-checks it with TLC on small instances and
proves its central invariants with TLAPS for every instance. `PROJECT.json` lists
the components, the runs, the mutants, the map from definitions to source lines,
the findings, the hazards and the theorems. All source paths below are relative
to `src/mezair-app/`.

## Contents

1. [Inventory](#inventory)
2. [Modules and the code they model](#modules-and-the-code-they-model)
3. [Runs](#runs)
4. [Findings](#findings)
5. [Fairness](#fairness)
6. [Proofs](#proofs)
7. [What is only model-checked, and what is not modelled](#limits)
8. [Plan](#plan)

## Inventory

| Component | State | Operations | Talks to | What is hard |
|---|---|---|---|---|
| Change journal (AccountCoordinator) | `entities` heads, `changes` journal, `receipts`, `enrollments.high_water`, `sync_meta` counters (next sequence, retention floor, compaction target, history bytes) | `sync.push`, `sync.pull`, `data.import.commit`, retention sweep, compaction after a snapshot | devices (RPC), the alarm | two devices on one revision; retries after lost answers and after receipts were swept; payloads that move between head and journal; counters charged and credited by different code |
| Recovery scan | `scans` row with the stored last page; `sync_scan_staging` on the device | `sync.scan.begin`, `page`, `finish`; catch-up pull; activation | journal | pages over live heads while others write and the sweep compacts |
| Device sync (engine and persistence) | domain rows, bindings with bases and edit generations, outbox rows (pending, dispatched, conflicted), conflicts, cursor, reset flag, enrollment sequence | local write and delete, dispatch, replay, push verdicts, pull pages, conflict resolution, activation of a rebuild | journal, scan, the user | every `await` lets user edits, other devices, a sweep or a crash in; coalescing of edits behind an in-flight push; stale verdicts |
| Workers | `workers` (policy, incarnation, lease, capabilities, revocation), `worker_replicas` | policy, connect, capabilities, replica, revoke, purge | devices | leases lapse, incarnations change, a revoked device opts in again |
| Jobs and attempts | `jobs` (state, target, fence, active attempt, retry), `attempts` (state, incarnation, lease, late result) | create with placement, claim, renew, report, cancel, get, list, sweep | workers, sources | a lease expires while the worker runs on; a report races a cancellation; capacity held by dead attempts |
| Approvals | `approvals` | request frame, get, decide, expiry | jobs, workers, users | requests expire, jobs end or are cancelled while one is open |
| Sync snapshots | `sync_snapshot_publications`, `sync_snapshots`, `sync_snapshot_chunks` with its delete queue, objects in R2 | `sync.snapshot.begin`, `chunk.put`, `verify`, `commit`, `get`, `chunk.get`; restore on a device; sweep | journal (compaction), R2 | every handler waits for R2 between two transactions; two publishers; compaction under a device that restores |
| Account deletion | tombstone, `deletion_state`, purge progress | delete, status, sweep and alarm drives, purge passes | both durable objects, R2, every request | two objects that must agree over calls that fail; requests admitted before the deletion; overlapping passes |
| Hosted artifact shares | `shared_artifacts` with a pending update, objects in R2 | create, update, upload, finalize, revoke, list, public read, sweep | R2, D1 | uploads, finalizes, reads and the sweep run unlocked and delete by keys they read earlier |
| Device sessions and trust | `device_sessions`, `enrollment_codes`, `account_security`, `security_challenges`; the session file of a device | enroll, refresh, revoke, pair, approve, configure, recover, set policy | devices, users | lost and late refreshes; codes and challenges used after the state they were issued in has changed |
| Data export, import preview | export manifests, import plans | export, preview, commit | everything the object keeps | a plan that is stale when it is committed |
| Device worker loop | local attempts and claims | claim, run, renew, report, restart | jobs | restart between claim and report, missing keys |
| Artifacts, handoffs, dashboard commands, task keys | their tables, R2 objects | reserve, upload, publish, delete; offer, accept; enqueue, deliver | jobs, R2 | orphaned objects, double acceptance |
| Environments and provisioner | environments, reservations, container API | provision, enrol, checkpoint, reap | jobs | a provision that finishes after its cancellation |
| Keyring and sealing | account data key epochs, wraps | pair, rotate, wrap | devices | rows that arrive before their key |
| Billing, authentication, RPC envelope, desktop services, renderer, `mezair-cloud`, `mezair-registry` | see `PROJECT.json` | | | mostly calls to external services, or separate products |

What makes each modelled component correct, in a sentence:

* **Journal**: a pull misses nothing above the retention floor and serves what
  was accepted; revisions form a chain; no lost update; a retry is never judged
  twice.
* **Scan**: the caught-up staging is exactly the account at the end watermark,
  and the catch-up always can get there.
* **Device**: bases come from accepted history; a clean row mirrors its base;
  sync never replaces unsent work; a head once passed by the cursor stays known;
  nothing malformed goes on the wire.
* **Jobs**: one owner per job, a bounded number of executions, completion agreed
  between job and attempt, capacity respected, revoked workers stay out, queued
  jobs drain, orphaned attempts settle, open approvals belong to waiting jobs.
* **Snapshots**: what is published can be read and caught up from the journal; a
  restored device is exact; one chain of generations; no object without an owner;
  abandoned work goes away.
* **Deletion**: sessions end before data does; "deleted" is said only when it is
  true; it is reached in the end.
* **Shares**: what is published was verified; cleanup spares what is in use; an
  ended share stays ended; the quota holds; abandoned uploads end.
* **Sessions**: a device that lost an answer can still refresh; a recovery root
  known to a revoked device unlocks nothing; trust comes from trusted devices.

## Modules and the code they model

| Module | Extends | Models |
|---|---|---|
| `SyncCoordinator` | | the journal half of AccountCoordinator |
| `SyncScan` | `SyncCoordinator` | recovery scan: coordinator handlers and the device's catch-up |
| `SyncMesh` | `SyncCoordinator` | devices around the journal: persistence, engine, user |
| `ChangeLog` | | the abstract log: what every reader of the journal may rely on |
| `SyncSnapshots` | instance of `ChangeLog` | snapshots, their sweep, and a restoring device |
| `AccountDeletion` | | both durable objects while an account is deleted |
| `ShareStore` | | hosted shares: rows and R2 objects |
| `DeviceTrust` | | enrollment, refresh, trust and recovery, with the desktop's side |
| `JobCoordinator` | | workers, jobs, attempts and approvals of AccountCoordinator |
| `SyncCoordinatorProofs`, `SyncScanProofs`, `SyncSnapshotsProofs`, `JobCoordinatorProofs`, `AccountDeletionProofs`, `DeviceTrustProofs`, `ShareStoreProofs`, `SyncMeshProofs` | their component, `TLAPS` (`SyncScanProofs` and `SyncMeshProofs` also the coordinator's proofs) | theorems |
| `MC*` | their component | symmetry sets and, for `DeviceTrust`, a view for TLC |

Definitions whose comment begins with *Mutant* are alternative versions of the
operator that follows them, with one plausible bug; no specification uses them.
They document what each property would catch (`mutants` in `PROJECT.json`).

### SyncCoordinator

A durable object is single-threaded and every RPC body is one SQLite
transaction, so an action is a whole handler. `nextSequence`, `retentionFloor`,
`compactionTarget` and `historyBytes` are rows of `sync_meta`; `entities`,
`changes`, `receipts` and `highWater` the tables of those names. `history` is a
history variable: every change ever accepted, with its base.

* `Push(e, n, c)` is `applyPrepared` for one item: receipt hit, changed content,
  expired receipt by high water, quota or fair-use refusal, conflict,
  acceptance, each in the code's order, followed by the receipt and the high
  water. A batch is a run of consecutive `Push` steps, because structural faults
  are checked before the first item and items are applied one by one.
* `Append` is the write of an accepted change; `PreserveHead` hands the payload of
  a superseded head to its journal row (payloads live on the head until then).
* `Sweep(last, upTo, stale)` is the retention pass: journal rows by age and by
  compaction target, the floor, the byte credit, and receipts. Ages are
  abstracted: any prefix of the journal, any set of receipts may be old enough.
* `RequestCompaction` is what the commit of a snapshot does to the journal,
  `ImportCommit` is `data.import.commit` for an absent entity,
  `FairUseRestriction` the switch of the hosted policy.
* `OtherWriter` (used by the composed modules) is any other device's accepted
  push.

Payloads are model values of one size unit; hashes are the content they cover;
the dataset epoch is constant.

### SyncScan

The row of `scans` with its stored last page, the phase of `scanCycle`, the
staging table and the catch-up cursor. `BeginScan`, `PageScan`, `ReplayPage` (the
coordinator answers a repeated page from its stored copy), `FinishScan`,
`CatchUp`, `EndScan` (activation or abandonment) interleave with `Elsewhere`: other
writers, imports, compaction and the sweep.

### SyncMesh

Per device and entity a `LocalEntity` record: the domain row, the binding, the
pending, dispatched and conflicted outbox rows and the open conflict. The sync
cycle is cut at its awaits (`phase`): `Dispatch`/`Replay`, `DeliverPush` at the
coordinator, `ApplyVerdict`; `ServePull`, `ApplyPage`, `FinishPull`; `StageScan`,
`ActivateStagedScan`; `AbandonCycle` is a lost answer, an error or a restart, after
which the request may still arrive. The user acts at any time: `LocalWrite`,
`LocalDelete`, `BindLocalEntity`, `ResolveKeepLocal`, `ResolveUseRemote`. Each is built
from a pure operator on `LocalEntity` that translates one function of the code
(`Recorded`, `AcceptedLocally`, `Applied`, `Activated`, ...). SQL NULL and the JSON
text `null` are different values (`NoPayload`, `JsonNull`), as in the tables.

Batches and pages carry one change. A closed write gate or a refusal to push is
`ReadOnlyCycle`; a cycle that renews the portable snapshot of an
account with key material (`Keyed`) ends with a scan (`AfterPull`); its upload is in
`SyncSnapshots`. `StageScan` takes the result `SyncScan` establishes: the staged
state is the account at the end watermark. One modelled device is enough for
the device properties, because `OtherWriter` may do whatever other devices could.

### ChangeLog

The abstract specification of the journal: a log that only grows, a revision
per entity, a feed that returns what was written, and a floor that only moves
forward. `SyncCoordinator` maps its counters, heads and the answers of `sync.pull`
(`Feed`) to it; `ImplementsChangeLog` is the refinement. `SyncSnapshots` is built on
the log instead of the detailed journal, which is what the refinement permits.

### SyncSnapshots

Handlers that wait for R2 are two actions around the await: `ChunkPut`,
`ChunkStored` and `ChunkPutDone`; `Verify` and `VerifyDone`; the sweep as
`SweepCommit`, `SweepDeletes`, `SweepRecord`. Deletes pushed to `pendingR2Deletes` run
after the commit and may fail (`DeleteReaches`). `Evicted` ends all of them; a put
may still land. The restoring device is cut at its calls: `RestoreBegin` (the
manifests), `RestoreChunk`, `RestoreStage`, `RestorePull`, `RestoreActivate`, with
`GiveUp` falling back to the retained manifest and then to a scan. Objects are
named by publication and chunk, contents by the revisions they hold. A begin or
commit that is refused is the absence of an action. `Retried` allows a put to be
sent again while the first still runs (see Other disagreements). The rows of
superseded publications are never dropped by the code, and so by the model.

### AccountDeletion

`drivers` are the calls that drive a purge in the session object (the request and
a poll: sweep or status read), `passes` the runs of `deleteAccountData` in the account
object, by who started them. Mutating routes of the session object run under
`blockConcurrencyWhile` (`Blocked`). A pass is `PurgePass` (one transaction), the R2
deletes (`PassDeletes`) and the second transaction with its answer (`PassSettles`);
passes overlap at their awaits. A device request is validated by the one object
(`Validate`), admitted by the other (`Arrive`, where `deletion_state` is read), and
writes after its body was awaited. Rows are of three kinds: those that name no other
row (`Written`: changes, jobs, scans, policies), those that do or were there before the
deletion (`Standing`: attempts, publications), and those with an object (`Artifact`,
`Chunk`). A late request may add any of them whose condition holds at that moment
(`Writable`): an attempt needs a job that is still there. One idealisation remains: a
request names only rows its device had been told of before the deletion. If two
requests are admitted before it and the second is written from the answer to the
first (a job, then a claim of it), the second can leave a row that needs one, of a
job that should not be there either (`NothingRecreated`, see Other disagreements).

### ShareStore

`share.create`, `update`, `revoke` and the deletion of the account block all else and
are one action each. `calls` are uploads, finalizes and reads cut at their awaits;
a call remembers what it read of the row (`key`, `pkey`, `sha`) and goes on with it.
`DeleteObjects` is best effort, as in the code. The loops of the sweep are cut
between the object deletes and the updates of the rows. Access control, titles
and slugs are left out.

### DeviceTrust

Every route is one step under `blockConcurrencyWhile`; what interleaves is the
protocol. A refresh token is its generation: `Answer` is the decision of
`handleRefresh` (replay within the grace period, rotation, reuse, refusal).
`RefreshServe` is a refresh whose answer the desktop stores, `LateServe` one whose
answer it never sees, with any token it ever had. `EndSession` is shared by every
route that revokes, with what it does to the recovery root. `used` and `burned` are
history variables: the roots the account has had, and those that a trusted device had
when it was revoked. `SignInFails` and `EnrollFails` are enrollments whose session row is
removed again; the security row they made stays. Hosted accounts differ by the default
policy and the device limit.

A root is an envelope's recovery id and verifier key; the server stores what a client
sends. Whether an update may keep the present root is `ReplacesBurned`, the server's
check `fresh-recovery-root-required` (`session-coordinator.ts:2949`). Which roots are sent
at all is `Offered`, an assumption about clients: the present one or one the account
never had. The desktop makes a root of a random id and a random secret
(`createRecoverySetup`) or seals the account's keys again under the one it has
(`refreshDeviceRecovery`, after checking that it is the account's present one). The
server would not refuse an older root: it compares with the present one and keeps no
list (see Other disagreements).

### JobCoordinator

An action is a handler that returns; a handler that throws is rolled back and is
the absence of an action. Deadlines are flags raised by time steps
(`QueueDeadlinePasses`, `WorkerLeaseLapses`, `AttemptLeaseExpires`,
`AttemptLeaseLapses`, `ApprovalDeadlinePasses`) and reset where the code writes a new
deadline. An attempt is named by its job and fence. Incarnations are fresh UUIDs
in the code and fresh numbers here; `expelled` is a history variable that
remembers the last incarnation a revocation hit.

* `Placement` is the auto branch of `resolvePlacement` (least loaded, then by id),
  `DeviceAccepted` the explicit device branch; a claim of an unresolved job
  resolves it again.
* `JobTransitions` and `AttemptTransitions` are the tables of `cloud/contract/jobs.ts`;
  an attempt may take several hops at once (`AttemptReachable`).
* `AttemptReport` and `LateReport` split `handleAttemptReport` by its stale test;
  `ReportLegal` is where the two conditional updates would throw.
* `attempt.renew` changes only deadlines, so it has no action: a renewed lease is
  one that does not expire, and `Renewable` decides in the fairness condition which
  leases may go on forever.
* `Sweep(purged)` is the job part of `runSweep`: queue deadlines, lapsed attempts,
  due approvals, purged worker records.

Left out: environment targets and managed provisioning, who may decide an
approval, the durable event journal, sealed inputs, the fair-use check on
create, batch limits of the sweep, a create that repeats a request id with other
content (refused without effect).

## Runs

Every passing run explores all reachable states of its instance. Deadlock
checking is off because the bounds make every instance stop in the end.

| Run | Instance | Distinct states | Shows |
|---|---|---|---|
| `journal` | 2 devices, 2 entities, 2 payloads, 3 sequences | 390,792 | no lost update, stable verdicts, the counter, and the refinement of `ChangeLog`, with racing devices and fair-use restriction |
| `mesh` | 1 device and other writers, no key material, 2 payloads, 2 edits, 2 sequences, retention, quota 1 | 913,499 | the device properties across lost answers, resets, expired receipts and refusals |
| `recovery_scan` | 2 entities, 4 sequences | 584,736 | exact staging, catch-up never stuck |
| `snapshots` | 3 publications in turn, 2 changes, 1 restore | 3,555,260 | the tail of published snapshots is kept, a restore is exact |
| `snapshot_cleanup` | 2 publishers at once, key rotation, 2 faults, fairness | 95,318 | one chain, readable snapshots, owned objects, abandoned work ends |
| `job_lifecycle` | 1 worker, 1 job, 2 policies, 2 incarnations, 3 fences, fairness | 250,375 | the job safety properties; queues drain, orphans settle |
| `job_capacity` | 1 worker, 2 jobs, capacity 1 | 646,144 | capacity |
| `shares` | 1 share, 2 concurrent calls, 2 updates, a corrupt upload | 2,055,881 | verified before published, cleanup spares what is in use, ended stays ended |
| `shares_cleanup` | 1 share, 1 call, 2 lengths, quota 3, fairness | 364,659 | the quota, reservations and staged updates end |
| `account_deletion` | 1 request, 3 drivers of a purge, batch 1, 1 fault, fairness | 735,010 | sessions end first, agreement of the objects, what may be left, completion |
| `device_trust` | 3 devices, 1 rotating, 2 recovery roots, 1 code and 1 challenge at a time, 4 revisions, 3 generations | 2,465,742 | refresh after losses, burned roots kept or replaced, hand-over of trust |

Why the bounds are enough for the cases that matter:

* Three journal sequences allow create, update and delete of one entity with a
  sweep between any two; a fourth lets the scan see a write before, inside and
  behind a page.
* Two enrollment sequences let a dispatched change have a successor, and the quota
  of a self-hosted account is reached in `mesh`. Ad hoc runs of larger instances
  found nothing new: the instance of `mesh` with `Keyed = TRUE`, where a cycle may
  end with a scan (4,199,516 states, too many for a run); one payload and three
  edits; three edits and three sequences without retention (1,533,809 states); three
  enrollment sequences and four edits (9.85 million); the journal alone under a quota
  of two (250,755). The proofs cover every quota and both values of `Keyed`.
* Three fences are one more than the code ever uses: `BoundedExecutions` is not an
  artefact of the bound. Two incarnations give a worker that came back. Two
  workers competing for one job (877,568 states) were checked ad hoc; the proofs
  cover any number of them, and the choice between them.
* Three publications let one snapshot be superseded while another is retained;
  two publishers at once are the race of the commit, and two faults an eviction
  after a failed delete.
* Two calls and two updates are a finalize that is overtaken by another one or by
  the next update. Two shares only meet in the quota.
* A batch of one row makes every purge take several passes, and with the request,
  a poll and the alarm three of them can overlap. A second request adds nothing
  that a `Standing` row and a chunk do not: requests do not read each other.
* Three devices are one that trusts, one that is trusted and one that is revoked;
  four revisions are the initial one, configure, revoke, and an update that keeps or
  replaces the burned root, after which a challenge may recover with it. Two roots are
  the burned one and its replacement. The device limit of a hosted account is not
  reached by this instance.
* The view `Read` of `device_trust` leaves out the tokens and the session file of devices
  that are not live: no action reads them any more, and no property speaks of them.
* The type invariants `MeshTypeOK`, `ScanTypeOK`, `SnapshotTypeOK`, `ShareTypeOK`,
  `DeletionTypeOK` and `TrustTypeOK`, and `JournalServesHistory` and `RevisionChain`, which
  `ImplementsChangeLog` contains, hold in the same instances; the last two and the
  types of the coordinators are proved.
* Symmetry sets permute model values only (jobs, devices, payloads, publications,
  calls, recovery roots); worker ids and the entities of `SyncScan` are ordered by the code and are
  numbers, and a device that rotates tokens is not exchanged with one that does
  not. Runs with liveness properties use no symmetry.

## Findings

`stale_verdict` ends in a counterexample by design: it states what a comment of
the code says and shows a behaviour of the code that contradicts it. A replayed
push is answered by its old conflict receipt; resolving the conflict moves the
base behind the cursor, and the newer head is never pulled again. The exact
quotes and lines are under `findings` in `PROJECT.json`.

### Other disagreements

These are stated as properties of their modules and refuted the same way: TLC
finds a counterexample when the one property is checked in the instance of
`SyncMesh.cfg`, `SyncCoordinator.cfg`, `JobLifecycle.cfg`, `ShareStore.cfg`,
`SnapshotCleanup.cfg` or `AccountDeletion.cfg`, with the changes the table names.

| Property | What happens | What the code says |
|---|---|---|
| `CancelledCreateIsNoOp` (`SyncMesh`) | a deletion cancels a queued create although another create is in flight; the entity stays in the account | `sync-persistence.service.ts:435` "pending create + delete removes the outbox row entirely (net no-op)" |
| `UseRemoteReplacesLocal` (`SyncMesh`) | a remote deletion reported by a push conflict is stored as the JSON text `null`; use-remote keeps the local row, marked clean | `sync-engine.service.ts:1937` "Use-remote: replace the local row with the remote payload" |
| `NoStrandedEdit` (`SyncMesh`) | a reset turns a dispatched deletion into a conflict; keep-local then sends nothing | `sync-engine.service.ts:1935` |
| `DeletedStaysDeleted` (`SyncMesh`, `Hosted = TRUE`, `Retention = FALSE`, `MaxEdits = 3`, `MaxSequence` and `MaxEnrollmentSequence` 3) | keep-local after a deletion uploads the payload the conflict was opened with | `sync-engine.service.ts:2086` |
| `DeletionReclaimsHistory` (`SyncCoordinator`) | a payload whose journal row was swept before the entity was deleted is charged for good | `account-coordinator.ts:2401` |
| `CancelIsConfirmed` (`JobCoordinator`, `FairSpec`) | a cancel request whose worker vanished is never confirmed: the sweep settles the attempt, later reports are only kept | `account-coordinator.ts:5523` "the verified stop arrives via attempt.report or the lease-lapse sweep" |
| `CancelledMeansStopped` (`JobCoordinator`) | cancelling a job that waits for an approval leaves its attempt active | `cloud/contract/jobs.ts:134` "nothing is running yet" |
| `MatchedReportApplies` (`JobCoordinator`) | after an approval expired, the worker's completion is refused as an illegal transition | `account-coordinator.ts:5369` |
| `SweepClosesApprovals` (`JobCoordinator`) | the sweep leaves the open request of a failed job pending | `account-coordinator.ts:12002` |
| `RevivedOnlyByConnect` (`JobCoordinator`) | a report revives a lapsed incarnation without `worker.connect` | `account-coordinator.ts:4710` |
| `PublishedObjectIntact` (`ShareStore`) | an upload that began before a finalize ends after it, and overwrites or (when its put fails) deletes the published object | `session-coordinator.ts:3793` "mismatched bytes are never published" |
| `PublishedStaysReadable` (`SyncSnapshots`, cleanup instance, `Retried = TRUE`) | a put sent twice: the slower call finds its publication committed, is refused, and deletes the object the faster one uploaded | `cloud/contract/sync.ts:238` "Publication IDs are retry identities" |
| `NothingRecreated` (`AccountDeletion`) | a request admitted before the deletion writes after the purge; the account is deleted and has rows | `account-coordinator.ts:2029` "stale clients cannot recreate hosted state" |
| `SharesDie` (`AccountDeletion`) | the session object is evicted between the tombstone and the purge of the shares; later drivers only drive the account object | `session-coordinator.ts:4276` "Shared artifacts die with the account: rows plus their R2 objects" |

Met while modelling, and visible in the models or the code without a property:

* `ShareStore`: a finalize that failed its check deletes by its key even if the row
  has moved on (`session-coordinator.ts:3877`); the sweep writes `expired` over a share that was
  revoked while it waited for R2 (`:4454`); an upload that lands after the share ended
  leaves its object behind; a reader that arrives while an object is swapped gets
  `unavailable`.
* `AccountDeletion`: with more chunk rows than a batch, two overlapping passes can
  drop the row of a chunk that was uploaded again in between, and its object stays;
  `ChunksAreOwned` says so in its premise. The upload of an artifact does not look at
  `deletion_state`, and its object stays when its row is purged meanwhile.
* `SyncSnapshots`: objects are orphaned only by an eviction or a failed delete of a
  refused upload (`lost`).
* `DeviceTrust`: `fresh-recovery-root-required` compares a new root with the present one
  only (`session-coordinator.ts:2949`), and a configure with none (`:2714`). A client that
  sent a root the account had before would have it again, a burned one too: with
  `Offered(root) == TRUE`, `MaxRevision = 5` and `Refreshing = {}`, TLC refutes
  `BurnedRootNeverUnlocks` (configure r1, revoke, replace by r2, install r1 again, recover
  with r1). The desktop does not do that.
* `DeviceTrust`: the sweep clears the previous token, so a reuse after it is answered
  `invalid-proof` and revokes nothing; a request that is delayed beyond the 30 s grace
  period revokes an honest device. When the first device is revoked before
  recovery is configured, or every holder of an invalidated root is, only a reset
  remains. On the desktop, `refresh-reuse-detected` wipes the session file without
  the epoch check that guards a rotated answer (`sync-auth.service.ts:741`), so an
  answer to an old enrollment signs a new one out.

## Fairness

`SyncCoordinator`, `SyncScan`, `SyncMesh` and `DeviceTrust` use no fairness.

* `LiveSpec` of `SyncSnapshots` and of `ShareStore`: the alarm is durable and each sweep
  sets it again, so a sweep that has something to do takes its next step; calls
  that wait for R2 are answered. Evictions are bounded by the number of faults in
  the one and end at last in the other: an object that is evicted in the middle of
  every sweep makes no progress in the code either. Clients are not fair.
* `Fairness` of `AccountDeletion`: the sweep of the session object drives what is
  pending (`Poll`), a driver that started goes on, passes that wait for R2 are
  answered, and the alarm of the account object fires while it is armed. Requests
  and deletes under `waitUntil` are not fair.

`FairSpec` of `JobCoordinator` assumes:

* `QueueDeadlinePasses`, `AttemptLeaseLapses`: time goes on;
* `AttemptLeaseExpires` only while nobody may renew the lease (`~CanRenew`): a
  worker that is entitled to renew may do so forever, one that is not cannot
  stop the clock;
* `Sweep({})`: the alarm runs the sweep and `ensureSweepScheduled` re-arms it after
  every job operation and every alarm;
* a worker whose report would be applied sends it. It is only needed for the
  counterexample to `CancelIsConfirmed` to be more than a lazy worker.

No fairness is given to claims, users, connects or policy changes.

## Proofs

`SyncCoordinatorProofs` proves, from `CoordinatorAssumption` alone (the constants are
naturals and the null values are not payloads or entities), `Spec => []Inv` and
from it every property of the journal runs: `TypeOK`, `JournalServesHistory`,
`RevisionChain`, `NoBlindOverwrite`, the action property `RetryKeepsVerdict`, and the
refinement `ImplementsChangeLog`.
`Inv` has two halves. The journal half relates the counters, the accepted history,
the heads and the journal: `JournalServesHistory` alone is not inductive, because
whether a row without payload is readable depends on the head still being the
change of that row (`HeadsInv`, `JournalInv`), and the chain needs the head to be the
last change of its entity. The push half says a receipt lies at or below its
enrollment's high water, which is what makes a swept receipt an expired one.
`AppendKeepsJournal` is the central lemma: push, import and other writers are all
appends on the current head.

`ImplementsLog` (`Spec => ImplementsChangeLog`) rests on `Inv`: under it what `sync.pull`
serves is a function of the accepted history and the floor alone (`HistoryFeed`), so
no step has to be followed through heads and payload columns. `AppendIsWrite`
then maps every accepted change to a write of the log, `SweepIsTrim` the sweep to a
trim, and every other step leaves history, floor and heads alone.

`JobCoordinatorProofs` proves, from `JobAssumption`, `Spec => []JobInv` and from it
`JobTypeOK`, `SingleOwner`, `BoundedExecutions`, `CompletionAgrees`,
`PendingApprovalIsOpen` and the action property `RevokedNeverCompletes`.
`RowsOK` speaks of one job row, its attempts and its approvals. It strengthens
the properties where they are not inductive: the bound on the fence depends on
whether the retry was used and, while the job is queued, determines the fence
exactly; a queued job has only failed attempts behind it. Its first lemmas say
what one kind of operation does to one such triple (`MoveJob`, `MoveAttempts`,
`ClaimRows`, `SettleRows`, ...), and every handler is reduced to them. `IncarnationsOK`
carries the revocation argument: a worker that is not revoked runs under an
incarnation above every expelled one, since a connect mints a new one and a
fresh opt-in starts without any. `PlacementIsLeastLoaded` is proved separately: the
choice in `resolvePlacement` is defined, eligible and least loaded, by well-founded
minima over loads and ids.

`CapacityHolds` (`WithinCapacity`) goes beyond one job: the attempts a worker has in
progress are a set over all jobs. `OnlyClaimsGiveWork` shows that no step but a claim
enlarges it, and a claim adds one attempt to a worker that had fewer than
`MAX_CONCURRENT_JOBS`; `FiniteWork` is what makes counting it meaningful.

`SyncScanProofs` builds on the coordinator's `Inv` (`ScanSpec` takes coordinator steps
while a device scans) and proves `ScanSpec => [](Inv /\ ScanInv)`, then `StagingIsExact` and
`CatchUpReachesEnd`, again from `CoordinatorAssumption`. `StagingIsExact` speaks of the
end only; `ScanInv` says what is true on the way. Every staged row is a change that was
accepted (`Genuine`), and it is not older than the last change of its entity up to some
sequence (`Covers`): the start watermark for the entities the page cursor has passed,
the catch-up cursor afterwards, the end watermark when it is ready. `CoordinatorStep`
and `HistoryGrows` show that writes and sweeps of others preserve this: the history only
grows, so what was the last change up to a watermark remains it.

`SyncSnapshotsProofs` proves, from `SnapshotAssumption`, `OneChain`, `TailKept`,
`ObjectsAreOwned`, `RestoreIsExact`, and `PublishedStaysReadable` as long as no chunk is
put again while its first put runs (with such a retry it is false, see above). `Inv`
has seven parts. `ChainInv` counts commits by generations: the active snapshot is the
last commit and the retained one the commit before it, which is what refuses the
slower of two publishers. `TailInv` adds that the compaction target never passes a
published snapshot. `OwnInv` follows an object from its call to its row to the delete
queue, including the batch a running sweep has read before its await. `ReadInv` says
which calls may still touch a chunk of a publication that takes no more uploads.
`HeadsInv` says that a scan and the tail after it give the present heads while the tail
is there, and `RestoreInv` the same of the moment at which a restoring device asked for
the manifests, for every manifest on its list. Each part has a lemma of its own with one
step per action.

`AccountDeletionProofs` proves, from `DeletionAssumption`, `RevokedBeforePurge`,
`DeletedMeansPurged`, `OnlyLateWrites` and `ChunksAreOwned`. `PurgeInv` is where drivers,
passes and deletion state meet: an answer "deleted" is only in flight if the account
object is deleted, and a deleted object holds nothing but rows that late requests wrote
(`Written`). `ChunkInv` names what takes care of an object without a row (a delete under
way, the account object's queues, a landed upload); it holds where all chunk rows fit one
batch, which is also the hypothesis of the property.

`DeviceTrustProofs` proves, from `TrustAssumption`, `StoredTokenAccepted`,
`BurnedRootNeverUnlocks` and `TrustIsHandedOn`. `RefreshInv` says that a device is at most
one rotation behind its session, which is what the grace of the previous token covers.
`RootInv` says that a challenge of the present recovery revision is about the present
root, that what is burned or present was used, and that a present root that is burned is
invalid. The last holds because a revocation invalidates the root it burns, because only
`UpdateRecovery` makes an invalid root valid again, and because the server's check
(`ReplacesBurned`) makes it replace the root when it does; the root it is replaced by was
never used (`Offered`), hence not burned. `handleSecurityRecover` then refuses a burned
root: it is either not the present one or invalid. Without the check the proof fails at
`UpdateRecovery` (and the run finds a violation: it is the property's mutant); without the
assumption on clients the property is false, as said above.

`ShareStoreProofs` proves, from `ShareAssumption`, `EndedStaysEnded`,
`PublishesWhatItVerified` and `CleanupSparesInUse`. `RowOK`, `CallOK` and `VictimOK` say
what a call or the sweep still knows about the row it read before its await: a key that
is going to be deleted is not the row's any more, a finalize carries the digest the row
declares for its key. `RowsMove` reduces every step to one of a few moves of a row
(`Created`, `Staged`, `Ended`, `Uploaded`, `Published`, `SwappedIn`, `GivenUp`), so that what
a waiting call (`CallWaits`) or the sweep (`VictimWaits`) knows is followed through those
only. `QuotaIsHeld` (`QuotaHeld`) also needs `FiniteShares`: `UsedBytes` is a fold
over the shares in the order of CHOOSE. `SumsExist` shows by induction on the number of
shares that the fold is defined, `UsedMoves` and `UsedShrinks` what a changed row does to
it; the quota then follows because only a creation and an update reserve bytes, each for
one share and only what fits.

`SyncMeshProofs` is over `MeshSpec`, several devices in front of the coordinator, from
`CoordinatorAssumption`, `MeshAssumption` and the coordinator's `Inv`. None of `WireWellFormed`,
`BaseFromHistory` and `CleanMirrorsBase` is inductive: what a device stores depends on
answers that are under way, on a page it has not applied and on a scan it has staged.
`MeshInv` adds, for every device (`DeviceInv`), that the cursor is behind the journal, that
receipts answer what was sent (`WireInv`), that a page holds the accepted change right
behind the cursor (`PageInv`) and that staged heads are exact for their watermark
(`StagedInv`); and for every entity of a device (`EntityInv`) what the stored row promises
by itself (`LocalInv`: binding, mirror, conflict, outbox row and dispatched change), that
its base and the remote side of its conflict were accepted, and are the newest up to the
cursor where it has no base (`RemoteInv`), and what a late verdict or a replayed receipt
may still say (`DispatchedInv`). The proof has three layers. Lemmas about one entity
say what each operator does to it (`EditKept`, `AnsweredKept`, `AppliedKept`,
`ActivatedKept`, `KeptLocalKept`, `UsedRemoteKept`, ...); `JournalGrows` says that what was
accepted stays accepted and the newest up to a sequence stays the newest; frame lemmas
(`DeviceStays`, `EntityStep`, `ServerStep`, ...) combine both into one step lemma per action.
The action properties `DirtyRowsKept` and `SeenStaysSeen` follow from `MeshInv` and a
second pass over the actions (`StepKeeps`). Before it was proved, `MeshInv` was
model-checked on the instance of the `mesh` run and simulated with two
devices and two entities.

<a name="limits"></a>

## What is only model-checked, and what is not modelled

Every invariant and every action property of the passing runs is proved as well, and so
is the refinement. Only model-checked: the liveness properties `QueueEmpties`,
`AbandonedEnds`, `QueueDrains`, `OrphanSettles`, `ReservationEnds`, `StagedUpdateEnds` and
`DeletionCompletes` (liveness under fairness is beyond the prover), and the violation
`NothingMissed`. `PublishedStaysReadable` is proved, and checked, without a retried put, and
`ChunksAreOwned` where the chunk rows fit one batch. No module declares a RECURSIVE operator.

Not modelled in the modelled components: dataset epochs, enrollment changes and
the fencing of orphaned dispatches; sealed payloads, quarantine and keys; paused
workspaces; save-copy; byte and page limits; a second scan at a time; the items
listed under JobCoordinator above. Assumed of clients: recovery roots are not reused after
they were replaced (DeviceTrust), and late requests name rows known before the deletion
(AccountDeletion). Components without a module are in
`PROJECT.json` with the reason. Hazards without a property carry a note.

## Plan

Done: `SyncCoordinator`, `SyncScan`, `SyncMesh`, `JobCoordinator` with the proofs of the
two coordinators; then `ChangeLog` with the proved refinement, `SyncSnapshots`,
`AccountDeletion`, `ShareStore` and `DeviceTrust`; then the proofs of all of them.

Next, most important first:

1. `JobMesh`: the device's worker loop (`mesh-worker.service.ts`) composed with
   `JobCoordinator`: restart between claim and report, renewals, missing keys; an
   abstract job (offered, owned, settled) and the refinement to it.
2. `SyncMesh`: save-copy, epochs and re-enrollment, key deferral, and a run of
   eventual convergence once the account stops changing.
3. `Environments`: provisioning, enrolment, reaping, the managed claimer that races
   cancellation.
4. Data export and the import plan; artifacts of jobs, handoffs, dashboard commands.
