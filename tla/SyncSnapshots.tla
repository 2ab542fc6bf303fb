--------------------------- MODULE SyncSnapshots ---------------------------
(***************************************************************************)
(* Portable snapshots of an account: sync.snapshot.* of the account        *)
(* coordinator, the compaction and cleanup its sweep does for them, and a  *)
(* device that restores itself from a snapshot and the journal's tail      *)
(* (restorePublishedSnapshot).  The journal is the log that SyncCoordinator *)
(* is shown to implement; of its contents only revisions matter here.      *)
(*                                                                         *)
(* Handlers that wait for R2 are cut at their awaits.  An object is known  *)
(* by its publication and chunk: keys contain both and the digest, and an  *)
(* object that exists is never overwritten.                                *)
(***************************************************************************)
EXTENDS Integers, FiniteSets, FiniteSetsExt, Sequences

CONSTANTS
    Entity,         \* (entityType, entityId) pairs
    Payload,        \* sealed payloads
    NoPayload,      \* the payload of a deletion
    NoEntry,        \* a sequence that cannot be read
    MaxLength,      \* bound on accepted changes
    Publication,    \* publication ids; a device draws a fresh one per attempt
    Chunk,          \* the chunks of every snapshot
    Retried,        \* whether a chunk.put may be sent again while one still runs
    MaxOpenUploads, \* SYNC_SNAPSHOT_MAX_OPEN_UPLOADS
    MaxPublishers,  \* bound on devices that publish at the same time
    MaxKeyVersion,  \* bound on key rotations
    MaxFaults,      \* bound on evictions and failed R2 deletes
    MaxRestores     \* bound on attempts to restore a device

ASSUME SnapshotAssumption ==
    /\ Chunk # {} /\ IsFiniteSet(Chunk) /\ IsFiniteSet(Publication)
    /\ MaxLength \in Nat /\ MaxOpenUploads \in Nat /\ MaxKeyVersion \in Nat \ {0}
    /\ MaxPublishers \in Nat /\ MaxFaults \in Nat /\ MaxRestores \in Nat
    /\ NoPayload \notin Payload
    /\ NoEntry \notin [entity : Entity, revision : 1 .. MaxLength,
                       operation : {"create", "update"}, payload : Payload]
    /\ Retried \in BOOLEAN

VARIABLES
    length, floor, revision, feed,  \* the journal: see ChangeLog
    target,       \* meta snapshot_compaction_target
    aged,         \* the last sequence dropped because of its age
    keyVersion,   \* meta key_version
    publications, \* table sync_snapshot_publications
    overdue,      \* publications past upload_expires_at
    snapshots,    \* table sync_snapshots
    chunks,       \* the state column of table sync_snapshot_chunks
    objects,      \* keys that exist in the bucket
    puts,         \* chunk.put calls waiting for R2
    verifies,     \* verify calls waiting for R2
    deletes,      \* R2 deletes running after their commit (waitUntil)
    lost,         \* keys whose upload or deletion ended with a fault
    faults,       \* how many faults there have been
    sweep,        \* runSweep, which waits for R2 too
    restore       \* the restoring device

Log == INSTANCE ChangeLog
logVars == <<length, floor, revision, feed>>
tables == <<publications, snapshots, chunks>>
pending == <<puts, verifies, deletes, lost, faults>>
vars == <<logVars, target, aged, keyVersion, tables, overdue, objects, pending,
          sweep, restore>>

---------------------------------------------------------------------------

Key == Publication \X Chunk
Cursor == 0 .. MaxLength
Contents == [Entity -> Cursor]

\* "new": not scanned yet; "scanned": a finished scan, not begun; "dropped": the
\* row is deleted.  committed is "committed_at IS NOT NULL".
PublicationRow ==
    [state : {"new", "scanned", "uploading", "verified", "committed", "expired",
              "dropped"},
     cursor : Cursor, contents : Contents, key : 0 .. MaxKeyVersion,
     expected : 0 .. Cardinality(Publication), committed : BOOLEAN]
SnapshotRow == [state : {"none", "active", "retained"},
                generation : 0 .. Cardinality(Publication)]
NoSnapshot == [state |-> "none", generation |-> 0]
NoSweep == [pc |-> "idle", batch |-> {}]
NoRestore == [pc |-> "idle", from |-> <<>>, got |-> {}, staged |-> [k \in Entity |-> 0],
              cursor |-> 0, finish |-> 0, goal |-> [k \in Entity |-> 0], tries |-> 0]

Init ==
    /\ Log!Init
    /\ target = 0 /\ aged = 0 /\ keyVersion = 1
    /\ publications = [p \in Publication |->
                         [state |-> "new", cursor |-> 0,
                          contents |-> [k \in Entity |-> 0], key |-> 0,
                          expected |-> 0, committed |-> FALSE]]
    /\ overdue = {}
    /\ snapshots = [p \in Publication |-> NoSnapshot]
    /\ chunks = [x \in Key |-> "none"]
    /\ objects = {} /\ puts = {} /\ verifies = {} /\ deletes = {} /\ lost = {}
    /\ faults = 0
    /\ sweep = NoSweep
    /\ restore = NoRestore

State(p) == publications[p].state
\* A publication that chunk.put, verify and commit still accept.
Open(p) == State(p) \in {"uploading", "verified"} /\ p \notin overdue
Published == {p \in Publication : snapshots[p].state # "none"}
Active == {p \in Publication : snapshots[p].state = "active"}
Retained == {p \in Publication : snapshots[p].state = "retained"}
Generation == IF Active = {} THEN 0
              ELSE snapshots[CHOOSE p \in Active : TRUE].generation
ActiveCursor == IF Active = {} THEN 0
                ELSE publications[CHOOSE p \in Active : TRUE].cursor
\* All chunks of the manifest have been uploaded.
Complete(p) == \A c \in Chunk : chunks[<<p, c>>] = "uploaded"

---------------------------------------------------------------------------
(* Publishing *)

\* An accepted change of any device.  A deletion would be one more revision, and
\* only revisions matter here.
Write ==
    /\ \E k \in Entity, operation \in {"create", "update"}, payload \in Payload :
          Log!Write(k, operation, payload)
    /\ UNCHANGED <<target, aged, keyVersion, tables, overdue, objects, pending,
                   sweep, restore>>

\* A change sealed under a newer key (observeSyncKeyVersion).
KeyRotated ==
    /\ keyVersion < MaxKeyVersion
    /\ keyVersion' = keyVersion + 1
    /\ UNCHANGED <<logVars, target, aged, tables, overdue, objects, pending, sweep,
                   restore>>

\* The publisher's full scan is finished and caught up: what it will upload is
\* every head at that watermark, sealed under the key version it was told.
ScanFinished(p) ==
    /\ State(p) = "new"
    /\ Cardinality({q \in Publication : State(q) = "scanned" \/ Open(q)}) < MaxPublishers
    /\ publications' = [publications EXCEPT ![p] =
                          [@ EXCEPT !.state = "scanned", !.cursor = length,
                                    !.contents = revision, !.key = keyVersion]]
    /\ UNCHANGED <<logVars, target, aged, keyVersion, snapshots, chunks, overdue,
                   objects, pending, sweep, restore>>

\* sync.snapshot.begin for a new publication; a repeated one changes nothing.
Begin(p) ==
    /\ State(p) = "scanned"
    /\ publications[p].cursor >= floor
    /\ publications[p].cursor >= ActiveCursor
    /\ publications[p].key = keyVersion
    /\ Cardinality({q \in Publication : Open(q)}) < MaxOpenUploads
    /\ publications' = [publications EXCEPT ![p].state = "uploading",
                                            ![p].expected = Generation]
    /\ UNCHANGED <<logVars, target, aged, keyVersion, snapshots, chunks, overdue,
                   objects, pending, sweep, restore>>

\* sync.snapshot.chunk.put up to its first await: the slot is reserved.  An
\* uploaded chunk is only looked at again.  A retried put finds at most one
\* earlier call of its chunk, with its bytes already stored.
ChunkPut(p, c) ==
    /\ Open(p)
    /\ chunks[<<p, c>>] # "uploaded"
    /\ <<p, c, "reserved">> \notin puts
    /\ Retried \/ <<p, c, "stored">> \notin puts
    /\ chunks' = [chunks EXCEPT ![<<p, c>>] = IF @ = "none" THEN "uploading" ELSE @]
    /\ puts' = puts \cup {<<p, c, "reserved">>}
    /\ UNCHANGED <<logVars, target, aged, keyVersion, publications, snapshots, overdue,
                   objects, verifies, deletes, lost, faults, sweep, restore>>

\* The object is in R2, put there now or found by head.
ChunkStored(p, c) ==
    /\ <<p, c, "reserved">> \in puts
    /\ <<p, c, "stored">> \notin puts
    /\ objects' = objects \cup {<<p, c>>}
    /\ puts' = (puts \ {<<p, c, "reserved">>}) \cup {<<p, c, "stored">>}
    /\ UNCHANGED <<logVars, target, aged, keyVersion, tables, overdue, verifies, deletes,
                   lost, faults, sweep, restore>>

\* The second transaction takes the upload only if it is still wanted.
PutAccepted(p, c) == Open(p) /\ chunks[<<p, c>>] # "none"

\* Mutant: a refused upload is forgotten.
RefusedPutForgotten(p, c) == {}

\* pendingR2Deletes.push: the commit hands the object of a refused upload to R2.
RefusedPut(p, c) == {<<p, c>>}

ChunkPutDone(p, c) ==
    /\ <<p, c, "stored">> \in puts
    /\ puts' = puts \ {<<p, c, "stored">>}
    /\ IF PutAccepted(p, c)
       THEN /\ chunks' = [chunks EXCEPT ![<<p, c>>] = "uploaded"]
            /\ UNCHANGED deletes
       ELSE /\ deletes' = deletes \cup RefusedPut(p, c)
            /\ UNCHANGED chunks
    /\ UNCHANGED <<logVars, target, aged, keyVersion, publications, snapshots, overdue,
                   objects, verifies, lost, faults, sweep, restore>>

\* A waitUntil delete reaches R2; its failure is ignored.
DeleteReaches(x) ==
    /\ x \in deletes
    /\ deletes' = deletes \ {x}
    /\ \/ objects' = objects \ {x} /\ UNCHANGED <<lost, faults>>
       \/ /\ faults < MaxFaults
          /\ faults' = faults + 1
          /\ lost' = lost \cup {x}
          /\ UNCHANGED objects
    /\ UNCHANGED <<logVars, target, aged, keyVersion, tables, overdue, puts, verifies,
                   sweep, restore>>

\* sync.snapshot.verify: every row says uploaded and R2 has every object, then
\* the second transaction looks at the publication again.
Verify(p) ==
    /\ State(p) = "uploading" /\ p \notin overdue
    /\ Complete(p)
    /\ {p} \X Chunk \subseteq objects
    /\ verifies' = verifies \cup {p}
    /\ UNCHANGED <<logVars, target, aged, keyVersion, tables, overdue, objects, puts,
                   deletes, lost, faults, sweep, restore>>

VerifyDone(p) ==
    /\ p \in verifies
    /\ verifies' = verifies \ {p}
    /\ publications' = [publications EXCEPT ![p].state =
                          IF @ = "uploading" /\ p \notin overdue THEN "verified" ELSE @]
    /\ UNCHANGED <<logVars, target, aged, keyVersion, snapshots, chunks, overdue,
                   objects, puts, deletes, lost, faults, sweep, restore>>

\* Mutant: the generation is not compared.
FollowsAnyCursor(p) == publications[p].cursor >= ActiveCursor

\* The publication extends the generation it was begun on, and not backwards.
Follows(p) ==
    /\ publications[p].expected = Generation
    /\ publications[p].cursor >= ActiveCursor

\* Mutant: everything the new snapshot covers is compacted.
CompactionCursorOwn(p) == publications[p].cursor

\* The journal is kept from the snapshot that becomes the rollback copy on.
CompactionCursor(p) ==
    IF Active = {} THEN publications[p].cursor ELSE ActiveCursor

\* Older rollback copies, collected by the commit that replaces them.
Superseded == Retained

\* sync.snapshot.commit
Commit(p) ==
    /\ State(p) = "verified" /\ p \notin overdue
    /\ publications[p].key = keyVersion
    /\ publications[p].cursor \in floor .. length
    /\ Follows(p)
    /\ Complete(p)
    /\ snapshots' = [q \in Publication |->
                       IF q = p THEN [state |-> "active", generation |-> Generation + 1]
                       ELSE IF q \in Active THEN [snapshots[q] EXCEPT !.state = "retained"]
                       ELSE IF q \in Superseded THEN NoSnapshot
                       ELSE snapshots[q]]
    /\ publications' = [q \in Publication |->
                          IF q = p
                          THEN [publications[q] EXCEPT !.state = "committed",
                                                       !.committed = TRUE]
                          ELSE IF q \in Superseded
                          THEN [publications[q] EXCEPT !.state = "expired"]
                          ELSE publications[q]]
    /\ chunks' = [x \in Key |-> IF x[1] \in Superseded THEN "deleting" ELSE chunks[x]]
    /\ target' = Max({target, CompactionCursor(p)})
    /\ UNCHANGED <<logVars, aged, keyVersion, overdue, objects, pending, sweep, restore>>

\* SYNC_SNAPSHOT_UPLOAD_TTL_MS has passed.
UploadWindowCloses(p) ==
    /\ State(p) \in {"uploading", "verified", "committed"}
    /\ p \notin overdue
    /\ overdue' = overdue \cup {p}
    /\ UNCHANGED <<logVars, target, aged, keyVersion, tables, objects, pending, sweep,
                   restore>>

---------------------------------------------------------------------------
(* runSweep: its transaction, the queued R2 deletes, the leftover rows *)

\* Mutant: the sweep looks at the deadline only.
AbandonedOverdue == {p \in overdue : State(p) \notin {"new", "scanned", "dropped"}}

\* Mutant: a verified publication counts as finished.
AbandonedUploads == {p \in overdue : State(p) \in {"uploading", "expired"}
                                     /\ ~publications[p].committed
                                     /\ p \notin Published}

\* Uncommitted publications past their window.
Abandoned == {p \in overdue : State(p) \in {"uploading", "verified", "expired"}
                              /\ ~publications[p].committed
                              /\ p \notin Published}

\* Mutant: keys without an object are left out.
QueuedExisting == {x \in Key : chunks[x] = "deleting" /\ x \in objects}

\* The durable queue of R2 deletes.
Queued == {x \in Key : chunks[x] = "deleting"}

\* Changes up to last have outlived RETENTION_MS; then a batch of the rows up to
\* the compaction target goes, ending at upTo.
SweepJournal(last, upTo) ==
    LET current == Max({floor, last})
    IN /\ last \in {0} \cup (floor + 1 .. length)
       /\ upTo \in (IF target > current THEN current + 1 .. target ELSE {current})
       /\ Log!Trim(upTo)
       /\ aged' = Max({aged, last})
       /\ target' = IF target > current /\ upTo >= target THEN 0 ELSE target

\* The transaction of runSweep; one that finds nothing to do is left out.
SweepCommit(last, upTo) ==
    /\ sweep.pc = "idle"
    /\ last # 0 \/ target > floor \/ Abandoned # {} \/ Queued # {}
    /\ SweepJournal(last, upTo)
    /\ publications' = [p \in Publication |->
                          IF p \in Abandoned
                          THEN [publications[p] EXCEPT !.state = "expired"]
                          ELSE publications[p]]
    /\ chunks' = [x \in Key |->
                    IF x[1] \in Abandoned /\ chunks[x] # "none" THEN "deleting"
                    ELSE chunks[x]]
    /\ sweep' = [pc |-> "drain", batch |-> {}]
    /\ UNCHANGED <<keyVersion, snapshots, overdue, objects, pending, restore>>

\* processQueuedSyncSnapshotChunkDeletes: each delete of the queue is fulfilled or
\* rejected, and only the fulfilled ones are recorded.
SweepDeletes(done) ==
    /\ sweep.pc = "drain"
    /\ done \subseteq Queued
    /\ done = Queued \/ faults < MaxFaults
    /\ faults' = faults + (IF done = Queued THEN 0 ELSE 1)
    /\ objects' = objects \ done
    /\ sweep' = [pc |-> "record", batch |-> done]
    /\ UNCHANGED <<logVars, target, aged, keyVersion, tables, overdue, puts, verifies,
                   deletes, lost, restore>>

\* Expired publications without chunk rows are deleted.
Droppable(p, rows) ==
    /\ State(p) = "expired" /\ ~publications[p].committed /\ p \in overdue
    /\ p \notin Published
    /\ \A c \in Chunk : rows[<<p, c>>] = "none"

\* The rows of the deleted objects go, then the publications without any.
SweepRecord ==
    LET rows == [x \in Key |-> IF x \in sweep.batch /\ chunks[x] = "deleting"
                               THEN "none" ELSE chunks[x]]
    IN /\ sweep.pc = "record"
       /\ chunks' = rows
       /\ publications' = [p \in Publication |->
                             IF Droppable(p, rows)
                             THEN [publications[p] EXCEPT !.state = "dropped"]
                             ELSE publications[p]]
       /\ sweep' = NoSweep
       /\ UNCHANGED <<logVars, target, aged, keyVersion, snapshots, overdue, objects,
                      pending, restore>>

\* The object is evicted: every call and every waitUntil delete ends; a put may
\* have reached R2.  The alarm is stored and runs again.
Evicted(landed) ==
    /\ faults < MaxFaults
    /\ puts # {} \/ verifies # {} \/ deletes # {} \/ sweep.pc # "idle"
    /\ landed \subseteq {x \in Key : <<x[1], x[2], "reserved">> \in puts}
    /\ faults' = faults + 1
    /\ objects' = objects \cup landed
    /\ lost' = lost \cup deletes \cup {<<x[1], x[2]>> : x \in puts}
    /\ puts' = {} /\ verifies' = {} /\ deletes' = {}
    /\ sweep' = NoSweep
    /\ UNCHANGED <<logVars, target, aged, keyVersion, tables, overdue, restore>>

---------------------------------------------------------------------------
(* restorePublishedSnapshot on a device that must start over *)

\* The manifests sync.snapshot.get names, the newest cursor first, without the
\* ones the journal no longer reaches.
Candidates ==
    LET usable(S) == {p \in S : publications[p].cursor >= floor}
        list(S) == IF usable(S) = {} THEN <<>> ELSE <<CHOOSE p \in usable(S) : TRUE>>
    IN IF Active = {} THEN <<>> ELSE list(Active) \o list(Retained)

RestoreBegin ==
    /\ restore.pc = "idle"
    /\ restore.tries < MaxRestores
    /\ Candidates # <<>>
    /\ restore' = [NoRestore EXCEPT !.pc = "chunks", !.from = Candidates,
                                    !.finish = length, !.goal = revision,
                                    !.tries = restore.tries + 1]
    /\ UNCHANGED <<logVars, target, aged, keyVersion, tables, overdue, objects, pending,
                   sweep>>

\* The next manifest is tried; without one the device falls back to a full scan.
GiveUp ==
    IF Len(restore.from) > 1
    THEN [restore EXCEPT !.pc = "chunks", !.from = Tail(@), !.got = {}]
    ELSE [NoRestore EXCEPT !.tries = restore.tries]

\* sync.snapshot.chunk.get: the manifest's chunk, or a failure.
RestoreChunk(c) ==
    LET p == Head(restore.from)
    IN /\ restore.pc = "chunks"
       /\ c \notin restore.got
       /\ restore' =
            IF p \in Published /\ chunks[<<p, c>>] = "uploaded" /\ <<p, c>> \in objects
            THEN [restore EXCEPT !.got = @ \cup {c}] ELSE GiveUp
       /\ UNCHANGED <<logVars, target, aged, keyVersion, tables, overdue, objects,
                      pending, sweep>>

\* beginScanStaging and stageScanEntities: the contents that were uploaded.
RestoreStage ==
    LET p == Head(restore.from)
    IN /\ restore.pc = "chunks"
       /\ restore.got = Chunk
       /\ restore' = [restore EXCEPT !.pc = "pull", !.staged = publications[p].contents,
                                     !.cursor = publications[p].cursor]
       /\ UNCHANGED <<logVars, target, aged, keyVersion, tables, overdue, objects,
                      pending, sweep>>

\* Mutant: a pull below the floor returns what is left.
ResetRequiredNever(cursor) == FALSE

\* sync.pull refuses a cursor the journal no longer reaches.
ResetRequired(cursor) == cursor < floor

\* stageScanChange keeps the higher revision.
Staged(staged, page) ==
    [k \in Entity |->
        Max({staged[k]} \cup {feed[s].revision : s \in {t \in page : feed[t].entity = k}})]

\* One page of catchUpStagedState, ending at sequence upTo.
RestorePull(upTo) ==
    LET page == {s \in Log!Position : /\ restore.cursor < s /\ s <= upTo
                                      /\ s <= restore.finish /\ feed[s] # NoEntry}
    IN /\ restore.pc = "pull"
       /\ upTo \in (IF restore.cursor = length THEN {length}
                    ELSE restore.cursor + 1 .. length)
       /\ restore' =
            IF ResetRequired(restore.cursor) THEN GiveUp
            ELSE [restore EXCEPT !.staged = Staged(@, page), !.cursor = upTo,
                                 !.pc = IF upTo >= restore.finish THEN "done" ELSE "pull"]
       /\ UNCHANGED <<logVars, target, aged, keyVersion, tables, overdue, objects,
                      pending, sweep>>

\* activateStagedScan, at the cursor of the first answer.
RestoreActivate ==
    /\ restore.pc = "done"
    /\ restore' = [NoRestore EXCEPT !.tries = restore.tries]
    /\ UNCHANGED <<logVars, target, aged, keyVersion, tables, overdue, objects, pending,
                   sweep>>

---------------------------------------------------------------------------

SweepStep ==
    \/ \E last, upTo \in Cursor : SweepCommit(last, upTo)
    \/ \E done \in SUBSET Queued : SweepDeletes(done)
    \/ SweepRecord

CallStep ==
    \/ \E p \in Publication, c \in Chunk : ChunkStored(p, c) \/ ChunkPutDone(p, c)
    \/ \E p \in Publication : VerifyDone(p)
    \/ \E x \in Key : DeleteReaches(x)

Next ==
    \/ Write
    \/ KeyRotated
    \/ \E p \in Publication :
          \/ ScanFinished(p) \/ Begin(p) \/ Verify(p) \/ Commit(p)
          \/ UploadWindowCloses(p)
          \/ \E c \in Chunk : ChunkPut(p, c)
    \/ CallStep
    \/ SweepStep
    \/ \E landed \in SUBSET Key : Evicted(landed)
    \/ RestoreBegin
    \/ \E c \in Chunk : RestoreChunk(c)
    \/ RestoreStage
    \/ \E upTo \in Cursor : RestorePull(upTo)
    \/ RestoreActivate

Spec == Init /\ [][Next]_vars

\* The alarm fires again and again, R2 answers the calls that wait for it.
LiveSpec == Spec /\ WF_vars(SweepStep) /\ WF_vars(CallStep)

---------------------------------------------------------------------------
(* Properties *)

\* Every table keeps its type, and an R2 call only waits for a chunk whose
\* publication was begun.
SnapshotTypeOK ==
    /\ length \in Cursor /\ floor \in 0 .. length /\ target \in 0 .. length
    /\ aged \in 0 .. floor
    /\ publications \in [Publication -> PublicationRow]
    /\ snapshots \in [Publication -> SnapshotRow]
    /\ chunks \in [Key -> {"none", "uploading", "uploaded", "deleting"}]
    /\ objects \subseteq Key /\ deletes \subseteq Key
    /\ \A x \in Key : chunks[x] # "none" =>
          State(x[1]) \notin {"new", "scanned", "dropped"}

\* What snapshot.get names can be read: every chunk of the active and of the
\* retained snapshot is in R2 and its row says so, whatever uploads, refused
\* uploads, sweeps, failed deletes and evictions run beside it.
PublishedStaysReadable ==
    \A p \in Published : \A c \in Chunk :
        chunks[<<p, c>>] = "uploaded" /\ <<p, c>> \in objects

\* A commit never buries a snapshot its publisher had not seen, and there is one
\* chain of generations: the active snapshot was begun on the retained one's
\* generation and does not reach less far (handleSyncSnapshotCommit).
OneChain ==
    /\ Cardinality(Active) <= 1 /\ Cardinality(Retained) <= 1
    /\ \A p \in Published : snapshots[p].generation = publications[p].expected + 1
    /\ \A p \in Active, q \in Retained :
          /\ snapshots[p].generation = snapshots[q].generation + 1
          /\ publications[p].cursor >= publications[q].cursor

\* Compaction alone never takes the journal's tail from a published snapshot:
\* both can be caught up unless the rows have outlived their retention.
TailKept ==
    \A p \in Published : floor <= Max({publications[p].cursor, aged})

\* A device that is restored holds exactly the heads of the moment it asked for
\* the manifests, although writes, commits and compaction went on since.
RestoreIsExact == restore.pc = "done" => restore.staged = restore.goal

\* No object is left behind: it has a chunk row, a call that will settle it, or a
\* delete on its way - unless an eviction or a failed delete of a refused upload
\* took that away.
ObjectsAreOwned ==
    \A x \in objects :
        \/ chunks[x] # "none"
        \/ x \in deletes \cup lost
        \/ \E stage \in {"reserved", "stored"} : <<x[1], x[2], stage>> \in puts

\* An abandoned publication, or a superseded snapshot, is cleaned up for good:
\* its queued chunk rows go, after their objects.
QueueEmpties == \A x \in Key : chunks[x] = "deleting" ~> chunks[x] = "none"

\* A publication that is not committed ends: its row is deleted at last.
AbandonedEnds ==
    \A p \in Publication :
        State(p) \in {"uploading", "verified"} /\ p \in overdue ~>
            State(p) \in {"dropped", "committed"}
=============================================================================
