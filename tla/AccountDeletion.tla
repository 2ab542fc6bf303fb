-------------------------- MODULE AccountDeletion --------------------------
(***************************************************************************)
(* The deletion of one account, by two durable objects that share nothing. *)
(* The session coordinator keeps the tombstone, the sessions, the          *)
(* enrollment codes and the shares; the account coordinator keeps the      *)
(* hosted rows and purges them in bounded passes, which its own alarm, the *)
(* deletion request and a poll (the session sweep or a status read) start. *)
(* Requests of the account's devices are validated by the one object and   *)
(* then served by the other.                                               *)
(*                                                                         *)
(* Rows are known by their ids.  Routes of the session object that change  *)
(* state run under blockConcurrencyWhile: nothing else happens in it while *)
(* a deletion request is in progress.  A request names only rows its       *)
(* device had been told of before the deletion: that the body of one is    *)
(* written from the answer to another, both admitted before it, is left    *)
(* out.                                                                    *)
(***************************************************************************)
EXTENDS Integers, FiniteSets, FiniteSetsExt

CONSTANTS
    Device,     \* enrollments
    Call,       \* requests of devices in flight
    Standing,   \* rows there were, and rows that name one: attempts, publications, ...
    Written,    \* rows that name none: entities, changes, workers, jobs, scans, ...
    Artifact,   \* rows of the table artifacts, and their objects
    Chunk,      \* rows of sync_snapshot_chunks, and their objects
    Batch,      \* SWEEP_BATCH_ROWS
    MaxFaults   \* bound on evictions, failed calls and failed deletes

ASSUME DeletionAssumption ==
    /\ IsFiniteSet(Standing \cup Written \cup Artifact \cup Chunk)
    /\ Standing \cap Written = {}
    /\ (Standing \cup Written) \cap (Artifact \cup Chunk) = {}
    /\ Artifact \cap Chunk = {}
    /\ "none" \notin Artifact \cup Chunk
    /\ Batch \in Nat \ {0}
    /\ MaxFaults \in Nat

VARIABLES
    \* session coordinator
    tombstone,  \* account_deletions: "none", "deleting" or "deleted" (deleted_at is set)
    sessions,   \* devices with a session that is not revoked
    code,       \* an enrollment code is waiting to be used
    shares,     \* shared_artifacts has rows of this account
    drivers,    \* the calls that drive a purge
    \* account coordinator
    state,      \* deletion_state
    rows,       \* the hosted rows
    queued,     \* chunk rows in state 'deleting'
    armed,      \* the alarm is set
    passes,     \* deleteAccountData, by who started it
    calls,      \* requests of devices, from validation to their last write
    \* R2
    objects,    \* keys with an object
    unlinked,   \* keys whose delete runs under waitUntil
    orphans,    \* keys whose last delete or upload failed or was cut off
    faults

sessionVars == <<tombstone, sessions, code, shares>>
bucket == <<objects, unlinked, orphans>>
vars == <<sessionVars, drivers, state, rows, queued, armed, passes, calls, bucket, faults>>

---------------------------------------------------------------------------

Driver == {"request", "poll"}
Starter == Driver \cup {"alarm"}
Record == Standing \cup Written
Stored == Artifact \cup Chunk
Row == Record \cup Stored

\* A driver waits for R2, then for the account object, then holds its answer.
DriverState == {"idle", "shares", "drive", "wait", "deleting", "deleted"}
PassState == [pc : {"idle", "delete", "settle"}, page : SUBSET Chunk]
NoPass == [pc |-> "idle", page |-> {}]
NoKey == "none"
CallState == [pc : {"idle", "valid", "open", "put", "landed"}, key : Stored \cup {NoKey}]
NoCall == [pc |-> "idle", key |-> NoKey]

\* A deletion request holds every other event of the session object back.
Blocked == drivers["request"] # "idle"

Init ==
    /\ tombstone = "none" /\ sessions = Device /\ code = FALSE /\ shares = FALSE
    /\ drivers = [p \in Driver |-> "idle"]
    /\ state = "none"
    /\ rows = Standing
    /\ queued = {}
    /\ armed = FALSE
    /\ passes = [p \in Starter |-> NoPass]
    /\ calls = [c \in Call |-> NoCall]
    /\ objects = {} /\ unlinked = {} /\ orphans = {}
    /\ faults = 0

Fault == faults < MaxFaults /\ faults' = faults + 1

\* A batch of a table: LIMIT SWEEP_BATCH_ROWS.
Batches(S) == {b \in SUBSET S : Cardinality(b) = Min({Batch, Cardinality(S)})}

---------------------------------------------------------------------------
(* The session coordinator.                                                *)

\* issueEnrollmentCode
IssueCode ==
    /\ ~Blocked
    /\ tombstone = "none"
    /\ code' = TRUE
    /\ UNCHANGED <<tombstone, sessions, shares, drivers, state, rows, queued, armed,
                   passes, calls, bucket, faults>>

\* Mutant: a code issued before the deletion still enrolls.
EnrollmentOpenAlways == TRUE

\* A code bound to a tombstoned account is refused.
EnrollmentOpen == tombstone = "none"

\* handleEnroll with an enrollment code, which is spent even if it is refused
Enroll(d) ==
    /\ ~Blocked
    /\ code
    /\ d \notin sessions
    /\ code' = FALSE
    /\ sessions' = IF EnrollmentOpen THEN sessions \cup {d} ELSE sessions
    /\ UNCHANGED <<tombstone, shares, drivers, state, rows, queued, armed, passes, calls,
                   bucket, faults>>

\* handleShareCreate
ShareCreate ==
    /\ ~Blocked
    /\ sessions # {}
    /\ tombstone = "none"
    /\ shares' = TRUE
    /\ UNCHANGED <<tombstone, sessions, code, drivers, state, rows, queued, armed, passes,
                   calls, bucket, faults>>

\* deleteAccountById, up to its first await.  The website may send it again.
DeleteAccount ==
    /\ ~Blocked
    /\ tombstone' = IF tombstone = "none" THEN "deleting" ELSE tombstone
    /\ sessions' = {}
    /\ drivers' = [drivers EXCEPT !["request"] = "shares"]
    /\ UNCHANGED <<code, shares, state, rows, queued, armed, passes, calls, bucket, faults>>

\* purgeAccountShares
PurgeShares ==
    /\ drivers["request"] = "shares"
    /\ shares' = FALSE
    /\ drivers' = [drivers EXCEPT !["request"] = "drive"]
    /\ UNCHANGED <<tombstone, sessions, code, state, rows, queued, armed, passes, calls,
                   bucket, faults>>

\* The end of runSweep, and handleAccountDeletionStatus: drive what is not done.
Poll ==
    /\ ~Blocked
    /\ drivers["poll"] = "idle"
    /\ tombstone = "deleting"
    /\ drivers' = [drivers EXCEPT !["poll"] = "drive"]
    /\ UNCHANGED <<sessionVars, state, rows, queued, armed, passes, calls, bucket, faults>>

\* The fetch of driveAccountPurge fails; that reads as 'deleting'.
DriveFails(p) ==
    /\ drivers[p] \in {"drive", "wait"}
    /\ Fault
    /\ drivers' = [drivers EXCEPT ![p] = "deleting"]
    /\ UNCHANGED <<sessionVars, state, rows, queued, armed, passes, calls, bucket>>

\* Mutant: any answer of the account object ends the deletion.
FoldedAnswer(answer) == "deleted"

\* What driveAccountPurge makes of the tombstone.
Folded(answer) == IF answer = "deleted" THEN "deleted" ELSE tombstone

\* driveAccountPurge, from the answer on.
Fold(p) ==
    /\ drivers[p] \in {"deleting", "deleted"}
    /\ p = "poll" => ~Blocked
    /\ tombstone' = Folded(drivers[p])
    /\ drivers' = [drivers EXCEPT ![p] = "idle"]
    /\ UNCHANGED <<sessions, code, shares, state, rows, queued, armed, passes, calls,
                   bucket, faults>>

\* The session object is evicted; the tombstone is durable, the calls are not.
EvictSession ==
    /\ \E p \in Driver : drivers[p] # "idle"
    /\ Fault
    /\ drivers' = [p \in Driver |-> "idle"]
    /\ UNCHANGED <<sessionVars, state, rows, queued, armed, passes, calls, bucket>>

---------------------------------------------------------------------------
(* deleteAccountData.                                                      *)

\* Mutant: only chunks that were uploaded are queued.
UnqueuedUploaded == ((rows \cap Chunk) \cap objects) \ queued

\* Chunk rows a pass may hand to the durable delete queue.
Unqueued == (rows \cap Chunk) \ queued

\* runPurgePass: rows go at once, chunk rows only after their objects.  The
\* pages of the delete queue are read in the same turn.
PurgePass(p) ==
    \E records \in Batches(rows \cap Record), artifacts \in Batches(rows \cap Artifact),
       more \in Batches(Unqueued) :
        /\ rows' = rows \ (records \cup artifacts)
        /\ unlinked' = unlinked \cup artifacts
        /\ queued' = queued \cup more
        /\ \E page \in Batches(queued') :
               passes' = [passes EXCEPT ![p] = [pc |-> "delete", page |-> page]]
        /\ state' = IF state = "none" THEN "deleting" ELSE state

\* POST /internal/delete-account
DrivenPass(p) ==
    /\ drivers[p] = "drive"
    /\ passes[p].pc = "idle"
    /\ PurgePass(p)
    /\ drivers' = [drivers EXCEPT ![p] = "wait"]
    /\ UNCHANGED <<sessionVars, armed, calls, objects, orphans, faults>>

\* alarm, while deletion_state is 'deleting'
AlarmPass ==
    /\ armed
    /\ state = "deleting"
    /\ passes["alarm"].pc = "idle"
    /\ PurgePass("alarm")
    /\ armed' = FALSE
    /\ UNCHANGED <<sessionVars, drivers, calls, objects, orphans, faults>>

\* processQueuedSyncSnapshotChunkDeletes: R2 answers, for each key on its own.
PassDeletes(p) ==
    /\ passes[p].pc = "delete"
    /\ \E failed \in SUBSET passes[p].page :
           /\ IF failed = {} THEN UNCHANGED faults ELSE Fault
           /\ objects' = objects \ (passes[p].page \ failed)
           /\ orphans' = (orphans \ passes[p].page) \cup failed
           /\ passes' = [passes EXCEPT ![p] = [pc |-> "settle", page |-> @.page \ failed]]
    /\ UNCHANGED <<sessionVars, drivers, state, rows, queued, armed, calls, unlinked>>

\* Chunks whose delete is with R2.
Deleting == UNION {passes[p].page : p \in {q \in Starter : passes[q].pc = "delete"}}

\* Mutant: the chunk rows are not counted.
RemainingForgetful(left) == left \ Chunk

\* purgeRemaining
Remaining(left) == left

\* The chunk rows that wait for another pass.
LeftQueued(page) == queued \ page

\* The rows of deleted chunks go; an empty account is deleted; else the alarm
\* goes on.  Whoever still waits for the pass gets its answer.
PassSettles(p) ==
    /\ passes[p].pc = "settle"
    /\ rows' = rows \ (passes[p].page \cap queued)
    /\ queued' = LeftQueued(passes[p].page)
    /\ state' = IF Remaining(rows') = {} THEN "deleted" ELSE state
    /\ armed' = (armed \/ state' = "deleting")
    /\ passes' = [passes EXCEPT ![p] = NoPass]
    /\ drivers' = [q \in Driver |-> IF q = p /\ drivers[q] = "wait" THEN state' ELSE drivers[q]]
    /\ UNCHANGED <<sessionVars, calls, bucket, faults>>

---------------------------------------------------------------------------
(* Requests of devices.                                                    *)

\* handleValidate: the worker in front has the bearer checked.
Validate(c) ==
    /\ ~Blocked
    /\ calls[c].pc = "idle"
    /\ sessions # {}
    /\ calls' = [calls EXCEPT ![c].pc = "valid"]
    /\ UNCHANGED <<sessionVars, drivers, state, rows, queued, armed, passes, bucket, faults>>

\* handleRpc up to reading the body: refused once deletion_state is set.
Arrive(c) ==
    /\ calls[c].pc = "valid"
    /\ calls' = [calls EXCEPT ![c].pc = IF state = "none" THEN "open" ELSE "idle"]
    /\ UNCHANGED <<sessionVars, drivers, state, rows, queued, armed, passes, bucket, faults>>

\* An attempt is of a job that is there, a publication of a scan, ...; a change, a
\* job or a policy is written whatever is there.
Writable(r) == r \in Standing => rows \cap Standing # {}

\* A request that adds a row without an object: a push, job.create, scan.begin,
\* device.policy.publish, job.claim, sync.snapshot.begin, ...  Some of them
\* schedule the sweep.
Write(c) ==
    /\ calls[c].pc = "open"
    /\ \E r \in Record \ rows : Writable(r) /\ rows' = rows \cup {r}
    /\ armed' \in {armed, TRUE}
    /\ calls' = [calls EXCEPT ![c] = NoCall]
    /\ UNCHANGED <<sessionVars, drivers, state, queued, passes, bucket, faults>>

\* artifact.reserve, for a fresh id and an attempt that is there
Reserve(c, a) ==
    /\ calls[c].pc = "open"
    /\ rows \cap Standing # {}
    /\ a \notin rows \cup objects \cup unlinked \cup orphans
    /\ a \notin {calls[b].key : b \in Call}
    /\ rows' = rows \cup {a}
    /\ calls' = [calls EXCEPT ![c] = NoCall]
    /\ UNCHANGED <<sessionVars, drivers, state, queued, armed, passes, bucket, faults>>

\* handleArtifactUpload, which does not look at deletion_state
ArtifactPut(c, a) ==
    /\ calls[c].pc = "valid"
    /\ a \in rows /\ rows \cap Standing # {}
    /\ calls' = [calls EXCEPT ![c] = [pc |-> "put", key |-> a]]
    /\ UNCHANGED <<sessionVars, drivers, state, rows, queued, armed, passes, bucket, faults>>

\* handleSyncSnapshotChunkPut up to R2, for a publication that is there
ChunkPut(c, k) ==
    /\ calls[c].pc = "open"
    /\ rows \cap Standing # {}
    /\ rows' = rows \cup {k}
    /\ calls' = [calls EXCEPT ![c] = [pc |-> "put", key |-> k]]
    /\ UNCHANGED <<sessionVars, drivers, state, queued, armed, passes, bucket, faults>>

\* The object is in R2; the answer is on its way.
Land(c) ==
    /\ calls[c].pc = "put"
    /\ objects' = objects \cup {calls[c].key}
    /\ calls' = [calls EXCEPT ![c].pc = "landed"]
    /\ UNCHANGED <<sessionVars, drivers, state, rows, queued, armed, passes, unlinked, orphans,
                   faults>>

\* The end of handleArtifactUpload: a row that is gone is not asked for.
ArtifactPutDone(c) ==
    /\ calls[c].pc = "landed" /\ calls[c].key \in Artifact
    /\ calls' = [calls EXCEPT ![c] = NoCall]
    /\ UNCHANGED <<sessionVars, drivers, state, rows, queued, armed, passes, bucket, faults>>

\* Mutant: only the publication is looked at again.
PutAcceptedUnseen(k) == rows \cap Standing # {}

\* The publication and the chunk row are still there.
PutAccepted(k) == rows \cap Standing # {} /\ k \in rows

\* The end of handleSyncSnapshotChunkPut.  A row that waits for its delete is
\* 'uploaded' again; a refused object is deleted after the commit.
ChunkPutDone(c) ==
    /\ calls[c].pc = "landed" /\ calls[c].key \in Chunk
    /\ IF PutAccepted(calls[c].key)
       THEN queued' = queued \ {calls[c].key} /\ armed' = TRUE /\ UNCHANGED unlinked
       ELSE unlinked' = unlinked \cup {calls[c].key} /\ UNCHANGED <<queued, armed>>
    /\ calls' = [calls EXCEPT ![c] = NoCall]
    /\ UNCHANGED <<sessionVars, drivers, state, rows, passes, objects, orphans, faults>>

\* A delete handed to waitUntil by commit() is carried out, or fails unseen.
Unlink(k) ==
    /\ k \in unlinked
    /\ unlinked' = unlinked \ {k}
    /\ \/ objects' = objects \ {k} /\ UNCHANGED <<orphans, faults>>
       \/ Fault /\ orphans' = orphans \cup {k} /\ UNCHANGED objects
    /\ UNCHANGED <<sessionVars, drivers, state, rows, queued, armed, passes, calls>>

\* The account object is evicted.  A put may have reached R2; an interrupted
\* alarm is delivered again; callers see a failed fetch.
EvictAccount ==
    /\ Fault
    /\ \E put \in SUBSET {calls[c].key : c \in {b \in Call : calls[b].pc = "put"}} :
           LET landed == put \cup {calls[c].key : c \in {b \in Call : calls[b].pc = "landed"}}
           IN /\ objects' = objects \cup put
              /\ orphans' = orphans \cup ((unlinked \cup landed \cup Deleting) \ rows)
    /\ unlinked' = {}
    /\ armed' = (armed \/ passes["alarm"].pc # "idle")
    /\ passes' = [p \in Starter |-> NoPass]
    /\ drivers' = [p \in Driver |-> IF drivers[p] = "wait" THEN "deleting" ELSE drivers[p]]
    /\ calls' = [c \in Call |-> IF calls[c].pc \in {"open", "put", "landed"}
                                THEN NoCall ELSE calls[c]]
    /\ UNCHANGED <<sessionVars, state, rows, queued>>

---------------------------------------------------------------------------

SessionNext ==
    \/ IssueCode
    \/ \E d \in Device : Enroll(d)
    \/ ShareCreate
    \/ DeleteAccount
    \/ PurgeShares
    \/ Poll
    \/ \E p \in Driver : DriveFails(p) \/ Fold(p)
    \/ EvictSession

PurgeNext ==
    \/ \E p \in Driver : DrivenPass(p)
    \/ AlarmPass
    \/ \E p \in Starter : PassDeletes(p) \/ PassSettles(p)
    \/ \E k \in Stored : Unlink(k)
    \/ EvictAccount

CallNext ==
    \E c \in Call :
        \/ Validate(c) \/ Arrive(c) \/ Write(c)
        \/ \E a \in Artifact : Reserve(c, a) \/ ArtifactPut(c, a)
        \/ \E k \in Chunk : ChunkPut(c, k)
        \/ Land(c) \/ ArtifactPutDone(c) \/ ChunkPutDone(c)

Next == SessionNext \/ PurgeNext \/ CallNext

Spec == Init /\ [][Next]_vars

\* Alarms of both objects fire, and what they or a request wait for comes to
\* an end; devices need not do anything.
Fairness ==
    /\ WF_vars(PurgeShares)
    /\ WF_vars(Poll)
    /\ \A p \in Driver : WF_vars(Fold(p)) /\ WF_vars(DrivenPass(p))
    /\ WF_vars(AlarmPass)
    /\ \A p \in Starter : WF_vars(PassDeletes(p)) /\ WF_vars(PassSettles(p))

LiveSpec == Spec /\ Fairness

---------------------------------------------------------------------------

\* Every variable has its type; what is queued is a row, and a driver waits
\* only for a pass that is running.
DeletionTypeOK ==
    /\ tombstone \in {"none", "deleting", "deleted"}
    /\ sessions \subseteq Device /\ code \in BOOLEAN /\ shares \in BOOLEAN
    /\ drivers \in [Driver -> DriverState]
    /\ state \in {"none", "deleting", "deleted"}
    /\ rows \subseteq Row
    /\ queued \subseteq rows \cap Chunk
    /\ armed \in BOOLEAN
    /\ passes \in [Starter -> PassState]
    /\ calls \in [Call -> CallState]
    /\ objects \subseteq Stored /\ unlinked \subseteq Stored /\ orphans \subseteq Stored
    /\ faults \in 0 .. MaxFaults
    /\ \A p \in Driver : drivers[p] = "wait" => passes[p].pc # "idle"

\* "Enrollments disable first": from the first purge pass on, no session of
\* the account is live and none comes back, whatever codes were handed out
\* and however often either object crashes.
RevokedBeforePurge == state # "none" => tombstone # "none" /\ sessions = {}

\* deleted_at is set only when the account object has finished: no answer that
\* was lost, late or crossed with another driver ends the deletion early.
DeletedMeansPurged == tombstone = "deleted" => state = "deleted"

\* An account that is 'deleted' holds no row it held when the deletion began,
\* and none that needs one: passes that overlap, and uploads that put a
\* chunk row back in use, leave nothing behind.
OnlyLateWrites == state = "deleted" => rows \subseteq Written

\* Every snapshot chunk in R2 has a row that will have it deleted, or its
\* delete or its upload is in progress.  Chunks are lost only when the object
\* is evicted, or their delete fails, and then only until it is tried again.
\* This is promised for what fits one batch: with more chunk rows, a pass can
\* drop the row of a chunk that was uploaded again and queued by another pass,
\* but is not in that pass's page.
ChunksAreOwned ==
    Cardinality(Chunk) <= Batch =>
        objects \cap Chunk \subseteq
            rows \cup Deleting \cup unlinked \cup orphans \cup {calls[c].key : c \in Call}

\* A tombstone is not left pending: crashes, failed fetches and failed deletes
\* delay the purge, and the sweep, the alarm or a request takes it up again.
DeletionCompletes == tombstone = "deleting" ~> tombstone = "deleted"

\* handleRpc, "stale clients cannot recreate hosted state": a deleted account has
\* no rows.
NothingRecreated == state = "deleted" => rows = {}

\* deleteAccountById, "Shared artifacts die with the account: rows plus their R2 objects".
SharesDie == tombstone = "deleted" => ~shares
=============================================================================
