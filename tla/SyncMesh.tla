------------------------------ MODULE SyncMesh ------------------------------
(***************************************************************************)
(* The devices of one account around the journal of SyncCoordinator.       *)
(*                                                                         *)
(* A device keeps, per entity, its domain row, a binding (acknowledged     *)
(* base and edit generations), its outbox rows and at most one open        *)
(* conflict (sync-persistence.service.ts); the sync cycle pushes, recovers *)
(* by a scan and pulls (sync-engine.service.ts).  Every await of the cycle *)
(* is a point where user edits, conflict resolutions, the other devices,   *)
(* the sweep, a lost reply or a restart may come in between.               *)
(*                                                                         *)
(* Batches and pull pages carry one change (negotiated limits of one).     *)
(***************************************************************************)
EXTENDS SyncCoordinator

CONSTANTS
    JsonNull,   \* the JSON text null, as opposed to SQL NULL
    Keyed,      \* whether the account has key material: keyVersion is not 0
    Retention,  \* whether rows and receipts outlive their retention period
    MaxEdits    \* bound: edit generations per binding

ASSUME MeshAssumption ==
    /\ JsonNull \notin Payload \cup {NoPayload}
    /\ {Keyed, Retention} \subseteq BOOLEAN
    /\ MaxEdits \in Nat

VARIABLES
    local,         \* per device and entity: domain row, binding, outbox, conflict
    cursor,        \* sync_state.cursor
    resetRequired, \* sync_state.reset_required
    outSequence,   \* device_enrollments.next_sequence
    phase,         \* where the device's running sync cycle is
    sent,          \* changes put on the wire, by enrollment sequence
    verdict,       \* the answer to the outstanding sync.push
    page,          \* the answer to the outstanding sync.pull
    staged         \* sync_scan_staging, complete

deviceVars == <<local, cursor, resetRequired, outSequence, phase, sent,
                verdict, page, staged>>
meshVars == <<vars, deviceVars>>

---------------------------------------------------------------------------
(* Device state *)

Phase == {"idle", "pushing", "pulling", "scanning"}
Edit == 0 .. MaxEdits
StoredPayload == PayloadOrNull \cup {JsonNull}

\* A pending or conflicted outbox row; operation "none" is no row.
Row == [operation : Operation \cup {"none"}, payload : PayloadOrNull,
        generation : Edit]
NoRow == [operation |-> "none", payload |-> NoPayload, generation |-> 0]

\* A dispatched outbox row, immutable from now on.
SentRow == [operation : Operation \cup {"none"}, payload : PayloadOrNull,
            generation : Edit, baseRevision : 0 .. MaxSequence,
            sequence : 0 .. MaxEnrollmentSequence]
NoSentRow == [operation |-> "none", payload |-> NoPayload, generation |-> 0,
              baseRevision |-> 0, sequence |-> 0]

\* An unresolved row of sync_conflicts; remoteRevision 0 is null.
ConflictRow == [open : BOOLEAN, local : PayloadOrNull, remote : StoredPayload,
                remoteRevision : 0 .. MaxSequence]
NoConflict == [open |-> FALSE, local |-> NoPayload, remote |-> NoPayload,
               remoteRevision |-> 0]

\* Everything a device stores about one entity; base 0 is null.
LocalEntity ==
    [domain : PayloadOrNull, bound : BOOLEAN, base : 0 .. MaxSequence,
     basePayload : StoredPayload, generation : Edit, acknowledged : Edit,
     pending : Row, inFlight : SentRow, conflicted : Row,
     conflict : ConflictRow]
NothingLocal ==
    [domain |-> NoPayload, bound |-> FALSE, base |-> 0,
     basePayload |-> NoPayload, generation |-> 0, acknowledged |-> 0,
     pending |-> NoRow, inFlight |-> NoSentRow, conflicted |-> NoRow,
     conflict |-> NoConflict]

\* A change of a pull page; revision 0 is "no answer yet".
PulledChange == [sequence : 0 .. MaxSequence, entity : Entity \cup {NoEntity},
                 revision : 0 .. MaxSequence, operation : Operation,
                 payload : PayloadOrNull, hasMore : BOOLEAN]
NoPage == [sequence |-> 0, entity |-> NoEntity, revision |-> 0,
           operation |-> "delete", payload |-> NoPayload, hasMore |-> FALSE]

\* A complete staged rebuild and the watermark it is exact for.
Staging == [ready : BOOLEAN, watermark : 0 .. MaxSequence,
            heads : [Entity -> EntityRow]]
NoStaging == [ready |-> FALSE, watermark |-> 0,
              heads |-> [k \in Entity |-> NoHead]]

HasRow(row) == row.operation # "none"
HasMutableRow(l) == HasRow(l.pending) \/ HasRow(l.inFlight) \/ HasRow(l.conflicted)
\* The dirty test of applySyncedChange and activateStagedScan.
Dirty(l) == l.generation > l.acknowledged \/ HasMutableRow(l)

---------------------------------------------------------------------------
(* Bindings and local edits *)

\* upsertBinding of a new binding
Bind(l, revision, payload) ==
    [l EXCEPT !.bound = TRUE, !.base = revision, !.basePayload = payload,
              !.generation = 0, !.acknowledged = 0]
\* deleteBinding
Unbind(l) ==
    [l EXCEPT !.bound = FALSE, !.base = 0, !.basePayload = NoPayload,
              !.generation = 0, !.acknowledged = 0]
SetBindingBase(l, revision, payload) ==
    [l EXCEPT !.base = revision, !.basePayload = payload]
AcknowledgeEdits(l) == [l EXCEPT !.acknowledged = l.generation]
WriteBindingBase(l, revision, payload) ==
    AcknowledgeEdits(SetBindingBase(l, revision, payload))
DeleteMutableRows(l) ==
    [l EXCEPT !.pending = NoRow, !.inFlight = NoSentRow, !.conflicted = NoRow]

SyncOperationForBinding(base, operation) ==
    IF operation = "delete" THEN "delete"
    ELSE IF base = 0 THEN "create"
    ELSE operation

\* The pending row recordLocalChange leaves behind.
CoalescedRow(l, operation, payload) ==
    LET row(o) == [operation |-> o, payload |-> payload,
                   generation |-> l.generation + 1]
    IN IF l.pending.operation = "create" /\ operation = "delete" THEN NoRow
       ELSE IF operation = "delete" THEN row("delete")
       ELSE IF l.pending.operation = "delete"
            THEN row(SyncOperationForBinding(l.base, "update"))
       ELSE IF HasRow(l.pending)
            THEN row(SyncOperationForBinding(l.base, l.pending.operation))
       ELSE IF HasRow(l.inFlight) THEN row(operation)
       ELSE row(SyncOperationForBinding(l.base, operation))

\* recordLocalChange
Recorded(l, operation, payload) ==
    [l EXCEPT !.bound = TRUE, !.generation = l.generation + 1,
              !.pending = CoalescedRow(l, operation, payload)]
CanEdit(l) == l.generation < MaxEdits

---------------------------------------------------------------------------
(* Push results *)

\* Mutant: the acknowledged base takes the row as it is now, not as it was sent.
AcceptedWithCurrentRow(l, revision) ==
    [l EXCEPT !.base = IF l.base < revision THEN revision ELSE l.base,
              !.basePayload = IF l.base < revision THEN l.domain ELSE l.basePayload,
              !.acknowledged = l.inFlight.generation,
              !.inFlight = NoSentRow]

\* applyPushResults, accepted: the base only moves forward.
AcceptedLocally(l, revision) ==
    LET row == l.inFlight
        based == IF l.base < revision
                 THEN SetBindingBase(l, revision, row.payload) ELSE l
    IN [based EXCEPT !.acknowledged = IF row.generation > l.acknowledged
                                      THEN row.generation ELSE l.acknowledged,
                     !.inFlight = NoSentRow]

\* applyPushResults, conflict.  A deleted remote arrives as JSON null and is
\* stored as the text "null", not as SQL NULL.
ConflictLocally(l, result) ==
    LET row == l.inFlight
        remote == IF result.payload = NoPayload THEN JsonNull ELSE result.payload
    IN [l EXCEPT !.inFlight = NoSentRow,
                 !.conflicted = [operation |-> row.operation,
                                 payload |-> row.payload,
                                 generation |-> row.generation],
                 !.conflict = IF l.conflict.open THEN l.conflict
                              ELSE [open |-> TRUE, local |-> row.payload,
                                    remote |-> remote,
                                    remoteRevision |-> result.revision]]

\* applyPushResults, rejected / receipt-expired: the row is terminal, the
\* entity stays dirty.
RejectedLocally(l) == [l EXCEPT !.inFlight = NoSentRow]

Answered(l, result) ==
    IF result.status = "accepted" THEN AcceptedLocally(l, result.revision)
    ELSE IF result.status = "conflict" THEN ConflictLocally(l, result)
    ELSE RejectedLocally(l)

---------------------------------------------------------------------------
(* Pulled changes *)

\* Mutant: an open conflict is never refreshed.
ObserveConflictOnce(l, remote, remoteRevision, authoritative) ==
    IF l.conflict.open THEN l
    ELSE [l EXCEPT !.conflict =
            [open |-> TRUE, local |-> l.domain, remote |-> remote,
             remoteRevision |-> remoteRevision]]

\* insertUnresolvedConflict: open it, or refresh the remote side of an open
\* one unless the observation is older.
ObserveConflict(l, remote, remoteRevision, authoritative) ==
    LET c == l.conflict
        fresh == \/ authoritative \/ remoteRevision = 0
                 \/ c.remoteRevision = 0 \/ remoteRevision >= c.remoteRevision
    IN IF ~c.open
       THEN [l EXCEPT !.conflict =
               [open |-> TRUE, local |-> l.domain, remote |-> remote,
                remoteRevision |-> remoteRevision]]
       ELSE IF fresh
       THEN [l EXCEPT !.conflict.remote = remote,
                      !.conflict.remoteRevision = remoteRevision]
       ELSE l

\* A remote entity whose id this scope has not bound yet.
Adopted(l, revision, payload) ==
    IF l.domain = NoPayload
    THEN [Bind(l, revision, payload) EXCEPT !.domain = payload]
    ELSE IF l.domain = payload THEN Bind(l, revision, payload)
    ELSE ObserveConflict(Bind(l, revision, payload), payload, revision, TRUE)

\* Mutant: the dirty test is missing.
AppliedOverOutbox(l, change) ==
    IF ~l.bound
    THEN IF change.operation = "delete" THEN l
         ELSE Adopted(l, change.revision, change.payload)
    ELSE IF change.revision <= l.base THEN l
    ELSE [WriteBindingBase(l, change.revision, change.payload)
            EXCEPT !.domain = change.payload]

\* applySyncedChange
Applied(l, change) ==
    IF ~l.bound
    THEN IF change.operation = "delete" THEN l
         ELSE Adopted(l, change.revision, change.payload)
    ELSE IF change.revision <= l.base THEN l
    ELSE IF l.conflict.open \/ Dirty(l)
    THEN ObserveConflict(l, change.payload, change.revision, FALSE)
    ELSE [WriteBindingBase(l, change.revision, change.payload)
            EXCEPT !.domain = change.payload]

---------------------------------------------------------------------------
(* Conflict resolution *)

\* requeueEntityForKeepLocal
KeptLocal(l) ==
    LET c == l.conflict
        based == [SetBindingBase(l, c.remoteRevision, c.remote)
                    EXCEPT !.conflict = NoConflict, !.conflicted = NoRow]
    IN IF HasRow(l.pending) THEN based
       ELSE IF HasRow(l.conflicted)
       THEN IF l.conflicted.operation = "delete" /\ c.remote = NoPayload
            THEN based
            ELSE [based EXCEPT !.pending = l.conflicted]
       ELSE IF c.local # NoPayload
       THEN Recorded(based, IF c.remote = NoPayload THEN "create" ELSE "update",
                     c.local)
       ELSE based

\* Mutant: use-remote adopts the remote base without projecting it.
UsedRemoteUnprojected(l) ==
    LET c == l.conflict
        cleared == [DeleteMutableRows(l) EXCEPT !.conflict = NoConflict]
    IN IF c.remote = NoPayload THEN [Unbind(cleared) EXCEPT !.domain = NoPayload]
       ELSE WriteBindingBase(cleared, c.remoteRevision, c.remote)

\* resolveSyncConflict, use-remote.  applyRemoteEntityPayload ignores a
\* payload that does not validate, so JSON null leaves the domain row alone.
UsedRemote(l) ==
    LET c == l.conflict
        cleared == [DeleteMutableRows(l) EXCEPT !.conflict = NoConflict]
    IN IF c.remote = NoPayload THEN [Unbind(cleared) EXCEPT !.domain = NoPayload]
       ELSE IF c.remote = JsonNull
       THEN WriteBindingBase(cleared, c.remoteRevision, c.remote)
       ELSE [WriteBindingBase(cleared, c.remoteRevision, c.remote)
               EXCEPT !.domain = c.remote]

---------------------------------------------------------------------------
(* Activation of a staged rebuild: activateStagedScan *)

ActivatedPresent(l, head) ==
    LET based == SetBindingBase(l, head.revision, head.payload)
    IN IF ~l.bound
       THEN IF head.operation # "delete" THEN Adopted(l, head.revision, head.payload)
            ELSE IF l.domain = NoPayload THEN Bind(l, head.revision, NoPayload)
            ELSE ObserveConflict(Bind(l, head.revision, NoPayload),
                                 NoPayload, head.revision, TRUE)
       ELSE IF ~Dirty(l) /\ ~l.conflict.open
       THEN [based EXCEPT !.domain = head.payload]
       ELSE IF l.domain # NoPayload /\ l.domain = head.payload
       THEN [DeleteMutableRows(AcknowledgeEdits(based))
               EXCEPT !.conflict = NoConflict]
       ELSE [ObserveConflict(based, head.payload, head.revision, TRUE)
               EXCEPT !.inFlight = NoSentRow]

ActivatedAbsent(l) ==
    IF ~l.bound THEN l
    ELSE IF ~Dirty(l) /\ ~l.conflict.open
    THEN [Unbind(l) EXCEPT !.domain = NoPayload]
    ELSE IF l.domain = NoPayload
    THEN [Unbind(DeleteMutableRows(l)) EXCEPT !.conflict = NoConflict]
    ELSE [ObserveConflict(SetBindingBase(l, 0, NoPayload), NoPayload, 0, FALSE)
            EXCEPT !.inFlight = NoSentRow]

Activated(l, head) ==
    IF head.revision = 0 THEN ActivatedAbsent(l) ELSE ActivatedPresent(l, head)

---------------------------------------------------------------------------
(* The user *)

\* withSyncedEntityWrite around a save: an unbound entity saves without a row.
LocalWrite(d, k, payload) ==
    LET l == local[d][k]
        operation == IF l.domain = NoPayload THEN "create" ELSE "update"
        written == [l EXCEPT !.domain = payload]
    IN /\ l.bound => CanEdit(l)
       /\ local' = [local EXCEPT ![d][k] =
                      IF l.bound THEN Recorded(written, operation, payload)
                      ELSE written]
       /\ UNCHANGED <<vars, cursor, resetRequired, outSequence, phase, sent,
                      verdict, page, staged>>

LocalDelete(d, k) ==
    LET l == local[d][k]
        written == [l EXCEPT !.domain = NoPayload]
    IN /\ l.domain # NoPayload
       /\ l.bound => CanEdit(l)
       /\ local' = [local EXCEPT ![d][k] =
                      IF l.bound THEN Recorded(written, "delete", NoPayload)
                      ELSE written]
       /\ UNCHANGED <<vars, cursor, resetRequired, outSequence, phase, sent,
                      verdict, page, staged>>

\* bindLocalEntities adopts a local-only entity into the account.
BindLocalEntity(d, k) ==
    LET l == local[d][k]
    IN /\ ~l.bound
       /\ l.domain # NoPayload
       /\ MaxEdits > 0
       /\ local' = [local EXCEPT ![d][k] =
                      Recorded(Bind(l, 0, NoPayload), "create", l.domain)]
       /\ UNCHANGED <<vars, cursor, resetRequired, outSequence, phase, sent,
                      verdict, page, staged>>

ResolveKeepLocal(d, k) ==
    /\ local[d][k].conflict.open
    /\ KeptLocal(local[d][k]).generation <= MaxEdits
    /\ local' = [local EXCEPT ![d][k] = KeptLocal(local[d][k])]
    /\ UNCHANGED <<vars, cursor, resetRequired, outSequence, phase, sent,
                   verdict, page, staged>>

ResolveUseRemote(d, k) ==
    /\ local[d][k].conflict.open
    /\ local' = [local EXCEPT ![d][k] = UsedRemote(local[d][k])]
    /\ UNCHANGED <<vars, cursor, resetRequired, outSequence, phase, sent,
                   verdict, page, staged>>

---------------------------------------------------------------------------
(* The sync cycle *)

\* nextBatch's candidates: pending rows of entities without an open conflict.
Candidates(d) ==
    {k \in Entity : HasRow(local[d][k].pending) /\ ~local[d][k].conflict.open}
\* A deletion of something the account never saw has nothing to send.
Unsent(d) ==
    {k \in Candidates(d) : /\ local[d][k].pending.operation = "delete"
                           /\ local[d][k].base = 0}
InFlight(d) == {k \in Entity : HasRow(local[d][k].inFlight)}

\* Mutant: a re-queued create keeps its operation on a known remote base.
WireOperationUnchanged(l) == l.pending.operation

\* The operation normalised against the base at dispatch.
WireOperation(l) ==
    IF l.base = 0 THEN "create"
    ELSE IF l.pending.operation = "create" THEN "update"
    ELSE l.pending.operation

\* nextBatch when nothing is in flight: rebase, number and mark one row.
\* Deletions met earlier in the queue are dropped on the way.
Dispatch(d, k, dropped) ==
    LET l == local[d][k]
        n == outSequence[d]
        row == [operation |-> WireOperation(l), payload |-> l.pending.payload,
                generation |-> l.pending.generation, baseRevision |-> l.base,
                sequence |-> n]
    IN /\ phase[d] = "idle"
       /\ InFlight(d) = {}
       /\ k \in Candidates(d) \ Unsent(d)
       /\ dropped \subseteq Unsent(d)
       /\ n <= MaxEnrollmentSequence
       /\ outSequence' = [outSequence EXCEPT ![d] = n + 1]
       /\ local' = [local EXCEPT ![d] = [j \in Entity |->
                      IF j = k THEN [l EXCEPT !.pending = NoRow, !.inFlight = row]
                      ELSE IF j \in dropped THEN [local[d][j] EXCEPT !.pending = NoRow]
                      ELSE local[d][j]]]
       /\ sent' = [sent EXCEPT ![d][n] =
                     [entity |-> k, operation |-> row.operation,
                      baseRevision |-> row.baseRevision, payload |-> row.payload]]
       /\ phase' = [phase EXCEPT ![d] = "pushing"]
       /\ UNCHANGED <<vars, cursor, resetRequired, verdict, page, staged>>

\* nextBatch with a dispatched row outstanding: the same row is sent again.
Replay(d) ==
    /\ phase[d] = "idle"
    /\ InFlight(d) # {}
    /\ phase' = [phase EXCEPT ![d] = "pushing"]
    /\ UNCHANGED <<vars, local, cursor, resetRequired, outSequence, sent,
                   verdict, page, staged>>

\* A cycle that pushes nothing: the batch is empty (unsendable deletions are
\* dropped), or the write gate is closed.  A pending reset is recovered first
\* unless the gate forbids the scan.
ReadOnlyCycle(d, dropped) ==
    /\ phase[d] = "idle"
    /\ dropped \in {{}} \cup (IF InFlight(d) = {} /\ Candidates(d) = Unsent(d)
                              THEN {Unsent(d)} ELSE {})
    /\ local' = [local EXCEPT ![d] = [j \in Entity |->
                   IF j \in dropped THEN [local[d][j] EXCEPT !.pending = NoRow]
                   ELSE local[d][j]]]
    /\ \E next \in {"pulling"} \cup (IF resetRequired[d] THEN {"scanning"} ELSE {}) :
          phase' = [phase EXCEPT ![d] = next]
    /\ UNCHANGED <<vars, cursor, resetRequired, outSequence, sent, verdict,
                   page, staged>>

\* sync.push reaches the coordinator, now or long after the device gave up
\* waiting; the answer reaches the device only while it waits for it.
DeliverPush(d, n) ==
    LET awaited == /\ phase[d] = "pushing"
                   /\ verdict[d] = NoResult
                   /\ \A k \in InFlight(d) : local[d][k].inFlight.sequence = n
    IN /\ sent[d][n] # NoContent
       /\ Push(d, n, sent[d][n])
       /\ verdict' = IF awaited
                     THEN [verdict EXCEPT ![d] = PushResult(d, n, sent[d][n])]
                     ELSE verdict
       /\ UNCHANGED <<local, cursor, resetRequired, outSequence, phase, sent,
                      page, staged>>

\* applyPushResults.  It throws, and the cycle ends, when the row is gone.
ApplyVerdict(d) ==
    LET expired == verdict[d].status = "receipt-expired"
    IN /\ phase[d] = "pushing"
       /\ verdict[d] # NoResult
       /\ verdict' = [verdict EXCEPT ![d] = NoResult]
       /\ IF InFlight(d) = {}
          THEN /\ phase' = [phase EXCEPT ![d] = "idle"]
               /\ UNCHANGED <<local, resetRequired>>
          ELSE /\ local' = [local EXCEPT ![d] = [k \in Entity |->
                              IF k \in InFlight(d)
                              THEN Answered(local[d][k], verdict[d])
                              ELSE local[d][k]]]
               /\ resetRequired' = [resetRequired EXCEPT ![d] = @ \/ expired]
               /\ phase' = [phase EXCEPT ![d] =
                              IF resetRequired[d] \/ expired
                              THEN "scanning" ELSE "pulling"]
       /\ UNCHANGED <<vars, cursor, outSequence, sent, page, staged>>

\* sync.pull is answered with the next change after the cursor.
ServePull(d) ==
    LET after == Pullable(cursor[d])
        s == CHOOSE s \in after : \A t \in after : s <= t
    IN /\ phase[d] = "pulling"
       /\ page[d] = NoPage
       /\ ~ResetRequired(cursor[d])
       /\ after # {}
       /\ changes[s].operation = "delete" \/ ServedPayload(s) # NoPayload
       /\ page' = [page EXCEPT ![d] =
                     [sequence |-> s, entity |-> changes[s].entity,
                      revision |-> changes[s].revision,
                      operation |-> changes[s].operation,
                      payload |-> ServedPayload(s), hasMore |-> after # {s}]]
       /\ UNCHANGED <<vars, local, cursor, resetRequired, outSequence, phase,
                      sent, verdict, staged>>

\* maybePublishPortableSnapshot: with key material, a cycle may end with a scan,
\* which activates what it staged as any other.  Publishing the snapshot is in
\* SyncSnapshots.
AfterPull == {"idle"} \cup (IF Keyed THEN {"scanning"} ELSE {})

\* sync.pull is answered with an empty page, or with reset-required.
FinishPull(d) ==
    /\ phase[d] = "pulling"
    /\ page[d] = NoPage
    /\ IF ResetRequired(cursor[d])
       THEN /\ resetRequired' = [resetRequired EXCEPT ![d] = TRUE]
            /\ phase' = [phase EXCEPT ![d] = "scanning"]
       ELSE /\ Pullable(cursor[d]) = {}
            /\ \E next \in AfterPull : phase' = [phase EXCEPT ![d] = next]
            /\ UNCHANGED resetRequired
    /\ UNCHANGED <<vars, local, cursor, outSequence, sent, verdict, page, staged>>

\* applyPullPage: the change and the cursor in one transaction.
ApplyPage(d) ==
    LET change == page[d]
    IN /\ phase[d] = "pulling"
       /\ change # NoPage
       /\ local' = [local EXCEPT ![d][change.entity] = Applied(@, change)]
       /\ cursor' = [cursor EXCEPT ![d] = change.sequence]
       /\ page' = [page EXCEPT ![d] = NoPage]
       /\ \E next \in IF change.hasMore THEN {"pulling"} ELSE AfterPull :
              phase' = [phase EXCEPT ![d] = next]
       /\ UNCHANGED <<vars, resetRequired, outSequence, sent, verdict, staged>>

\* scanCycle / restorePublishedSnapshot up to the caught-up staging: the heads
\* at the finish watermark (SyncScan checks that the paged scan yields them).
StageScan(d) ==
    /\ phase[d] = "scanning"
    /\ ~staged[d].ready
    /\ staged' = [staged EXCEPT ![d] =
                    [ready |-> TRUE, watermark |-> Watermark, heads |-> entities]]
    /\ UNCHANGED <<vars, local, cursor, resetRequired, outSequence, phase, sent,
                   verdict, page>>

\* activateStagedScan; the cycle goes on with a pull.
ActivateStagedScan(d) ==
    /\ phase[d] = "scanning"
    /\ staged[d].ready
    /\ local' = [local EXCEPT ![d] = [k \in Entity |->
                   Activated(local[d][k], staged[d].heads[k])]]
    /\ cursor' = [cursor EXCEPT ![d] = staged[d].watermark]
    /\ resetRequired' = [resetRequired EXCEPT ![d] = FALSE]
    /\ staged' = [staged EXCEPT ![d] = NoStaging]
    /\ phase' = [phase EXCEPT ![d] = "pulling"]
    /\ UNCHANGED <<vars, outSequence, sent, verdict, page>>

\* A lost reply, a transport error, a refused write or a restart: the cycle
\* ends where it is and only what was stored remains.
AbandonCycle(d) ==
    /\ phase[d] # "idle"
    /\ phase' = [phase EXCEPT ![d] = "idle"]
    /\ verdict' = [verdict EXCEPT ![d] = NoResult]
    /\ page' = [page EXCEPT ![d] = NoPage]
    /\ staged' = [staged EXCEPT ![d] = NoStaging]
    /\ UNCHANGED <<vars, local, cursor, resetRequired, outSequence, sent>>

\* The coordinator's alarm.
Expire(last, stale) ==
    /\ Retention
    /\ last > 0 \/ stale # {}
    /\ \E upTo \in 0 .. MaxSequence : Sweep(last, upTo, stale)
    /\ UNCHANGED deviceVars

---------------------------------------------------------------------------

MeshInit ==
    /\ Init
    /\ local = [d \in Enrollment |-> [k \in Entity |-> NothingLocal]]
    /\ cursor = [d \in Enrollment |-> 0]
    /\ resetRequired = [d \in Enrollment |-> FALSE]
    /\ outSequence = [d \in Enrollment |-> 1]
    /\ phase = [d \in Enrollment |-> "idle"]
    /\ sent = [d \in Enrollment |-> [n \in EnrollmentSequence |-> NoContent]]
    /\ verdict = [d \in Enrollment |-> NoResult]
    /\ page = [d \in Enrollment |-> NoPage]
    /\ staged = [d \in Enrollment |-> NoStaging]

UserStep(d) ==
    \E k \in Entity :
        \/ \E payload \in Payload : LocalWrite(d, k, payload)
        \/ LocalDelete(d, k)
        \/ BindLocalEntity(d, k)
        \/ ResolveKeepLocal(d, k)
        \/ ResolveUseRemote(d, k)

CycleStep(d) ==
    \/ \E k \in Entity, dropped \in SUBSET Entity : Dispatch(d, k, dropped)
    \/ Replay(d)
    \/ \E dropped \in SUBSET Entity : ReadOnlyCycle(d, dropped)
    \/ ApplyVerdict(d)
    \/ ServePull(d)
    \/ FinishPull(d)
    \/ ApplyPage(d)
    \/ StageScan(d)
    \/ ActivateStagedScan(d)
    \/ AbandonCycle(d)

MeshNext ==
    \/ \E d \in Enrollment : UserStep(d)
    \/ \E d \in Enrollment : CycleStep(d)
    \/ \E d \in Enrollment, n \in EnrollmentSequence : DeliverPush(d, n)
    \/ \E last \in 0 .. MaxSequence, stale \in SUBSET StoredReceipts :
          Expire(last, stale)
    \/ \E k \in Entity, payload \in PayloadOrNull :
          OtherWriter(k, payload) /\ UNCHANGED deviceVars

MeshSpec == MeshInit /\ [][MeshNext]_meshVars

---------------------------------------------------------------------------
(* Properties *)

\* Coordinator and device state keep their types, however verdicts, pages and
\* scans interleave.
MeshTypeOK ==
    /\ TypeOK
    /\ local \in [Enrollment -> [Entity -> LocalEntity]]
    /\ cursor \in [Enrollment -> 0 .. MaxSequence]
    /\ resetRequired \in [Enrollment -> BOOLEAN]
    /\ outSequence \in [Enrollment -> 1 .. MaxEnrollmentSequence + 1]
    /\ phase \in [Enrollment -> Phase]
    /\ sent \in [Enrollment -> [EnrollmentSequence -> Content \cup {NoContent}]]
    /\ verdict \in [Enrollment -> Result]
    /\ page \in [Enrollment -> PulledChange]
    /\ staged \in [Enrollment -> Staging]

\* Bound, with nothing to send and nothing to decide.
Settled(l) == l.bound /\ ~Dirty(l) /\ ~l.conflict.open

\* What a stored payload text stands for.
Decoded(payload) == IF payload = JsonNull THEN NoPayload ELSE payload

\* Whatever sequence of pushes, lost answers, pulls, scans and resolutions led
\* to it, the base a device holds for an entity is a revision the coordinator
\* accepted, with the payload it was accepted with (applyPushResults,
\* writeBindingBase, requeueEntityForKeepLocal, activateStagedScan).
BaseFromHistory ==
    \A d \in Enrollment, k \in Entity :
        LET l == local[d][k]
        IN l.base # 0 =>
              \E s \in OwnHistory(k) : /\ history[s].revision = l.base
                                       /\ history[s].payload = Decoded(l.basePayload)

\* A bound entity that has a domain row and no unacknowledged edit, outbox row
\* or conflict shows exactly the acknowledged remote payload, unless a
\* use-remote resolution met the JSON null of a push conflict.  (What deletions
\* and that JSON null do is DeletedStaysDeleted and UseRemoteReplacesLocal.)
CleanMirrorsBase ==
    \A d \in Enrollment, k \in Entity :
        LET l == local[d][k]
        IN Settled(l) /\ l.domain # NoPayload /\ l.basePayload # JsonNull
              => l.domain = l.basePayload

\* The device has seen the head of k if its cursor has passed it: its base is
\* that head, or an open conflict shows it as the remote side; without a base
\* the entity was deleted remotely.
Seen(d, k) ==
    LET l == local[d][k]
        head == entities[k]
    IN head.revision # 0 /\ head.sequence <= cursor[d] =>
          \/ l.bound /\ l.base = head.revision
          \/ l.conflict.open /\ l.conflict.remoteRevision = head.revision
          \/ l.base = 0 /\ head.operation = "delete"

\* A device never loses sight of a head its cursor has passed - pull pages,
\* push verdicts, replays and scans in any order - except by resolving a
\* conflict that shows an older remote revision than the base
\* (applySyncedChange, applyPushResults, activateStagedScan).
SeenStaysSeen ==
    [][\A d \in Enrollment, k \in Entity :
          LET l == local[d][k]
          IN Seen(d, k) =>
                \/ Seen(d, k)'
                \/ /\ l.conflict.open /\ l.conflict.remoteRevision < l.base
                   /\ ~local'[d][k].conflict.open]_meshVars

\* Every change ever put on the wire passes the coordinator's structural
\* checks: a rebased or re-queued row never poisons the batch that is replayed
\* until it is answered (nextBatch against assertPendingChange).
WireWellFormed ==
    \A d \in Enrollment, n \in EnrollmentSequence :
        sent[d][n] # NoContent => WellFormed(sent[d][n])

\* Sync itself never replaces a domain row that has an unacknowledged edit, a
\* queued mutation or an open conflict: only the user's own edit or resolution
\* changes it (applySyncedChange and activateStagedScan keep dirty work).
DirtyRowsKept ==
    [][\A d \in Enrollment, k \in Entity :
          LET l == local[d][k]
          IN l.bound /\ (Dirty(l) \/ l.conflict.open)
                /\ local'[d][k].domain # l.domain =>
                    \/ local'[d][k].generation = l.generation + 1
                    \/ l.conflict.open /\ ~local'[d][k].conflict.open]_meshVars

\* recordLocalChange cancels a queued create by a deletion as a net no-op: the
\* account has no such entity then, and no push that creates it is under way.
CancelledCreateIsNoOp ==
    [][\A d \in Enrollment, k \in Entity :
          LET l == local[d][k]
              next == local'[d][k]
          IN HasRow(l.pending) /\ ~HasRow(next.pending)
                /\ next.generation = l.generation + 1
                => l.base = 0 /\ ~HasRow(l.inFlight)]_meshVars

\* Keep-local, like the coalescing rules, promises to keep the local intent: an
\* edit made after the entity was acknowledged, and that the account does not
\* show, stays queued, in flight or under review, or a reset is pending.
NoStrandedEdit ==
    \A d \in Enrollment, k \in Entity :
        LET l == local[d][k]
        IN l.bound /\ l.base # 0 /\ l.generation > l.acknowledged
              /\ l.domain # Decoded(l.basePayload) =>
              HasMutableRow(l) \/ l.conflict.open \/ resetRequired[d]

\* The cursor stands for what the device has seen: the pull serves only what
\* is behind it, so an entity whose head it has passed is never stale.
NothingMissed == \A d \in Enrollment, k \in Entity : Seen(d, k)

\* resolveSyncConflict promises that use-remote replaces the local row by the
\* remote one: a clean entity with a domain row is not deleted remotely.
UseRemoteReplacesLocal ==
    \A d \in Enrollment, k \in Entity :
        LET l == local[d][k]
        IN Settled(l) /\ l.domain # NoPayload => Decoded(l.basePayload) # NoPayload

\* requeueEntityForKeepLocal promises to send the local intent: an entity the
\* user deleted, with nothing left to send, is deleted in the account too.
DeletedStaysDeleted ==
    \A d \in Enrollment, k \in Entity :
        LET l == local[d][k]
        IN Settled(l) /\ l.domain = NoPayload => Decoded(l.basePayload) = NoPayload
=============================================================================
