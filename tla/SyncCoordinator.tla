-------------------------- MODULE SyncCoordinator --------------------------
(***************************************************************************)
(* The change journal of the AccountCoordinator durable object             *)
(* (mezair-app/cloud/backend/src/account-coordinator.ts): sync.push with   *)
(* its receipts and per-enrollment high water, the entity heads, the       *)
(* journal that sync.pull serves, the retention sweep with snapshot-driven *)
(* compaction, data import, and the history-byte counter behind the        *)
(* self-host quota and the fair-use figures.                               *)
(*                                                                         *)
(* Every RPC body runs in one SQLite transaction of one single-threaded    *)
(* durable object, so an action is a whole handler.  A push carries a      *)
(* batch; its items are applied one after the other by the same code and   *)
(* only structural faults (checked before the first item) abort it, so a   *)
(* batch is a run of consecutive Push actions.                             *)
(***************************************************************************)
EXTENDS Integers, FiniteSets

CONSTANTS
    Enrollment,             \* enrollment ids that push
    Entity,                 \* (entity_type, entity_id) keys
    Payload,                \* payload contents, one size unit each
    NoPayload,              \* SQL NULL in a payload column
    NoEntity,               \* the entity of an absent journal row
    Hosted,                 \* env.HOSTED_DB is bound
    HistoryQuota,           \* HISTORY_QUOTA_BYTES, in size units
    MaxEnrollmentSequence,  \* bound: enrollment sequences used per device
    MaxSequence             \* bound: journal sequences ever assigned

ASSUME CoordinatorAssumption ==
    /\ NoPayload \notin Payload
    /\ NoEntity \notin Entity
    /\ Hosted \in BOOLEAN
    /\ HistoryQuota \in Nat
    /\ MaxEnrollmentSequence \in Nat
    /\ MaxSequence \in Nat

VARIABLES
    nextSequence,      \* sync_meta.next_sequence
    retentionFloor,    \* sync_meta.retention_floor
    compactionTarget,  \* sync_meta.snapshot_compaction_target, 0 when absent
    historyBytes,      \* sync_meta.history_bytes
    restricted,        \* a fair-use restriction is in effect
    highWater,         \* enrollments.high_water
    receipts,          \* table receipts
    entities,          \* table entities: the head of every entity
    changes,           \* table changes: the journal
    history            \* history variable: every change ever accepted

journalVars == <<nextSequence, retentionFloor, compactionTarget, historyBytes,
                 entities, changes, history>>
pushVars == <<highWater, receipts>>
vars == <<journalVars, pushVars, restricted>>

---------------------------------------------------------------------------
(* Rows and results *)

Sequence == 1 .. MaxSequence
EnrollmentSequence == 1 .. MaxEnrollmentSequence
Operation == {"create", "update", "delete"}
PayloadOrNull == Payload \cup {NoPayload}

\* A head row; revision 0 stands for "no row".
EntityRow == [revision : 0 .. MaxSequence, operation : Operation,
              payload : PayloadOrNull, sequence : 0 .. MaxSequence]
NoHead == [revision |-> 0, operation |-> "delete", payload |-> NoPayload,
           sequence |-> 0]

\* A journal row; revision 0 stands for "no row".
ChangeRow == [entity : Entity \cup {NoEntity}, revision : 0 .. MaxSequence,
              operation : Operation, payload : PayloadOrNull]
NoChange == [entity |-> NoEntity, revision |-> 0, operation |-> "delete",
             payload |-> NoPayload]

\* A change as it was accepted, with the base revision its device worked on.
HistoryRow == [entity : Entity \cup {NoEntity}, revision : 0 .. MaxSequence,
               operation : Operation, payload : PayloadOrNull,
               baseRevision : 0 .. MaxSequence]
NoHistory == [entity |-> NoEntity, revision |-> 0, operation |-> "delete",
              payload |-> NoPayload, baseRevision |-> 0]

\* What the payload hash covers (canonicalChangeHashInput); baseRevision 0 is null.
Content == [entity : Entity, operation : Operation,
            baseRevision : 0 .. MaxSequence, payload : PayloadOrNull]
NoContent == [entity |-> NoEntity, operation |-> "delete",
              baseRevision |-> 0, payload |-> NoPayload]

Status == {"none", "accepted", "conflict", "changed-content",
           "quota-exceeded", "receipt-expired"}
\* revision is the accepted revision, or the remote one of a conflict.
Result == [status : Status, revision : 0 .. MaxSequence,
           payload : PayloadOrNull]
NoResult == [status |-> "none", revision |-> 0, payload |-> NoPayload]

Receipt == [content : Content \cup {NoContent}, result : Result]
NoReceipt == [content |-> NoContent, result |-> NoResult]

\* assertPendingChange, and the payload rule of the change contract
WellFormed(c) ==
    /\ (c.operation = "create") <=> (c.baseRevision = 0)
    /\ (c.operation = "delete") <=> (c.payload = NoPayload)

Watermark == nextSequence - 1
Journal == {s \in Sequence : changes[s].revision # 0}
HasReceipt(e, n) == receipts[e][n].result.status # "none"

---------------------------------------------------------------------------
(* sync.push *)

\* Mutant: an update or delete is compared with the existence of the head only.
BaseMatchesExisting(c, head) ==
    IF c.operation = "create" THEN head.revision = 0 ELSE head.revision # 0

\* compareBaseRevision: TRUE when the change applies to the current head.
BaseMatches(c, head) ==
    IF c.operation = "create"
    THEN head.revision = 0
    ELSE head.revision # 0 /\ head.revision = c.baseRevision

\* The row the push is answered with when nothing is accepted.
Conflict(head) == [status |-> "conflict", revision |-> head.revision,
                   payload |-> head.payload]
Plain(status) == [status |-> status, revision |-> 0, payload |-> NoPayload]
Accepted(c) == [status |-> "accepted",
                revision |-> entities[c.entity].revision + 1,
                payload |-> c.payload]

\* Mutant: a payload is charged for the head row and for the journal row.
EntityBytesTwice(payload) == IF payload = NoPayload THEN 0 ELSE 2

EntityBytes(payload) == IF payload = NoPayload THEN 0 ELSE 1

OverQuota(c) == ~Hosted /\ historyBytes + EntityBytes(c.payload) > HistoryQuota

\* Mutant: the high-water test is missing.
FreshResultNoHighWater(e, n, c) ==
    IF OverQuota(c) THEN Plain("quota-exceeded")
    ELSE IF ~BaseMatches(c, entities[c.entity]) THEN Conflict(entities[c.entity])
    ELSE Accepted(c)

\* The verdict on a change that has no receipt.
FreshResult(e, n, c) ==
    IF n <= highWater[e] THEN Plain("receipt-expired")
    ELSE IF OverQuota(c) THEN Plain("quota-exceeded")
    ELSE IF ~BaseMatches(c, entities[c.entity]) THEN Conflict(entities[c.entity])
    ELSE Accepted(c)

\* applyPrepared: what the caller is answered.
PushResult(e, n, c) ==
    IF ~HasReceipt(e, n) THEN FreshResult(e, n, c)
    ELSE IF receipts[e][n].content = c THEN receipts[e][n].result
    ELSE Plain("changed-content")

\* Mutant: the superseded payload is not preserved.
PreserveNothing(head) == changes

\* The superseded head's payload moves onto its own journal row, when both
\* that row and a payload are still there.
PreserveHead(head) ==
    IF head.operation # "delete" /\ head.payload # NoPayload
       /\ changes[head.sequence].revision # 0
       /\ changes[head.sequence].payload = NoPayload
    THEN [changes EXCEPT ![head.sequence].payload = head.payload]
    ELSE changes

\* A new revision of entity k: head, journal row, next_sequence, byte count.
Append(k, operation, baseRevision, payload) ==
    LET head == entities[k]
        revision == head.revision + 1
    IN /\ nextSequence <= MaxSequence
       /\ entities' = [entities EXCEPT ![k] =
                         [revision |-> revision, operation |-> operation,
                          payload |-> payload, sequence |-> nextSequence]]
       /\ changes' = [PreserveHead(head) EXCEPT ![nextSequence] =
                         [entity |-> k, revision |-> revision,
                          operation |-> operation, payload |-> NoPayload]]
       /\ history' = [history EXCEPT ![nextSequence] =
                         [entity |-> k, revision |-> revision,
                          operation |-> operation, payload |-> payload,
                          baseRevision |-> baseRevision]]
       /\ nextSequence' = nextSequence + 1
       /\ historyBytes' = historyBytes + EntityBytes(payload)
       /\ UNCHANGED <<retentionFloor, compactionTarget>>

\* writeReceipt and advanceHighWater
WriteReceipt(e, n, c, result) ==
    /\ receipts' = [receipts EXCEPT ![e][n] =
                       [content |-> c, result |-> result]]
    /\ highWater' = IF n > highWater[e]
                    THEN [highWater EXCEPT ![e] = n] ELSE highWater

\* A push that finds no receipt: applied, or refused, and receipted.
PushFresh(e, n, c) ==
    LET result == FreshResult(e, n, c)
    IN /\ ~HasReceipt(e, n)
       /\ WriteReceipt(e, n, c, result)
       /\ IF result.status = "accepted"
          THEN Append(c.entity, c.operation, c.baseRevision, c.payload)
          ELSE UNCHANGED journalVars
       /\ UNCHANGED restricted

\* handlePush / pushInTransaction for one item.  A restricted account may only
\* delete; a receipted item is answered from its receipt and changes nothing.
Push(e, n, c) ==
    /\ ~restricted \/ c.operation = "delete"
    /\ WellFormed(c)
    /\ \/ PushFresh(e, n, c)
       \/ HasReceipt(e, n) /\ UNCHANGED vars

---------------------------------------------------------------------------
(* sync.pull *)

\* The payload sync.pull serves for journal row s.  NoPayload for a row that is
\* not a deletion is the compacted-change-payload-missing failure.
ServedPayload(s) ==
    LET row == changes[s]
        head == entities[row.entity]
    IN IF row.operation = "delete" THEN NoPayload
       ELSE IF row.payload # NoPayload THEN row.payload
       ELSE IF head.sequence = s THEN head.payload
       ELSE NoPayload

\* The rows a pull from cursor may return, before the page is cut.
Pullable(cursor) == {s \in Journal : s > cursor}
ResetRequired(cursor) == cursor < retentionFloor

---------------------------------------------------------------------------
(* Retention, compaction, import, operator restriction *)

\* sync.snapshot.commit's effect on the journal: it asks the sweep to compact
\* up to a committed cursor.
RequestCompaction(target) ==
    /\ target \in retentionFloor .. Watermark
    /\ target > compactionTarget
    /\ compactionTarget' = target
    /\ UNCHANGED <<nextSequence, retentionFloor, historyBytes, entities,
                   changes, history, pushVars, restricted>>

\* runSweep, sync part.  Rows up to last have outlived RETENTION_MS (created_at
\* grows with sequence); one bounded batch of rows at or below the compaction
\* target, ending at upTo, goes too; stale is the batch of expired receipts.
Sweep(last, upTo, stale) ==
    LET expired == {s \in Journal : s <= last}
        floor == IF last > retentionFloor THEN last ELSE retentionFloor
        compacting == compactionTarget > floor
        compactable == {s \in Journal \ expired :
                           floor < s /\ s <= compactionTarget}
        deleted == expired \cup {s \in compactable : s <= upTo}
        freed == Cardinality({s \in deleted : changes[s].payload # NoPayload})
    IN /\ last \in Journal \cup {0}
       /\ upTo \in (IF ~compacting THEN {floor}
                    ELSE IF compactable = {} THEN {compactionTarget}
                    ELSE compactable)
       /\ changes' = [s \in Sequence |->
                        IF s \in deleted THEN NoChange ELSE changes[s]]
       /\ retentionFloor' = upTo
       /\ compactionTarget' = IF compacting /\ upTo >= compactionTarget
                              THEN 0 ELSE compactionTarget
       /\ historyBytes' = IF historyBytes > freed THEN historyBytes - freed ELSE 0
       /\ receipts' = [e \in Enrollment |-> [n \in EnrollmentSequence |->
                         IF <<e, n>> \in stale THEN NoReceipt ELSE receipts[e][n]]]
       /\ UNCHANGED <<nextSequence, entities, history, highWater, restricted>>

\* data.import.commit for one planned entry that is still absent.  Import
\* bypasses receipts and the quota.
ImportCommit(k, payload) ==
    /\ entities[k].revision = 0
    /\ ~restricted
    /\ Append(k, "create", 0, payload)
    /\ UNCHANGED <<pushVars, restricted>>

\* /internal/fair-use/restriction: an operator sets or clears the notice.
FairUseRestriction ==
    /\ Hosted
    /\ restricted' = ~restricted
    /\ UNCHANGED <<journalVars, pushVars>>

\* An accepted change of an enrollment whose receipts nobody looks at: what the
\* components built on the journal see of any other device, or of an import.
OtherWriter(k, payload) ==
    LET head == entities[k]
        operation == IF payload = NoPayload THEN "delete"
                     ELSE IF head.revision = 0 THEN "create" ELSE "update"
    IN /\ payload = NoPayload => head.revision # 0
       /\ Append(k, operation, head.revision, payload)
       /\ UNCHANGED <<pushVars, restricted>>

---------------------------------------------------------------------------

Init ==
    /\ nextSequence = 1
    /\ retentionFloor = 0
    /\ compactionTarget = 0
    /\ historyBytes = 0
    /\ restricted = FALSE
    /\ highWater = [e \in Enrollment |-> 0]
    /\ receipts = [e \in Enrollment |-> [n \in EnrollmentSequence |-> NoReceipt]]
    /\ entities = [k \in Entity |-> NoHead]
    /\ changes = [s \in Sequence |-> NoChange]
    /\ history = [s \in Sequence |-> NoHistory]

StoredReceipts ==
    {x \in Enrollment \X EnrollmentSequence : HasReceipt(x[1], x[2])}

\* A device sends a base revision the coordinator has told it about.
Sendable == {c \in Content : /\ WellFormed(c)
                             /\ c.baseRevision <= entities[c.entity].revision}

Next ==
    \/ \E e \in Enrollment, n \in EnrollmentSequence, c \in Sendable : Push(e, n, c)
    \/ \E target \in Sequence : RequestCompaction(target)
    \/ \E last \in 0 .. MaxSequence, upTo \in 0 .. MaxSequence,
          stale \in SUBSET StoredReceipts : Sweep(last, upTo, stale)
    \/ \E k \in Entity, payload \in Payload : ImportCommit(k, payload)
    \/ FairUseRestriction

Spec == Init /\ [][Next]_vars

---------------------------------------------------------------------------
(* Properties *)

\* Every table and counter keeps its type; historyBytes, charged on push and
\* credited by the sweep, stays between zero and the changes ever accepted.
TypeOK ==
    /\ nextSequence \in 1 .. MaxSequence + 1
    /\ retentionFloor \in 0 .. MaxSequence
    /\ compactionTarget \in 0 .. MaxSequence
    /\ historyBytes \in 0 .. MaxSequence
    /\ restricted \in BOOLEAN
    /\ highWater \in [Enrollment -> 0 .. MaxEnrollmentSequence]
    /\ receipts \in [Enrollment -> [EnrollmentSequence -> Receipt]]
    /\ entities \in [Entity -> EntityRow]
    /\ changes \in [Sequence -> ChangeRow]
    /\ history \in [Sequence -> HistoryRow]

\* Every accepted change after the retention floor is still in the journal
\* and sync.pull serves exactly the content that was accepted: a cursor that
\* is not told to reset misses nothing and never meets the
\* compacted-change-payload-missing failure (handlePull).
JournalServesHistory ==
    \A s \in Sequence : retentionFloor < s /\ s < nextSequence =>
        /\ changes[s].revision = history[s].revision
        /\ changes[s].entity = history[s].entity
        /\ changes[s].operation = history[s].operation
        /\ ServedPayload(s) = history[s].payload

\* The accepted changes of an entity carry the revisions 1, 2, 3, ... in
\* sequence order without a gap, and the head row is the last of them
\* (applyPrepared's compare-and-increment, handleDataImportCommit).
OwnHistory(k) == {s \in Sequence : s < nextSequence /\ history[s].entity = k}
RevisionChain ==
    \A k \in Entity :
        /\ \A s, t \in OwnHistory(k) :
              s < t => history[s].revision < history[t].revision
        /\ \A s \in OwnHistory(k) :
              history[s].revision > 1 =>
                  \E t \in OwnHistory(k) :
                      t < s /\ history[t].revision = history[s].revision - 1
        /\ OwnHistory(k) # {} =>
              /\ entities[k].sequence \in OwnHistory(k)
              /\ \A s \in OwnHistory(k) : s <= entities[k].sequence
              /\ entities[k].revision = history[entities[k].sequence].revision
              /\ entities[k].payload = history[entities[k].sequence].payload

\* No accepted change overwrites a revision its device had not seen: the base
\* it was sent with is the revision it replaced (compareBaseRevision), also
\* after retries, sweeps and imports.
NoBlindOverwrite ==
    \A s \in Sequence : s < nextSequence =>
        history[s].baseRevision = history[s].revision - 1

\* What the fair-use rules promise of deletion: once every payload has been
\* deleted and swept, the history the account is charged for is zero.
StoredPayloads ==
    {k \in Entity : entities[k].payload # NoPayload} \cup
    {s \in Sequence : changes[s].payload # NoPayload}
DeletionReclaimsHistory == StoredPayloads = {} => historyBytes = 0

\* What sync.pull serves at every sequence; nothing at or below the floor.
Feed ==
    [s \in Sequence |->
        IF s > retentionFloor /\ changes[s].revision # 0
        THEN [changes[s] EXCEPT !.payload = ServedPayload(s)] ELSE NoChange]

\* The coordinator implements the log its devices rely on (ChangeLog): journal
\* rows without payloads, heads that are overwritten, and a sweep that deletes by
\* age and by snapshot look to every reader like one log that only grows.
Log == INSTANCE ChangeLog
          WITH NoEntry <- NoChange, MaxLength <- MaxSequence,
               length <- Watermark, floor <- retentionFloor,
               revision <- [k \in Entity |-> entities[k].revision], feed <- Feed
ImplementsChangeLog == Log!Spec

\* A retry is never decided twice.  Whatever a step does - other pushes,
\* imports, sweeps - the answer to a change that already has a receipt stays
\* that receipt's result, or becomes "receipt-expired" when the sweep drops
\* it: never a conflict with the retry's own first application, a quota
\* refusal or a second acceptance (applyPrepared: receipts plus high water).
RetryKeepsVerdict ==
    [][\A e \in Enrollment, n \in EnrollmentSequence :
          HasReceipt(e, n) =>
              \A c \in {receipts[e][n].content} :
                  PushResult(e, n, c)' \in
                      {receipts[e][n].result, Plain("receipt-expired")}]_vars
=============================================================================
