---------------------------- MODULE SyncMeshProofs ----------------------------
(***************************************************************************)
(* Proofs about SyncMesh, for every number of devices, entities and        *)
(* payloads and every bound.  They rest on the coordinator's own inductive *)
(* invariant (SyncCoordinatorProofs), which pushes, other writers and the  *)
(* sweep keep.                                                             *)
(***************************************************************************)
EXTENDS SyncMesh, SyncCoordinatorProofs

\* A change of entity k was accepted as this revision with this payload, in a
\* history h of n - 1 changes.
WasAccepted(h, n, k, revision, payload) ==
    \E s \in Sequence : /\ s < n /\ h[s].entity = k
                        /\ h[s].revision = revision /\ h[s].payload = payload

\* No change of entity k up to sequence w is newer than the revision.
NoneNewer(h, k, w, revision) ==
    \A s \in Sequence : h[s].entity = k /\ s <= w => h[s].revision <= revision

\* An outbox row is newer than the last acknowledged edit, deletes exactly when
\* it has no payload, and holds the domain row when it is the last edit.
RowInv(l, row) ==
    HasRow(row) =>
        /\ l.acknowledged < row.generation /\ row.generation <= l.generation
        /\ row.operation = "delete" <=> row.payload = NoPayload
        /\ row.generation = l.generation /\ l.domain # NoPayload
              => row.payload = l.domain

\* A dispatched row is older than what is pending, never beside a conflicted row,
\* and as the last edit still stands on the base it was sent with.
InFlightInv(l) ==
    HasRow(l.inFlight) =>
        /\ HasRow(l.pending) => l.inFlight.generation < l.pending.generation
        /\ ~HasRow(l.conflicted)
        /\ l.inFlight.generation = l.generation /\ l.domain # NoPayload
              => l.inFlight.baseRevision = l.base
        /\ l.base = 0 => l.inFlight.baseRevision = 0
        /\ l.conflict.open => l.conflict.remoteRevision # 0

\* An open conflict without a queued or conflicted row shows the domain row.
ConflictInv(l) ==
    /\ HasRow(l.conflicted) => l.conflict.open
    /\ l.conflict.open /\ ~HasRow(l.pending) /\ ~HasRow(l.conflicted)
          /\ l.domain # NoPayload => l.conflict.local = l.domain

\* An unbound entity has nothing to send, nothing to decide and no base.
BindingInv(l) ==
    /\ l.acknowledged <= l.generation
    /\ ~l.bound => ~HasMutableRow(l) /\ ~l.conflict.open /\ l.base = 0

\* What CleanMirrorsBase says of one entity.
MirrorInv(l) ==
    Settled(l) /\ l.domain # NoPayload /\ l.basePayload # JsonNull
        => l.domain = l.basePayload

LocalInv(l) ==
    /\ BindingInv(l) /\ MirrorInv(l) /\ ConflictInv(l) /\ InFlightInv(l)
    /\ RowInv(l, l.pending) /\ RowInv(l, l.inFlight) /\ RowInv(l, l.conflicted)

\* Base and remote side of a conflict are accepted revisions; the remote side of
\* an entity without a base is the newest one up to the cursor w.
RemoteInv(h, n, k, l, w) ==
    /\ l.base # 0 => WasAccepted(h, n, k, l.base, Decoded(l.basePayload))
    /\ l.conflict.remoteRevision # 0
          => WasAccepted(h, n, k, l.conflict.remoteRevision, Decoded(l.conflict.remote))
    /\ l.conflict.open /\ l.base = 0 /\ l.conflict.remoteRevision # 0
          => NoneNewer(h, k, w, l.conflict.remoteRevision)

\* A verdict on the content c names a revision that was accepted.
AnswerKnown(h, n, c, result) ==
    /\ result.status = "accepted"
          => /\ result.revision = c.baseRevision + 1
             /\ WasAccepted(h, n, c.entity, result.revision, c.payload)
    /\ result.status = "conflict" /\ result.revision # 0
          => WasAccepted(h, n, c.entity, result.revision, result.payload)

\* A verdict on the dispatched row of an entity without a base names the newest
\* revision up to the cursor w, unless a pull has opened a conflict meanwhile.
AnswerNewest(h, k, l, w, result) ==
    l.base = 0 /\ ~l.conflict.open /\ result.status \in {"accepted", "conflict"}
        => NoneNewer(h, k, w, result.revision)

\* The dispatched row is what was sent under its sequence, and both the verdict
\* under way and the receipt a replay would meet are answers to it.
DispatchedInv(d, k) ==
    LET l == local[d][k]
        n == l.inFlight.sequence
    IN HasRow(l.inFlight) =>
          /\ n \in EnrollmentSequence
          /\ sent[d][n] = [entity |-> k, operation |-> l.inFlight.operation,
                           baseRevision |-> l.inFlight.baseRevision,
                           payload |-> l.inFlight.payload]
          /\ AnswerKnown(history, nextSequence, sent[d][n], verdict[d])
          /\ AnswerNewest(history, k, l, cursor[d], verdict[d])
          /\ AnswerNewest(history, k, l, cursor[d], receipts[d][n].result)

EntityInv(d, k) ==
    /\ LocalInv(local[d][k])
    /\ RemoteInv(history, nextSequence, k, local[d][k], cursor[d])
    /\ DispatchedInv(d, k)

\* What is on the wire is well formed; a receipt answers what was sent.
WireInv(d) ==
    \A n \in EnrollmentSequence :
        /\ sent[d][n] # NoContent => WellFormed(sent[d][n]) /\ n < outSequence[d]
        /\ HasReceipt(d, n) =>
              /\ sent[d][n] # NoContent /\ receipts[d][n].content = sent[d][n]
              /\ AnswerKnown(history, nextSequence, sent[d][n], receipts[d][n].result)

\* An answered pull is the accepted change right behind the cursor.
PageInv(d) ==
    LET change == page[d]
        accepted == history[change.sequence]
    IN change # NoPage =>
          /\ phase[d] = "pulling"
          /\ change.sequence = cursor[d] + 1 /\ change.sequence < nextSequence
          /\ change.entity \in Entity /\ change.entity = accepted.entity
          /\ change.revision = accepted.revision
          /\ change.operation = accepted.operation
          /\ change.payload = accepted.payload

\* Staged heads were accepted, and are the heads as far as the watermark goes.
StagedInv(d) ==
    LET heads == staged[d].heads
    IN staged[d].ready =>
          /\ staged[d].watermark < nextSequence
          /\ \A k \in Entity :
                /\ heads[k].revision # 0 =>
                      /\ WasAccepted(history, nextSequence, k, heads[k].revision,
                                     heads[k].payload)
                      /\ heads[k].operation = "delete" => heads[k].payload = NoPayload
                /\ entities[k].revision # 0 /\ entities[k].sequence <= staged[d].watermark
                      => heads[k] = entities[k]

DeviceInv(d) ==
    /\ cursor[d] < nextSequence
    /\ verdict[d] # NoResult => phase[d] = "pushing"
    /\ WireInv(d) /\ PageInv(d) /\ StagedInv(d)

MeshInv ==
    /\ Inv /\ MeshTypeOK
    /\ \A d \in Enrollment : DeviceInv(d)
    /\ \A d \in Enrollment, k \in Entity : EntityInv(d, k)
---------------------------------------------------------------------------
(* One entity of one device: what each operator keeps *)

\* The constants as sets of numbers.
LEMMA MeshNumbers ==
    /\ MaxSequence \in Nat /\ MaxEnrollmentSequence \in Nat /\ MaxEdits \in Nat
    /\ 0 .. MaxSequence \subseteq Nat /\ Edit \subseteq Nat /\ 0 \in Edit
    /\ EnrollmentSequence \subseteq Nat
BY CoordinatorAssumption, MeshAssumption DEF Edit, EnrollmentSequence

\* The fields of a stored entity.
LEMMA LocalFields ==
    ASSUME NEW l \in LocalEntity
    PROVE  /\ l.domain \in PayloadOrNull /\ l.bound \in BOOLEAN /\ l.base \in 0 .. MaxSequence
           /\ l.basePayload \in StoredPayload
           /\ l.generation \in Edit /\ l.acknowledged \in Edit
           /\ l.pending \in Row /\ l.inFlight \in SentRow /\ l.conflicted \in Row
           /\ l.conflict \in ConflictRow
BY DEF LocalEntity

\* Nothing stored keeps every promise.
LEMMA NothingLocalInv == NothingLocal \in LocalEntity /\ LocalInv(NothingLocal)
<1>1. /\ NoRow \in Row /\ NoSentRow \in SentRow /\ NoConflict \in ConflictRow
      /\ NoPayload \in PayloadOrNull /\ NoPayload \in StoredPayload
  BY CoordinatorAssumption, MeshNumbers
     DEF NoRow, Row, NoSentRow, SentRow, NoConflict, ConflictRow, PayloadOrNull, StoredPayload
<1>2. NothingLocal \in LocalEntity
  BY <1>1, MeshNumbers DEF NothingLocal, LocalEntity
<1> QED
  BY <1>2 DEF NothingLocal, LocalInv, BindingInv, MirrorInv, ConflictInv, InFlightInv, RowInv,
     Settled, Dirty, HasMutableRow, HasRow, NoRow, NoSentRow, NoConflict

\* What an operator keeps: the stored entity's own promises, its knowledge of
\* accepted revisions, and, if the dispatched row is still there, what an answer
\* to it may still show.
WireKept(l, m) ==
    HasRow(m.inFlight) =>
        /\ m.inFlight = l.inFlight
        /\ m.base = 0 /\ ~m.conflict.open => l.base = 0 /\ ~l.conflict.open

Kept(h, n, k, l, m, w) ==
    /\ m \in LocalEntity /\ LocalInv(m)
    /\ RemoteInv(h, n, k, m, w)
    /\ WireKept(l, m)

\* The promises of an outbox that do not speak of the domain row.
QueuedInv(l, row) ==
    HasRow(row) =>
        /\ l.acknowledged < row.generation /\ row.generation <= l.generation
        /\ row.operation = "delete" <=> row.payload = NoPayload
OutboxInv(l) ==
    /\ l.acknowledged <= l.generation
    /\ QueuedInv(l, l.pending) /\ QueuedInv(l, l.inFlight) /\ QueuedInv(l, l.conflicted)
    /\ HasRow(l.conflicted) => l.conflict.open
    /\ HasRow(l.inFlight) => /\ ~HasRow(l.conflicted)
                             /\ l.base = 0 => l.inFlight.baseRevision = 0
                             /\ l.conflict.open => l.conflict.remoteRevision # 0

\* recordLocalChange coalesces a new edit into at most one pending row.
LEMMA CoalescedKept ==
    ASSUME NEW l \in LocalEntity, l.generation < MaxEdits, OutboxInv(l),
           NEW operation \in Operation, NEW payload \in PayloadOrNull,
           operation = "delete" <=> payload = NoPayload
    PROVE  LET row == CoalescedRow(l, operation, payload)
           IN /\ row \in Row
              /\ HasRow(row) => /\ row.generation = l.generation + 1 /\ row.payload = payload
                                /\ row.operation = "delete" <=> payload = NoPayload
              /\ operation # "delete" => HasRow(row)
<1> DEFINE Made(o) == [operation |-> o, payload |-> payload, generation |-> l.generation + 1]
<1>1. /\ l.generation + 1 \in Edit /\ 0 \in Edit /\ NoPayload \in PayloadOrNull
      /\ l.pending \in Row
  BY MeshNumbers, LocalFields DEF Edit, PayloadOrNull
<1>2. \A o \in Operation : /\ Made(o) \in Row /\ HasRow(Made(o)) /\ Made(o).operation = o
                           /\ Made(o).payload = payload
                           /\ Made(o).generation = l.generation + 1
  BY <1>1 DEF Row, Operation, HasRow
<1>3. NoRow \in Row /\ ~HasRow(NoRow)
  BY <1>1 DEF NoRow, Row, HasRow
<1>4. \/ CoalescedRow(l, operation, payload) = NoRow /\ operation = "delete"
      \/ \E o \in Operation : /\ CoalescedRow(l, operation, payload) = Made(o)
                              /\ o = "delete" <=> operation = "delete"
  BY <1>1 DEF CoalescedRow, SyncOperationForBinding, Operation, Row, HasRow
<1> HIDE DEF Made
<1> QED
  BY <1>2, <1>3, <1>4 DEF HasRow

\* After an edit that leaves its payload in the domain row, the outbox holds it.
LEMMA RecordedKept ==
    ASSUME NEW l \in LocalEntity, l.generation < MaxEdits, OutboxInv(l),
           NEW operation \in Operation, NEW payload \in PayloadOrNull,
           operation = "delete" <=> payload = NoPayload,
           l.domain # NoPayload => payload = l.domain
    PROVE  LET m == Recorded(l, operation, payload)
           IN /\ m \in LocalEntity /\ LocalInv(m)
              /\ m.bound /\ m.generation = l.generation + 1
              /\ m.base = l.base /\ m.basePayload = l.basePayload /\ m.domain = l.domain
              /\ m.inFlight = l.inFlight /\ m.conflict = l.conflict
<1> DEFINE m == Recorded(l, operation, payload)
           row == CoalescedRow(l, operation, payload)
<1>1. /\ row \in Row
      /\ HasRow(row) => /\ row.generation = l.generation + 1 /\ row.payload = payload
                        /\ row.operation = "delete" <=> payload = NoPayload
      /\ operation # "delete" => HasRow(row)
  BY CoalescedKept
<1>2. l.generation + 1 \in Edit /\ l.generation \in Nat /\ l.acknowledged \in Nat
  BY MeshNumbers, LocalFields DEF Edit
<1> HIDE DEF row
<1>3. /\ m.domain = l.domain /\ m.bound = TRUE /\ m.base = l.base
      /\ m.basePayload = l.basePayload /\ m.generation = l.generation + 1
      /\ m.acknowledged = l.acknowledged /\ m.pending = row /\ m.inFlight = l.inFlight
      /\ m.conflicted = l.conflicted /\ m.conflict = l.conflict
      /\ m \in LocalEntity
  BY <1>1, <1>2 DEF Recorded, LocalEntity, row
<1> HIDE DEF m
<1>4. l.inFlight.generation \in Nat /\ l.conflicted.generation \in Nat
  BY MeshNumbers, LocalFields DEF SentRow, Row
<1>5. BindingInv(m) /\ MirrorInv(m) /\ ConflictInv(m)
  BY <1>1, <1>2, <1>3 DEF OutboxInv, BindingInv, MirrorInv, ConflictInv, Settled, Dirty
<1>6. InFlightInv(m)
  BY <1>1, <1>2, <1>3, <1>4 DEF OutboxInv, QueuedInv, InFlightInv
<1>7. RowInv(m, m.pending) /\ RowInv(m, m.inFlight) /\ RowInv(m, m.conflicted)
  BY <1>1, <1>2, <1>3, <1>4 DEF OutboxInv, QueuedInv, RowInv
<1> QED
  BY <1>3, <1>5, <1>6, <1>7 DEF LocalInv, m

\* The queue of an entity does not depend on its domain row.
LEMMA OutboxOfLocal ==
    ASSUME NEW l \in LocalEntity, LocalInv(l)
    PROVE  /\ OutboxInv(l)
           /\ \A payload \in PayloadOrNull :
                 LET m == [l EXCEPT !.domain = payload]
                 IN /\ m \in LocalEntity /\ OutboxInv(m) /\ m.domain = payload
                    /\ m.generation = l.generation /\ m.inFlight = l.inFlight
                    /\ m.conflict = l.conflict /\ m.base = l.base
                    /\ m.basePayload = l.basePayload /\ m.bound = l.bound
<1>1. OutboxInv(l)
  BY DEF OutboxInv, LocalInv, BindingInv, ConflictInv, InFlightInv, RowInv, QueuedInv
<1>2. ASSUME NEW payload \in PayloadOrNull, NEW m, m = [l EXCEPT !.domain = payload]
      PROVE  /\ m \in LocalEntity /\ OutboxInv(m) /\ m.domain = payload
             /\ m.generation = l.generation /\ m.inFlight = l.inFlight
             /\ m.conflict = l.conflict /\ m.base = l.base
             /\ m.basePayload = l.basePayload /\ m.bound = l.bound
  <2>1. /\ m \in LocalEntity /\ m.domain = payload
        /\ m.bound = l.bound /\ m.base = l.base /\ m.basePayload = l.basePayload
        /\ m.generation = l.generation /\ m.acknowledged = l.acknowledged
        /\ m.pending = l.pending /\ m.inFlight = l.inFlight /\ m.conflicted = l.conflicted
        /\ m.conflict = l.conflict
    BY <1>2 DEF LocalEntity
  <2> QED
    BY <1>1, <2>1 DEF OutboxInv, QueuedInv
<1> QED
  BY <1>1, <1>2

\* A save of an entity: recorded when it is bound, only stored otherwise.
LEMMA EditKept ==
    ASSUME NEW h, NEW n, NEW k, NEW w, NEW l \in LocalEntity, LocalInv(l),
           RemoteInv(h, n, k, l, w),
           NEW payload \in PayloadOrNull, NEW operation \in Operation,
           operation = "delete" <=> payload = NoPayload,
           l.bound => l.generation < MaxEdits,
           NEW m, m = IF l.bound THEN Recorded([l EXCEPT !.domain = payload], operation, payload)
                      ELSE [l EXCEPT !.domain = payload]
    PROVE  /\ Kept(h, n, k, l, m, w)
           /\ m.base = l.base /\ m.conflict = l.conflict /\ (m.bound <=> l.bound)
           /\ l.bound => m.generation = l.generation + 1
<1> DEFINE x == [l EXCEPT !.domain = payload]
<1>1. /\ x \in LocalEntity /\ OutboxInv(x) /\ x.domain = payload
      /\ x.generation = l.generation /\ x.inFlight = l.inFlight /\ x.conflict = l.conflict
      /\ x.base = l.base /\ x.basePayload = l.basePayload /\ x.bound = l.bound
  BY OutboxOfLocal
<1>2. CASE l.bound
  <2>1. m = Recorded(x, operation, payload)
    BY <1>2
  <2> HIDE DEF x
  <2>2. /\ m \in LocalEntity /\ LocalInv(m) /\ m.bound /\ m.generation = l.generation + 1
        /\ m.base = l.base /\ m.basePayload = l.basePayload
        /\ m.inFlight = l.inFlight /\ m.conflict = l.conflict
    BY <1>1, <1>2, <2>1, RecordedKept
  <2> QED
    BY <1>2, <2>2, LocalFields DEF Kept, RemoteInv, WireKept
<1>3. CASE ~l.bound
  <2>1. m = x /\ m.pending = l.pending /\ m.conflicted = l.conflicted
        /\ m.acknowledged = l.acknowledged
    BY <1>3 DEF LocalEntity
  <2> HIDE DEF x
  <2>2. ~HasMutableRow(l) /\ ~l.conflict.open
    BY <1>3 DEF LocalInv, BindingInv
  <2>3. LocalInv(m)
    BY <1>1, <1>3, <2>1, <2>2
       DEF LocalInv, BindingInv, MirrorInv, ConflictInv, InFlightInv, RowInv, HasMutableRow, Settled
  <2> QED
    BY <1>1, <1>3, <2>1, <2>3 DEF Kept, RemoteInv, WireKept
<1> QED
  BY <1>2, <1>3

\* A new binding of an entity that had none.
LEMMA BindFields ==
    ASSUME NEW l \in LocalEntity, LocalInv(l), ~l.bound,
           NEW revision \in 0 .. MaxSequence, NEW payload \in StoredPayload,
           NEW m, m = Bind(l, revision, payload)
    PROVE  /\ m \in LocalEntity /\ OutboxInv(m)
           /\ m.domain = l.domain /\ m.bound /\ m.base = revision
           /\ m.basePayload = payload /\ m.generation = 0 /\ m.acknowledged = 0
           /\ m.pending = l.pending /\ m.inFlight = l.inFlight /\ m.conflicted = l.conflicted
           /\ m.conflict = l.conflict
           /\ ~HasMutableRow(l) /\ ~l.conflict.open
<1>1. ~HasMutableRow(l) /\ ~l.conflict.open
  BY DEF LocalInv, BindingInv
<1>2. /\ m \in LocalEntity /\ m.domain = l.domain /\ m.bound /\ m.base = revision
      /\ m.basePayload = payload /\ m.generation = 0 /\ m.acknowledged = 0
      /\ m.pending = l.pending /\ m.inFlight = l.inFlight /\ m.conflicted = l.conflicted
      /\ m.conflict = l.conflict
  BY MeshNumbers DEF Bind, LocalEntity
<1> QED
  BY <1>1, <1>2 DEF OutboxInv, QueuedInv, HasMutableRow

\* bindLocalEntities
LEMMA BindLocalKept ==
    ASSUME NEW h, NEW n, NEW k, NEW w, NEW l \in LocalEntity, LocalInv(l),
           RemoteInv(h, n, k, l, w), ~l.bound, l.domain # NoPayload, MaxEdits > 0,
           NEW m, m = Recorded(Bind(l, 0, NoPayload), "create", l.domain)
    PROVE  Kept(h, n, k, l, m, w) /\ m.base = 0
<1>0. PICK x : x = Bind(l, 0, NoPayload)
  OBVIOUS
<1>1. NoPayload \in StoredPayload /\ 0 \in 0 .. MaxSequence /\ "create" \in Operation
  BY MeshNumbers DEF StoredPayload, PayloadOrNull, Operation
<1>2. /\ x \in LocalEntity /\ OutboxInv(x)
      /\ x.domain = l.domain /\ x.base = 0 /\ x.generation = 0
      /\ x.inFlight = l.inFlight /\ x.conflict = l.conflict
      /\ ~HasMutableRow(l) /\ ~l.conflict.open
  BY <1>0, <1>1, BindFields
<1>3. m = Recorded(x, "create", l.domain)
  BY <1>0
<1>4. /\ m \in LocalEntity /\ LocalInv(m) /\ m.base = x.base
      /\ m.inFlight = x.inFlight /\ m.conflict = x.conflict
  BY <1>1, <1>2, <1>3, RecordedKept, LocalFields
<1> QED
  BY <1>2, <1>4 DEF Kept, RemoteInv, WireKept, HasMutableRow

\* A keep-local resolution takes the conflict's remote side as the base and
\* queues the local intent on top of it.
LEMMA KeptLocalKept ==
    ASSUME NEW h, NEW n, NEW k, NEW w, NEW l \in LocalEntity, LocalInv(l),
           RemoteInv(h, n, k, l, w), l.conflict.open, KeptLocal(l).generation <= MaxEdits,
           NEW m, m = KeptLocal(l)
    PROVE  /\ Kept(h, n, k, l, m, w)
           /\ m.bound /\ m.base = l.conflict.remoteRevision /\ ~m.conflict.open
           /\ m.domain = l.domain
<1> DEFINE c == l.conflict
<1>0. PICK based : based = [SetBindingBase(l, c.remoteRevision, c.remote)
                              EXCEPT !.conflict = NoConflict, !.conflicted = NoRow]
  OBVIOUS
<1>1. /\ NoConflict \in ConflictRow /\ NoRow \in Row
      /\ c \in ConflictRow /\ c.remoteRevision \in 0 .. MaxSequence
      /\ c.remote \in StoredPayload /\ c.local \in PayloadOrNull
      /\ ~HasRow(NoRow) /\ ~NoConflict.open
      /\ NoConflict.remoteRevision = 0
  BY MeshNumbers, LocalFields
     DEF NoConflict, ConflictRow, NoRow, Row, StoredPayload, PayloadOrNull, HasRow
<1> HIDE DEF c
<1>2. /\ based.domain = l.domain /\ based.base = c.remoteRevision
      /\ based.basePayload = c.remote /\ based.generation = l.generation
      /\ based.acknowledged = l.acknowledged /\ based.pending = l.pending
      /\ based.inFlight = l.inFlight /\ based.conflicted = NoRow
      /\ based.conflict = NoConflict /\ based.bound = l.bound
      /\ based \in LocalEntity
  BY <1>0, <1>1 DEF SetBindingBase, LocalEntity
<1>3. l.bound /\ OutboxInv(l)
  BY OutboxOfLocal DEF LocalInv, BindingInv
<1>4. /\ OutboxInv(based)
      /\ HasRow(l.inFlight) => c.remoteRevision # 0
  BY <1>1, <1>2, <1>3 DEF OutboxInv, QueuedInv, c
<1>n. /\ l.generation \in Nat /\ l.acknowledged \in Nat
      /\ l.inFlight.generation \in Nat /\ l.conflicted.generation \in Nat
      /\ l.pending.generation \in Nat
  BY MeshNumbers, LocalFields DEF SentRow, Row
<1>5. ASSUME m.bound, m.base = c.remoteRevision, m.basePayload = c.remote,
             m.inFlight = l.inFlight, m.conflict = NoConflict
      PROVE  RemoteInv(h, n, k, m, w) /\ WireKept(l, m)
  BY <1>1, <1>4, <1>5 DEF RemoteInv, WireKept, c
<1>6. CASE HasRow(l.pending)
  <2>1. m = based
    BY <1>0, <1>6 DEF KeptLocal, c
  <2>2. HasMutableRow(m)
    BY <1>2, <1>6, <2>1 DEF HasMutableRow
  <2>3. BindingInv(m) /\ MirrorInv(m) /\ ConflictInv(m)
    BY <1>1, <1>2, <1>3, <2>1, <2>2
       DEF LocalInv, BindingInv, MirrorInv, Settled, Dirty, ConflictInv
  <2>4. InFlightInv(m)
    BY <1>1, <1>2, <1>3, <1>4, <1>6, <1>n, <2>1
       DEF LocalInv, InFlightInv, RowInv, c
  <2>5. RowInv(m, m.pending) /\ RowInv(m, m.inFlight) /\ RowInv(m, m.conflicted)
    BY <1>1, <1>2, <2>1 DEF LocalInv, RowInv
  <2> QED
    BY <1>1, <1>2, <1>3, <1>5, <2>1, <2>3, <2>4, <2>5 DEF Kept, LocalInv, c
<1>7. CASE ~HasRow(l.pending) /\ HasRow(l.conflicted)
  <2>1. ~HasRow(l.inFlight)
    BY <1>7 DEF LocalInv, InFlightInv
  <2>2. CASE l.conflicted.operation = "delete" /\ c.remote = NoPayload
    <3>1. m = based
      BY <1>0, <1>7, <2>2 DEF KeptLocal, c
    <3>2. m.generation > m.acknowledged
      BY <1>2, <1>7, <1>n, <3>1 DEF LocalInv, RowInv
    <3>3. BindingInv(m) /\ MirrorInv(m) /\ ConflictInv(m) /\ InFlightInv(m)
      <4>1. BindingInv(m) /\ MirrorInv(m)
        <5>1. m.generation = l.generation /\ m.acknowledged = l.acknowledged /\ m.bound
          BY <1>2, <1>3, <3>1
        <5> QED
          BY <1>n, <3>2, <5>1 DEF BindingInv, MirrorInv, Settled, Dirty
      <4>2. ConflictInv(m) /\ InFlightInv(m)
        BY <1>1, <1>2, <2>1, <3>1 DEF ConflictInv, InFlightInv
      <4> QED
        BY <4>1, <4>2
    <3>4. RowInv(m, m.pending) /\ RowInv(m, m.inFlight) /\ RowInv(m, m.conflicted)
      BY <1>1, <1>2, <3>1 DEF LocalInv, RowInv
    <3> QED
      BY <1>1, <1>2, <1>3, <1>5, <3>1, <3>3, <3>4 DEF Kept, LocalInv, c
  <2>3. CASE ~(l.conflicted.operation = "delete" /\ c.remote = NoPayload)
    <3>1. m = [based EXCEPT !.pending = l.conflicted]
      BY <1>0, <1>7, <2>3 DEF KeptLocal, c
    <3>2. /\ m.domain = l.domain /\ m.base = c.remoteRevision
          /\ m.basePayload = c.remote /\ m.generation = l.generation
          /\ m.acknowledged = l.acknowledged /\ m.pending = l.conflicted
          /\ m.inFlight = l.inFlight /\ m.conflicted = NoRow
          /\ m.conflict = NoConflict /\ m.bound = l.bound
          /\ m \in LocalEntity
      BY <1>2, <3>1, LocalFields DEF LocalEntity
    <3>3. HasMutableRow(m)
      BY <1>7, <3>2 DEF HasMutableRow
    <3>4. BindingInv(m) /\ MirrorInv(m) /\ ConflictInv(m) /\ InFlightInv(m)
      BY <1>1, <1>3, <2>1, <3>2, <3>3
         DEF LocalInv, BindingInv, MirrorInv, Settled, Dirty, ConflictInv, InFlightInv
    <3>5. RowInv(m, m.pending) /\ RowInv(m, m.inFlight) /\ RowInv(m, m.conflicted)
      BY <1>1, <3>2 DEF LocalInv, RowInv
    <3> QED
      BY <1>1, <1>3, <1>5, <3>2, <3>4, <3>5 DEF Kept, LocalInv, c
  <2> QED
    BY <2>2, <2>3
<1>8. CASE ~HasRow(l.pending) /\ ~HasRow(l.conflicted) /\ c.local # NoPayload
  <2> DEFINE op == IF c.remote = NoPayload THEN "create" ELSE "update"
  <2>1. m = Recorded(based, op, c.local)
    BY <1>0, <1>8 DEF KeptLocal, c
  <2>2. op \in Operation /\ op # "delete"
    BY DEF Operation
  <2> HIDE DEF op
  <2>3. m.generation = l.generation + 1
    BY <1>2, <2>1 DEF Recorded, LocalEntity
  <2>4. based.generation < MaxEdits
    BY <1>2, <1>n, <2>3, MeshNumbers
  <2>5. based.domain # NoPayload => c.local = based.domain
    BY <1>2, <1>8 DEF LocalInv, ConflictInv, c
  <2>6. /\ m \in LocalEntity /\ LocalInv(m) /\ m.bound
        /\ m.base = based.base /\ m.basePayload = based.basePayload
        /\ m.domain = based.domain /\ m.inFlight = based.inFlight
        /\ m.conflict = based.conflict
    BY <1>1, <1>2, <1>4, <1>8, <2>1, <2>2, <2>4, <2>5, RecordedKept
  <2> QED
    BY <1>1, <1>2, <1>5, <2>6 DEF Kept, c
<1>9. CASE ~HasRow(l.pending) /\ ~HasRow(l.conflicted) /\ c.local = NoPayload
  <2>1. m = based
    BY <1>0, <1>9 DEF KeptLocal, c
  <2>2. l.domain = NoPayload
    BY <1>9 DEF LocalInv, ConflictInv, c
  <2>3. BindingInv(m) /\ MirrorInv(m) /\ ConflictInv(m)
    BY <1>1, <1>2, <1>3, <2>1, <2>2 DEF LocalInv, BindingInv, MirrorInv, ConflictInv
  <2>4. InFlightInv(m)
    BY <1>1, <1>2, <1>4, <1>9, <2>1, <2>2 DEF InFlightInv
  <2>5. RowInv(m, m.pending) /\ RowInv(m, m.inFlight) /\ RowInv(m, m.conflicted)
    BY <1>1, <1>2, <2>1 DEF LocalInv, RowInv
  <2> QED
    BY <1>1, <1>2, <1>3, <1>5, <2>1, <2>3, <2>4, <2>5 DEF Kept, LocalInv, c
<1> QED
  BY <1>6, <1>7, <1>8, <1>9

\* Without rows or a conflict, an entity whose edits are acknowledged keeps the
\* promises of its outbox; that it mirrors its base is left to show.
LEMMA CleanEntity ==
    ASSUME NEW l, l \in LocalEntity, ~HasMutableRow(l), ~l.conflict.open,
           l.acknowledged <= l.generation, l.bound \/ l.base = 0, MirrorInv(l)
    PROVE  LocalInv(l)
BY DEF LocalInv, BindingInv, ConflictInv, InFlightInv, RowInv, HasMutableRow

\* A use-remote resolution drops the local rows and takes the remote side.
LEMMA UsedRemoteKept ==
    ASSUME NEW h, NEW n, NEW k, NEW w, NEW l \in LocalEntity, LocalInv(l),
           RemoteInv(h, n, k, l, w), l.conflict.open,
           NEW m, m = UsedRemote(l)
    PROVE  /\ Kept(h, n, k, l, m, w)
           /\ ~m.conflict.open
           /\ IF l.conflict.remote = NoPayload THEN m.base = 0
              ELSE m.bound /\ m.base = l.conflict.remoteRevision
<1> DEFINE c == l.conflict
<1>0. PICK cleared : cleared = [DeleteMutableRows(l) EXCEPT !.conflict = NoConflict]
  OBVIOUS
<1>1. /\ NoConflict \in ConflictRow /\ NoRow \in Row /\ NoSentRow \in SentRow
      /\ c \in ConflictRow /\ c.remoteRevision \in 0 .. MaxSequence
      /\ c.remote \in StoredPayload /\ NoPayload \in StoredPayload
      /\ ~HasRow(NoRow) /\ ~HasRow(NoSentRow) /\ ~NoConflict.open
      /\ NoConflict.remoteRevision = 0 /\ NoPayload \in PayloadOrNull
      /\ c.remote # JsonNull => c.remote \in PayloadOrNull
  BY MeshNumbers, LocalFields DEF NoConflict, ConflictRow, NoRow, Row, NoSentRow, SentRow,
     StoredPayload, PayloadOrNull, HasRow
<1> HIDE DEF c
<1>2. /\ cleared.domain = l.domain /\ cleared.base = l.base
      /\ cleared.basePayload = l.basePayload /\ cleared.generation = l.generation
      /\ cleared.acknowledged = l.acknowledged /\ cleared.pending = NoRow
      /\ cleared.inFlight = NoSentRow /\ cleared.conflicted = NoRow
      /\ cleared.conflict = NoConflict /\ cleared.bound = l.bound
      /\ cleared \in LocalEntity
  BY <1>0, <1>1 DEF DeleteMutableRows, LocalEntity
<1>3. l.bound /\ l.generation \in Edit /\ l.generation \in Nat
  BY MeshNumbers, LocalFields DEF LocalInv, BindingInv, HasMutableRow
<1>4. CASE c.remote = NoPayload
  <2>1. m = [Unbind(cleared) EXCEPT !.domain = NoPayload]
    BY <1>0, <1>4 DEF UsedRemote, c
  <2>2. /\ m.domain = NoPayload /\ m.base = 0
        /\ m.generation = 0 /\ m.acknowledged = 0 /\ m.pending = NoRow
        /\ m.inFlight = NoSentRow /\ m.conflicted = NoRow
        /\ m.conflict = NoConflict
        /\ m \in LocalEntity
    <3>1. PICK u : u = Unbind(cleared)
      OBVIOUS
    <3>2. /\ u.base = 0 /\ u.basePayload = NoPayload /\ u.generation = 0 /\ u.acknowledged = 0
          /\ u.pending = NoRow /\ u.inFlight = NoSentRow /\ u.conflicted = NoRow
          /\ u.conflict = NoConflict /\ ~u.bound /\ u \in LocalEntity
      <4>1. 0 \in 0 .. MaxSequence /\ 0 \in Edit /\ FALSE \in BOOLEAN
        BY MeshNumbers
      <4>2. u \in LocalEntity
        BY <1>1, <1>2, <3>1, <4>1 DEF Unbind, LocalEntity
      <4>3. /\ u.base = 0 /\ u.basePayload = NoPayload /\ u.generation = 0
            /\ u.acknowledged = 0 /\ ~u.bound
        BY <1>2, <3>1 DEF Unbind, LocalEntity
      <4>4. /\ u.pending = NoRow /\ u.inFlight = NoSentRow /\ u.conflicted = NoRow
            /\ u.conflict = NoConflict
        BY <1>2, <3>1 DEF Unbind, LocalEntity
      <4> QED
        BY <4>2, <4>3, <4>4
    <3>3. m = [u EXCEPT !.domain = NoPayload]
      BY <2>1, <3>1
    <3> QED
      BY <1>1, <3>2, <3>3 DEF LocalEntity
  <2>3. LocalInv(m)
    BY <1>1, <2>2, CleanEntity DEF HasMutableRow, MirrorInv
  <2> QED
    BY <1>1, <1>4, <2>2, <2>3 DEF Kept, RemoteInv, WireKept, c
<1>5. ASSUME c.remote # NoPayload,
             /\ m.base = c.remoteRevision /\ m.basePayload = c.remote
             /\ m.generation = l.generation /\ m.acknowledged = l.generation
             /\ m.pending = NoRow /\ m.inFlight = NoSentRow /\ m.conflicted = NoRow
             /\ m.conflict = NoConflict /\ m.bound /\ m \in LocalEntity,
             MirrorInv(m)
      PROVE  /\ Kept(h, n, k, l, m, w) /\ ~m.conflict.open
             /\ m.bound /\ m.base = c.remoteRevision
  <2>1. LocalInv(m)
    BY <1>1, <1>3, <1>5, CleanEntity DEF HasMutableRow
  <2> QED
    BY <1>1, <1>5, <2>1 DEF Kept, RemoteInv, WireKept, c
<1>6. CASE c.remote = JsonNull /\ c.remote # NoPayload
  <2>1. m = WriteBindingBase(cleared, c.remoteRevision, c.remote)
    BY <1>0, <1>6 DEF UsedRemote, c
  <2>2. /\ m.base = c.remoteRevision /\ m.basePayload = c.remote
        /\ m.generation = l.generation /\ m.acknowledged = l.generation
        /\ m.pending = NoRow /\ m.inFlight = NoSentRow /\ m.conflicted = NoRow
        /\ m.conflict = NoConflict /\ m.bound /\ m \in LocalEntity
    BY <1>1, <1>2, <1>3, <2>1
       DEF WriteBindingBase, AcknowledgeEdits, SetBindingBase, LocalEntity
  <2> QED
    BY <1>5, <1>6, <2>2 DEF MirrorInv, c
<1>7. CASE c.remote # JsonNull /\ c.remote # NoPayload
  <2>1. m = [WriteBindingBase(cleared, c.remoteRevision, c.remote) EXCEPT !.domain = c.remote]
    BY <1>0, <1>7 DEF UsedRemote, c
  <2>2. /\ m.base = c.remoteRevision /\ m.basePayload = c.remote
        /\ m.generation = l.generation /\ m.acknowledged = l.generation
        /\ m.pending = NoRow /\ m.inFlight = NoSentRow /\ m.conflicted = NoRow
        /\ m.conflict = NoConflict /\ m.bound /\ m \in LocalEntity /\ m.domain = c.remote
    BY <1>1, <1>2, <1>3, <1>7, <2>1
       DEF WriteBindingBase, AcknowledgeEdits, SetBindingBase, LocalEntity
  <2> QED
    BY <1>5, <1>7, <2>2 DEF MirrorInv, c
<1> QED
  BY <1>4, <1>6, <1>7 DEF c

\* The answer to the dispatched row ends it: the base advances to the accepted
\* revision, or a conflict opens, or the entity stays dirty.
LEMMA AnsweredKept ==
    ASSUME NEW h, NEW n, NEW k, NEW w, NEW l \in LocalEntity, LocalInv(l),
           RemoteInv(h, n, k, l, w), HasRow(l.inFlight), NEW result \in Result,
           NEW c, c.entity = k, c.baseRevision = l.inFlight.baseRevision,
           c.payload = l.inFlight.payload,
           AnswerKnown(h, n, c, result), AnswerNewest(h, k, l, w, result),
           NEW m, m = Answered(l, result)
    PROVE  /\ Kept(h, n, k, l, m, w) /\ ~HasRow(m.inFlight)
           /\ m.domain = l.domain /\ (m.bound <=> l.bound)
           /\ m.base = IF result.status = "accepted" /\ l.base < result.revision
                       THEN result.revision ELSE l.base
           /\ l.conflict.open => m.conflict = l.conflict
<1> DEFINE row == l.inFlight
<1>1. /\ NoSentRow \in SentRow /\ ~HasRow(NoSentRow)
      /\ row \in SentRow /\ row.payload \in PayloadOrNull /\ row.generation \in Edit
      /\ row.operation \in Operation \cup {"none"}
      /\ row.baseRevision \in 0 .. MaxSequence /\ row.generation \in Nat
      /\ result.revision \in 0 .. MaxSequence /\ result.revision \in Nat
      /\ result.payload \in PayloadOrNull
      /\ l.base \in Nat /\ l.generation \in Nat /\ l.acknowledged \in Nat
      /\ row.baseRevision \in Nat
      /\ \A p \in PayloadOrNull : p \in StoredPayload /\ Decoded(p) = p
      /\ Decoded(JsonNull) = NoPayload /\ JsonNull \in StoredPayload
  <2>1. /\ NoSentRow \in SentRow /\ ~HasRow(NoSentRow)
        /\ row \in SentRow /\ row.payload \in PayloadOrNull /\ row.generation \in Edit
        /\ row.operation \in Operation \cup {"none"}
        /\ row.baseRevision \in 0 .. MaxSequence
    BY MeshNumbers, LocalFields DEF NoSentRow, SentRow, HasRow, PayloadOrNull
  <2>2. result.revision \in 0 .. MaxSequence /\ result.payload \in PayloadOrNull
    BY DEF Result
  <2>3. l.base \in Nat /\ l.generation \in Nat /\ l.acknowledged \in Nat
    BY MeshNumbers, LocalFields
  <2>4. /\ \A p \in PayloadOrNull : p \in StoredPayload /\ Decoded(p) = p
        /\ Decoded(JsonNull) = NoPayload /\ JsonNull \in StoredPayload
    BY MeshAssumption DEF PayloadOrNull, StoredPayload, Decoded
  <2> QED
    BY <2>1, <2>2, <2>3, <2>4, MeshNumbers
<1>2. /\ l.bound /\ OutboxInv(l) /\ ~HasRow(l.conflicted)
      /\ l.acknowledged < row.generation /\ row.generation <= l.generation
      /\ row.operation = "delete" <=> row.payload = NoPayload
      /\ HasRow(l.pending) => row.generation < l.pending.generation
  BY OutboxOfLocal DEF LocalInv, BindingInv, InFlightInv, RowInv, HasMutableRow
<1> HIDE DEF row
<1>3. CASE result.status = "accepted"
  <2>1. /\ result.revision = row.baseRevision + 1
        /\ WasAccepted(h, n, k, result.revision, row.payload)
    BY <1>3 DEF AnswerKnown, row
  <2>2. PICK based : based = IF l.base < result.revision
                             THEN SetBindingBase(l, result.revision, row.payload) ELSE l
    OBVIOUS
  <2>3. /\ based.domain = l.domain /\ based.bound = l.bound
        /\ based.base = (IF l.base < result.revision THEN result.revision ELSE l.base)
        /\ based.basePayload = (IF l.base < result.revision THEN row.payload ELSE l.basePayload)
        /\ based.generation = l.generation /\ based.acknowledged = l.acknowledged
        /\ based.pending = l.pending /\ based.inFlight = l.inFlight
        /\ based.conflicted = l.conflicted /\ based.conflict = l.conflict
        /\ based \in LocalEntity
    BY <1>1, <2>2 DEF SetBindingBase, LocalEntity
  <2>4. m = [based EXCEPT !.acknowledged = row.generation, !.inFlight = NoSentRow]
    BY <1>1, <1>2, <1>3, <2>2 DEF Answered, AcceptedLocally, row
  <2>5. /\ m.domain = l.domain /\ m.bound = l.bound
        /\ m.base = (IF l.base < result.revision THEN result.revision ELSE l.base)
        /\ m.basePayload = (IF l.base < result.revision THEN row.payload ELSE l.basePayload)
        /\ m.generation = l.generation /\ m.acknowledged = row.generation
        /\ m.pending = l.pending /\ m.inFlight = NoSentRow
        /\ m.conflicted = l.conflicted /\ m.conflict = l.conflict
        /\ m \in LocalEntity
    BY <1>1, <2>3, <2>4 DEF LocalEntity
  <2>6. BindingInv(m)
    BY <1>2, <2>5 DEF BindingInv
  <2>7. MirrorInv(m)
    <3>1. SUFFICES ASSUME Settled(m), m.domain # NoPayload PROVE m.domain = m.basePayload
      BY DEF MirrorInv
    <3>2. row.generation = l.generation
      BY <1>1, <1>2, <2>5, <3>1 DEF Settled, Dirty
    <3>3. row.payload = l.domain /\ row.baseRevision = l.base
      BY <2>5, <3>1, <3>2 DEF LocalInv, RowInv, InFlightInv, row
    <3> QED
      BY <1>1, <2>1, <2>5, <3>3
  <2>8. ConflictInv(m) /\ InFlightInv(m)
    BY <1>1, <2>5 DEF LocalInv, ConflictInv, InFlightInv
  <2>9. RowInv(m, m.pending) /\ RowInv(m, m.inFlight) /\ RowInv(m, m.conflicted)
    BY <1>1, <1>2, <2>5 DEF LocalInv, RowInv
  <2>10. RemoteInv(h, n, k, m, w)
    <3>1. CASE l.base < result.revision
      BY <1>1, <2>1, <2>5, <3>1 DEF RemoteInv
    <3>2. CASE ~(l.base < result.revision)
      BY <2>5, <3>2 DEF RemoteInv
    <3> QED
      BY <3>1, <3>2
  <2> QED
    BY <1>1, <1>3, <2>5, <2>6, <2>7, <2>8, <2>9, <2>10 DEF Kept, LocalInv, WireKept
<1>4. CASE result.status = "conflict"
  <2> DEFINE remote == IF result.payload = NoPayload THEN JsonNull ELSE result.payload
             conflicted == [operation |-> row.operation, payload |-> row.payload,
                            generation |-> row.generation]
             conflict == IF l.conflict.open THEN l.conflict
                         ELSE [open |-> TRUE, local |-> row.payload, remote |-> remote,
                               remoteRevision |-> result.revision]
  <2>1. /\ conflicted \in Row /\ conflicted.operation = row.operation
        /\ conflicted.payload = row.payload /\ conflicted.generation = row.generation
    BY <1>1 DEF Row
  <2>2. remote \in StoredPayload /\ Decoded(remote) = result.payload
    BY <1>1
  <2> HIDE DEF conflicted, remote
  <2>3. /\ conflict \in ConflictRow /\ conflict.open
        /\ l.conflict.open => conflict = l.conflict
        /\ ~l.conflict.open => /\ conflict.remote = remote
                               /\ conflict.remoteRevision = result.revision
    BY <1>1, <2>2, LocalFields DEF ConflictRow
  <2>4. m = [l EXCEPT !.inFlight = NoSentRow, !.conflicted = conflicted, !.conflict = conflict]
    BY <1>4 DEF Answered, ConflictLocally, conflicted, remote, row
  <2> HIDE DEF conflict
  <2>5. /\ m.domain = l.domain /\ m.bound = l.bound /\ m.base = l.base
        /\ m.basePayload = l.basePayload
        /\ m.generation = l.generation /\ m.acknowledged = l.acknowledged
        /\ m.pending = l.pending /\ m.inFlight = NoSentRow
        /\ m.conflicted = conflicted /\ m.conflict = conflict
        /\ m \in LocalEntity
    BY <1>1, <2>1, <2>3, <2>4 DEF LocalEntity
  <2>6. HasRow(conflicted)
    BY <2>1 DEF HasRow, row
  <2>7. BindingInv(m) /\ MirrorInv(m)
    BY <1>2, <2>3, <2>5 DEF LocalInv, BindingInv, MirrorInv, Settled
  <2>8. ConflictInv(m) /\ InFlightInv(m)
    BY <1>1, <2>3, <2>5, <2>6 DEF ConflictInv, InFlightInv
  <2>9. RowInv(m, m.pending) /\ RowInv(m, m.inFlight) /\ RowInv(m, m.conflicted)
    BY <1>1, <2>1, <2>5 DEF LocalInv, RowInv, row
  <2>10. RemoteInv(h, n, k, m, w)
    <3>1. CASE l.conflict.open
      BY <2>3, <2>5, <3>1 DEF RemoteInv
    <3>2. CASE ~l.conflict.open
      <4>1. conflict.remoteRevision # 0
              => WasAccepted(h, n, k, conflict.remoteRevision, Decoded(conflict.remote))
        BY <1>4, <2>2, <2>3, <3>2 DEF AnswerKnown
      <4>2. l.base = 0 => NoneNewer(h, k, w, conflict.remoteRevision)
        BY <1>4, <2>3, <3>2 DEF AnswerNewest
      <4> QED
        BY <2>5, <4>1, <4>2 DEF RemoteInv
    <3> QED
      BY <3>1, <3>2
  <2> QED
    BY <1>1, <1>4, <2>3, <2>5, <2>7, <2>8, <2>9, <2>10 DEF Kept, LocalInv, WireKept
<1>5. CASE result.status \notin {"accepted", "conflict"}
  <2>1. m = [l EXCEPT !.inFlight = NoSentRow]
    BY <1>5 DEF Answered, RejectedLocally
  <2>2. /\ m.domain = l.domain /\ m.bound = l.bound /\ m.base = l.base
        /\ m.basePayload = l.basePayload
        /\ m.generation = l.generation /\ m.acknowledged = l.acknowledged
        /\ m.pending = l.pending /\ m.inFlight = NoSentRow
        /\ m.conflicted = l.conflicted /\ m.conflict = l.conflict
        /\ m \in LocalEntity
    BY <1>1, <2>1 DEF LocalEntity
  <2>3. m.generation > m.acknowledged
    BY <1>1, <1>2, <2>2
  <2>4. BindingInv(m) /\ MirrorInv(m)
    BY <1>2, <2>2, <2>3 DEF LocalInv, BindingInv, MirrorInv, Settled, Dirty
  <2>5. ConflictInv(m) /\ InFlightInv(m)
    BY <1>1, <2>2 DEF LocalInv, ConflictInv, InFlightInv
  <2>6. RowInv(m, m.pending) /\ RowInv(m, m.inFlight) /\ RowInv(m, m.conflicted)
    BY <1>1, <2>2 DEF LocalInv, RowInv
  <2> QED
    BY <1>1, <1>5, <2>2, <2>4, <2>5, <2>6 DEF Kept, LocalInv, WireKept, RemoteInv
<1> QED
  BY <1>3, <1>4, <1>5

\* insertUnresolvedConflict opens a conflict, or refreshes an open one unless the
\* observation is older.
LEMMA ObservedFields ==
    ASSUME NEW l \in LocalEntity, NEW remote \in StoredPayload,
           NEW revision \in 0 .. MaxSequence, NEW authoritative,
           NEW m, m = ObserveConflict(l, remote, revision, authoritative)
    PROVE  /\ m \in LocalEntity
           /\ m.domain = l.domain /\ (m.bound <=> l.bound) /\ m.base = l.base
           /\ m.basePayload = l.basePayload
           /\ m.generation = l.generation /\ m.acknowledged = l.acknowledged
           /\ m.pending = l.pending /\ m.inFlight = l.inFlight
           /\ m.conflicted = l.conflicted
           /\ m.conflict.open
           /\ l.conflict.open => m.conflict.local = l.conflict.local
           /\ ~l.conflict.open => m.conflict.local = l.domain
           /\ \/ m.conflict.remote = remote /\ m.conflict.remoteRevision = revision
              \/ /\ m.conflict = l.conflict
                 /\ l.conflict.remoteRevision # 0 /\ revision # 0
                 /\ revision < l.conflict.remoteRevision
<1>1. /\ l.conflict \in ConflictRow /\ l.domain \in PayloadOrNull /\ revision \in Nat
      /\ l.conflict.remoteRevision \in Nat
  BY LocalFields, MeshNumbers DEF ConflictRow
<1> DEFINE opened == [open |-> TRUE, local |-> l.domain, remote |-> remote,
                      remoteRevision |-> revision]
           refreshed == [l.conflict EXCEPT !.remote = remote, !.remoteRevision = revision]
<1>2. /\ opened \in ConflictRow /\ opened.open /\ opened.local = l.domain
      /\ opened.remote = remote /\ opened.remoteRevision = revision
  BY <1>1 DEF ConflictRow
<1>3. /\ refreshed \in ConflictRow /\ refreshed.open = l.conflict.open
      /\ refreshed.local = l.conflict.local /\ refreshed.remote = remote
      /\ refreshed.remoteRevision = revision
  BY <1>1 DEF ConflictRow
<1>4. \/ ~l.conflict.open /\ m = [l EXCEPT !.conflict = opened]
      \/ l.conflict.open /\ m = [l EXCEPT !.conflict = refreshed]
      \/ /\ l.conflict.open /\ m = l
         /\ revision # 0 /\ l.conflict.remoteRevision # 0
         /\ revision < l.conflict.remoteRevision
  <2>1. [l EXCEPT !.conflict.remote = remote, !.conflict.remoteRevision = revision]
          = [l EXCEPT !.conflict = refreshed]
    BY <1>1 DEF LocalEntity, ConflictRow
  <2> QED
    BY <1>1, <2>1 DEF ObserveConflict
<1>5. CASE ~l.conflict.open /\ m = [l EXCEPT !.conflict = opened]
  <2> HIDE DEF opened
  <2> QED
    BY <1>2, <1>5 DEF LocalEntity
<1>6. CASE l.conflict.open /\ m = [l EXCEPT !.conflict = refreshed]
  <2> HIDE DEF refreshed
  <2> QED
    BY <1>3, <1>6 DEF LocalEntity
<1>7. CASE /\ l.conflict.open /\ m = l
           /\ revision # 0 /\ l.conflict.remoteRevision # 0
           /\ revision < l.conflict.remoteRevision
  BY <1>7
<1> QED
  BY <1>4, <1>5, <1>6, <1>7

\* An observed conflict keeps what does not speak of the base.
LEMMA ObservedInv ==
    ASSUME NEW l \in LocalEntity, l.bound, BindingInv(l), ConflictInv(l), InFlightInv(l),
           RowInv(l, l.pending), RowInv(l, l.inFlight), RowInv(l, l.conflicted),
           NEW remote \in StoredPayload, NEW revision \in 0 .. MaxSequence, revision # 0,
           NEW authoritative,
           NEW m, m = ObserveConflict(l, remote, revision, authoritative)
    PROVE  LocalInv(m)
<1>1. /\ m.domain = l.domain /\ (m.bound <=> l.bound) /\ m.base = l.base
      /\ m.generation = l.generation /\ m.acknowledged = l.acknowledged
      /\ m.pending = l.pending /\ m.inFlight = l.inFlight
      /\ m.conflicted = l.conflicted /\ m.conflict.open
      /\ l.conflict.open => m.conflict.local = l.conflict.local
      /\ ~l.conflict.open => m.conflict.local = l.domain
      /\ m.conflict.remoteRevision # 0
  BY ObservedFields
<1>2. BindingInv(m) /\ MirrorInv(m)
  BY <1>1 DEF BindingInv, MirrorInv, Settled
<1>3. ConflictInv(m) /\ InFlightInv(m)
  BY <1>1 DEF ConflictInv, InFlightInv
<1>4. RowInv(m, m.pending) /\ RowInv(m, m.inFlight) /\ RowInv(m, m.conflicted)
  BY <1>1 DEF RowInv
<1> QED
  BY <1>2, <1>3, <1>4 DEF LocalInv

\* A remote entity that this device has not bound becomes bound to it; a
\* different local row is left to the user.
LEMMA AdoptedKept ==
    ASSUME NEW h, NEW n, NEW k, NEW w, NEW l \in LocalEntity, LocalInv(l),
           RemoteInv(h, n, k, l, w), ~l.bound,
           NEW revision \in 0 .. MaxSequence, revision # 0, NEW payload \in PayloadOrNull,
           WasAccepted(h, n, k, revision, payload),
           NEW m, m = Adopted(l, revision, payload)
    PROVE  Kept(h, n, k, l, m, w) /\ m.bound /\ m.base = revision /\ ~HasRow(m.inFlight)
<1>1. payload \in StoredPayload /\ Decoded(payload) = payload
  BY MeshAssumption DEF PayloadOrNull, StoredPayload, Decoded
<1>2. PICK x : x = Bind(l, revision, payload)
  OBVIOUS
<1>3. /\ x \in LocalEntity /\ x.domain = l.domain /\ x.bound /\ x.base = revision
      /\ x.basePayload = payload /\ x.generation = 0 /\ x.acknowledged = 0
      /\ x.pending = l.pending /\ x.inFlight = l.inFlight /\ x.conflicted = l.conflicted
      /\ x.conflict = l.conflict /\ ~HasMutableRow(l) /\ ~l.conflict.open
  BY <1>1, <1>2, BindFields
<1>4. ~HasMutableRow(x) /\ ~HasRow(x.inFlight) /\ ~HasRow(x.pending) /\ ~HasRow(x.conflicted)
  BY <1>3 DEF HasMutableRow
<1>5. ASSUME m \in LocalEntity, LocalInv(m), m.bound, m.base = revision,
             m.basePayload = payload, m.inFlight = x.inFlight,
             \/ m.conflict = l.conflict
             \/ m.conflict.remote = payload /\ m.conflict.remoteRevision = revision
      PROVE  Kept(h, n, k, l, m, w) /\ m.bound /\ m.base = revision /\ ~HasRow(m.inFlight)
  BY <1>1, <1>4, <1>5 DEF Kept, RemoteInv, WireKept
<1>6. CASE l.domain = NoPayload
  <2>1. m = [x EXCEPT !.domain = payload]
    BY <1>2, <1>6 DEF Adopted
  <2>2. /\ m \in LocalEntity /\ m.domain = payload /\ m.bound /\ m.base = revision
        /\ m.basePayload = payload /\ m.generation = 0 /\ m.acknowledged = 0
        /\ m.pending = x.pending /\ m.inFlight = x.inFlight /\ m.conflicted = x.conflicted
        /\ m.conflict = l.conflict
    BY <1>3, <2>1 DEF LocalEntity
  <2>3. LocalInv(m)
    BY <1>3, <1>4, <2>2, CleanEntity DEF HasMutableRow, MirrorInv
  <2> QED
    BY <1>5, <2>2, <2>3
<1>7. CASE l.domain # NoPayload /\ l.domain = payload
  <2>1. m = x
    BY <1>2, <1>7 DEF Adopted
  <2>2. LocalInv(m)
    BY <1>3, <1>4, <1>7, <2>1, CleanEntity DEF MirrorInv
  <2> QED
    BY <1>3, <1>5, <2>1, <2>2
<1>8. CASE l.domain # NoPayload /\ l.domain # payload
  <2>1. PICK authoritative : m = ObserveConflict(x, payload, revision, authoritative)
    BY <1>2, <1>8, Zenon DEF Adopted
  <2>2. /\ BindingInv(x) /\ ConflictInv(x) /\ InFlightInv(x)
        /\ RowInv(x, x.pending) /\ RowInv(x, x.inFlight) /\ RowInv(x, x.conflicted)
    BY <1>3, <1>4 DEF BindingInv, ConflictInv, InFlightInv, RowInv
  <2>3. LocalInv(m)
    BY <1>1, <1>3, <2>1, <2>2, ObservedInv
  <2>4. /\ m \in LocalEntity /\ m.bound /\ m.base = x.base
        /\ m.basePayload = x.basePayload /\ m.inFlight = x.inFlight
        /\ m.conflict.remote = payload /\ m.conflict.remoteRevision = revision
    BY <1>1, <1>3, <2>1, ObservedFields
  <2> QED
    BY <1>3, <1>5, <2>3, <2>4
<1> QED
  BY <1>6, <1>7, <1>8

\* A pulled change, the newest one of its entity up to the new cursor v, keeps
\* the promises; afterwards the entity shows it unless it was a deletion of
\* something never bound here or the base is as new.
LEMMA AppliedKept ==
    ASSUME NEW h, NEW n, NEW k, NEW w, NEW v, NEW l \in LocalEntity, LocalInv(l),
           RemoteInv(h, n, k, l, w),
           NEW change, change.revision \in 0 .. MaxSequence, change.revision # 0,
           change.payload \in PayloadOrNull,
           WasAccepted(h, n, k, change.revision, change.payload),
           NoneNewer(h, k, v, change.revision),
           \A s \in Sequence : h[s].revision \in Nat,
           NEW m, m = Applied(l, change)
    PROVE  /\ m \in LocalEntity /\ LocalInv(m) /\ RemoteInv(h, n, k, m, v)
           /\ HasRow(m.inFlight) => /\ m.inFlight = l.inFlight
                                    /\ m.base # 0 \/ m.conflict.open
           /\ \/ ~m.bound /\ m.base = 0 /\ change.operation = "delete"
              \/ m.bound /\ m.base \in Nat /\ m.base >= change.revision
              \/ /\ m.conflict.open /\ m.conflict.remoteRevision \in Nat
                 /\ m.conflict.remoteRevision >= change.revision
           /\ l.bound /\ (Dirty(l) \/ l.conflict.open) => m.domain = l.domain
<1>1. /\ change.payload \in StoredPayload /\ Decoded(change.payload) = change.payload
      /\ change.revision \in Nat /\ l.base \in Nat
      /\ l.conflict.remoteRevision \in Nat
  BY MeshAssumption, MeshNumbers, LocalFields
     DEF PayloadOrNull, StoredPayload, Decoded, ConflictRow
<1>2. CASE ~l.bound /\ change.operation = "delete"
  <2>1. m = l
    BY <1>2 DEF Applied
  <2>2. l.base = 0 /\ ~l.conflict.open /\ ~HasRow(l.inFlight)
    BY <1>2 DEF LocalInv, BindingInv, HasMutableRow
  <2> QED
    BY <1>2, <2>1, <2>2 DEF RemoteInv
<1>3. CASE ~l.bound /\ change.operation # "delete"
  <2>1. m = Adopted(l, change.revision, change.payload)
    BY <1>3 DEF Applied
  <2>2. Kept(h, n, k, l, m, w) /\ m.bound /\ m.base = change.revision /\ ~HasRow(m.inFlight)
    BY <1>3, <2>1, AdoptedKept
  <2> QED
    BY <1>1, <1>3, <2>2 DEF Kept, RemoteInv
<1>4. CASE l.bound /\ change.revision <= l.base
  <2>1. m = l
    BY <1>4 DEF Applied
  <2>2. l.base # 0
    BY <1>1, <1>4
  <2> QED
    BY <1>1, <1>4, <2>1, <2>2 DEF RemoteInv
<1>5. CASE l.bound /\ ~(change.revision <= l.base) /\ (l.conflict.open \/ Dirty(l))
  <2>1. PICK authoritative :
           m = ObserveConflict(l, change.payload, change.revision, authoritative)
    <3>1. m = ObserveConflict(l, change.payload, change.revision, FALSE)
      BY <1>5 DEF Applied
    <3> QED
      BY <3>1, Zenon
  <2>2. LocalInv(m)
    BY <1>1, <1>5, <2>1, ObservedInv DEF LocalInv
  <2>3. /\ m \in LocalEntity /\ m.base = l.base /\ m.domain = l.domain
        /\ m.basePayload = l.basePayload /\ m.inFlight = l.inFlight /\ m.conflict.open
        /\ \/ /\ m.conflict.remote = change.payload
              /\ m.conflict.remoteRevision = change.revision
           \/ /\ m.conflict = l.conflict /\ l.conflict.remoteRevision # 0
              /\ change.revision < l.conflict.remoteRevision
    BY <1>1, <2>1, ObservedFields
  <2>4. m.conflict.remoteRevision \in Nat /\ m.conflict.remoteRevision >= change.revision
    BY <1>1, <2>3
  <2>5. NoneNewer(h, k, v, m.conflict.remoteRevision)
    BY <1>1, <2>4 DEF NoneNewer
  <2>6. RemoteInv(h, n, k, m, v)
    BY <1>1, <2>3, <2>5 DEF RemoteInv
  <2> QED
    BY <2>2, <2>3, <2>4, <2>6
<1>6. CASE l.bound /\ ~(change.revision <= l.base) /\ ~l.conflict.open /\ ~Dirty(l)
  <2>1. PICK x : x = WriteBindingBase(l, change.revision, change.payload)
    OBVIOUS
  <2>2. /\ x \in LocalEntity /\ x.bound = l.bound /\ x.base = change.revision
        /\ x.basePayload = change.payload /\ x.generation = l.generation
        /\ x.acknowledged = l.generation /\ x.pending = l.pending
        /\ x.inFlight = l.inFlight /\ x.conflicted = l.conflicted /\ x.conflict = l.conflict
    BY <1>1, <2>1 DEF WriteBindingBase, AcknowledgeEdits, SetBindingBase, LocalEntity
  <2>3. m = [x EXCEPT !.domain = change.payload]
    BY <1>6, <2>1 DEF Applied
  <2>4. /\ m \in LocalEntity /\ m.bound = l.bound /\ m.base = change.revision
        /\ m.basePayload = change.payload /\ m.generation = l.generation
        /\ m.acknowledged = l.generation /\ m.pending = l.pending
        /\ m.inFlight = l.inFlight /\ m.conflicted = l.conflicted /\ m.conflict = l.conflict
        /\ m.domain = change.payload
    BY <2>2, <2>3 DEF LocalEntity
  <2>5. ~HasMutableRow(m) /\ ~HasRow(m.inFlight) /\ m.generation \in Nat
    BY <1>6, <2>4, MeshNumbers, LocalFields DEF Dirty, HasMutableRow
  <2>6. m.bound /\ ~m.conflict.open /\ m.acknowledged <= m.generation /\ MirrorInv(m)
    BY <1>6, <2>4, <2>5 DEF MirrorInv
  <2>7. LocalInv(m)
    BY <2>4, <2>5, <2>6, CleanEntity
  <2> QED
    BY <1>1, <1>6, <2>4, <2>5, <2>6, <2>7 DEF RemoteInv
<1> QED
  BY <1>2, <1>3, <1>4, <1>5, <1>6

\* The dispatched row is taken back.
Withdrawn(l) == [l EXCEPT !.inFlight = NoSentRow]

\* A conflict observed while the dispatched row is withdrawn: the entity stays
\* what it was but for its base.
LEMMA ObservedOnNewBase ==
    ASSUME NEW l \in LocalEntity, LocalInv(l), l.bound,
           NEW base \in 0 .. MaxSequence, NEW basePayload \in StoredPayload,
           NEW remote \in StoredPayload, NEW revision \in 0 .. MaxSequence, NEW authoritative,
           NEW x, x = SetBindingBase(l, base, basePayload),
           NEW o, o = ObserveConflict(x, remote, revision, authoritative),
           NEW m, m = Withdrawn(o)
    PROVE  /\ m \in LocalEntity /\ LocalInv(m)
           /\ m.bound /\ m.domain = l.domain /\ m.base = base /\ m.basePayload = basePayload
           /\ ~HasRow(m.inFlight) /\ m.conflict.open
           /\ \/ m.conflict.remote = remote /\ m.conflict.remoteRevision = revision
              \/ m.conflict = l.conflict /\ revision # 0
<1>2. /\ x \in LocalEntity /\ x.domain = l.domain /\ (x.bound <=> l.bound) /\ x.base = base
      /\ x.basePayload = basePayload /\ x.generation = l.generation
      /\ x.acknowledged = l.acknowledged /\ x.pending = l.pending
      /\ x.conflicted = l.conflicted /\ x.conflict = l.conflict
  BY DEF SetBindingBase, LocalEntity
<1>4. /\ o \in LocalEntity
      /\ o.domain = x.domain /\ (o.bound <=> x.bound) /\ o.base = x.base
      /\ o.basePayload = x.basePayload
      /\ o.generation = x.generation /\ o.acknowledged = x.acknowledged
      /\ o.pending = x.pending /\ o.conflicted = x.conflicted
      /\ o.conflict.open
      /\ x.conflict.open => o.conflict.local = x.conflict.local
      /\ ~x.conflict.open => o.conflict.local = x.domain
      /\ \/ o.conflict.remote = remote /\ o.conflict.remoteRevision = revision
         \/ o.conflict = x.conflict /\ revision # 0
  <2>1. x \in LocalEntity /\ o = ObserveConflict(x, remote, revision, authoritative)
    BY <1>2
  <2> QED
    BY <2>1, ObservedFields
<1>5. NoSentRow \in SentRow /\ ~HasRow(NoSentRow)
  BY MeshNumbers, CoordinatorAssumption DEF NoSentRow, SentRow, HasRow, PayloadOrNull
<1>7. /\ m \in LocalEntity /\ m.domain = o.domain /\ m.bound = o.bound /\ m.base = o.base
      /\ m.basePayload = o.basePayload /\ m.generation = o.generation
      /\ m.acknowledged = o.acknowledged /\ m.pending = o.pending
      /\ m.inFlight = NoSentRow /\ m.conflicted = o.conflicted /\ m.conflict = o.conflict
  BY <1>4, <1>5 DEF Withdrawn, LocalEntity
<1>8. /\ m.domain = l.domain /\ m.bound /\ m.base = base /\ m.basePayload = basePayload
      /\ m.generation = l.generation /\ m.acknowledged = l.acknowledged
      /\ m.pending = l.pending /\ ~HasRow(m.inFlight) /\ m.conflicted = l.conflicted
      /\ m.conflict.open
      /\ l.conflict.open => m.conflict.local = l.conflict.local
      /\ ~l.conflict.open => m.conflict.local = l.domain
  BY <1>2, <1>4, <1>5, <1>7
<1>9. BindingInv(m) /\ MirrorInv(m)
  BY <1>8 DEF LocalInv, BindingInv, MirrorInv, Settled
<1>10. ConflictInv(m) /\ InFlightInv(m)
  BY <1>8 DEF LocalInv, ConflictInv, InFlightInv
<1>11. RowInv(m, m.pending) /\ RowInv(m, m.inFlight) /\ RowInv(m, m.conflicted)
  BY <1>8 DEF LocalInv, RowInv
<1> QED
  BY <1>2, <1>4, <1>7, <1>8, <1>9, <1>10, <1>11 DEF LocalInv

\* A staged head of an entity, from an activated rebuild, becomes its base.
LEMMA ActivatedPresentKept ==
    ASSUME NEW h, NEW n, NEW k, NEW w, NEW v, NEW l \in LocalEntity, LocalInv(l),
           RemoteInv(h, n, k, l, w), NEW head \in EntityRow, head.revision # 0,
           WasAccepted(h, n, k, head.revision, head.payload),
           head.operation = "delete" => head.payload = NoPayload,
           NEW m, m = ActivatedPresent(l, head)
    PROVE  /\ m \in LocalEntity /\ LocalInv(m) /\ RemoteInv(h, n, k, m, v)
           /\ ~HasRow(m.inFlight) /\ m.bound /\ m.base = head.revision
           /\ l.bound /\ (Dirty(l) \/ l.conflict.open) => m.domain = l.domain
<1>1. /\ head.revision \in 0 .. MaxSequence /\ head.payload \in PayloadOrNull
      /\ head.payload \in StoredPayload /\ Decoded(head.payload) = head.payload
      /\ NoPayload \in PayloadOrNull /\ NoPayload \in StoredPayload
      /\ NoSentRow \in SentRow /\ ~HasRow(NoSentRow)
      /\ NoRow \in Row /\ ~HasRow(NoRow) /\ NoConflict \in ConflictRow
      /\ ~NoConflict.open /\ NoConflict.remoteRevision = 0
  <2>1. head.revision \in 0 .. MaxSequence /\ head.payload \in PayloadOrNull
    BY DEF EntityRow
  <2>2. /\ head.payload \in StoredPayload /\ Decoded(head.payload) = head.payload
        /\ NoPayload \in PayloadOrNull /\ NoPayload \in StoredPayload
    BY <2>1, MeshAssumption DEF PayloadOrNull, StoredPayload, Decoded
  <2>3. NoSentRow \in SentRow /\ ~HasRow(NoSentRow) /\ NoRow \in Row /\ ~HasRow(NoRow)
    BY <2>2, MeshNumbers DEF NoSentRow, SentRow, HasRow, NoRow, Row
  <2>4. /\ NoConflict \in ConflictRow /\ ~NoConflict.open
        /\ NoConflict.remoteRevision = 0
    BY <2>2, MeshNumbers DEF NoConflict, ConflictRow
  <2> QED
    BY <2>1, <2>2, <2>3, <2>4
<1>2. ASSUME m \in LocalEntity, LocalInv(m), ~HasRow(m.inFlight), m.bound,
             m.base = head.revision, m.basePayload = head.payload,
             l.bound /\ (Dirty(l) \/ l.conflict.open) => m.domain = l.domain,
             \/ m.conflict = l.conflict \/ m.conflict.remoteRevision = 0
             \/ /\ m.conflict.remote = head.payload
                /\ m.conflict.remoteRevision = head.revision
      PROVE  /\ m \in LocalEntity /\ LocalInv(m) /\ RemoteInv(h, n, k, m, v)
             /\ ~HasRow(m.inFlight) /\ m.bound /\ m.base = head.revision
             /\ l.bound /\ (Dirty(l) \/ l.conflict.open) => m.domain = l.domain
  BY <1>1, <1>2 DEF RemoteInv
<1>3. CASE ~l.bound /\ head.operation # "delete"
  <2>1. m = Adopted(l, head.revision, head.payload)
    BY <1>3 DEF ActivatedPresent
  <2>2. Kept(h, n, k, l, m, w) /\ m.bound /\ m.base = head.revision /\ ~HasRow(m.inFlight)
    BY <1>1, <1>3, <2>1, AdoptedKept
  <2> QED
    BY <1>3, <2>2 DEF Kept, RemoteInv
<1>4. CASE ~l.bound /\ head.operation = "delete"
  <2>1. PICK x : x = Bind(l, head.revision, NoPayload)
    OBVIOUS
  <2>2. /\ x \in LocalEntity /\ x.domain = l.domain /\ x.bound /\ x.base = head.revision
        /\ x.basePayload = NoPayload /\ x.generation = 0 /\ x.acknowledged = 0
        /\ x.pending = l.pending /\ x.inFlight = l.inFlight /\ x.conflicted = l.conflicted
        /\ x.conflict = l.conflict /\ ~HasMutableRow(l) /\ ~l.conflict.open
    BY <1>1, <1>4, <2>1, BindFields
  <2>3. ~HasMutableRow(x) /\ ~HasRow(x.inFlight) /\ ~HasRow(x.pending) /\ ~HasRow(x.conflicted)
    BY <2>2 DEF HasMutableRow
  <2>4. head.payload = NoPayload
    BY <1>4
  <2>5. CASE l.domain = NoPayload
    <3>1. m = x
      BY <1>4, <2>1, <2>5 DEF ActivatedPresent
    <3>2. LocalInv(m)
      BY <2>2, <2>3, <2>5, <3>1, CleanEntity DEF MirrorInv
    <3> QED
      BY <1>2, <1>4, <2>2, <2>3, <2>4, <3>1, <3>2
  <2>6. CASE l.domain # NoPayload
    <3>1. PICK authoritative :
             m = ObserveConflict(x, NoPayload, head.revision, authoritative)
      <4>1. m = ObserveConflict(x, NoPayload, head.revision, TRUE)
        BY <1>4, <2>1, <2>6 DEF ActivatedPresent
      <4> QED
        BY <4>1, Zenon
    <3>2. /\ BindingInv(x) /\ ConflictInv(x) /\ InFlightInv(x)
          /\ RowInv(x, x.pending) /\ RowInv(x, x.inFlight) /\ RowInv(x, x.conflicted)
      BY <2>2, <2>3 DEF BindingInv, ConflictInv, InFlightInv, RowInv
    <3>3. LocalInv(m)
      BY <1>1, <2>2, <3>1, <3>2, ObservedInv
    <3>4. /\ m \in LocalEntity /\ m.bound /\ m.base = x.base
          /\ m.basePayload = x.basePayload /\ m.inFlight = x.inFlight
          /\ \/ m.conflict.remote = NoPayload /\ m.conflict.remoteRevision = head.revision
             \/ m.conflict = x.conflict
      BY <1>1, <2>2, <3>1, ObservedFields
    <3> QED
      BY <1>2, <1>4, <2>2, <2>3, <2>4, <3>3, <3>4
  <2> QED
    BY <2>5, <2>6
<1>5. PICK based : based = SetBindingBase(l, head.revision, head.payload)
  OBVIOUS
<1>6. /\ based \in LocalEntity /\ based.domain = l.domain /\ based.bound = l.bound
      /\ based.base = head.revision /\ based.basePayload = head.payload
      /\ based.generation = l.generation /\ based.acknowledged = l.acknowledged
      /\ based.pending = l.pending /\ based.inFlight = l.inFlight
      /\ based.conflicted = l.conflicted /\ based.conflict = l.conflict
  BY <1>1, <1>5 DEF SetBindingBase, LocalEntity
<1>n. l.generation \in Edit /\ l.generation \in Nat /\ l.acknowledged <= l.generation
  BY MeshNumbers, LocalFields DEF LocalInv, BindingInv
<1>7. CASE l.bound /\ ~Dirty(l) /\ ~l.conflict.open
  <2>1. m = [based EXCEPT !.domain = head.payload]
    BY <1>5, <1>7 DEF ActivatedPresent
  <2>2. /\ m \in LocalEntity /\ m.domain = head.payload /\ m.bound
        /\ m.base = head.revision /\ m.basePayload = head.payload
        /\ m.generation = l.generation /\ m.acknowledged = l.acknowledged
        /\ m.pending = l.pending /\ m.inFlight = l.inFlight
        /\ m.conflicted = l.conflicted /\ m.conflict = l.conflict
    BY <1>1, <1>6, <1>7, <2>1 DEF LocalEntity
  <2>3. ~HasMutableRow(m) /\ ~HasRow(m.inFlight) /\ MirrorInv(m)
    BY <1>7, <2>2 DEF Dirty, HasMutableRow, MirrorInv
  <2>4. LocalInv(m)
    BY <1>7, <1>n, <2>2, <2>3, CleanEntity
  <2> QED
    BY <1>2, <1>7, <2>2, <2>3, <2>4
<1>8. CASE /\ l.bound /\ (Dirty(l) \/ l.conflict.open)
           /\ l.domain # NoPayload /\ l.domain = head.payload
  <2>1. PICK a : a = AcknowledgeEdits(based)
    OBVIOUS
  <2>2. /\ a \in LocalEntity /\ a.domain = l.domain /\ a.bound = l.bound
        /\ a.base = head.revision /\ a.basePayload = head.payload
        /\ a.generation = l.generation /\ a.acknowledged = l.generation
    BY <1>6, <1>n, <2>1 DEF AcknowledgeEdits, LocalEntity
  <2>3. PICK x : x = DeleteMutableRows(a)
    OBVIOUS
  <2>4. /\ x \in LocalEntity /\ x.domain = l.domain /\ x.bound = l.bound
        /\ x.base = head.revision /\ x.basePayload = head.payload
        /\ x.generation = l.generation /\ x.acknowledged = l.generation
        /\ x.pending = NoRow /\ x.inFlight = NoSentRow /\ x.conflicted = NoRow
    BY <1>1, <2>2, <2>3 DEF DeleteMutableRows, LocalEntity
  <2>5. m = [x EXCEPT !.conflict = NoConflict]
    BY <1>5, <1>8, <2>1, <2>3 DEF ActivatedPresent
  <2>6. /\ m \in LocalEntity /\ m.domain = l.domain /\ m.bound
        /\ m.base = head.revision /\ m.basePayload = head.payload
        /\ m.generation = l.generation /\ m.acknowledged = l.generation
        /\ m.pending = NoRow /\ m.inFlight = NoSentRow /\ m.conflicted = NoRow
        /\ m.conflict = NoConflict
    BY <1>1, <1>8, <2>4, <2>5 DEF LocalEntity
  <2>7. ~HasMutableRow(m) /\ ~HasRow(m.inFlight) /\ MirrorInv(m)
    BY <1>1, <1>8, <2>6 DEF HasMutableRow, MirrorInv
  <2>8. LocalInv(m)
    BY <1>1, <1>n, <2>6, <2>7, CleanEntity
  <2> QED
    BY <1>1, <1>2, <2>6, <2>7, <2>8
<1>9. CASE /\ l.bound /\ (Dirty(l) \/ l.conflict.open)
           /\ ~(l.domain # NoPayload /\ l.domain = head.payload)
  <2>1. PICK authoritative, o :
           /\ o = ObserveConflict(based, head.payload, head.revision, authoritative)
           /\ m = Withdrawn(o)
    <3>1. m = Withdrawn(ObserveConflict(based, head.payload, head.revision, TRUE))
      BY <1>5, <1>9 DEF ActivatedPresent, Withdrawn
    <3> QED
      BY <3>1, Zenon
  <2>2. /\ m \in LocalEntity /\ LocalInv(m)
        /\ m.bound /\ m.domain = l.domain /\ m.base = head.revision
        /\ m.basePayload = head.payload /\ ~HasRow(m.inFlight)
        /\ \/ m.conflict.remote = head.payload /\ m.conflict.remoteRevision = head.revision
           \/ m.conflict = l.conflict
    BY <1>1, <1>5, <1>9, <2>1, ObservedOnNewBase
  <2> QED
    BY <1>2, <2>2
<1> QED
  BY <1>3, <1>4, <1>7, <1>8, <1>9

\* An entity that the staged heads do not have loses its base, and the local
\* work on it becomes a conflict with its absence.
LEMMA ActivatedAbsentKept ==
    ASSUME NEW h, NEW n, NEW k, NEW w, NEW v, NEW l \in LocalEntity, LocalInv(l),
           RemoteInv(h, n, k, l, w),
           NEW m, m = ActivatedAbsent(l)
    PROVE  /\ m \in LocalEntity /\ LocalInv(m) /\ RemoteInv(h, n, k, m, v)
           /\ ~HasRow(m.inFlight)
           /\ l.bound /\ Dirty(l) => m.domain = l.domain
           /\ l.bound /\ l.conflict.open => m.domain = l.domain
<1>1. /\ NoPayload \in PayloadOrNull /\ NoPayload \in StoredPayload
      /\ NoSentRow \in SentRow /\ ~HasRow(NoSentRow)
      /\ NoRow \in Row /\ ~HasRow(NoRow) /\ NoConflict \in ConflictRow
      /\ ~NoConflict.open /\ NoConflict.remoteRevision = 0
      /\ 0 \in 0 .. MaxSequence /\ 0 \in Edit
  <2>1. NoPayload \in PayloadOrNull /\ NoPayload \in StoredPayload
    BY DEF PayloadOrNull, StoredPayload
  <2>2. NoSentRow \in SentRow /\ ~HasRow(NoSentRow) /\ NoRow \in Row /\ ~HasRow(NoRow)
    BY <2>1, MeshNumbers DEF NoSentRow, SentRow, HasRow, NoRow, Row
  <2>3. /\ NoConflict \in ConflictRow /\ ~NoConflict.open
        /\ NoConflict.remoteRevision = 0
    BY <2>1, MeshNumbers DEF NoConflict, ConflictRow
  <2>4. 0 \in 0 .. MaxSequence /\ 0 \in Edit
    BY MeshNumbers
  <2> QED
    BY <2>1, <2>2, <2>3, <2>4
<1>2. CASE ~l.bound
  <2>1. m = l
    BY <1>2 DEF ActivatedAbsent
  <2>2. ~HasRow(l.inFlight) /\ ~l.conflict.open
    BY <1>2 DEF LocalInv, BindingInv, HasMutableRow
  <2> QED
    BY <1>2, <2>1, <2>2 DEF RemoteInv
<1>3. ASSUME NEW x \in LocalEntity, ~HasMutableRow(x), ~x.conflict.open,
             x.conflict = l.conflict \/ x.conflict = NoConflict,
             m = Unbind(x) \/ m = [Unbind(x) EXCEPT !.domain = NoPayload]
      PROVE  /\ m \in LocalEntity /\ LocalInv(m) /\ RemoteInv(h, n, k, m, v)
             /\ ~HasRow(m.inFlight)
  <2>1. PICK u : u = Unbind(x)
    OBVIOUS
  <2>2. /\ u.base = 0 /\ u.basePayload = NoPayload /\ u.generation = 0 /\ u.acknowledged = 0
        /\ ~u.bound /\ u \in LocalEntity
    BY <1>1, <2>1 DEF Unbind, LocalEntity
  <2>3. /\ u.pending = x.pending /\ u.inFlight = x.inFlight /\ u.conflicted = x.conflicted
        /\ u.conflict = x.conflict
    BY <2>1 DEF Unbind, LocalEntity
  <2>4. /\ m.base = 0 /\ m.generation = 0 /\ m.acknowledged = 0
        /\ ~m.bound /\ m \in LocalEntity
        /\ m.pending = x.pending /\ m.inFlight = x.inFlight /\ m.conflicted = x.conflicted
        /\ m.conflict = x.conflict
    <3>1. CASE m = Unbind(x)
      BY <2>1, <2>2, <2>3, <3>1
    <3>2. CASE m = [Unbind(x) EXCEPT !.domain = NoPayload]
      <4>1. m = [u EXCEPT !.domain = NoPayload]
        BY <2>1, <3>2
      <4> QED
        BY <1>1, <2>2, <2>3, <4>1 DEF LocalEntity
    <3> QED
      BY <1>3, <3>1, <3>2
  <2>5. ~HasMutableRow(m) /\ ~HasRow(m.inFlight) /\ ~m.conflict.open
    BY <1>3, <2>4 DEF HasMutableRow
  <2>6. LocalInv(m)
    BY <2>4, <2>5, CleanEntity DEF MirrorInv, Settled
  <2>7. RemoteInv(h, n, k, m, v)
    BY <1>1, <1>3, <2>4, <2>5 DEF RemoteInv
  <2> QED
    BY <2>4, <2>5, <2>6, <2>7
<1>4. CASE l.bound /\ ~Dirty(l) /\ ~l.conflict.open
  <2>1. m = [Unbind(l) EXCEPT !.domain = NoPayload] /\ ~HasMutableRow(l)
    BY <1>4 DEF ActivatedAbsent, Dirty
  <2> QED
    BY <1>3, <1>4, <2>1
<1>5. CASE l.bound /\ (Dirty(l) \/ l.conflict.open) /\ l.domain = NoPayload
  <2>1. PICK a : a = DeleteMutableRows(l)
    OBVIOUS
  <2>2. /\ a \in LocalEntity /\ a.domain = l.domain
        /\ a.pending = NoRow /\ a.inFlight = NoSentRow /\ a.conflicted = NoRow
        /\ a.conflict = l.conflict
    BY <1>1, <2>1 DEF DeleteMutableRows, LocalEntity
  <2>3. PICK x : x = [a EXCEPT !.conflict = NoConflict]
    OBVIOUS
  <2>4. /\ x \in LocalEntity /\ x.domain = NoPayload /\ x.conflict = NoConflict
        /\ x.pending = NoRow /\ x.inFlight = NoSentRow /\ x.conflicted = NoRow
    BY <1>1, <1>5, <2>2, <2>3 DEF LocalEntity
  <2>5. m = [Unbind(a) EXCEPT !.conflict = NoConflict]
    BY <1>5, <2>1 DEF ActivatedAbsent
  <2>6. m = Unbind(x)
    BY <2>2, <2>3, <2>5 DEF Unbind, LocalEntity
  <2>7. ~HasMutableRow(x)
    BY <1>1, <2>4 DEF HasMutableRow
  <2>8. m.domain = x.domain
    BY <2>4, <2>6 DEF Unbind, LocalEntity
  <2> QED
    BY <1>1, <1>3, <1>5, <2>4, <2>6, <2>7, <2>8
<1>6. CASE l.bound /\ (Dirty(l) \/ l.conflict.open) /\ l.domain # NoPayload
  <2>1. PICK zero : zero = 0
    OBVIOUS
  <2>2. PICK authoritative, x, o :
           /\ x = SetBindingBase(l, zero, NoPayload)
           /\ o = ObserveConflict(x, NoPayload, zero, authoritative)
           /\ m = Withdrawn(o)
    <3>1. m = Withdrawn(ObserveConflict(SetBindingBase(l, zero, NoPayload), NoPayload, zero,
                                        FALSE))
      BY <1>6, <2>1 DEF ActivatedAbsent, Withdrawn
    <3> QED
      BY <3>1, Zenon
  <2>3. /\ m \in LocalEntity /\ LocalInv(m)
        /\ m.bound /\ m.domain = l.domain /\ m.base = zero
        /\ ~HasRow(m.inFlight) /\ m.conflict.open
        /\ \/ m.conflict.remote = NoPayload /\ m.conflict.remoteRevision = zero
           \/ m.conflict = l.conflict /\ zero # 0
    BY <1>1, <1>6, <2>1, <2>2, ObservedOnNewBase
  <2> QED
    BY <2>1, <2>3 DEF RemoteInv
<1> QED
  BY <1>2, <1>4, <1>5, <1>6

\* Activation of a staged rebuild, one entity.
LEMMA ActivatedKept ==
    ASSUME NEW h, NEW n, NEW k, NEW w, NEW v, NEW l \in LocalEntity, LocalInv(l),
           RemoteInv(h, n, k, l, w), NEW head \in EntityRow,
           head.revision # 0 =>
              /\ WasAccepted(h, n, k, head.revision, head.payload)
              /\ head.operation = "delete" => head.payload = NoPayload,
           NEW m, m = Activated(l, head)
    PROVE  /\ m \in LocalEntity /\ LocalInv(m) /\ RemoteInv(h, n, k, m, v)
           /\ ~HasRow(m.inFlight)
           /\ head.revision # 0 => m.bound /\ m.base = head.revision
           /\ l.bound /\ (Dirty(l) \/ l.conflict.open) => m.domain = l.domain
<1>1. CASE head.revision = 0
  <2>1. m = ActivatedAbsent(l)
    BY <1>1 DEF Activated
  <2> QED
    BY <1>1, <2>1, ActivatedAbsentKept
<1>2. CASE head.revision # 0
  <2>1. m = ActivatedPresent(l, head)
    BY <1>2 DEF Activated
  <2> QED
    BY <1>2, <2>1, ActivatedPresentKept
<1> QED
  BY <1>1, <1>2

\* A deletion of something the account never saw is dropped from the queue.
LEMMA DroppedKept ==
    ASSUME NEW h, NEW n, NEW k, NEW w, NEW l \in LocalEntity, LocalInv(l),
           RemoteInv(h, n, k, l, w), HasRow(l.pending), ~l.conflict.open,
           NEW m, m = [l EXCEPT !.pending = NoRow]
    PROVE  /\ Kept(h, n, k, l, m, w)
           /\ m.domain = l.domain /\ (m.bound <=> l.bound) /\ m.base = l.base
           /\ m.conflict = l.conflict /\ m.generation = l.generation
<1>1. NoRow \in Row /\ ~HasRow(NoRow)
  BY MeshNumbers DEF NoRow, Row, HasRow, PayloadOrNull
<1>2. /\ m \in LocalEntity /\ m.domain = l.domain /\ m.bound = l.bound /\ m.base = l.base
      /\ m.basePayload = l.basePayload /\ m.generation = l.generation
      /\ m.acknowledged = l.acknowledged /\ m.pending = NoRow
      /\ m.inFlight = l.inFlight /\ m.conflicted = l.conflicted /\ m.conflict = l.conflict
  BY <1>1 DEF LocalEntity
<1>3. l.acknowledged \in Nat /\ l.generation \in Nat /\ l.pending.generation \in Nat
  BY MeshNumbers, LocalFields DEF Row
<1>4. m.generation > m.acknowledged
  BY <1>2, <1>3 DEF LocalInv, RowInv
<1>5. l.bound
  BY DEF LocalInv, BindingInv, HasMutableRow
<1>6. BindingInv(m) /\ MirrorInv(m)
  BY <1>2, <1>3, <1>4, <1>5 DEF BindingInv, MirrorInv, Settled, Dirty
<1>7. ConflictInv(m) /\ InFlightInv(m)
  BY <1>1, <1>2 DEF LocalInv, ConflictInv, InFlightInv
<1>8. RowInv(m, m.pending) /\ RowInv(m, m.inFlight) /\ RowInv(m, m.conflicted)
  BY <1>1, <1>2 DEF LocalInv, RowInv
<1> QED
  BY <1>2, <1>5, <1>6, <1>7, <1>8 DEF Kept, LocalInv, WireKept, RemoteInv

\* What Dispatch puts on the wire, and what it leaves in the queue.
DispatchedRow(l, number) ==
    [operation |-> WireOperation(l), payload |-> l.pending.payload,
     generation |-> l.pending.generation, baseRevision |-> l.base, sequence |-> number]
WithDispatched(l, row) == [l EXCEPT !.pending = NoRow, !.inFlight = row]

\* The row that nextBatch puts on the wire: its operation, normalised against the
\* base, passes the coordinator's structural checks.
LEMMA DispatchedKept ==
    ASSUME NEW h, NEW n, NEW k, NEW w, NEW l \in LocalEntity, LocalInv(l),
           RemoteInv(h, n, k, l, w), HasRow(l.pending), ~l.conflict.open,
           ~HasRow(l.inFlight), ~(l.pending.operation = "delete" /\ l.base = 0),
           NEW number \in EnrollmentSequence,
           NEW row, row = DispatchedRow(l, number),
           NEW m, m = WithDispatched(l, row)
    PROVE  /\ m \in LocalEntity /\ LocalInv(m) /\ RemoteInv(h, n, k, m, w)
           /\ m.inFlight = row /\ row.sequence = number
           /\ m.domain = l.domain /\ (m.bound <=> l.bound) /\ m.base = l.base
           /\ m.conflict = l.conflict /\ m.generation = l.generation
           /\ row.operation \in Operation
           /\ row.baseRevision \in 0 .. MaxSequence /\ row.payload \in PayloadOrNull
           /\ (row.operation = "create") <=> (row.baseRevision = 0)
           /\ (row.operation = "delete") <=> (row.payload = NoPayload)
<1>1. NoRow \in Row /\ ~HasRow(NoRow)
  BY MeshNumbers DEF NoRow, Row, HasRow, PayloadOrNull
<1>2. /\ l.pending \in Row /\ l.base \in 0 .. MaxSequence
      /\ l.pending.operation \in Operation
      /\ l.pending.payload \in PayloadOrNull /\ l.pending.generation \in Edit
      /\ number \in 0 .. MaxEnrollmentSequence
      /\ WireOperation(l) \in Operation
      /\ (WireOperation(l) = "create") <=> (l.base = 0)
      /\ (WireOperation(l) = "delete") <=> (l.pending.operation = "delete")
  <2>1. /\ l.pending \in Row /\ l.base \in 0 .. MaxSequence
        /\ l.pending.operation \in Operation
        /\ l.pending.payload \in PayloadOrNull /\ l.pending.generation \in Edit
    BY LocalFields DEF Row, HasRow
  <2>2. number \in 0 .. MaxEnrollmentSequence
    BY MeshNumbers DEF EnrollmentSequence
  <2> QED
    BY <2>1, <2>2 DEF WireOperation, Operation
<1>3. /\ row \in SentRow /\ row.operation = WireOperation(l)
      /\ row.payload = l.pending.payload /\ row.generation = l.pending.generation
      /\ row.baseRevision = l.base /\ row.sequence = number /\ HasRow(row)
  BY <1>2 DEF SentRow, HasRow, Operation, DispatchedRow
<1>4. /\ m \in LocalEntity /\ m.domain = l.domain /\ m.bound = l.bound /\ m.base = l.base
      /\ m.basePayload = l.basePayload /\ m.generation = l.generation
      /\ m.acknowledged = l.acknowledged /\ m.pending = NoRow
      /\ m.inFlight = row /\ m.conflicted = l.conflicted /\ m.conflict = l.conflict
  BY <1>1, <1>3 DEF LocalEntity, WithDispatched
<1>5. l.bound /\ HasMutableRow(m) /\ ~HasRow(l.conflicted)
  BY <1>3, <1>4 DEF LocalInv, BindingInv, ConflictInv, HasMutableRow
<1>6. BindingInv(m) /\ MirrorInv(m)
  BY <1>4, <1>5 DEF LocalInv, BindingInv, MirrorInv, Settled, Dirty
<1>7. ConflictInv(m) /\ InFlightInv(m)
  BY <1>1, <1>3, <1>4, <1>5 DEF LocalInv, ConflictInv, InFlightInv
<1>8. RowInv(m, m.pending) /\ RowInv(m, m.inFlight) /\ RowInv(m, m.conflicted)
  BY <1>1, <1>2, <1>3, <1>4 DEF LocalInv, RowInv
<1>9. (row.operation = "delete") <=> (row.payload = NoPayload)
  BY <1>2, <1>3 DEF LocalInv, RowInv
<1>10. RemoteInv(h, n, k, m, w)
  BY <1>4 DEF RemoteInv
<1> QED
  BY <1>2, <1>3, <1>4, <1>6, <1>7, <1>8, <1>9, <1>10 DEF LocalInv

---------------------------------------------------------------------------
(* The journal under the devices *)

\* The accepted history only grows, and a head changes only to a new change.
JournalGrows ==
    /\ nextSequence' \in Nat /\ nextSequence' >= nextSequence
    /\ \A s \in Sequence : s < nextSequence => history'[s] = history[s]
    /\ \A k \in Entity : \/ entities'[k] = entities[k]
                         \/ /\ entities'[k].sequence \in Nat
                            /\ entities'[k].sequence >= nextSequence

\* Another device or an import appends a change.
LEMMA OtherWriterKeepsInv ==
    ASSUME Inv, NEW k \in Entity, NEW payload \in PayloadOrNull, OtherWriter(k, payload)
    PROVE  Inv'
<1> DEFINE op == IF payload = NoPayload THEN "delete"
                 ELSE IF entities[k].revision = 0 THEN "create" ELSE "update"
<1>1. /\ op \in Operation /\ (op = "delete" <=> payload = NoPayload)
      /\ Append(k, op, entities[k].revision, payload)
      /\ UNCHANGED <<pushVars, restricted>>
  BY DEF OtherWriter, Operation
<1> HIDE DEF op
<1>2. JournalHalf'
  BY <1>1, AppendKeepsJournal DEF Inv
<1> QED
  BY <1>1, <1>2 DEF Inv, PushHalf, PushTypeOK, ReceiptsInv, HasReceipt, pushVars

\* What the next sequence and the history are.
LEMMA JournalTypes ==
    ASSUME Inv
    PROVE  /\ nextSequence \in 1 .. MaxSequence + 1 /\ nextSequence \in Nat
           /\ history \in [Sequence -> HistoryRow]
           /\ entities \in [Entity -> EntityRow]
           /\ \A s \in Sequence : s \in Nat /\ history[s].revision \in Nat
           /\ \A s \in Sequence : history[s].entity \in Entity => s < nextSequence
<1>1. /\ nextSequence \in 1 .. MaxSequence + 1 /\ nextSequence \in Nat
      /\ history \in [Sequence -> HistoryRow] /\ entities \in [Entity -> EntityRow]
  BY CoordinatorAssumption DEF Inv, JournalHalf, JournalTypeOK
<1>2. \A s \in Sequence : s \in Nat /\ history[s].revision \in Nat
  BY <1>1, CoordinatorAssumption DEF Sequence, HistoryRow
<1>3. \A s \in Sequence : history[s].entity \in Entity => s < nextSequence
  BY CoordinatorAssumption DEF Inv, JournalHalf, HistoryInv, NoHistory
<1> QED
  BY <1>1, <1>2, <1>3

\* An append lengthens the history.
LEMMA AppendGrows ==
    ASSUME Inv, NEW k \in Entity, NEW operation, NEW base, NEW payload,
           Append(k, operation, base, payload)
    PROVE  /\ JournalGrows /\ nextSequence \in Sequence /\ nextSequence' = nextSequence + 1
           /\ history'[nextSequence].entity = k
           /\ history'[nextSequence].revision = entities[k].revision + 1
           /\ history'[nextSequence].payload = payload
<1>1. /\ nextSequence \in Nat /\ nextSequence \in 1 .. MaxSequence + 1
      /\ history \in [Sequence -> HistoryRow] /\ entities \in [Entity -> EntityRow]
  BY JournalTypes
<1>2. nextSequence \in Sequence
  BY <1>1, CoordinatorAssumption DEF Append, Sequence
<1>3. /\ nextSequence' = nextSequence + 1
      /\ history' = [history EXCEPT ![nextSequence] =
                       [entity |-> k, revision |-> entities[k].revision + 1,
                        operation |-> operation, payload |-> payload, baseRevision |-> base]]
      /\ entities' = [entities EXCEPT ![k] =
                        [revision |-> entities[k].revision + 1, operation |-> operation,
                         payload |-> payload, sequence |-> nextSequence]]
  BY DEF Append
<1>4. \A s \in Sequence : s < nextSequence => history'[s] = history[s]
  BY <1>1, <1>3 DEF Sequence
<1>5. \A j \in Entity : entities'[j] = entities[j] \/ entities'[j].sequence >= nextSequence
  BY <1>1, <1>3
<1>6. /\ history'[nextSequence].entity = k
      /\ history'[nextSequence].revision = entities[k].revision + 1
      /\ history'[nextSequence].payload = payload
  BY <1>1, <1>2, <1>3
<1> QED
  BY <1>1, <1>2, <1>3, <1>4, <1>5, <1>6 DEF JournalGrows

\* Nothing grows when the journal does not change.
LEMMA JournalWaits ==
    ASSUME Inv, UNCHANGED <<nextSequence, history, entities>>
    PROVE  JournalGrows
BY JournalTypes DEF JournalGrows

\* What was accepted stays accepted.
LEMMA AcceptedStays ==
    ASSUME Inv, JournalGrows, NEW k, NEW revision, NEW payload,
           WasAccepted(history, nextSequence, k, revision, payload)
    PROVE  WasAccepted(history', nextSequence', k, revision, payload)
<1>1. PICK s \in Sequence : /\ s < nextSequence /\ history[s].entity = k
                            /\ history[s].revision = revision /\ history[s].payload = payload
  BY DEF WasAccepted
<1>2. s < nextSequence' /\ history'[s] = history[s]
  BY <1>1, JournalTypes DEF JournalGrows
<1> QED
  BY <1>1, <1>2 DEF WasAccepted

\* What was newest up to an assigned sequence stays so.
LEMMA NewestStays ==
    ASSUME Inv, JournalGrows, NEW k, NEW w \in Nat, w < nextSequence, NEW revision,
           NoneNewer(history, k, w, revision)
    PROVE  NoneNewer(history', k, w, revision)
<1>1. \A s \in Sequence : s <= w => history'[s] = history[s]
  BY JournalTypes DEF JournalGrows
<1> QED
  BY <1>1 DEF NoneNewer

\* What a device knows of an entity stays true.
LEMMA RemoteStays ==
    ASSUME Inv, JournalGrows, NEW k, NEW l, NEW w \in Nat, w < nextSequence,
           RemoteInv(history, nextSequence, k, l, w)
    PROVE  RemoteInv(history', nextSequence', k, l, w)
<1>1. l.base # 0 => WasAccepted(history', nextSequence', k, l.base, Decoded(l.basePayload))
  BY AcceptedStays DEF RemoteInv
<1>2. l.conflict.remoteRevision # 0
        => WasAccepted(history', nextSequence', k, l.conflict.remoteRevision,
                       Decoded(l.conflict.remote))
  BY AcceptedStays DEF RemoteInv
<1>3. l.conflict.open /\ l.base = 0 /\ l.conflict.remoteRevision # 0
        => NoneNewer(history', k, w, l.conflict.remoteRevision)
  BY NewestStays DEF RemoteInv
<1> QED
  BY <1>1, <1>2, <1>3 DEF RemoteInv

\* An answer stays true.
LEMMA AnswerStays ==
    ASSUME Inv, JournalGrows, NEW k, NEW l, NEW w \in Nat, w < nextSequence,
           NEW c, NEW result
    PROVE  /\ AnswerKnown(history, nextSequence, c, result)
                 => AnswerKnown(history', nextSequence', c, result)
           /\ AnswerNewest(history, k, l, w, result) => AnswerNewest(history', k, l, w, result)
<1>1. ASSUME AnswerKnown(history, nextSequence, c, result)
      PROVE  AnswerKnown(history', nextSequence', c, result)
  <2>1. result.status = "accepted"
          => WasAccepted(history', nextSequence', c.entity, result.revision, c.payload)
    BY <1>1, AcceptedStays DEF AnswerKnown
  <2>2. result.status = "conflict" /\ result.revision # 0
          => WasAccepted(history', nextSequence', c.entity, result.revision, result.payload)
    BY <1>1, AcceptedStays DEF AnswerKnown
  <2> QED
    BY <1>1, <2>1, <2>2 DEF AnswerKnown
<1>2. ASSUME AnswerNewest(history, k, l, w, result)
      PROVE  AnswerNewest(history', k, l, w, result)
  BY <1>2, NewestStays DEF AnswerNewest
<1> QED
  BY <1>1, <1>2

\* The head of an entity is its last accepted change.
LEMMA HeadIsNewest ==
    ASSUME Inv, NEW k \in Entity
    PROVE  /\ entities[k] \in EntityRow /\ entities[k].revision \in Nat
           /\ \A w : NoneNewer(history, k, w, entities[k].revision)
           /\ entities[k].revision # 0 =>
                 /\ entities[k].sequence \in Sequence /\ entities[k].sequence < nextSequence
                 /\ history[entities[k].sequence].entity = k
                 /\ history[entities[k].sequence].revision = entities[k].revision
                 /\ history[entities[k].sequence].operation = entities[k].operation
                 /\ history[entities[k].sequence].payload = entities[k].payload
                 /\ WasAccepted(history, nextSequence, k, entities[k].revision,
                                entities[k].payload)
                 /\ entities[k].operation = "delete" <=> entities[k].payload = NoPayload
                 /\ \A s \in Sequence : history[s].entity = k => s <= entities[k].sequence
<1>0. /\ entities[k] \in EntityRow /\ entities[k].revision \in Nat
      /\ HeadsInv /\ HistoryInv /\ ChainInv
  BY JournalTypes, CoordinatorAssumption DEF Inv, JournalHalf, EntityRow
<1>1. CASE entities[k].revision = 0
  <2>1. \A s \in Sequence : history[s].entity # k
    BY <1>0, <1>1 DEF HeadsInv
  <2> QED
    BY <1>0, <1>1, <2>1 DEF NoneNewer
<1>2. CASE entities[k].revision # 0
  <2> DEFINE last == entities[k].sequence
  <2>1. /\ last \in Sequence /\ last < nextSequence
        /\ history[last].entity = k /\ history[last].revision = entities[k].revision
        /\ history[last].operation = entities[k].operation
        /\ history[last].payload = entities[k].payload
        /\ \A s \in Sequence : history[s].entity = k => s <= last
    BY <1>0, <1>2 DEF HeadsInv
  <2> HIDE DEF last
  <2>2. ASSUME NEW s \in Sequence, history[s].entity = k
        PROVE  history[s].revision <= history[last].revision
    <3>1. /\ s <= last /\ s \in Nat /\ last \in Nat
          /\ history[s].revision \in Nat /\ history[last].revision \in Nat
      BY <2>1, <2>2, JournalTypes
    <3>2. s < last => history[s].revision < history[last].revision
      BY <1>0, <2>1, <2>2 DEF ChainInv
    <3> QED
      BY <3>1, <3>2
  <2>3. entities[k].operation = "delete" <=> entities[k].payload = NoPayload
    BY <1>0, <2>1 DEF HistoryInv
  <2>4. \A w : NoneNewer(history, k, w, entities[k].revision)
    BY <2>1, <2>2 DEF NoneNewer
  <2>5. WasAccepted(history, nextSequence, k, entities[k].revision, entities[k].payload)
    BY <2>1 DEF WasAccepted
  <2> QED
    BY <1>0, <2>1, <2>3, <2>4, <2>5 DEF last
<1> QED
  BY <1>1, <1>2

\* A revision an entity had is not newer than its head, and the head's own
\* revision came with the head's payload.
LEMMA KnownRevision ==
    ASSUME Inv, NEW k \in Entity, NEW revision, NEW payload,
           WasAccepted(history, nextSequence, k, revision, payload)
    PROVE  /\ revision \in Nat /\ revision # 0 /\ revision <= entities[k].revision
           /\ revision = entities[k].revision => payload = entities[k].payload
<1>1. PICK s \in Sequence : /\ s < nextSequence /\ history[s].entity = k
                            /\ history[s].revision = revision /\ history[s].payload = payload
  BY DEF WasAccepted
<1>2. revision \in Nat /\ revision # 0 /\ s \in Nat
  BY <1>1, JournalTypes DEF Inv, JournalHalf, HistoryInv
<1>3. revision <= entities[k].revision
  BY <1>1, <1>2, HeadIsNewest DEF NoneNewer
<1>4. ASSUME revision = entities[k].revision PROVE payload = entities[k].payload
  <2> DEFINE last == entities[k].sequence
  <2>1. /\ last \in Sequence /\ last < nextSequence /\ history[last].entity = k
        /\ history[last].revision = entities[k].revision
        /\ history[last].payload = entities[k].payload /\ s <= last
    BY <1>1, <1>2, <1>4, HeadIsNewest
  <2> HIDE DEF last
  <2>2. s < last => history[s].revision < history[last].revision
    BY <1>1, <2>1 DEF Inv, JournalHalf, ChainInv
  <2>3. last \in Nat /\ history[s].revision \in Nat
    BY <2>1, JournalTypes
  <2> QED
    BY <1>1, <1>2, <1>4, <2>1, <2>2, <2>3
<1> QED
  BY <1>2, <1>3, <1>4

\* What a push answers names a revision that was accepted, now or when the
\* receipt was written; a fresh answer names the newest one.
LEMMA PushAnswers ==
    ASSUME Inv, NEW e \in Enrollment, NEW n \in EnrollmentSequence, NEW c \in Content,
           Push(e, n, c),
           HasReceipt(e, n) => /\ receipts[e][n].content = c
                               /\ AnswerKnown(history, nextSequence, c, receipts[e][n].result)
    PROVE  /\ Inv' /\ JournalGrows
           /\ PushResult(e, n, c) \in Result
           /\ AnswerKnown(history', nextSequence', c, PushResult(e, n, c))
           /\ HasReceipt(e, n) => /\ PushResult(e, n, c) = receipts[e][n].result
                                  /\ UNCHANGED vars
           /\ ~HasReceipt(e, n) =>
                 /\ receipts' = [receipts EXCEPT ![e][n] =
                                   [content |-> c, result |-> PushResult(e, n, c)]]
                 /\ \A w \in Nat :
                       PushResult(e, n, c).status \in {"accepted", "conflict"} =>
                          NoneNewer(history', c.entity, w, PushResult(e, n, c).revision)
<1>1. Inv'
  BY PushKeepsInv
<1>2. CASE HasReceipt(e, n)
  <2>1. UNCHANGED vars
    BY <1>2 DEF Push, PushFresh
  <2>2. PushResult(e, n, c) = receipts[e][n].result
    BY <1>2 DEF PushResult
  <2>3. receipts[e][n].result \in Result
    BY DEF Inv, PushHalf, PushTypeOK, Receipt
  <2>4. JournalGrows
    BY <2>1, JournalWaits DEF vars, journalVars
  <2>5. UNCHANGED <<nextSequence, history>>
    BY <2>1 DEF vars, journalVars
  <2> QED
    BY <1>1, <1>2, <2>1, <2>2, <2>3, <2>4, <2>5
<1>3. CASE ~HasReceipt(e, n)
  <2> DEFINE r == PushResult(e, n, c)
  <2>0. /\ r = FreshResult(e, n, c) /\ PushFresh(e, n, c)
        /\ c.entity \in Entity
    BY <1>3 DEF PushResult, Push, Content
  <2>1. receipts' = [receipts EXCEPT ![e][n] = [content |-> c, result |-> r]]
    BY <2>0 DEF PushFresh, WriteReceipt
  <2>2. r \in Result
    <3>2. receipts'[e][n] \in Receipt
      BY <1>1 DEF Inv, PushHalf, PushTypeOK
    <3>3. receipts'[e][n] = [content |-> c, result |-> r]
      BY <2>1 DEF Inv, PushHalf, PushTypeOK
    <3> QED
      BY <3>2, <3>3 DEF Receipt
  <2>3. \/ /\ r = Accepted(c) /\ BaseMatches(c, entities[c.entity])
           /\ Append(c.entity, c.operation, c.baseRevision, c.payload)
        \/ r = Conflict(entities[c.entity]) /\ UNCHANGED journalVars
        \/ r.status \notin {"accepted", "conflict"} /\ UNCHANGED journalVars
    BY <2>0 DEF PushFresh, FreshResult, Accepted, Conflict, Plain
  <2> HIDE DEF r
  <2>4. /\ entities[c.entity] \in EntityRow /\ entities[c.entity].revision \in Nat
        /\ \A w : NoneNewer(history, c.entity, w, entities[c.entity].revision)
        /\ entities[c.entity].revision # 0 =>
              WasAccepted(history, nextSequence, c.entity, entities[c.entity].revision,
                          entities[c.entity].payload)
    BY <2>0, HeadIsNewest
  <2>5. ASSUME r = Accepted(c), BaseMatches(c, entities[c.entity]),
               Append(c.entity, c.operation, c.baseRevision, c.payload)
        PROVE  /\ JournalGrows /\ AnswerKnown(history', nextSequence', c, r)
               /\ \A w \in Nat : NoneNewer(history', c.entity, w, r.revision)
    <3>1. /\ JournalGrows /\ nextSequence \in Sequence /\ nextSequence' = nextSequence + 1
          /\ history'[nextSequence].entity = c.entity
          /\ history'[nextSequence].revision = entities[c.entity].revision + 1
          /\ history'[nextSequence].payload = c.payload
      BY <2>0, <2>5, AppendGrows
    <3>2. /\ r.revision = entities[c.entity].revision + 1 /\ r.status = "accepted"
      BY <2>5 DEF Accepted
    <3>3. entities[c.entity].revision = c.baseRevision
      BY <2>0, <2>4, <2>5 DEF BaseMatches, Push, WellFormed
    <3>4. WasAccepted(history', nextSequence', c.entity, r.revision, c.payload)
      BY <3>1, <3>2, JournalTypes DEF WasAccepted
    <3>5. AnswerKnown(history', nextSequence', c, r)
      BY <3>2, <3>3, <3>4 DEF AnswerKnown
    <3>6. ASSUME NEW s \in Sequence, history'[s].entity = c.entity
          PROVE  history'[s].revision <= r.revision
      <4>1. CASE s < nextSequence
        <5>1. history'[s] = history[s] /\ history[s].revision \in Nat
          BY <3>1, <4>1, JournalTypes DEF JournalGrows
        <5>2. history[s].revision <= entities[c.entity].revision
          <6>1. NoneNewer(history, c.entity, s, entities[c.entity].revision) /\ s \in Nat
            BY <2>4, JournalTypes
          <6> QED
            BY <3>6, <5>1, <6>1 DEF NoneNewer
        <5> QED
          BY <2>4, <3>2, <5>1, <5>2
      <4>2. CASE s = nextSequence
        BY <2>4, <3>1, <3>2, <4>2
      <4>3. s \in Nat /\ nextSequence \in Nat /\ s < nextSequence'
        BY <1>1, <2>0, <3>6, JournalTypes, CoordinatorAssumption
           DEF Inv, JournalHalf, HistoryInv, NoHistory, Sequence
      <4> QED
        BY <3>1, <4>1, <4>2, <4>3
    <3> QED
      BY <3>1, <3>5, <3>6 DEF NoneNewer
  <2>6. ASSUME UNCHANGED journalVars PROVE JournalGrows /\ UNCHANGED <<nextSequence, history>>
    BY <2>6, JournalWaits DEF journalVars
  <2>7. ASSUME r = Conflict(entities[c.entity]), UNCHANGED journalVars
        PROVE  /\ AnswerKnown(history', nextSequence', c, r)
               /\ \A w \in Nat : NoneNewer(history', c.entity, w, r.revision)
    <3>1. /\ r.status = "conflict" /\ r.revision = entities[c.entity].revision
          /\ r.payload = entities[c.entity].payload
      BY <2>7 DEF Conflict
    <3> QED
      BY <2>4, <2>6, <2>7, <3>1 DEF AnswerKnown
  <2>8. ASSUME r.status \notin {"accepted", "conflict"}
        PROVE  AnswerKnown(history', nextSequence', c, r)
    BY <2>8 DEF AnswerKnown
  <2> QED
    BY <1>1, <1>3, <2>1, <2>2, <2>3, <2>5, <2>6, <2>7, <2>8 DEF r
<1> QED
  BY <1>2, <1>3

---------------------------------------------------------------------------
(* What a step leaves alone *)

\* The receipts of a device change only by being swept.
ReceiptsStay(d) ==
    \A n \in EnrollmentSequence : \/ receipts'[d][n] = receipts[d][n]
                                  \/ receipts'[d][n] = NoReceipt

\* An entity that is kept by an operator stays what it is, while the journal grows
\* under it, receipts are swept and an answer is applied or lost.
LEMMA EntityMoves ==
    ASSUME Inv, JournalGrows, NEW d \in Enrollment, NEW k \in Entity,
           cursor[d] \in Nat, DeviceInv(d), EntityInv(d, k),
           NEW m, m = local'[d][k],
           Kept(history, nextSequence, k, local[d][k], m, cursor[d]),
           cursor'[d] = cursor[d], sent'[d] = sent[d],
           verdict'[d] = verdict[d] \/ verdict'[d] = NoResult, ReceiptsStay(d)
    PROVE  EntityInv(d, k)'
<1> DEFINE l == local[d][k]
<1>0. cursor[d] < nextSequence
  BY DEF DeviceInv
<1>1. /\ LocalInv(m) /\ RemoteInv(history, nextSequence, k, m, cursor[d])
      /\ WireKept(l, m)
  BY DEF Kept
<1>2. RemoteInv(history', nextSequence', k, m, cursor[d])
  BY <1>0, <1>1, RemoteStays
<1>3. ASSUME HasRow(m.inFlight)
      PROVE  LET n == m.inFlight.sequence
             IN /\ n \in EnrollmentSequence
                /\ sent'[d][n] = [entity |-> k, operation |-> m.inFlight.operation,
                                  baseRevision |-> m.inFlight.baseRevision,
                                  payload |-> m.inFlight.payload]
                /\ AnswerKnown(history', nextSequence', sent'[d][n], verdict'[d])
                /\ AnswerNewest(history', k, m, cursor'[d], verdict'[d])
                /\ AnswerNewest(history', k, m, cursor'[d], receipts'[d][n].result)
  <2> DEFINE n == m.inFlight.sequence
  <2>1. /\ m.inFlight = l.inFlight
        /\ m.base = 0 /\ ~m.conflict.open => l.base = 0 /\ ~l.conflict.open
    BY <1>1, <1>3 DEF WireKept
  <2>2. /\ n \in EnrollmentSequence
        /\ sent[d][n] = [entity |-> k, operation |-> m.inFlight.operation,
                         baseRevision |-> m.inFlight.baseRevision,
                         payload |-> m.inFlight.payload]
        /\ AnswerKnown(history, nextSequence, sent[d][n], verdict[d])
        /\ AnswerNewest(history, k, l, cursor[d], verdict[d])
        /\ AnswerNewest(history, k, l, cursor[d], receipts[d][n].result)
    BY <1>3, <2>1 DEF EntityInv, DispatchedInv
  <2> HIDE DEF n
  <2>3. /\ AnswerKnown(history', nextSequence', sent[d][n], verdict[d])
        /\ AnswerNewest(history', k, l, cursor[d], verdict[d])
        /\ AnswerNewest(history', k, l, cursor[d], receipts[d][n].result)
    BY <1>0, <2>2, AnswerStays
  <2> HIDE DEF l
  <2>4. /\ AnswerNewest(history', k, m, cursor[d], verdict[d])
        /\ AnswerNewest(history', k, m, cursor[d], receipts[d][n].result)
    BY <2>1, <2>3 DEF AnswerNewest
  <2>5. NoResult.status = "none" /\ NoReceipt.result = NoResult
    BY DEF NoResult, NoReceipt
  <2>6. /\ AnswerKnown(history', nextSequence', sent[d][n], NoResult)
        /\ AnswerNewest(history', k, m, cursor[d], NoResult)
    BY <2>5 DEF AnswerKnown, AnswerNewest
  <2>7. receipts'[d][n].result = receipts[d][n].result \/ receipts'[d][n].result = NoResult
    BY <2>2, <2>5 DEF ReceiptsStay
  <2> QED
    BY <2>2, <2>3, <2>4, <2>6, <2>7 DEF n
<1> QED
  BY <1>1, <1>2, <1>3 DEF EntityInv, DispatchedInv

\* An entity nobody touches.
LEMMA Untouched ==
    ASSUME NEW h, NEW n, NEW k, NEW l \in LocalEntity, NEW w, LocalInv(l),
           RemoteInv(h, n, k, l, w)
    PROVE  Kept(h, n, k, l, l, w)
BY DEF Kept, WireKept

\* What was sent, and the receipts for it, stay in step.
LEMMA WireStays ==
    ASSUME Inv, JournalGrows, NEW d \in Enrollment, WireInv(d),
           sent'[d] = sent[d], outSequence'[d] = outSequence[d], ReceiptsStay(d)
    PROVE  WireInv(d)'
<1> SUFFICES ASSUME NEW n \in EnrollmentSequence
             PROVE  /\ sent'[d][n] # NoContent
                          => WellFormed(sent'[d][n]) /\ n < outSequence'[d]
                    /\ receipts'[d][n].result.status # "none" =>
                          /\ sent'[d][n] # NoContent /\ receipts'[d][n].content = sent'[d][n]
                          /\ AnswerKnown(history', nextSequence', sent'[d][n],
                                         receipts'[d][n].result)
  BY DEF WireInv, HasReceipt
<1>1. sent'[d][n] # NoContent => WellFormed(sent'[d][n]) /\ n < outSequence'[d]
  BY DEF WireInv
<1>2. ASSUME receipts'[d][n].result.status # "none"
      PROVE  /\ sent[d][n] # NoContent /\ receipts'[d][n].content = sent[d][n]
             /\ AnswerKnown(history', nextSequence', sent[d][n], receipts'[d][n].result)
  <2>1. receipts'[d][n] = receipts[d][n]
    BY <1>2 DEF ReceiptsStay, NoReceipt, NoResult
  <2>2. /\ sent[d][n] # NoContent /\ receipts[d][n].content = sent[d][n]
        /\ AnswerKnown(history, nextSequence, sent[d][n], receipts[d][n].result)
    BY <1>2, <2>1 DEF WireInv, HasReceipt
  <2>3. 0 \in Nat /\ 0 < nextSequence
    BY JournalTypes
  <2>4. AnswerKnown(history', nextSequence', sent[d][n], receipts[d][n].result)
    <3>1. PICK k, l : TRUE
      OBVIOUS
    <3> QED
      BY <2>2, <2>3, AnswerStays
  <2> QED
    BY <2>1, <2>2, <2>4
<1> QED
  BY <1>1, <1>2

\* An answered pull stays the change behind the cursor while its cycle pulls.
LEMMA PageStays ==
    ASSUME Inv, JournalGrows, NEW d \in Enrollment, PageInv(d), cursor[d] \in Nat,
           page'[d] = NoPage \/ (page'[d] = page[d] /\ phase'[d] = phase[d]
                                 /\ cursor'[d] = cursor[d]),
           page[d].sequence \in 0 .. MaxSequence
    PROVE  PageInv(d)'
<1>1. CASE page'[d] = NoPage
  BY <1>1 DEF PageInv
<1>2. CASE page'[d] = page[d] /\ phase'[d] = phase[d] /\ cursor'[d] = cursor[d] /\ page[d] # NoPage
  <2>1. /\ phase[d] = "pulling"
        /\ page[d].sequence = cursor[d] + 1 /\ page[d].sequence < nextSequence
    BY <1>2 DEF PageInv
  <2>2. page[d].sequence \in Sequence /\ page[d].sequence \in Nat
    BY <2>1, CoordinatorAssumption DEF Sequence
  <2>3. history'[page[d].sequence] = history[page[d].sequence]
    BY <2>1, <2>2 DEF JournalGrows
  <2>4. page[d].sequence < nextSequence'
    BY <2>1, <2>2, JournalTypes DEF JournalGrows
  <2> QED
    BY <1>2, <2>1, <2>3, <2>4 DEF PageInv
<1> QED
  BY <1>1, <1>2

\* A staged rebuild stays exact for its watermark.
LEMMA StagedStays ==
    ASSUME Inv, JournalGrows, NEW d \in Enrollment, StagedInv(d),
           staged[d].watermark \in Nat,
           staged'[d] = staged[d] \/ ~staged'[d].ready
    PROVE  StagedInv(d)'
<1>1. CASE ~staged'[d].ready
  BY <1>1 DEF StagedInv
<1>2. CASE staged'[d] = staged[d] /\ staged[d].ready
  <2> DEFINE heads == staged[d].heads
             w == staged[d].watermark
  <2>1. /\ w < nextSequence /\ w \in Nat
        /\ \A k \in Entity :
              /\ heads[k].revision # 0 =>
                    /\ WasAccepted(history, nextSequence, k, heads[k].revision, heads[k].payload)
                    /\ heads[k].operation = "delete" => heads[k].payload = NoPayload
              /\ entities[k].revision # 0 /\ entities[k].sequence <= w
                    => heads[k] = entities[k]
    BY <1>2 DEF StagedInv
  <2> HIDE DEF heads, w
  <2>2. w < nextSequence'
    BY <2>1, JournalTypes DEF JournalGrows
  <2>3. ASSUME NEW k \in Entity
        PROVE  /\ heads[k].revision # 0 =>
                     /\ WasAccepted(history', nextSequence', k, heads[k].revision,
                                    heads[k].payload)
                     /\ heads[k].operation = "delete" => heads[k].payload = NoPayload
               /\ entities'[k].revision # 0 /\ entities'[k].sequence <= w
                     => heads[k] = entities'[k]
    <3>1. heads[k].revision # 0 =>
             WasAccepted(history', nextSequence', k, heads[k].revision, heads[k].payload)
      BY <2>1, AcceptedStays
    <3>2. \/ entities'[k] = entities[k]
          \/ entities'[k].sequence \in Nat /\ entities'[k].sequence >= nextSequence
      BY DEF JournalGrows
    <3>3. CASE entities'[k] = entities[k]
      BY <2>1, <3>1, <3>3
    <3>4. CASE entities'[k].sequence \in Nat /\ entities'[k].sequence >= nextSequence
      <4>1. ~(entities'[k].sequence <= w)
        BY <2>1, <3>4, JournalTypes
      <4> QED
        BY <2>1, <3>1, <4>1
    <3> QED
      BY <2>1, <3>1, <3>2, <3>3, <3>4
  <2> QED
    BY <1>2, <2>2, <2>3 DEF StagedInv, heads, w
<1> QED
  BY <1>1, <1>2 DEF StagedInv

---------------------------------------------------------------------------
(* Steps of one device *)

\* Nothing has been accepted, sent or stored yet.
LEMMA InitMesh == MeshInit => MeshInv
<1> SUFFICES ASSUME MeshInit PROVE MeshInv
  OBVIOUS
<1>1. Inv
  BY InitInv DEF MeshInit
<1>2. TypeOK
  BY <1>1 DEF Inv, JournalHalf, JournalTypeOK, PushHalf, PushTypeOK, TypeOK
<1>3. NothingLocal \in LocalEntity /\ LocalInv(NothingLocal)
  BY NothingLocalInv
<1>4. NoHead \in EntityRow
  BY MeshNumbers DEF NoHead, EntityRow, Operation, PayloadOrNull
<1>5. /\ NoPage \in PulledChange /\ NoStaging \in Staging /\ NoResult \in Result
      /\ NoContent \in Content \cup {NoContent} /\ "idle" \in Phase
  BY <1>4, MeshNumbers
     DEF NoPage, PulledChange, NoStaging, Staging, NoResult, Result, Status, Operation,
         PayloadOrNull, Phase
<1>6. MeshTypeOK
  BY <1>2, <1>3, <1>5, MeshNumbers DEF MeshInit, MeshTypeOK
<1>7. ASSUME NEW d \in Enrollment PROVE DeviceInv(d)
  <2>1. /\ cursor[d] = 0 /\ verdict[d] = NoResult /\ page[d] = NoPage /\ ~staged[d].ready
        /\ nextSequence = 1
        /\ \A n \in EnrollmentSequence : sent[d][n] = NoContent /\ ~HasReceipt(d, n)
    BY DEF MeshInit, Init, NoStaging, HasReceipt, NoReceipt, NoResult
  <2> QED
    BY <2>1 DEF DeviceInv, WireInv, PageInv, StagedInv
<1>8. ASSUME NEW d \in Enrollment, NEW k \in Entity PROVE EntityInv(d, k)
  <2>1. local[d][k] = NothingLocal
    BY DEF MeshInit
  <2> QED
    BY <1>3, <2>1 DEF EntityInv, RemoteInv, DispatchedInv, NothingLocal, NoConflict, NoSentRow,
       HasRow
<1> QED
  BY <1>1, <1>6, <1>7, <1>8 DEF MeshInv

\* The types of what device d stores.
LEMMA DeviceTypes ==
    ASSUME MeshTypeOK, NEW d \in Enrollment
    PROVE  /\ local[d] \in [Entity -> LocalEntity]
           /\ cursor[d] \in 0 .. MaxSequence /\ cursor[d] \in Nat
           /\ resetRequired[d] \in BOOLEAN
           /\ outSequence[d] \in 1 .. MaxEnrollmentSequence + 1
           /\ phase[d] \in Phase
           /\ sent[d] \in [EnrollmentSequence -> Content \cup {NoContent}]
           /\ verdict[d] \in Result /\ page[d] \in PulledChange /\ staged[d] \in Staging
           /\ staged[d].watermark \in Nat /\ staged[d].heads \in [Entity -> EntityRow]
           /\ page[d].sequence \in 0 .. MaxSequence
<1>1. /\ local[d] \in [Entity -> LocalEntity]
      /\ cursor[d] \in 0 .. MaxSequence /\ resetRequired[d] \in BOOLEAN
      /\ outSequence[d] \in 1 .. MaxEnrollmentSequence + 1
      /\ phase[d] \in Phase
      /\ sent[d] \in [EnrollmentSequence -> Content \cup {NoContent}]
      /\ verdict[d] \in Result /\ page[d] \in PulledChange /\ staged[d] \in Staging
  BY DEF MeshTypeOK
<1> QED
  BY <1>1, MeshNumbers DEF Staging, PulledChange

\* The step leaves every other device alone.
OnlyMoves(d) ==
    /\ local' = [local EXCEPT ![d] = local'[d]]
    /\ cursor' = [cursor EXCEPT ![d] = cursor'[d]]
    /\ resetRequired' = [resetRequired EXCEPT ![d] = resetRequired'[d]]
    /\ outSequence' = [outSequence EXCEPT ![d] = outSequence'[d]]
    /\ phase' = [phase EXCEPT ![d] = phase'[d]]
    /\ sent' = [sent EXCEPT ![d] = sent'[d]]
    /\ verdict' = [verdict EXCEPT ![d] = verdict'[d]]
    /\ page' = [page EXCEPT ![d] = page'[d]]
    /\ staged' = [staged EXCEPT ![d] = staged'[d]]

\* What the step leaves device d with has the right types.
DeviceTyped(d) ==
    /\ local'[d] \in [Entity -> LocalEntity]
    /\ cursor'[d] \in 0 .. MaxSequence
    /\ resetRequired'[d] \in BOOLEAN
    /\ outSequence'[d] \in 1 .. MaxEnrollmentSequence + 1
    /\ phase'[d] \in Phase
    /\ sent'[d] \in [EnrollmentSequence -> Content \cup {NoContent}]
    /\ verdict'[d] \in Result
    /\ page'[d] \in PulledChange
    /\ staged'[d] \in Staging

\* A device the step does not touch keeps its promises while the journal grows.
LEMMA DeviceStays ==
    ASSUME MeshInv, JournalGrows, NEW d \in Enrollment, ReceiptsStay(d),
           local'[d] = local[d], cursor'[d] = cursor[d], outSequence'[d] = outSequence[d],
           phase'[d] = phase[d], sent'[d] = sent[d], verdict'[d] = verdict[d],
           page'[d] = page[d], staged'[d] = staged[d]
    PROVE  DeviceInv(d)' /\ \A k \in Entity : EntityInv(d, k)'
<1>0. /\ Inv /\ MeshTypeOK /\ DeviceInv(d) /\ \A k \in Entity : EntityInv(d, k)
      /\ cursor[d] < nextSequence /\ (verdict[d] # NoResult => phase[d] = "pushing")
      /\ WireInv(d) /\ PageInv(d) /\ StagedInv(d)
  BY DEF MeshInv, DeviceInv
<1>1. /\ cursor[d] \in Nat /\ page[d].sequence \in 0 .. MaxSequence
      /\ staged[d].watermark \in Nat /\ \A k \in Entity : local[d][k] \in LocalEntity
  BY <1>0, DeviceTypes
<1>2. WireInv(d)' /\ PageInv(d)' /\ StagedInv(d)'
  BY <1>0, <1>1, WireStays, PageStays, StagedStays
<1>3. cursor'[d] < nextSequence'
  BY <1>0, <1>1, JournalTypes DEF JournalGrows
<1>4. DeviceInv(d)'
  BY <1>0, <1>2, <1>3 DEF DeviceInv
<1>5. ASSUME NEW k \in Entity PROVE EntityInv(d, k)'
  <2>1. PICK m : m = local'[d][k]
    OBVIOUS
  <2>2. LocalInv(local[d][k]) /\ RemoteInv(history, nextSequence, k, local[d][k], cursor[d])
    BY <1>0 DEF EntityInv
  <2>3. Kept(history, nextSequence, k, local[d][k], m, cursor[d])
    BY <1>1, <2>1, <2>2, Untouched
  <2> QED
    BY <1>0, <1>1, <2>1, <2>3, EntityMoves
<1> QED
  BY <1>4, <1>5

\* A step of one device has only that device to show.
LEMMA DeviceStep ==
    ASSUME MeshInv, NEW d \in Enrollment, UNCHANGED vars, OnlyMoves(d), DeviceTyped(d),
           DeviceInv(d)', \A k \in Entity : EntityInv(d, k)'
    PROVE  MeshInv'
<1>0. /\ Inv /\ MeshTypeOK
      /\ UNCHANGED <<nextSequence, history, entities, receipts>>
  BY DEF MeshInv, vars, journalVars, pushVars
<1>1. JournalGrows /\ \A e \in Enrollment : ReceiptsStay(e)
  BY <1>0, JournalWaits DEF ReceiptsStay
<1>2. Inv' /\ TypeOK'
  BY <1>0 DEF vars, journalVars, pushVars, Inv, JournalHalf, JournalTypeOK, CountersInv,
     HistoryInv, HeadsInv, JournalInv, ChainInv, PushHalf, PushTypeOK, ReceiptsInv, HasReceipt,
     TypeOK, MeshTypeOK
<1>3. MeshTypeOK'
  <2>1. /\ local' \in [Enrollment -> [Entity -> LocalEntity]]
        /\ cursor' \in [Enrollment -> 0 .. MaxSequence]
        /\ resetRequired' \in [Enrollment -> BOOLEAN]
        /\ outSequence' \in [Enrollment -> 1 .. MaxEnrollmentSequence + 1]
        /\ phase' \in [Enrollment -> Phase]
    BY <1>0 DEF MeshTypeOK, OnlyMoves, DeviceTyped
  <2>2. /\ sent' \in [Enrollment -> [EnrollmentSequence -> Content \cup {NoContent}]]
        /\ verdict' \in [Enrollment -> Result]
        /\ page' \in [Enrollment -> PulledChange]
        /\ staged' \in [Enrollment -> Staging]
    BY <1>0 DEF MeshTypeOK, OnlyMoves, DeviceTyped
  <2> QED
    BY <1>2, <2>1, <2>2 DEF MeshTypeOK
<1>4. ASSUME NEW e \in Enrollment, e # d
      PROVE  DeviceInv(e)' /\ \A k \in Entity : EntityInv(e, k)'
  <2>1. /\ local'[e] = local[e] /\ cursor'[e] = cursor[e]
        /\ outSequence'[e] = outSequence[e] /\ phase'[e] = phase[e] /\ sent'[e] = sent[e]
        /\ verdict'[e] = verdict[e] /\ page'[e] = page[e] /\ staged'[e] = staged[e]
    BY <1>0, <1>4 DEF OnlyMoves, MeshTypeOK
  <2> QED
    BY <1>1, <2>1, DeviceStays
<1> QED
  BY <1>2, <1>3, <1>4 DEF MeshInv

\* A step of a device that only keeps its entities and drops answers.
LEMMA KeepingStep ==
    ASSUME MeshInv, NEW d \in Enrollment, UNCHANGED vars, OnlyMoves(d),
           UNCHANGED <<cursor, outSequence, sent>>,
           local'[d] \in [Entity -> LocalEntity],
           resetRequired'[d] \in BOOLEAN, phase'[d] \in Phase,
           \A k \in Entity : Kept(history, nextSequence, k, local[d][k], local'[d][k],
                                  cursor[d]),
           verdict'[d] = NoResult \/ (verdict'[d] = verdict[d] /\ phase'[d] = phase[d]),
           page'[d] = NoPage \/ (page'[d] = page[d] /\ phase'[d] = phase[d]),
           staged'[d] = NoStaging \/ staged'[d] = staged[d]
    PROVE  MeshInv'
<1>0. /\ Inv /\ MeshTypeOK /\ DeviceInv(d) /\ \A k \in Entity : EntityInv(d, k)
      /\ cursor[d] < nextSequence /\ (verdict[d] # NoResult => phase[d] = "pushing")
      /\ WireInv(d) /\ PageInv(d) /\ StagedInv(d)
      /\ UNCHANGED <<nextSequence, history, entities, receipts>>
  BY DEF MeshInv, DeviceInv, vars, journalVars, pushVars
<1>1. JournalGrows /\ ReceiptsStay(d)
  BY <1>0, JournalWaits DEF ReceiptsStay
<1>2. /\ cursor[d] \in 0 .. MaxSequence /\ cursor[d] \in Nat
      /\ outSequence[d] \in 1 .. MaxEnrollmentSequence + 1
      /\ sent[d] \in [EnrollmentSequence -> Content \cup {NoContent}]
      /\ verdict[d] \in Result /\ page[d] \in PulledChange /\ staged[d] \in Staging
      /\ page[d].sequence \in 0 .. MaxSequence /\ staged[d].watermark \in Nat
  BY <1>0, DeviceTypes
<1>3. NoPage \in PulledChange /\ NoResult \in Result /\ NoStaging \in Staging
      /\ ~NoStaging.ready
  <2>1. NoHead \in EntityRow
    BY MeshNumbers DEF NoHead, EntityRow, Operation, PayloadOrNull
  <2> QED
    BY <2>1, MeshNumbers DEF NoPage, PulledChange, NoStaging, Staging, NoResult, Result, Status,
       Operation, PayloadOrNull
<1>4. DeviceTyped(d)
  BY <1>2, <1>3 DEF DeviceTyped
<1>5. WireInv(d)' /\ PageInv(d)' /\ StagedInv(d)'
  BY <1>0, <1>1, <1>2, <1>3, WireStays, PageStays, StagedStays
<1>6. DeviceInv(d)'
  BY <1>0, <1>5 DEF DeviceInv
<1>7. ASSUME NEW k \in Entity PROVE EntityInv(d, k)'
  <2>1. PICK m : m = local'[d][k]
    OBVIOUS
  <2>2. Kept(history, nextSequence, k, local[d][k], m, cursor[d])
    BY <2>1
  <2> QED
    BY <1>0, <1>1, <1>2, <2>1, <2>2, EntityMoves
<1> QED
  BY <1>4, <1>6, <1>7, DeviceStep

\* Facts about device d that every step of it starts from.
LEMMA DeviceFacts ==
    ASSUME MeshInv, NEW d \in Enrollment
    PROVE  /\ Inv /\ MeshTypeOK /\ DeviceInv(d) /\ \A k \in Entity : EntityInv(d, k)
           /\ cursor[d] < nextSequence /\ cursor[d] \in Nat
           /\ verdict[d] # NoResult => phase[d] = "pushing"
           /\ page[d] # NoPage => phase[d] = "pulling"
           /\ WireInv(d) /\ PageInv(d) /\ StagedInv(d)
           /\ \A k \in Entity :
                 /\ local[d][k] \in LocalEntity /\ LocalInv(local[d][k])
                 /\ RemoteInv(history, nextSequence, k, local[d][k], cursor[d])
                 /\ Kept(history, nextSequence, k, local[d][k], local[d][k], cursor[d])
<1>1. /\ Inv /\ MeshTypeOK /\ DeviceInv(d) /\ \A k \in Entity : EntityInv(d, k)
      /\ WireInv(d) /\ PageInv(d) /\ StagedInv(d) /\ cursor[d] < nextSequence
      /\ (verdict[d] # NoResult => phase[d] = "pushing")
  BY DEF MeshInv, DeviceInv
<1>2. page[d] # NoPage => phase[d] = "pulling"
  BY <1>1 DEF PageInv
<1>3. cursor[d] \in Nat /\ \A k \in Entity : local[d][k] \in LocalEntity
  BY <1>1, DeviceTypes
<1>4. \A k \in Entity : /\ LocalInv(local[d][k])
                        /\ RemoteInv(history, nextSequence, k, local[d][k], cursor[d])
  BY <1>1 DEF EntityInv
<1>5. \A k \in Entity : Kept(history, nextSequence, k, local[d][k], local[d][k], cursor[d])
  BY <1>3, <1>4, Untouched
<1> QED
  BY <1>1, <1>2, <1>3, <1>4, <1>5

\* A step that replaces one entity of one device by what an operator keeps.
LEMMA EntityStep ==
    ASSUME MeshInv, NEW d \in Enrollment, NEW k \in Entity, NEW m,
           Kept(history, nextSequence, k, local[d][k], m, cursor[d]),
           local' = [local EXCEPT ![d][k] = m],
           UNCHANGED <<vars, cursor, resetRequired, outSequence, phase, sent, verdict, page,
                       staged>>
    PROVE  MeshInv' /\ local'[d][k] = m
<1>0. /\ MeshTypeOK /\ local[d] \in [Entity -> LocalEntity]
      /\ \A j \in Entity :
            Kept(history, nextSequence, j, local[d][j], local[d][j], cursor[d])
  BY DeviceFacts, DeviceTypes
<1>1. resetRequired[d] \in BOOLEAN /\ phase[d] \in Phase
  BY <1>0, DeviceTypes
<1>2. m \in LocalEntity
  BY DEF Kept
<1>3. /\ local' = [local EXCEPT ![d] = local'[d]]
      /\ local'[d] = [local[d] EXCEPT ![k] = m]
  BY <1>0 DEF MeshTypeOK
<1>4. OnlyMoves(d)
  BY <1>0, <1>3 DEF OnlyMoves, MeshTypeOK
<1>5. local'[d] \in [Entity -> LocalEntity] /\ local'[d][k] = m
  BY <1>0, <1>2, <1>3
<1>6. \A j \in Entity : Kept(history, nextSequence, j, local[d][j], local'[d][j], cursor[d])
  BY <1>0, <1>3
<1>7. /\ UNCHANGED vars /\ UNCHANGED <<cursor, outSequence, sent>>
      /\ resetRequired'[d] = resetRequired[d] /\ phase'[d] = phase[d]
      /\ verdict'[d] = verdict[d] /\ page'[d] = page[d] /\ staged'[d] = staged[d]
  OBVIOUS
<1>8. MeshInv'
  BY <1>1, <1>4, <1>5, <1>6, <1>7, KeepingStep
<1> QED
  BY <1>5, <1>8

\* What the domain row may be after a step: replaced only where DirtyRowsKept allows it.
DomainKept(l, m) ==
    l.bound /\ (Dirty(l) \/ l.conflict.open) /\ m.domain # l.domain =>
        \/ m.generation = l.generation + 1
        \/ l.conflict.open /\ ~m.conflict.open

\* The user saves an entity.
LEMMA LocalWriteStep ==
    ASSUME MeshInv, NEW d \in Enrollment, NEW k \in Entity, NEW payload \in Payload,
           LocalWrite(d, k, payload)
    PROVE  MeshInv'
<1>0. /\ local[d][k] \in LocalEntity /\ LocalInv(local[d][k])
      /\ RemoteInv(history, nextSequence, k, local[d][k], cursor[d])
  BY DeviceFacts
<1>1. PICK operation : operation = IF local[d][k].domain = NoPayload
                                   THEN "create" ELSE "update"
  OBVIOUS
<1>2. PICK written : written = [local[d][k] EXCEPT !.domain = payload]
  OBVIOUS
<1>3. PICK m : m = IF local[d][k].bound THEN Recorded(written, operation, payload) ELSE written
  OBVIOUS
<1>4. /\ payload \in PayloadOrNull /\ payload # NoPayload
      /\ operation \in Operation /\ operation # "delete"
  BY <1>1, CoordinatorAssumption DEF PayloadOrNull, Operation
<1>5. /\ local[d][k].bound => local[d][k].generation < MaxEdits
      /\ local' = [local EXCEPT ![d][k] = m]
      /\ UNCHANGED <<vars, cursor, resetRequired, outSequence, phase, sent, verdict, page,
                     staged>>
  BY <1>1, <1>2, <1>3 DEF LocalWrite, CanEdit
<1>6. Kept(history, nextSequence, k, local[d][k], m, cursor[d])
  BY <1>0, <1>2, <1>3, <1>4, <1>5, EditKept
<1> QED
  BY <1>5, <1>6, EntityStep

\* The user deletes an entity.
LEMMA LocalDeleteStep ==
    ASSUME MeshInv, NEW d \in Enrollment, NEW k \in Entity, LocalDelete(d, k)
    PROVE  MeshInv'
<1>0. /\ local[d][k] \in LocalEntity /\ LocalInv(local[d][k])
      /\ RemoteInv(history, nextSequence, k, local[d][k], cursor[d])
  BY DeviceFacts
<1>1. PICK operation : operation = "delete"
  OBVIOUS
<1>2. PICK written : written = [local[d][k] EXCEPT !.domain = NoPayload]
  OBVIOUS
<1>3. PICK m : m = IF local[d][k].bound THEN Recorded(written, operation, NoPayload) ELSE written
  OBVIOUS
<1>4. NoPayload \in PayloadOrNull /\ operation \in Operation
  BY <1>1 DEF PayloadOrNull, Operation
<1>5. /\ local[d][k].bound => local[d][k].generation < MaxEdits
      /\ local' = [local EXCEPT ![d][k] = m]
      /\ UNCHANGED <<vars, cursor, resetRequired, outSequence, phase, sent, verdict, page,
                     staged>>
  BY <1>1, <1>2, <1>3 DEF LocalDelete, CanEdit
<1>6. Kept(history, nextSequence, k, local[d][k], m, cursor[d])
  BY <1>0, <1>1, <1>2, <1>3, <1>4, <1>5, EditKept
<1> QED
  BY <1>5, <1>6, EntityStep

\* A local-only entity is adopted into the account.
LEMMA BindLocalStep ==
    ASSUME MeshInv, NEW d \in Enrollment, NEW k \in Entity, BindLocalEntity(d, k)
    PROVE  MeshInv'
<1>0. /\ local[d][k] \in LocalEntity /\ LocalInv(local[d][k])
      /\ RemoteInv(history, nextSequence, k, local[d][k], cursor[d])
  BY DeviceFacts
<1>1. PICK m : m = Recorded(Bind(local[d][k], 0, NoPayload), "create", local[d][k].domain)
  OBVIOUS
<1>2. /\ ~local[d][k].bound /\ local[d][k].domain # NoPayload /\ MaxEdits > 0
      /\ local' = [local EXCEPT ![d][k] = m]
      /\ UNCHANGED <<vars, cursor, resetRequired, outSequence, phase, sent, verdict, page,
                     staged>>
  BY <1>1 DEF BindLocalEntity
<1>3. Kept(history, nextSequence, k, local[d][k], m, cursor[d])
  BY <1>0, <1>1, <1>2, BindLocalKept
<1> QED
  BY <1>2, <1>3, EntityStep

\* The user resolves a conflict, either way.
LEMMA ResolveStep ==
    ASSUME MeshInv, NEW d \in Enrollment, NEW k \in Entity,
           ResolveKeepLocal(d, k) \/ ResolveUseRemote(d, k)
    PROVE  MeshInv'
<1>0. /\ local[d][k] \in LocalEntity /\ LocalInv(local[d][k])
      /\ RemoteInv(history, nextSequence, k, local[d][k], cursor[d])
  BY DeviceFacts
<1>1. CASE ResolveKeepLocal(d, k)
  <2>1. PICK m : m = KeptLocal(local[d][k])
    OBVIOUS
  <2>2. /\ local[d][k].conflict.open /\ KeptLocal(local[d][k]).generation <= MaxEdits
        /\ local' = [local EXCEPT ![d][k] = m]
        /\ UNCHANGED <<vars, cursor, resetRequired, outSequence, phase, sent, verdict, page,
                       staged>>
    BY <1>1, <2>1 DEF ResolveKeepLocal
  <2>3. Kept(history, nextSequence, k, local[d][k], m, cursor[d])
    BY <1>0, <2>1, <2>2, KeptLocalKept
  <2> QED
    BY <2>2, <2>3, EntityStep
<1>2. CASE ResolveUseRemote(d, k)
  <2>1. PICK m : m = UsedRemote(local[d][k])
    OBVIOUS
  <2>2. /\ local[d][k].conflict.open
        /\ local' = [local EXCEPT ![d][k] = m]
        /\ UNCHANGED <<vars, cursor, resetRequired, outSequence, phase, sent, verdict, page,
                       staged>>
    BY <1>2, <2>1 DEF ResolveUseRemote
  <2>3. Kept(history, nextSequence, k, local[d][k], m, cursor[d])
    BY <1>0, <2>1, <2>2, UsedRemoteKept
  <2> QED
    BY <2>2, <2>3, EntityStep
<1> QED
  BY <1>1, <1>2

\* The phases of a cycle that store nothing: a replay, an empty or refused pull, and
\* a cycle that is cut short anywhere.
LEMMA CycleEndsStep ==
    ASSUME MeshInv, NEW d \in Enrollment, Replay(d) \/ FinishPull(d) \/ AbandonCycle(d)
    PROVE  MeshInv'
<1>0. /\ MeshTypeOK /\ local[d] \in [Entity -> LocalEntity] /\ resetRequired[d] \in BOOLEAN
      /\ \A k \in Entity :
            Kept(history, nextSequence, k, local[d][k], local[d][k], cursor[d])
      /\ verdict[d] # NoResult => phase[d] = "pushing"
      /\ page[d] # NoPage => phase[d] = "pulling"
  BY DeviceFacts, DeviceTypes
<1>1. /\ UNCHANGED vars /\ UNCHANGED local /\ UNCHANGED <<cursor, outSequence, sent>>
      /\ resetRequired' \in {resetRequired, [resetRequired EXCEPT ![d] = TRUE]}
      /\ phase'[d] \in Phase /\ phase' = [phase EXCEPT ![d] = phase'[d]]
      /\ \/ verdict' = verdict /\ verdict[d] = NoResult
         \/ verdict' = [verdict EXCEPT ![d] = NoResult]
      /\ \/ page' = page /\ page[d] = NoPage
         \/ page' = [page EXCEPT ![d] = NoPage]
      /\ staged' = staged \/ staged' = [staged EXCEPT ![d] = NoStaging]
  <2>1. CASE Replay(d)
    BY <1>0, <2>1 DEF Replay, Phase, MeshTypeOK
  <2>2. CASE FinishPull(d)
    <3>1. \E next \in Phase : phase' = [phase EXCEPT ![d] = next]
      BY <2>2 DEF FinishPull, AfterPull, Phase
    <3>2. phase'[d] \in Phase /\ phase' = [phase EXCEPT ![d] = phase'[d]]
      BY <1>0, <3>1 DEF MeshTypeOK
    <3> QED
      BY <1>0, <2>2, <3>2 DEF FinishPull
  <2>3. CASE AbandonCycle(d)
    BY <1>0, <2>3 DEF AbandonCycle, Phase, MeshTypeOK
  <2> QED
    BY <2>1, <2>2, <2>3
<1>2. OnlyMoves(d) /\ resetRequired'[d] \in BOOLEAN
  BY <1>0, <1>1 DEF OnlyMoves, MeshTypeOK
<1>3. /\ verdict'[d] = NoResult /\ page'[d] = NoPage
      /\ staged'[d] = NoStaging \/ staged'[d] = staged[d]
  BY <1>0, <1>1 DEF MeshTypeOK
<1> QED
  BY <1>0, <1>1, <1>2, <1>3, KeepingStep

\* Dropping unsendable deletions leaves the device's entities with their promises.
LEMMA DroppedEntity ==
    ASSUME MeshInv, NEW d \in Enrollment, NEW j \in Entity, NEW m,
           \/ m = local[d][j]
           \/ j \in Unsent(d) /\ m = [local[d][j] EXCEPT !.pending = NoRow]
    PROVE  /\ Kept(history, nextSequence, j, local[d][j], m, cursor[d])
           /\ m.domain = local[d][j].domain /\ (m.bound <=> local[d][j].bound)
           /\ m.base = local[d][j].base /\ m.conflict = local[d][j].conflict
<1>0. /\ local[d][j] \in LocalEntity /\ LocalInv(local[d][j])
      /\ RemoteInv(history, nextSequence, j, local[d][j], cursor[d])
      /\ Kept(history, nextSequence, j, local[d][j], local[d][j], cursor[d])
  BY DeviceFacts
<1>1. CASE m = local[d][j]
  BY <1>0, <1>1
<1>2. CASE j \in Unsent(d) /\ m = [local[d][j] EXCEPT !.pending = NoRow]
  <2>1. HasRow(local[d][j].pending) /\ ~local[d][j].conflict.open
    BY <1>2 DEF Unsent, Candidates
  <2> QED
    BY <1>0, <1>2, <2>1, DroppedKept
<1> QED
  BY <1>1, <1>2

\* A cycle with nothing to push.
LEMMA ReadOnlyStep ==
    ASSUME MeshInv, NEW d \in Enrollment, NEW dropped \in SUBSET Entity,
           ReadOnlyCycle(d, dropped)
    PROVE  MeshInv'
<1>0. /\ MeshTypeOK /\ local[d] \in [Entity -> LocalEntity] /\ resetRequired[d] \in BOOLEAN
      /\ verdict[d] # NoResult => phase[d] = "pushing"
      /\ page[d] # NoPage => phase[d] = "pulling"
  BY DeviceFacts, DeviceTypes
<1>1. /\ phase[d] = "idle" /\ dropped \subseteq Unsent(d)
      /\ UNCHANGED <<vars, cursor, resetRequired, outSequence, sent, verdict, page, staged>>
      /\ phase' \in {[phase EXCEPT ![d] = "pulling"], [phase EXCEPT ![d] = "scanning"]}
      /\ local' = [local EXCEPT ![d] = [j \in Entity |->
                     IF j \in dropped THEN [local[d][j] EXCEPT !.pending = NoRow]
                     ELSE local[d][j]]]
  BY DEF ReadOnlyCycle
<1>2. local'[d] = [j \in Entity |->
                     IF j \in dropped THEN [local[d][j] EXCEPT !.pending = NoRow]
                     ELSE local[d][j]]
  BY <1>0, <1>1 DEF MeshTypeOK
<1>3. \A j \in Entity : Kept(history, nextSequence, j, local[d][j], local'[d][j], cursor[d])
  <2>1. SUFFICES ASSUME NEW j \in Entity
                 PROVE  Kept(history, nextSequence, j, local[d][j], local'[d][j], cursor[d])
    OBVIOUS
  <2>2. PICK m : m = local'[d][j]
    OBVIOUS
  <2>3. \/ m = local[d][j]
        \/ j \in Unsent(d) /\ m = [local[d][j] EXCEPT !.pending = NoRow]
    BY <1>1, <1>2, <2>2
  <2> QED
    BY <2>2, <2>3, DroppedEntity
<1>4. local'[d] \in [Entity -> LocalEntity]
  <2>1. \A j \in Entity : local'[d][j] \in LocalEntity
    BY <1>3 DEF Kept
  <2> QED
    BY <1>2, <2>1
<1>5. /\ phase'[d] \in Phase /\ phase' = [phase EXCEPT ![d] = phase'[d]]
  BY <1>0, <1>1 DEF MeshTypeOK, Phase
<1>6. OnlyMoves(d)
  BY <1>0, <1>1, <1>2, <1>5 DEF OnlyMoves, MeshTypeOK
<1>7. /\ resetRequired'[d] \in BOOLEAN /\ verdict'[d] = NoResult /\ page'[d] = NoPage
      /\ staged'[d] = staged[d] /\ UNCHANGED vars /\ UNCHANGED <<cursor, outSequence, sent>>
  BY <1>0, <1>1
<1> QED
  BY <1>3, <1>4, <1>5, <1>6, <1>7, KeepingStep

\* A pending row goes on the wire under a sequence that has never been used.
LEMMA DispatchStep ==
    ASSUME MeshInv, NEW d \in Enrollment, NEW k \in Entity, NEW dropped \in SUBSET Entity,
           Dispatch(d, k, dropped)
    PROVE  MeshInv'
<1>0. /\ Inv /\ MeshTypeOK /\ local[d] \in [Entity -> LocalEntity]
      /\ cursor[d] < nextSequence /\ cursor[d] \in 0 .. MaxSequence
      /\ outSequence[d] \in 1 .. MaxEnrollmentSequence + 1 /\ resetRequired[d] \in BOOLEAN
      /\ sent[d] \in [EnrollmentSequence -> Content \cup {NoContent}]
      /\ verdict[d] \in Result /\ page[d] \in PulledChange /\ staged[d] \in Staging
      /\ verdict[d] # NoResult => phase[d] = "pushing"
      /\ page[d] # NoPage => phase[d] = "pulling"
      /\ WireInv(d) /\ StagedInv(d) /\ staged[d].watermark \in Nat
      /\ local[d][k] \in LocalEntity /\ LocalInv(local[d][k])
      /\ RemoteInv(history, nextSequence, k, local[d][k], cursor[d])
  BY DeviceFacts, DeviceTypes
<1>n. PICK n : n = outSequence[d]
  OBVIOUS
<1>l. PICK l : l = local[d][k]
  OBVIOUS
<1>1. PICK row : row = DispatchedRow(l, n)
  OBVIOUS
<1>2. PICK m : m = WithDispatched(l, row)
  OBVIOUS
<1>3. PICK c : c = [entity |-> k, operation |-> row.operation,
                    baseRevision |-> row.baseRevision, payload |-> row.payload]
  OBVIOUS
<1>4. /\ phase[d] = "idle" /\ InFlight(d) = {} /\ k \in Candidates(d) \ Unsent(d)
      /\ dropped \subseteq Unsent(d) /\ n <= MaxEnrollmentSequence
      /\ outSequence' = [outSequence EXCEPT ![d] = n + 1]
      /\ local' = [local EXCEPT ![d] = [j \in Entity |->
                     IF j = k THEN m
                     ELSE IF j \in dropped THEN [local[d][j] EXCEPT !.pending = NoRow]
                     ELSE local[d][j]]]
      /\ sent' = [sent EXCEPT ![d][n] = c]
      /\ phase' = [phase EXCEPT ![d] = "pushing"]
      /\ UNCHANGED <<vars, cursor, resetRequired, verdict, page, staged>>
  BY <1>n, <1>l, <1>1, <1>2, <1>3 DEF Dispatch, DispatchedRow, WithDispatched
<1>5. n \in EnrollmentSequence /\ n \in Nat
  BY <1>0, <1>n, <1>4, CoordinatorAssumption DEF EnrollmentSequence
<1>6. /\ HasRow(l.pending) /\ ~l.conflict.open /\ ~HasRow(l.inFlight)
      /\ ~(l.pending.operation = "delete" /\ l.base = 0)
  BY <1>l, <1>4 DEF Candidates, Unsent, InFlight
<1>7. /\ m \in LocalEntity /\ LocalInv(m)
      /\ RemoteInv(history, nextSequence, k, m, cursor[d])
      /\ m.inFlight = row /\ row.sequence = n
      /\ row.operation \in Operation /\ row.baseRevision \in 0 .. MaxSequence
      /\ row.payload \in PayloadOrNull
      /\ (row.operation = "create") <=> (row.baseRevision = 0)
      /\ (row.operation = "delete") <=> (row.payload = NoPayload)
  <2>1. /\ l \in LocalEntity /\ LocalInv(l)
        /\ RemoteInv(history, nextSequence, k, l, cursor[d])
    BY <1>0, <1>l
  <2> QED
    BY <1>1, <1>2, <1>5, <1>6, <2>1, DispatchedKept
<1>8. c \in Content /\ WellFormed(c)
  BY <1>3, <1>7 DEF Content, WellFormed
<1>9. /\ local'[d] = [j \in Entity |->
                        IF j = k THEN m
                        ELSE IF j \in dropped THEN [local[d][j] EXCEPT !.pending = NoRow]
                        ELSE local[d][j]]
      /\ sent'[d] = [sent[d] EXCEPT ![n] = c] /\ phase'[d] = "pushing"
      /\ outSequence'[d] = n + 1 /\ cursor'[d] = cursor[d]
      /\ verdict'[d] = NoResult /\ page'[d] = NoPage /\ staged'[d] = staged[d]
      /\ resetRequired'[d] = resetRequired[d]
  BY <1>0, <1>4 DEF MeshTypeOK
<1>10. \A j \in Entity : j # k =>
          /\ local'[d][j] \in LocalEntity /\ LocalInv(local'[d][j])
          /\ RemoteInv(history, nextSequence, j, local'[d][j], cursor[d])
          /\ ~HasRow(local'[d][j].inFlight)
  <2>1. SUFFICES ASSUME NEW j \in Entity, j # k
                 PROVE  /\ local'[d][j] \in LocalEntity /\ LocalInv(local'[d][j])
                        /\ RemoteInv(history, nextSequence, j, local'[d][j], cursor[d])
                        /\ ~HasRow(local'[d][j].inFlight)
    OBVIOUS
  <2>2. PICK x : x = local'[d][j]
    OBVIOUS
  <2>3. \/ x = local[d][j]
        \/ j \in Unsent(d) /\ x = [local[d][j] EXCEPT !.pending = NoRow]
    BY <1>4, <1>9, <2>1, <2>2
  <2>4. Kept(history, nextSequence, j, local[d][j], x, cursor[d])
    BY <2>3, DroppedEntity
  <2>5. ~HasRow(local[d][j].inFlight)
    BY <1>4 DEF InFlight
  <2> QED
    BY <2>2, <2>4, <2>5 DEF Kept, WireKept
<1>11. OnlyMoves(d)
  BY <1>0, <1>4, <1>9 DEF OnlyMoves, MeshTypeOK
<1>12. DeviceTyped(d)
  <2>1. local'[d] \in [Entity -> LocalEntity]
    <3>1. \A j \in Entity : local'[d][j] \in LocalEntity
      BY <1>7, <1>9, <1>10
    <3> QED
      BY <1>9, <3>1
  <2>2. sent'[d] \in [EnrollmentSequence -> Content \cup {NoContent}]
    BY <1>0, <1>5, <1>8, <1>9
  <2>3. n + 1 \in 1 .. MaxEnrollmentSequence + 1
    BY <1>4, <1>5, CoordinatorAssumption
  <2>4. phase'[d] \in Phase
    BY <1>9 DEF Phase
  <2>5. /\ cursor'[d] \in 0 .. MaxSequence /\ resetRequired'[d] \in BOOLEAN
        /\ outSequence'[d] \in 1 .. MaxEnrollmentSequence + 1
        /\ page'[d] \in PulledChange /\ staged'[d] \in Staging
    BY <1>0, <1>4, <1>9, <2>3
  <2>6. verdict'[d] \in Result
    BY <1>0, <1>4
  <2> QED
    BY <2>1, <2>2, <2>4, <2>5, <2>6 DEF DeviceTyped
<1>13. ~HasReceipt(d, n)
  BY <1>0, <1>5, <1>n DEF WireInv
<1>14. /\ UNCHANGED <<nextSequence, history, entities, receipts>>
       /\ JournalGrows
  BY <1>0, <1>4, JournalWaits DEF vars, journalVars, pushVars
<1>15. WireInv(d)'
  <2>1. SUFFICES ASSUME NEW i \in EnrollmentSequence
                 PROVE  /\ sent'[d][i] # NoContent
                              => WellFormed(sent'[d][i]) /\ i < outSequence'[d]
                        /\ receipts'[d][i].result.status # "none" =>
                              /\ sent'[d][i] # NoContent
                              /\ receipts'[d][i].content = sent'[d][i]
                              /\ AnswerKnown(history', nextSequence', sent'[d][i],
                                             receipts'[d][i].result)
    BY DEF WireInv, HasReceipt
  <2>2. CASE i = n
    BY <1>0, <1>5, <1>8, <1>9, <1>13, <1>14, <2>2 DEF HasReceipt
  <2>3. CASE i # n
    <3>1. sent'[d][i] = sent[d][i] /\ i \in Nat
      BY <1>0, <1>9, <2>3, MeshNumbers
    <3>2. sent'[d][i] # NoContent => WellFormed(sent'[d][i]) /\ i < outSequence'[d]
      BY <1>0, <1>5, <1>9, <1>n, <3>1 DEF WireInv
    <3> QED
      BY <1>0, <1>14, <3>1, <3>2 DEF WireInv, HasReceipt
  <2> QED
    BY <2>2, <2>3
<1>16. DeviceInv(d)'
  <2>1. StagedInv(d)'
    BY <1>0, <1>9, <1>14, StagedStays
  <2>2. PageInv(d)'
    BY <1>9 DEF PageInv
  <2> QED
    BY <1>0, <1>9, <1>14, <1>15, <2>1, <2>2 DEF DeviceInv
<1>17. EntityInv(d, k)'
  <2>1. /\ local'[d][k] = m /\ sent'[d][n] = c
    BY <1>0, <1>5, <1>9
  <2>2. NoResult.status = "none" /\ receipts[d][n].result.status = "none"
    BY <1>13 DEF NoResult, HasReceipt
  <2>3. /\ AnswerKnown(history', nextSequence', sent'[d][n], verdict'[d])
        /\ AnswerNewest(history', k, m, cursor'[d], verdict'[d])
        /\ AnswerNewest(history', k, m, cursor'[d], receipts'[d][n].result)
    BY <1>9, <1>14, <2>2 DEF AnswerKnown, AnswerNewest
  <2> QED
    BY <1>3, <1>5, <1>7, <1>9, <1>14, <2>1, <2>3 DEF EntityInv, DispatchedInv
<1>18. \A j \in Entity : EntityInv(d, j)'
  <2>1. \A j \in Entity : j # k => EntityInv(d, j)'
    BY <1>9, <1>10, <1>14 DEF EntityInv, DispatchedInv
  <2> QED
    BY <1>17, <2>1
<1>19. UNCHANGED vars
  BY <1>4
<1> QED
  BY <1>11, <1>12, <1>16, <1>18, <1>19, DeviceStep

\* The entities of a device stay put while a step changes something else about it.
LEMMA EntitiesRest ==
    ASSUME MeshInv, NEW d \in Enrollment, UNCHANGED vars,
           local'[d] = local[d], cursor'[d] = cursor[d], sent'[d] = sent[d],
           outSequence'[d] = outSequence[d],
           verdict'[d] = verdict[d] \/ verdict'[d] = NoResult
    PROVE  (\A k \in Entity : EntityInv(d, k)') /\ WireInv(d)' /\ JournalGrows
<1>0. /\ Inv /\ DeviceInv(d) /\ \A k \in Entity : EntityInv(d, k)
      /\ cursor[d] \in Nat /\ WireInv(d)
      /\ UNCHANGED <<nextSequence, history, entities, receipts>>
  BY DeviceFacts DEF vars, journalVars, pushVars
<1>1. JournalGrows /\ ReceiptsStay(d)
  BY <1>0, JournalWaits DEF ReceiptsStay
<1>2. ASSUME NEW k \in Entity PROVE EntityInv(d, k)'
  <2>1. PICK m : m = local'[d][k]
    OBVIOUS
  <2>2. Kept(history, nextSequence, k, local[d][k], m, cursor[d])
    BY <2>1, DeviceFacts
  <2> QED
    BY <1>0, <1>1, <2>1, <2>2, EntityMoves
<1>3. WireInv(d)'
  BY <1>0, <1>1, WireStays
<1> QED
  BY <1>1, <1>2, <1>3

\* The answer to a push is applied to the dispatched row it answers.
LEMMA ApplyVerdictStep ==
    ASSUME MeshInv, NEW d \in Enrollment, ApplyVerdict(d)
    PROVE  /\ MeshInv'
           /\ \A k \in Entity :
                 \/ local'[d][k] = local[d][k]
                 \/ k \in InFlight(d) /\ local'[d][k] = Answered(local[d][k], verdict[d])
<1>0. /\ MeshTypeOK /\ local[d] \in [Entity -> LocalEntity] /\ resetRequired[d] \in BOOLEAN
      /\ verdict[d] \in Result /\ (page[d] # NoPage => phase[d] = "pulling")
      /\ \A k \in Entity : EntityInv(d, k)
  BY DeviceFacts, DeviceTypes
<1>1. /\ phase[d] = "pushing" /\ verdict' = [verdict EXCEPT ![d] = NoResult]
      /\ UNCHANGED <<vars, cursor, outSequence, sent, page, staged>>
      /\ phase'[d] \in Phase /\ phase' = [phase EXCEPT ![d] = phase'[d]]
      /\ resetRequired'[d] \in BOOLEAN
      /\ resetRequired' = [resetRequired EXCEPT ![d] = resetRequired'[d]]
      /\ \/ local' = local
         \/ local' = [local EXCEPT ![d] = [k \in Entity |->
                        IF k \in InFlight(d) THEN Answered(local[d][k], verdict[d])
                        ELSE local[d][k]]]
  BY <1>0 DEF ApplyVerdict, MeshTypeOK, Phase
<1>2. /\ \/ local'[d] = local[d]
         \/ local'[d] = [k \in Entity |->
                           IF k \in InFlight(d) THEN Answered(local[d][k], verdict[d])
                           ELSE local[d][k]]
      /\ local' = [local EXCEPT ![d] = local'[d]]
  BY <1>0, <1>1 DEF MeshTypeOK
<1>3. \A k \in Entity :
         \/ local'[d][k] = local[d][k]
         \/ k \in InFlight(d) /\ local'[d][k] = Answered(local[d][k], verdict[d])
  BY <1>2
<1>4. ASSUME NEW k \in Entity
      PROVE  Kept(history, nextSequence, k, local[d][k], local'[d][k], cursor[d])
  <2>0. /\ local[d][k] \in LocalEntity /\ LocalInv(local[d][k])
        /\ RemoteInv(history, nextSequence, k, local[d][k], cursor[d])
        /\ Kept(history, nextSequence, k, local[d][k], local[d][k], cursor[d])
    BY DeviceFacts
  <2>1. PICK m : m = local'[d][k]
    OBVIOUS
  <2>2. PICK l : l = local[d][k]
    OBVIOUS
  <2>3. CASE k \in InFlight(d) /\ m = Answered(l, verdict[d])
    <3>1. PICK c : c = sent[d][l.inFlight.sequence]
      OBVIOUS
    <3>2. HasRow(l.inFlight)
      BY <2>2, <2>3 DEF InFlight
    <3>3. /\ c.entity = k /\ c.baseRevision = l.inFlight.baseRevision
          /\ c.payload = l.inFlight.payload
          /\ AnswerKnown(history, nextSequence, c, verdict[d])
          /\ AnswerNewest(history, k, l, cursor[d], verdict[d])
      <4>1. DispatchedInv(d, k)
        BY <1>0 DEF EntityInv
      <4>2. /\ c = [entity |-> k, operation |-> l.inFlight.operation,
                    baseRevision |-> l.inFlight.baseRevision,
                    payload |-> l.inFlight.payload]
            /\ AnswerKnown(history, nextSequence, c, verdict[d])
            /\ AnswerNewest(history, k, local[d][k], cursor[d], verdict[d])
        BY <2>2, <3>1, <3>2, <4>1 DEF DispatchedInv
      <4> QED
        BY <2>2, <4>2
    <3>4. /\ l \in LocalEntity /\ LocalInv(l)
          /\ RemoteInv(history, nextSequence, k, l, cursor[d])
      BY <2>0, <2>2
    <3>5. Kept(history, nextSequence, k, l, m, cursor[d])
      BY <1>0, <2>3, <3>2, <3>3, <3>4, AnsweredKept
    <3> QED
      BY <2>1, <2>2, <3>5
  <2>4. CASE m = l
    BY <2>0, <2>1, <2>2, <2>4
  <2> QED
    BY <1>3, <2>1, <2>2, <2>3, <2>4
<1>5. local'[d] \in [Entity -> LocalEntity]
  <2>1. \A k \in Entity : local'[d][k] \in LocalEntity
    BY <1>4 DEF Kept
  <2> QED
    BY <1>0, <1>2, <2>1
<1>6. OnlyMoves(d)
  BY <1>0, <1>1, <1>2 DEF OnlyMoves, MeshTypeOK
<1>7. /\ verdict'[d] = NoResult /\ page'[d] = NoPage /\ staged'[d] = staged[d]
      /\ UNCHANGED vars /\ UNCHANGED <<cursor, outSequence, sent>>
  BY <1>0, <1>1 DEF MeshTypeOK
<1>8. MeshInv'
  BY <1>1, <1>4, <1>5, <1>6, <1>7, KeepingStep
<1> QED
  BY <1>3, <1>8

\* A pull that is not told to reset is answered with the very next change.
LEMMA PullIsNext ==
    ASSUME Inv, NEW from \in Nat, from < nextSequence, ~ResetRequired(from),
           Pullable(from) # {},
           NEW s, s = CHOOSE r \in Pullable(from) : \A t \in Pullable(from) : r <= t
    PROVE  /\ s = from + 1 /\ s \in Sequence /\ s < nextSequence
           /\ history[s].entity \in Entity
           /\ changes[s].entity = history[s].entity
           /\ changes[s].revision = history[s].revision
           /\ changes[s].operation = history[s].operation
           /\ ServedPayload(s) = history[s].payload
<1>0. /\ JournalInv /\ HistoryInv /\ retentionFloor \in Nat /\ retentionFloor <= from
      /\ nextSequence \in 1 .. MaxSequence + 1 /\ nextSequence \in Nat
      /\ \A t \in Sequence : t \in Nat
  BY JournalTypes, CoordinatorAssumption
     DEF Inv, JournalHalf, JournalTypeOK, ResetRequired
<1>1. ASSUME NEW t \in Pullable(from)
      PROVE  t \in Sequence /\ t \in Nat /\ from < t /\ t < nextSequence
  <2>1. t \in Sequence /\ from < t /\ changes[t].revision # 0
    BY DEF Pullable, Journal
  <2>2. t < nextSequence
    BY <1>0, <2>1 DEF JournalInv, NoChange
  <2> QED
    BY <1>0, <2>1, <2>2
<1>2. from + 1 \in Pullable(from)
  <2>1. PICK t : t \in Pullable(from)
    OBVIOUS
  <2>2. from + 1 \in Sequence /\ from + 1 < nextSequence /\ retentionFloor < from + 1
    BY <1>0, <1>1, <2>1, CoordinatorAssumption DEF Sequence
  <2>3. changes[from + 1].revision = history[from + 1].revision
    BY <1>0, <2>2 DEF JournalInv
  <2>4. history[from + 1].revision \in 1 .. from + 1
    BY <1>0, <2>2 DEF HistoryInv
  <2>5. changes[from + 1].revision # 0
    BY <2>3, <2>4
  <2> QED
    BY <2>2, <2>5 DEF Pullable, Journal
<1>3. \A t \in Pullable(from) : from + 1 <= t
  BY <1>1
<1>4. s \in Pullable(from) /\ \A t \in Pullable(from) : s <= t
  BY <1>2, <1>3
<1>5. s = from + 1 /\ s \in Sequence /\ s < nextSequence /\ retentionFloor < s
  BY <1>0, <1>1, <1>2, <1>4
<1>6. JournalServesHistory
  BY InvServesHistory
<1>7. history[s].entity \in Entity
  BY <1>0, <1>5 DEF HistoryInv
<1> QED
  BY <1>5, <1>6, <1>7 DEF JournalServesHistory

\* A pull is answered.
LEMMA ServePullStep ==
    ASSUME MeshInv, NEW d \in Enrollment, ServePull(d)
    PROVE  MeshInv'
<1>0. /\ Inv /\ MeshTypeOK /\ DeviceInv(d)
      /\ cursor[d] < nextSequence /\ cursor[d] \in Nat
      /\ verdict[d] # NoResult => phase[d] = "pushing"
      /\ StagedInv(d) /\ staged[d].watermark \in Nat
  BY DeviceFacts, DeviceTypes
<1>t. /\ local[d] \in [Entity -> LocalEntity]
      /\ cursor[d] \in 0 .. MaxSequence /\ resetRequired[d] \in BOOLEAN
      /\ outSequence[d] \in 1 .. MaxEnrollmentSequence + 1 /\ phase[d] \in Phase
      /\ sent[d] \in [EnrollmentSequence -> Content \cup {NoContent}]
      /\ verdict[d] \in Result /\ staged[d] \in Staging
  BY <1>0, DeviceTypes
<1>1. PICK s : s = CHOOSE r \in Pullable(cursor[d]) :
                      \A t \in Pullable(cursor[d]) : r <= t
  OBVIOUS
<1>3. PICK new : new = [sequence |-> s, entity |-> changes[s].entity,
                        revision |-> changes[s].revision, operation |-> changes[s].operation,
                        payload |-> ServedPayload(s),
                        hasMore |-> Pullable(cursor[d]) # {s}]
  OBVIOUS
<1>4. /\ phase[d] = "pulling" /\ ~ResetRequired(cursor[d]) /\ Pullable(cursor[d]) # {}
      /\ page' = [page EXCEPT ![d] = new]
      /\ UNCHANGED <<vars, local, cursor, resetRequired, outSequence, phase, sent, verdict,
                     staged>>
  BY <1>1, <1>3 DEF ServePull
<1>5. /\ s = cursor[d] + 1 /\ s \in Sequence /\ s < nextSequence
      /\ history[s].entity \in Entity
      /\ changes[s].entity = history[s].entity
      /\ changes[s].revision = history[s].revision
      /\ changes[s].operation = history[s].operation
      /\ ServedPayload(s) = history[s].payload
  BY <1>0, <1>1, <1>4, PullIsNext
<1>6. /\ new.sequence = s /\ new.entity = history[s].entity
      /\ new.revision = history[s].revision /\ new.operation = history[s].operation
      /\ new.payload = history[s].payload
  BY <1>3, <1>5
<1>7. new \in PulledChange
  <2>1. history[s] \in HistoryRow /\ s \in 0 .. MaxSequence
    BY <1>0, <1>5, JournalTypes, CoordinatorAssumption DEF Sequence
  <2>2. (Pullable(cursor[d]) # {s}) \in BOOLEAN
    OBVIOUS
  <2> QED
    BY <1>3, <1>5, <2>1, <2>2 DEF PulledChange, HistoryRow
<1>8. page'[d] = new
  BY <1>0, <1>4 DEF MeshTypeOK
<1>9. OnlyMoves(d) /\ DeviceTyped(d)
  BY <1>0, <1>t, <1>4, <1>7, <1>8 DEF OnlyMoves, DeviceTyped, MeshTypeOK
<1>10. (\A k \in Entity : EntityInv(d, k)') /\ WireInv(d)' /\ JournalGrows
  BY <1>4, EntitiesRest
<1>11. UNCHANGED <<nextSequence, history, entities>> /\ UNCHANGED vars
  BY <1>4 DEF vars, journalVars
<1>12. StagedInv(d)'
  BY <1>0, <1>4, <1>10, StagedStays
<1>13. PageInv(d)'
  BY <1>4, <1>5, <1>6, <1>8, <1>11 DEF PageInv
<1>14. DeviceInv(d)'
  BY <1>0, <1>4, <1>10, <1>11, <1>12, <1>13 DEF DeviceInv
<1> QED
  BY <1>9, <1>10, <1>11, <1>14, DeviceStep

\* A scan is staged: the heads as they are now.
LEMMA StageScanStep ==
    ASSUME MeshInv, NEW d \in Enrollment, StageScan(d)
    PROVE  MeshInv'
<1>0. /\ Inv /\ MeshTypeOK /\ DeviceInv(d)
      /\ cursor[d] < nextSequence /\ cursor[d] \in Nat
      /\ verdict[d] # NoResult => phase[d] = "pushing"
      /\ PageInv(d) /\ page[d].sequence \in 0 .. MaxSequence
  BY DeviceFacts, DeviceTypes
<1>t. /\ local[d] \in [Entity -> LocalEntity]
      /\ cursor[d] \in 0 .. MaxSequence /\ resetRequired[d] \in BOOLEAN
      /\ outSequence[d] \in 1 .. MaxEnrollmentSequence + 1 /\ phase[d] \in Phase
      /\ sent[d] \in [EnrollmentSequence -> Content \cup {NoContent}]
      /\ verdict[d] \in Result /\ page[d] \in PulledChange
  BY <1>0, DeviceTypes
<1>2. PICK new : new = [ready |-> TRUE, watermark |-> Watermark, heads |-> entities]
  OBVIOUS
<1>3. /\ new.ready /\ new.watermark = nextSequence - 1 /\ new.heads = entities
      /\ new \in Staging
  BY <1>0, <1>2, JournalTypes, CoordinatorAssumption DEF Watermark, Staging
<1>4. /\ staged' = [staged EXCEPT ![d] = new]
      /\ UNCHANGED <<vars, local, cursor, resetRequired, outSequence, phase, sent, verdict,
                     page>>
  BY <1>2 DEF StageScan
<1>5. staged'[d] = new
  BY <1>0, <1>4 DEF MeshTypeOK
<1>6. OnlyMoves(d) /\ DeviceTyped(d)
  BY <1>0, <1>t, <1>3, <1>4, <1>5 DEF OnlyMoves, DeviceTyped, MeshTypeOK
<1>7. (\A k \in Entity : EntityInv(d, k)') /\ WireInv(d)' /\ JournalGrows
  BY <1>4, EntitiesRest
<1>8. UNCHANGED <<nextSequence, history, entities>> /\ UNCHANGED vars
  BY <1>4 DEF vars, journalVars
<1>9. PageInv(d)'
  BY <1>0, <1>4, <1>7, PageStays
<1>10. StagedInv(d)'
  <2>1. new.watermark < nextSequence
    BY <1>0, <1>3, JournalTypes
  <2>2. \A k \in Entity : entities[k].revision # 0 =>
           /\ WasAccepted(history, nextSequence, k, entities[k].revision, entities[k].payload)
           /\ entities[k].operation = "delete" => entities[k].payload = NoPayload
    BY <1>0, HeadIsNewest
  <2> QED
    BY <1>3, <1>5, <1>8, <2>1, <2>2 DEF StagedInv
<1>11. DeviceInv(d)'
  BY <1>0, <1>4, <1>7, <1>8, <1>9, <1>10 DEF DeviceInv
<1> QED
  BY <1>6, <1>7, <1>8, <1>11, DeviceStep

\* The page a device is about to apply is the accepted change right behind its cursor.
LEMMA PageFacts ==
    ASSUME MeshInv, NEW d \in Enrollment, page[d] # NoPage
    PROVE  LET change == page[d]
               v == change.sequence
           IN /\ v = cursor[d] + 1 /\ v \in Sequence /\ v \in Nat /\ v < nextSequence
              /\ change.entity \in Entity /\ history[v].entity = change.entity
              /\ change.revision \in 0 .. MaxSequence /\ change.revision # 0
              /\ change.payload \in PayloadOrNull
              /\ change.operation = history[v].operation
              /\ change.revision = history[v].revision
              /\ WasAccepted(history, nextSequence, change.entity, change.revision,
                             change.payload)
              /\ NoneNewer(history, change.entity, v, change.revision)
<1>0. /\ Inv /\ MeshTypeOK /\ PageInv(d) /\ page[d] \in PulledChange
      /\ cursor[d] \in Nat /\ cursor[d] < nextSequence /\ ChainInv /\ HistoryInv
  BY DeviceFacts, DeviceTypes DEF Inv, JournalHalf
<1>1. PICK change : change = page[d]
  OBVIOUS
<1>2. PICK v : v = change.sequence
  OBVIOUS
<1>3. /\ v = cursor[d] + 1 /\ v < nextSequence
      /\ change.entity \in Entity /\ change.entity = history[v].entity
      /\ change.revision = history[v].revision /\ change.operation = history[v].operation
      /\ change.payload = history[v].payload
  BY <1>0, <1>1, <1>2 DEF PageInv
<1>4. change.revision \in 0 .. MaxSequence /\ change.payload \in PayloadOrNull
  BY <1>0, <1>1 DEF PulledChange
<1>5. v \in Sequence /\ v \in Nat
  <2>1. v \in 0 .. MaxSequence
    BY <1>0, <1>1, <1>2 DEF PulledChange
  <2> QED
    BY <1>0, <1>3, <2>1, CoordinatorAssumption DEF Sequence
<1>6. change.revision # 0
  BY <1>0, <1>3, <1>5 DEF HistoryInv
<1>7. WasAccepted(history, nextSequence, change.entity, change.revision, change.payload)
  BY <1>3, <1>5 DEF WasAccepted
<1>8. ASSUME NEW s \in Sequence, history[s].entity = change.entity, s <= v
      PROVE  history[s].revision <= change.revision
  <2>1. s \in Nat /\ history[s].revision \in Nat
    BY <1>0, JournalTypes
  <2>2. s < v => history[s].revision < history[v].revision
    BY <1>0, <1>3, <1>5, <1>8 DEF ChainInv
  <2> QED
    BY <1>3, <1>4, <1>5, <1>8, <2>1, <2>2
<1>9. NoneNewer(history, change.entity, v, change.revision)
  BY <1>8 DEF NoneNewer
<1> QED
  BY <1>1, <1>2, <1>3, <1>4, <1>5, <1>6, <1>7, <1>9

\* Passing a change of another entity, the cursor passes nothing newer of this one.
LEMMA CursorPasses ==
    ASSUME Inv, NEW w \in Nat, NEW v, v = w + 1, NEW k, history[v].entity # k,
           NEW revision, NoneNewer(history, k, w, revision)
    PROVE  NoneNewer(history, k, v, revision)
<1>1. \A s \in Sequence : history[s].entity = k /\ s <= v => s <= w
  BY JournalTypes
<1> QED
  BY <1>1 DEF NoneNewer

\* The change of a pull page is applied and the cursor moves behind it.
LEMMA ApplyPageStep ==
    ASSUME MeshInv, NEW d \in Enrollment, ApplyPage(d)
    PROVE  MeshInv'
<1>0. /\ Inv /\ MeshTypeOK /\ \A j \in Entity : EntityInv(d, j)
      /\ cursor[d] < nextSequence /\ cursor[d] \in Nat
      /\ verdict[d] # NoResult => phase[d] = "pushing"
      /\ WireInv(d) /\ StagedInv(d) /\ staged[d].watermark \in Nat
      /\ \A j \in Entity :
            /\ local[d][j] \in LocalEntity /\ LocalInv(local[d][j])
            /\ RemoteInv(history, nextSequence, j, local[d][j], cursor[d])
  BY DeviceFacts, DeviceTypes
<1>t. /\ local[d] \in [Entity -> LocalEntity] /\ resetRequired[d] \in BOOLEAN
      /\ outSequence[d] \in 1 .. MaxEnrollmentSequence + 1 /\ phase[d] \in Phase
      /\ sent[d] \in [EnrollmentSequence -> Content \cup {NoContent}]
      /\ verdict[d] \in Result /\ page[d] \in PulledChange /\ staged[d] \in Staging
      /\ NoPage \in PulledChange
  <2>1. NoPage \in PulledChange
    BY MeshNumbers DEF NoPage, PulledChange, Operation, PayloadOrNull
  <2> QED
    BY <1>0, <2>1, DeviceTypes
<1>1. PICK change : change = page[d]
  OBVIOUS
<1>2. PICK k : k = change.entity
  OBVIOUS
<1>3. PICK v : v = change.sequence
  OBVIOUS
<1>4. PICK m : m = Applied(local[d][k], change)
  OBVIOUS
<1>5. /\ phase[d] = "pulling" /\ page[d] # NoPage
      /\ local' = [local EXCEPT ![d][k] = m]
      /\ cursor' = [cursor EXCEPT ![d] = v]
      /\ page' = [page EXCEPT ![d] = NoPage]
      /\ \E next \in Phase : phase' = [phase EXCEPT ![d] = next]
      /\ UNCHANGED <<vars, resetRequired, outSequence, sent, verdict, staged>>
  <2>1. k \in Entity /\ d \in DOMAIN local /\ k \in DOMAIN local[d]
    BY <1>0, <1>t, <1>1, <1>2, PageFacts DEF ApplyPage, MeshTypeOK
  <2>2. \E next \in Phase : phase' = [phase EXCEPT ![d] = next]
    BY DEF ApplyPage, AfterPull, Phase
  <2> QED
    BY <1>1, <1>2, <1>3, <1>4, <2>1, <2>2 DEF ApplyPage
<1>6. /\ v = cursor[d] + 1 /\ v \in Sequence /\ v \in Nat /\ v < nextSequence
      /\ k \in Entity /\ history[v].entity = k
      /\ change.revision \in 0 .. MaxSequence /\ change.revision # 0
      /\ change.payload \in PayloadOrNull
      /\ WasAccepted(history, nextSequence, k, change.revision, change.payload)
      /\ NoneNewer(history, k, v, change.revision)
  BY <1>1, <1>2, <1>3, <1>5, PageFacts
<1>7. /\ m \in LocalEntity /\ LocalInv(m) /\ RemoteInv(history, nextSequence, k, m, v)
      /\ HasRow(m.inFlight) => /\ m.inFlight = local[d][k].inFlight
                               /\ m.base # 0 \/ m.conflict.open
  <2>1. \A s \in Sequence : history[s].revision \in Nat
    BY <1>0, JournalTypes
  <2>2. PICK l : l = local[d][k]
    OBVIOUS
  <2>3. /\ l \in LocalEntity /\ LocalInv(l)
        /\ RemoteInv(history, nextSequence, k, l, cursor[d]) /\ m = Applied(l, change)
    BY <1>0, <1>4, <1>6, <2>2
  <2> QED
    BY <1>6, <2>1, <2>2, <2>3, AppliedKept
<1>8. /\ local'[d] = [local[d] EXCEPT ![k] = m] /\ local' = [local EXCEPT ![d] = local'[d]]
      /\ cursor'[d] = v /\ page'[d] = NoPage /\ phase'[d] \in Phase
      /\ phase' = [phase EXCEPT ![d] = phase'[d]]
      /\ sent'[d] = sent[d] /\ verdict'[d] = NoResult /\ outSequence'[d] = outSequence[d]
      /\ resetRequired'[d] = resetRequired[d] /\ staged'[d] = staged[d]
  BY <1>0, <1>5 DEF MeshTypeOK, Phase
<1>9. /\ UNCHANGED <<nextSequence, history, entities, receipts>> /\ UNCHANGED vars
      /\ JournalGrows /\ ReceiptsStay(d)
  BY <1>0, <1>5, JournalWaits DEF vars, journalVars, pushVars, ReceiptsStay
<1>10. OnlyMoves(d)
  BY <1>0, <1>5, <1>8 DEF OnlyMoves, MeshTypeOK
<1>11. DeviceTyped(d)
  <2>1. local'[d] \in [Entity -> LocalEntity]
    BY <1>t, <1>7, <1>8
  <2>2. v \in 0 .. MaxSequence
    BY <1>6, CoordinatorAssumption DEF Sequence
  <2>3. verdict'[d] \in Result
    BY <1>t, <1>5
  <2> QED
    BY <1>t, <1>8, <2>1, <2>2, <2>3 DEF DeviceTyped
<1>12. DeviceInv(d)'
  <2>1. WireInv(d)'
    BY <1>0, <1>8, <1>9, WireStays
  <2>2. StagedInv(d)'
    BY <1>0, <1>8, <1>9, StagedStays
  <2>3. PageInv(d)'
    BY <1>8 DEF PageInv
  <2>4. cursor'[d] < nextSequence'
    BY <1>6, <1>8, <1>9
  <2> QED
    BY <1>8, <2>1, <2>2, <2>3, <2>4 DEF DeviceInv
<1>13. NoResult.status = "none"
  BY DEF NoResult
<1>14. EntityInv(d, k)'
  <2>1. local'[d][k] = m
    BY <1>t, <1>6, <1>8
  <2>2. DispatchedInv(d, k)
    BY <1>0, <1>6 DEF EntityInv
  <2>3. ASSUME HasRow(m.inFlight)
        PROVE  LET n == m.inFlight.sequence
               IN /\ n \in EnrollmentSequence
                  /\ sent'[d][n] = [entity |-> k, operation |-> m.inFlight.operation,
                                    baseRevision |-> m.inFlight.baseRevision,
                                    payload |-> m.inFlight.payload]
                  /\ AnswerKnown(history', nextSequence', sent'[d][n], verdict'[d])
                  /\ AnswerNewest(history', k, m, cursor'[d], verdict'[d])
                  /\ AnswerNewest(history', k, m, cursor'[d], receipts'[d][n].result)
    <3>1. m.inFlight = local[d][k].inFlight /\ (m.base # 0 \/ m.conflict.open)
      BY <1>7, <2>3
    <3>2. /\ m.inFlight.sequence \in EnrollmentSequence
          /\ sent[d][m.inFlight.sequence] =
                [entity |-> k, operation |-> m.inFlight.operation,
                 baseRevision |-> m.inFlight.baseRevision,
                 payload |-> m.inFlight.payload]
      BY <2>2, <2>3, <3>1 DEF DispatchedInv
    <3> QED
      BY <1>8, <1>13, <3>1, <3>2 DEF AnswerKnown, AnswerNewest
  <2> QED
    BY <1>7, <1>8, <1>9, <2>1, <2>3 DEF EntityInv, DispatchedInv
<1>15. ASSUME NEW j \in Entity, j # k PROVE EntityInv(d, j)'
  <2>1. PICK l : l = local[d][j]
    OBVIOUS
  <2>2. local'[d][j] = l
    BY <1>t, <1>8, <1>15, <2>1
  <2>3. /\ LocalInv(l) /\ RemoteInv(history, nextSequence, j, l, cursor[d])
        /\ DispatchedInv(d, j)
    BY <1>0, <2>1 DEF EntityInv
  <2>4. \A revision : NoneNewer(history, j, cursor[d], revision)
                         => NoneNewer(history, j, v, revision)
    BY <1>0, <1>6, <1>15, CursorPasses
  <2>5. RemoteInv(history, nextSequence, j, l, v)
    BY <2>3, <2>4 DEF RemoteInv
  <2>6. ASSUME HasRow(l.inFlight)
        PROVE  LET n == l.inFlight.sequence
               IN /\ n \in EnrollmentSequence
                  /\ sent'[d][n] = [entity |-> j, operation |-> l.inFlight.operation,
                                    baseRevision |-> l.inFlight.baseRevision,
                                    payload |-> l.inFlight.payload]
                  /\ AnswerKnown(history', nextSequence', sent'[d][n], verdict'[d])
                  /\ AnswerNewest(history', j, l, cursor'[d], verdict'[d])
                  /\ AnswerNewest(history', j, l, cursor'[d], receipts'[d][n].result)
    <3>1. /\ l.inFlight.sequence \in EnrollmentSequence
          /\ sent[d][l.inFlight.sequence] =
                [entity |-> j, operation |-> l.inFlight.operation,
                 baseRevision |-> l.inFlight.baseRevision,
                 payload |-> l.inFlight.payload]
          /\ AnswerNewest(history, j, l, cursor[d],
                          receipts[d][l.inFlight.sequence].result)
      BY <2>1, <2>3, <2>6 DEF DispatchedInv
    <3>2. AnswerNewest(history, j, l, v, receipts[d][l.inFlight.sequence].result)
      BY <2>4, <3>1 DEF AnswerNewest
    <3> QED
      BY <1>8, <1>9, <1>13, <3>1, <3>2 DEF AnswerKnown, AnswerNewest
  <2> QED
    BY <1>8, <1>9, <2>2, <2>3, <2>5, <2>6 DEF EntityInv, DispatchedInv
<1>16. \A j \in Entity : EntityInv(d, j)'
  BY <1>14, <1>15
<1> QED
  BY <1>9, <1>10, <1>11, <1>12, <1>16, DeviceStep

\* A staged rebuild replaces what the device holds, and its cursor.
LEMMA ActivateStep ==
    ASSUME MeshInv, NEW d \in Enrollment, ActivateStagedScan(d)
    PROVE  MeshInv'
<1>0. /\ Inv /\ MeshTypeOK
      /\ verdict[d] # NoResult => phase[d] = "pushing"
      /\ page[d] # NoPage => phase[d] = "pulling"
      /\ WireInv(d) /\ StagedInv(d) /\ staged[d].watermark \in Nat
      /\ staged[d].heads \in [Entity -> EntityRow] /\ staged[d] \in Staging
      /\ \A j \in Entity :
            /\ local[d][j] \in LocalEntity /\ LocalInv(local[d][j])
            /\ RemoteInv(history, nextSequence, j, local[d][j], cursor[d])
  BY DeviceFacts, DeviceTypes
<1>t. /\ local[d] \in [Entity -> LocalEntity]
      /\ outSequence[d] \in 1 .. MaxEnrollmentSequence + 1
      /\ sent[d] \in [EnrollmentSequence -> Content \cup {NoContent}]
      /\ verdict[d] \in Result /\ page[d] \in PulledChange
  BY <1>0, DeviceTypes
<1>1. PICK heads : heads = staged[d].heads
  OBVIOUS
<1>2. PICK w : w = staged[d].watermark
  OBVIOUS
<1>3. /\ phase[d] = "scanning" /\ staged[d].ready
      /\ local' = [local EXCEPT ![d] = [k \in Entity |-> Activated(local[d][k], heads[k])]]
      /\ cursor' = [cursor EXCEPT ![d] = w]
      /\ resetRequired' = [resetRequired EXCEPT ![d] = FALSE]
      /\ staged' = [staged EXCEPT ![d] = NoStaging]
      /\ phase' = [phase EXCEPT ![d] = "pulling"]
      /\ UNCHANGED <<vars, outSequence, sent, verdict, page>>
  BY <1>1, <1>2 DEF ActivateStagedScan
<1>4. /\ w < nextSequence /\ w \in 0 .. MaxSequence /\ heads \in [Entity -> EntityRow]
      /\ \A k \in Entity : heads[k].revision # 0 =>
            /\ WasAccepted(history, nextSequence, k, heads[k].revision, heads[k].payload)
            /\ heads[k].operation = "delete" => heads[k].payload = NoPayload
  BY <1>0, <1>1, <1>2, <1>3 DEF StagedInv, Staging
<1>5. /\ local'[d] = [k \in Entity |-> Activated(local[d][k], heads[k])]
      /\ local' = [local EXCEPT ![d] = local'[d]]
      /\ cursor'[d] = w /\ resetRequired'[d] = FALSE /\ staged'[d] = NoStaging
      /\ phase'[d] = "pulling" /\ outSequence'[d] = outSequence[d] /\ sent'[d] = sent[d]
      /\ verdict'[d] = NoResult /\ page'[d] = NoPage
  BY <1>0, <1>3 DEF MeshTypeOK
<1>6. \A k \in Entity :
         /\ local'[d][k] \in LocalEntity /\ LocalInv(local'[d][k])
         /\ RemoteInv(history, nextSequence, k, local'[d][k], w)
         /\ ~HasRow(local'[d][k].inFlight)
  <2>1. SUFFICES ASSUME NEW k \in Entity
                 PROVE  /\ local'[d][k] \in LocalEntity /\ LocalInv(local'[d][k])
                        /\ RemoteInv(history, nextSequence, k, local'[d][k], w)
                        /\ ~HasRow(local'[d][k].inFlight)
    OBVIOUS
  <2>2. PICK m : m = local'[d][k]
    OBVIOUS
  <2>3. PICK l : l = local[d][k]
    OBVIOUS
  <2>4. PICK head : head = heads[k]
    OBVIOUS
  <2>5. /\ l \in LocalEntity /\ LocalInv(l)
        /\ RemoteInv(history, nextSequence, k, l, cursor[d])
        /\ head \in EntityRow /\ m = Activated(l, head)
        /\ head.revision # 0 =>
              /\ WasAccepted(history, nextSequence, k, head.revision, head.payload)
              /\ head.operation = "delete" => head.payload = NoPayload
    BY <1>0, <1>4, <1>5, <2>2, <2>3, <2>4
  <2>6. /\ m \in LocalEntity /\ LocalInv(m) /\ RemoteInv(history, nextSequence, k, m, w)
        /\ ~HasRow(m.inFlight)
    BY <2>5, ActivatedKept
  <2> QED
    BY <2>2, <2>6
<1>7. /\ UNCHANGED <<nextSequence, history, entities, receipts>> /\ UNCHANGED vars
      /\ JournalGrows /\ ReceiptsStay(d)
  BY <1>0, <1>3, JournalWaits DEF vars, journalVars, pushVars, ReceiptsStay
<1>8. OnlyMoves(d)
  BY <1>0, <1>3, <1>5 DEF OnlyMoves, MeshTypeOK
<1>9. DeviceTyped(d)
  <2>1. local'[d] \in [Entity -> LocalEntity]
    BY <1>5, <1>6
  <2>2. NoHead \in EntityRow
    BY MeshNumbers DEF NoHead, EntityRow, Operation, PayloadOrNull
  <2>3. NoStaging \in Staging /\ phase'[d] \in Phase
    BY <1>5, <2>2, MeshNumbers DEF NoStaging, Staging, Phase
  <2>4. verdict'[d] \in Result /\ page'[d] \in PulledChange
    BY <1>t, <1>3
  <2> QED
    BY <1>t, <1>4, <1>5, <2>1, <2>3, <2>4 DEF DeviceTyped
<1>10. DeviceInv(d)'
  <2>1. WireInv(d)'
    BY <1>0, <1>5, <1>7, WireStays
  <2>2. StagedInv(d)' /\ PageInv(d)'
    BY <1>5 DEF StagedInv, PageInv, NoStaging
  <2>3. cursor'[d] < nextSequence'
    BY <1>4, <1>5, <1>7
  <2> QED
    BY <1>5, <2>1, <2>2, <2>3 DEF DeviceInv
<1>11. \A k \in Entity : EntityInv(d, k)'
  BY <1>5, <1>6, <1>7 DEF EntityInv, DispatchedInv
<1> QED
  BY <1>7, <1>8, <1>9, <1>10, <1>11, DeviceStep

---------------------------------------------------------------------------
(* Steps of the coordinator *)

\* Types of the coordinator's state.
LEMMA TypesOfInv == Inv => TypeOK
BY DEF Inv, JournalHalf, JournalTypeOK, PushHalf, PushTypeOK, TypeOK

\* The coordinator moves on without any device hearing of it.
LEMMA ServerStep ==
    ASSUME MeshInv, Inv', JournalGrows, \A d \in Enrollment : ReceiptsStay(d),
           UNCHANGED deviceVars
    PROVE  MeshInv'
<1>1. TypeOK'
  BY DEF Inv, JournalHalf, JournalTypeOK, PushHalf, PushTypeOK, TypeOK
<1>2. MeshTypeOK'
  BY <1>1 DEF MeshInv, MeshTypeOK, deviceVars
<1>3. ASSUME NEW d \in Enrollment
      PROVE  DeviceInv(d)' /\ \A k \in Entity : EntityInv(d, k)'
  <2>1. /\ local'[d] = local[d] /\ cursor'[d] = cursor[d]
        /\ outSequence'[d] = outSequence[d] /\ phase'[d] = phase[d] /\ sent'[d] = sent[d]
        /\ verdict'[d] = verdict[d] /\ page'[d] = page[d] /\ staged'[d] = staged[d]
    BY DEF deviceVars
  <2> QED
    BY <2>1, DeviceStays
<1> QED
  BY <1>2, <1>3 DEF MeshInv

\* The sweep.
LEMMA ExpireStep ==
    ASSUME MeshInv, NEW last \in 0 .. MaxSequence, NEW stale \in SUBSET StoredReceipts,
           Expire(last, stale)
    PROVE  MeshInv'
<1>1. PICK upTo \in 0 .. MaxSequence : Sweep(last, upTo, stale)
  BY DEF Expire
<1>2. Inv /\ Inv'
  BY <1>1, SweepKeepsInv DEF MeshInv
<1>3. /\ UNCHANGED <<nextSequence, history, entities>>
      /\ receipts' = [e \in Enrollment |-> [n \in EnrollmentSequence |->
                        IF <<e, n>> \in stale THEN NoReceipt ELSE receipts[e][n]]]
  BY <1>1 DEF Sweep
<1>4. \A d \in Enrollment : ReceiptsStay(d)
  BY <1>3 DEF ReceiptsStay
<1>5. JournalGrows
  BY <1>2, <1>3, JournalWaits
<1>6. UNCHANGED deviceVars
  BY DEF Expire
<1> QED
  BY <1>2, <1>4, <1>5, <1>6, ServerStep

\* A change from outside.
LEMMA OtherWriterStep ==
    ASSUME MeshInv, NEW k \in Entity, NEW payload \in PayloadOrNull,
           OtherWriter(k, payload), UNCHANGED deviceVars
    PROVE  MeshInv'
<1>1. Inv /\ Inv'
  BY OtherWriterKeepsInv DEF MeshInv
<1>2. PICK op : /\ Append(k, op, entities[k].revision, payload)
                /\ UNCHANGED <<pushVars, restricted>>
  BY DEF OtherWriter
<1>3. JournalGrows
  BY <1>1, <1>2, AppendGrows
<1>4. \A d \in Enrollment : ReceiptsStay(d)
  BY <1>2 DEF ReceiptsStay, pushVars
<1> QED
  BY <1>1, <1>3, <1>4, ServerStep

\* A push arrives, in time or late, and is answered.
LEMMA DeliverPushStep ==
    ASSUME MeshInv, NEW d \in Enrollment, NEW n \in EnrollmentSequence, DeliverPush(d, n)
    PROVE  MeshInv'
<1>0. /\ Inv /\ MeshTypeOK /\ \A k \in Entity : EntityInv(d, k)
      /\ cursor[d] < nextSequence /\ cursor[d] \in Nat
      /\ verdict[d] # NoResult => phase[d] = "pushing"
      /\ WireInv(d) /\ PageInv(d) /\ StagedInv(d) /\ staged[d].watermark \in Nat
      /\ page[d].sequence \in 0 .. MaxSequence
      /\ sent[d] \in [EnrollmentSequence -> Content \cup {NoContent}]
      /\ \A k \in Entity : RemoteInv(history, nextSequence, k, local[d][k], cursor[d])
  BY DeviceFacts, DeviceTypes
<1>1. PICK c : c = sent[d][n]
  OBVIOUS
<1>2. PICK r : r = PushResult(d, n, c)
  OBVIOUS
<1>3. /\ c # NoContent /\ Push(d, n, c)
      /\ UNCHANGED <<local, cursor, resetRequired, outSequence, phase, sent, page, staged>>
      /\ \/ verdict' = verdict
         \/ /\ verdict' = [verdict EXCEPT ![d] = r] /\ phase[d] = "pushing"
            /\ \A k \in InFlight(d) : local[d][k].inFlight.sequence = n
  BY <1>1, <1>2 DEF DeliverPush
<1>4. /\ c \in Content
      /\ HasReceipt(d, n) => /\ receipts[d][n].content = c
                             /\ AnswerKnown(history, nextSequence, c, receipts[d][n].result)
  BY <1>0, <1>1, <1>3 DEF WireInv
<1>5. /\ Inv' /\ JournalGrows /\ r \in Result
      /\ AnswerKnown(history', nextSequence', c, r)
      /\ HasReceipt(d, n) => r = receipts[d][n].result /\ UNCHANGED vars
      /\ ~HasReceipt(d, n) =>
            /\ receipts' = [receipts EXCEPT ![d][n] = [content |-> c, result |-> r]]
            /\ \A w \in Nat : r.status \in {"accepted", "conflict"} =>
                                 NoneNewer(history', c.entity, w, r.revision)
  BY <1>0, <1>2, <1>3, <1>4, PushAnswers
<1>6. /\ \A i \in EnrollmentSequence : i # n => receipts'[d][i] = receipts[d][i]
      /\ ~HasReceipt(d, n) => /\ receipts'[d][n].content = c
                              /\ receipts'[d][n].result = r
      /\ HasReceipt(d, n) => receipts' = receipts
      /\ \A e \in Enrollment : e # d => receipts'[e] = receipts[e]
  <2>1. receipts \in [Enrollment -> [EnrollmentSequence -> Receipt]]
    BY <1>0 DEF Inv, PushHalf, PushTypeOK
  <2>2. CASE HasReceipt(d, n)
    BY <1>5, <2>2 DEF vars, pushVars
  <2>3. CASE ~HasReceipt(d, n)
    <3>1. receipts' = [receipts EXCEPT ![d][n] = [content |-> c, result |-> r]]
      BY <1>5, <2>3
    <3>2. receipts'[d][n] = [content |-> c, result |-> r]
      BY <2>1, <3>1
    <3> QED
      BY <2>1, <2>3, <3>1, <3>2
  <2> QED
    BY <2>2, <2>3
<1>7. MeshTypeOK'
  <2>1. TypeOK'
    BY <1>5 DEF Inv, JournalHalf, JournalTypeOK, PushHalf, PushTypeOK, TypeOK
  <2>2. verdict' \in [Enrollment -> Result]
    BY <1>0, <1>3, <1>5 DEF MeshTypeOK
  <2> QED
    BY <1>0, <1>3, <2>1, <2>2 DEF MeshTypeOK
<1>8. ASSUME NEW e \in Enrollment, e # d
      PROVE  DeviceInv(e)' /\ \A k \in Entity : EntityInv(e, k)'
  <2>1. /\ local'[e] = local[e] /\ cursor'[e] = cursor[e]
        /\ outSequence'[e] = outSequence[e] /\ phase'[e] = phase[e] /\ sent'[e] = sent[e]
        /\ verdict'[e] = verdict[e] /\ page'[e] = page[e] /\ staged'[e] = staged[e]
    BY <1>0, <1>3, <1>8 DEF MeshTypeOK
  <2>2. ReceiptsStay(e)
    BY <1>6, <1>8 DEF ReceiptsStay
  <2> QED
    BY <1>5, <2>1, <2>2, DeviceStays
<1>9. DeviceInv(d)'
  <2>1. WireInv(d)'
    <3>1. SUFFICES ASSUME NEW i \in EnrollmentSequence
                   PROVE  /\ sent'[d][i] # NoContent
                                => WellFormed(sent'[d][i]) /\ i < outSequence'[d]
                          /\ receipts'[d][i].result.status # "none" =>
                                /\ sent'[d][i] # NoContent
                                /\ receipts'[d][i].content = sent'[d][i]
                                /\ AnswerKnown(history', nextSequence', sent'[d][i],
                                               receipts'[d][i].result)
      BY DEF WireInv, HasReceipt
    <3>2. sent'[d][i] # NoContent => WellFormed(sent'[d][i]) /\ i < outSequence'[d]
      BY <1>0, <1>3 DEF WireInv
    <3>3. CASE i = n /\ ~HasReceipt(d, n)
      BY <1>1, <1>3, <1>5, <1>6, <3>2, <3>3
    <3>4. CASE i # n \/ HasReceipt(d, n)
      <4>1. receipts'[d][i] = receipts[d][i]
        BY <1>6, <3>4
      <4>2. ASSUME receipts'[d][i].result.status # "none"
            PROVE  /\ sent[d][i] # NoContent
                   /\ receipts'[d][i].content = sent[d][i]
                   /\ AnswerKnown(history, nextSequence, sent[d][i], receipts'[d][i].result)
        BY <1>0, <4>1, <4>2 DEF WireInv, HasReceipt
      <4>3. AnswerKnown(history, nextSequence, sent[d][i], receipts'[d][i].result)
               => AnswerKnown(history', nextSequence', sent[d][i], receipts'[d][i].result)
        <5>1. PICK k, l : TRUE
          OBVIOUS
        <5> QED
          BY <1>0, <1>5, AnswerStays
      <4> QED
        BY <1>3, <3>2, <4>2, <4>3
    <3> QED
      BY <3>3, <3>4
  <2>2. PageInv(d)'
    BY <1>0, <1>3, <1>5, PageStays
  <2>3. StagedInv(d)'
    BY <1>0, <1>3, <1>5, StagedStays
  <2>4. cursor'[d] < nextSequence'
    BY <1>0, <1>3, <1>5, JournalTypes DEF JournalGrows
  <2>5. verdict'[d] # NoResult => phase'[d] = "pushing"
    BY <1>0, <1>3
  <2> QED
    BY <2>1, <2>2, <2>3, <2>4, <2>5 DEF DeviceInv
<1>10. ASSUME NEW k \in Entity PROVE EntityInv(d, k)'
  <2>1. PICK l : l = local[d][k]
    OBVIOUS
  <2>2. LocalInv(l) /\ DispatchedInv(d, k) /\ local'[d][k] = l
    BY <1>0, <1>3, <2>1 DEF EntityInv
  <2>3. RemoteInv(history', nextSequence', k, l, cursor[d])
    BY <1>0, <1>5, <2>1, RemoteStays
  <2>4. ASSUME HasRow(l.inFlight)
        PROVE  LET i == l.inFlight.sequence
               IN /\ i \in EnrollmentSequence
                  /\ sent'[d][i] = [entity |-> k, operation |-> l.inFlight.operation,
                                    baseRevision |-> l.inFlight.baseRevision,
                                    payload |-> l.inFlight.payload]
                  /\ AnswerKnown(history', nextSequence', sent'[d][i], verdict'[d])
                  /\ AnswerNewest(history', k, l, cursor'[d], verdict'[d])
                  /\ AnswerNewest(history', k, l, cursor'[d], receipts'[d][i].result)
    <3>1. PICK i : i = l.inFlight.sequence
      OBVIOUS
    <3>2. /\ i \in EnrollmentSequence
          /\ sent[d][i] = [entity |-> k, operation |-> l.inFlight.operation,
                           baseRevision |-> l.inFlight.baseRevision,
                           payload |-> l.inFlight.payload]
          /\ AnswerKnown(history, nextSequence, sent[d][i], verdict[d])
          /\ AnswerNewest(history, k, l, cursor[d], verdict[d])
          /\ AnswerNewest(history, k, l, cursor[d], receipts[d][i].result)
      BY <2>1, <2>2, <2>4, <3>1 DEF DispatchedInv
    <3>3. /\ AnswerKnown(history', nextSequence', sent[d][i], verdict[d])
          /\ AnswerNewest(history', k, l, cursor[d], verdict[d])
          /\ AnswerNewest(history', k, l, cursor[d], receipts[d][i].result)
      BY <1>0, <1>5, <3>2, AnswerStays
    <3>4. i = n => c.entity = k
      BY <1>1, <3>2
    <3>5. i = n => AnswerNewest(history', k, l, cursor[d], r)
      <4>1. CASE HasReceipt(d, n)
        BY <1>5, <3>3, <4>1
      <4>2. CASE ~HasReceipt(d, n)
        <5>1. r.status \in {"accepted", "conflict"} =>
                 NoneNewer(history', c.entity, cursor[d], r.revision)
          BY <1>0, <1>5, <4>2
        <5> QED
          BY <3>4, <5>1 DEF AnswerNewest
      <4> QED
        BY <4>1, <4>2
    <3>6. AnswerNewest(history', k, l, cursor[d], receipts'[d][i].result)
      <4>1. receipts'[d][i] = receipts[d][i] \/ (i = n /\ receipts'[d][n].result = r)
        BY <1>6, <3>2
      <4> QED
        BY <3>3, <3>5, <4>1
    <3>7. verdict'[d] = verdict[d] \/ (i = n /\ verdict'[d] = r)
      <4>1. k \in InFlight(d)
        BY <2>1, <2>4 DEF InFlight
      <4> QED
        BY <1>0, <1>3, <2>1, <3>1, <4>1 DEF MeshTypeOK
    <3>8. /\ AnswerKnown(history', nextSequence', sent[d][i], verdict'[d])
          /\ AnswerNewest(history', k, l, cursor[d], verdict'[d])
      BY <1>1, <1>5, <3>3, <3>5, <3>7
    <3> QED
      BY <1>3, <3>1, <3>2, <3>6, <3>8
  <2> QED
    BY <1>3, <2>2, <2>3, <2>4 DEF EntityInv, DispatchedInv
<1> QED
  BY <1>5, <1>7, <1>8, <1>9, <1>10 DEF MeshInv

---------------------------------------------------------------------------
(* The invariant holds, and what it says of the checked properties *)

\* Every step of the devices and of the coordinator keeps the invariant.
LEMMA MeshNextInv == MeshInv /\ [MeshNext]_meshVars => MeshInv'
<1> SUFFICES ASSUME MeshInv, [MeshNext]_meshVars PROVE MeshInv'
  OBVIOUS
<1>1. ASSUME NEW d \in Enrollment, UserStep(d) PROVE MeshInv'
  <2>1. PICK k \in Entity :
           \/ \E payload \in Payload : LocalWrite(d, k, payload)
           \/ LocalDelete(d, k)
           \/ BindLocalEntity(d, k)
           \/ ResolveKeepLocal(d, k)
           \/ ResolveUseRemote(d, k)
    BY <1>1 DEF UserStep
  <2> QED
    BY <2>1, LocalWriteStep, LocalDeleteStep, BindLocalStep, ResolveStep
<1>2. ASSUME NEW d \in Enrollment, CycleStep(d) PROVE MeshInv'
  <2>1. CASE \E k \in Entity, dropped \in SUBSET Entity : Dispatch(d, k, dropped)
    BY <2>1, DispatchStep
  <2>2. CASE \E dropped \in SUBSET Entity : ReadOnlyCycle(d, dropped)
    BY <2>2, ReadOnlyStep
  <2>3. CASE Replay(d) \/ FinishPull(d) \/ AbandonCycle(d)
    BY <2>3, CycleEndsStep
  <2>4. CASE ApplyVerdict(d)
    BY <2>4, ApplyVerdictStep
  <2>5. CASE ServePull(d)
    BY <2>5, ServePullStep
  <2>6. CASE ApplyPage(d)
    BY <2>6, ApplyPageStep
  <2>7. CASE StageScan(d)
    BY <2>7, StageScanStep
  <2>8. CASE ActivateStagedScan(d)
    BY <2>8, ActivateStep
  <2> QED
    BY <1>2, <2>1, <2>2, <2>3, <2>4, <2>5, <2>6, <2>7, <2>8 DEF CycleStep
<1>3. ASSUME NEW d \in Enrollment, NEW n \in EnrollmentSequence, DeliverPush(d, n)
      PROVE  MeshInv'
  BY <1>3, DeliverPushStep
<1>4. ASSUME NEW last \in 0 .. MaxSequence, NEW stale \in SUBSET StoredReceipts,
             Expire(last, stale)
      PROVE  MeshInv'
  BY <1>4, ExpireStep
<1>5. ASSUME NEW k \in Entity, NEW payload \in PayloadOrNull,
             OtherWriter(k, payload), UNCHANGED deviceVars
      PROVE  MeshInv'
  BY <1>5, OtherWriterStep
<1>6. CASE UNCHANGED meshVars
  <2>1. UNCHANGED vars /\ UNCHANGED deviceVars
    BY <1>6 DEF meshVars
  <2>2. Inv /\ UNCHANGED <<nextSequence, history, entities, receipts>>
    BY <2>1 DEF MeshInv, vars, journalVars, pushVars
  <2>3. Inv'
    BY <2>1, <2>2 DEF vars, journalVars, pushVars, Inv, JournalHalf, JournalTypeOK,
       CountersInv, HistoryInv, HeadsInv, JournalInv, ChainInv, PushHalf, PushTypeOK,
       ReceiptsInv, HasReceipt
  <2>4. JournalGrows /\ \A d \in Enrollment : ReceiptsStay(d)
    BY <2>2, JournalWaits DEF ReceiptsStay
  <2> QED
    BY <2>1, <2>3, <2>4, ServerStep
<1> QED
  BY <1>1, <1>2, <1>3, <1>4, <1>5, <1>6 DEF MeshNext

\* Coordinator and devices keep, in every reachable state, what the journal, the
\* wire, the staging and every stored entity promise one another.
THEOREM MeshInvariant == MeshSpec => []MeshInv
BY InitMesh, MeshNextInv, PTL DEF MeshSpec

\* Device and coordinator state keep their types.
THEOREM MeshTypes == MeshSpec => []MeshTypeOK
<1>1. MeshInv => MeshTypeOK
  BY DEF MeshInv
<1> QED
  BY <1>1, MeshInvariant, PTL

\* Whatever is on the wire passes the coordinator's structural checks.
THEOREM WireWellFormedHolds == MeshSpec => []WireWellFormed
<1>1. MeshInv => WireWellFormed
  BY DEF MeshInv, DeviceInv, WireInv, WireWellFormed
<1> QED
  BY <1>1, MeshInvariant, PTL

\* A base is an accepted revision with the payload it was accepted with.
THEOREM BaseFromHistoryHolds == MeshSpec => []BaseFromHistory
<1>1. ASSUME MeshInv PROVE BaseFromHistory
  <2>1. SUFFICES ASSUME NEW d \in Enrollment, NEW k \in Entity, local[d][k].base # 0
                 PROVE  \E s \in OwnHistory(k) :
                           /\ history[s].revision = local[d][k].base
                           /\ history[s].payload = Decoded(local[d][k].basePayload)
    BY DEF BaseFromHistory
  <2>2. WasAccepted(history, nextSequence, k, local[d][k].base,
                    Decoded(local[d][k].basePayload))
    BY <1>1, <2>1 DEF MeshInv, EntityInv, RemoteInv
  <2> QED
    BY <2>2 DEF WasAccepted, OwnHistory
<1> QED
  BY <1>1, MeshInvariant, PTL

\* A settled domain row shows the acknowledged remote payload.
THEOREM CleanMirrorsBaseHolds == MeshSpec => []CleanMirrorsBase
<1>1. MeshInv => CleanMirrorsBase
  BY DEF MeshInv, EntityInv, LocalInv, MirrorInv, CleanMirrorsBase
<1> QED
  BY <1>1, MeshInvariant, PTL

---------------------------------------------------------------------------
(* What a step may do to a domain row, and to what a device has seen *)

\* What a stored entity l, with the cursor at w, shows of the head.
Shows(l, head, w) ==
    head.revision # 0 /\ head.sequence <= w =>
        \/ l.bound /\ l.base = head.revision
        \/ l.conflict.open /\ l.conflict.remoteRevision = head.revision
        \/ l.base = 0 /\ head.operation = "delete"

\* SeenStaysSeen of one entity that becomes m under a cursor that becomes v.
ShownKept(l, m, head, w, v) ==
    Shows(l, head, w) =>
        \/ Shows(m, head, v)
        \/ /\ l.conflict.open /\ l.conflict.remoteRevision < l.base
           /\ ~m.conflict.open

\* A step keeps what DirtyRowsKept and SeenStaysSeen say of the entity.
StepKeeps(d, k) ==
    /\ DomainKept(local[d][k], local'[d][k])
    /\ Seen(d, k) => \/ Seen(d, k)'
                     \/ /\ local[d][k].conflict.open
                        /\ local[d][k].conflict.remoteRevision < local[d][k].base
                        /\ ~local'[d][k].conflict.open

\* Seen is about one entity, its head and the cursor.
LEMMA SeenShows ==
    ASSUME NEW d, NEW k
    PROVE  /\ Seen(d, k) <=> Shows(local[d][k], entities[k], cursor[d])
           /\ Seen(d, k)' <=> Shows(local'[d][k], entities'[k], cursor'[d])
BY DEF Seen, Shows

\* A step that leaves the entity and its cursor alone takes nothing from sight.
LEMMA QuietKeeps ==
    ASSUME MeshInv, JournalGrows, NEW d \in Enrollment, NEW k \in Entity,
           local'[d][k] = local[d][k], cursor'[d] = cursor[d]
    PROVE  StepKeeps(d, k)
<1>0. cursor[d] \in Nat /\ cursor[d] < nextSequence /\ nextSequence \in Nat
  BY DeviceFacts, JournalTypes
<1>1. CASE entities'[k] = entities[k]
  BY <1>1, SeenShows DEF StepKeeps, DomainKept
<1>2. CASE entities'[k].sequence \in Nat /\ entities'[k].sequence >= nextSequence
  <2>1. ~(entities'[k].sequence <= cursor'[d])
    BY <1>0, <1>2
  <2> QED
    BY <2>1, SeenShows DEF StepKeeps, DomainKept, Shows
<1> QED
  BY <1>1, <1>2 DEF JournalGrows

\* A step of a device that shows the head no less than before.
LEMMA ShownSuffices ==
    ASSUME NEW d \in Enrollment, NEW k \in Entity, UNCHANGED vars,
           NEW l, l = local[d][k], NEW m, m = local'[d][k],
           NEW v, v = cursor'[d],
           DomainKept(l, m), ShownKept(l, m, entities[k], cursor[d], v)
    PROVE  StepKeeps(d, k)
<1>1. entities' = entities
  BY DEF vars, journalVars
<1> QED
  BY <1>1, SeenShows DEF StepKeeps, ShownKept

\* The remote side of an open conflict is the head, unless it is older than the base,
\* when the device has seen the head at all.
LEMMA ConflictShows ==
    ASSUME Inv, NEW k \in Entity, NEW w \in Nat, NEW l \in LocalEntity,
           RemoteInv(history, nextSequence, k, l, w), l.conflict.open,
           Shows(l, entities[k], w), entities[k].revision # 0, entities[k].sequence <= w,
           ~(l.conflict.remoteRevision < l.base)
    PROVE  \/ l.conflict.remoteRevision = entities[k].revision
           \/ l.conflict.remoteRevision = 0 /\ entities[k].operation = "delete"
<1> DEFINE head == entities[k]
           remote == l.conflict.remoteRevision
<1>0. /\ head.revision \in Nat /\ remote \in Nat /\ l.base \in Nat
      /\ head.sequence \in Sequence /\ history[head.sequence].entity = k
      /\ history[head.sequence].revision = head.revision
  BY HeadIsNewest, MeshNumbers, LocalFields DEF ConflictRow
<1>1. remote # 0 => remote <= head.revision
  BY KnownRevision DEF RemoteInv
<1>2. CASE l.base = head.revision
  BY <1>0, <1>1, <1>2
<1>3. CASE remote = head.revision
  BY <1>3
<1>4. CASE l.base = 0 /\ head.operation = "delete"
  <2>1. CASE remote = 0
    BY <1>4, <2>1
  <2>2. CASE remote # 0
    <3>1. NoneNewer(history, k, w, remote)
      BY <1>4, <2>2 DEF RemoteInv
    <3>2. head.revision <= remote
      BY <1>0, <3>1 DEF NoneNewer
    <3> QED
      BY <1>0, <1>1, <2>2, <3>2
  <2> QED
    BY <2>1, <2>2
<1> QED
  BY <1>2, <1>3, <1>4 DEF Shows

\* An edit, an adoption into the account, a resolution.
LEMMA UserKeeps ==
    ASSUME MeshInv, NEW e \in Enrollment, UserStep(e), NEW d \in Enrollment, NEW k \in Entity
    PROVE  StepKeeps(d, k)
<1>0. /\ Inv /\ MeshTypeOK /\ local[d] \in [Entity -> LocalEntity]
      /\ UNCHANGED vars /\ UNCHANGED cursor
      /\ JournalGrows
  <2>1. UNCHANGED vars /\ UNCHANGED cursor
    BY DEF UserStep, LocalWrite, LocalDelete, BindLocalEntity, ResolveKeepLocal,
       ResolveUseRemote
  <2> QED
    BY <2>1, DeviceFacts, DeviceTypes, JournalWaits DEF vars, journalVars
<1>1. PICK l : l = local[d][k]
  OBVIOUS
<1>2. PICK m : m = local'[d][k]
  OBVIOUS
<1>3. /\ l \in LocalEntity /\ LocalInv(l) /\ cursor[d] \in Nat
      /\ RemoteInv(history, nextSequence, k, l, cursor[d])
  BY <1>1, DeviceFacts
<1>4. PICK j \in Entity :
         \/ \E payload \in Payload : LocalWrite(e, j, payload)
         \/ LocalDelete(e, j)
         \/ BindLocalEntity(e, j)
         \/ ResolveKeepLocal(e, j)
         \/ ResolveUseRemote(e, j)
  BY DEF UserStep
<1>5. CASE e # d \/ j # k
  <2>1. \E x : local' = [local EXCEPT ![e][j] = x]
    BY <1>4 DEF LocalWrite, LocalDelete, BindLocalEntity, ResolveKeepLocal, ResolveUseRemote
  <2>2. local \in [Enrollment -> [Entity -> LocalEntity]]
    BY <1>0 DEF MeshTypeOK
  <2>3. local'[d][k] = local[d][k]
    BY <1>5, <2>1, <2>2
  <2> QED
    BY <1>0, <2>3, QuietKeeps
<1>6. CASE e = d /\ j = k
  <2>1. ASSUME DomainKept(l, m), ShownKept(l, m, entities[k], cursor[d], cursor[d])
        PROVE  StepKeeps(d, k)
    <3>1. PICK v : v = cursor'[d]
      OBVIOUS
    <3>2. v = cursor[d]
      BY <1>0, <3>1
    <3>3. ShownKept(l, m, entities[k], cursor[d], v)
      BY <2>1, <3>2
    <3> QED
      BY <1>0, <1>1, <1>2, <2>1, <3>1, <3>3, ShownSuffices
  <2>2. ASSUME NEW payload \in Payload, LocalWrite(d, k, payload)
        PROVE  StepKeeps(d, k)
    <3>1. PICK operation : operation = IF l.domain = NoPayload THEN "create" ELSE "update"
      OBVIOUS
    <3>2. /\ payload \in PayloadOrNull /\ payload # NoPayload
          /\ operation \in Operation /\ operation # "delete"
      BY <3>1, CoordinatorAssumption DEF PayloadOrNull, Operation
    <3>3. /\ l.bound => l.generation < MaxEdits
          /\ m = IF l.bound THEN Recorded([l EXCEPT !.domain = payload], operation, payload)
                 ELSE [l EXCEPT !.domain = payload]
      BY <1>0, <1>1, <1>2, <2>2, <3>1 DEF LocalWrite, CanEdit, MeshTypeOK
    <3>4. /\ m.base = l.base /\ m.conflict = l.conflict /\ (m.bound <=> l.bound)
          /\ l.bound => m.generation = l.generation + 1
      BY <1>3, <3>2, <3>3, EditKept
    <3> QED
      BY <2>1, <3>4 DEF DomainKept, ShownKept, Shows
  <2>3. CASE LocalDelete(d, k)
    <3>1. PICK operation : operation = "delete"
      OBVIOUS
    <3>2. NoPayload \in PayloadOrNull /\ operation \in Operation
      BY <3>1 DEF PayloadOrNull, Operation
    <3>3. /\ l.bound => l.generation < MaxEdits
          /\ m = IF l.bound THEN Recorded([l EXCEPT !.domain = NoPayload], operation, NoPayload)
                 ELSE [l EXCEPT !.domain = NoPayload]
      BY <1>0, <1>1, <1>2, <2>3, <3>1 DEF LocalDelete, CanEdit, MeshTypeOK
    <3>4. /\ m.base = l.base /\ m.conflict = l.conflict /\ (m.bound <=> l.bound)
          /\ l.bound => m.generation = l.generation + 1
      BY <1>3, <3>1, <3>2, <3>3, EditKept
    <3> QED
      BY <2>1, <3>4 DEF DomainKept, ShownKept, Shows
  <2>4. CASE BindLocalEntity(d, k)
    <3>1. /\ ~l.bound /\ l.domain # NoPayload /\ MaxEdits > 0
          /\ m = Recorded(Bind(l, 0, NoPayload), "create", l.domain)
      BY <1>0, <1>1, <1>2, <2>4 DEF BindLocalEntity, MeshTypeOK
    <3>2. m.base = 0
      BY <1>3, <3>1, BindLocalKept
    <3>3. l.base = 0 /\ ~l.conflict.open
      BY <1>3, <3>1 DEF LocalInv, BindingInv
    <3> QED
      BY <2>1, <3>1, <3>2, <3>3 DEF DomainKept, ShownKept, Shows
  <2>5. CASE ResolveKeepLocal(d, k)
    <3>1. /\ l.conflict.open /\ KeptLocal(l).generation <= MaxEdits /\ m = KeptLocal(l)
      BY <1>0, <1>1, <1>2, <2>5 DEF ResolveKeepLocal, MeshTypeOK
    <3>2. /\ m.bound /\ m.base = l.conflict.remoteRevision /\ ~m.conflict.open
      BY <1>3, <3>1, KeptLocalKept
    <3>3. ShownKept(l, m, entities[k], cursor[d], cursor[d])
      <4>1. ASSUME Shows(l, entities[k], cursor[d]), entities[k].revision # 0,
                   entities[k].sequence <= cursor[d],
                   ~(l.conflict.remoteRevision < l.base)
            PROVE  Shows(m, entities[k], cursor[d])
        <5>1. \/ l.conflict.remoteRevision = entities[k].revision
              \/ l.conflict.remoteRevision = 0 /\ entities[k].operation = "delete"
          BY <1>0, <1>3, <3>1, <4>1, ConflictShows
        <5> QED
          BY <3>2, <5>1 DEF Shows
      <4> QED
        BY <3>1, <3>2, <4>1 DEF ShownKept, Shows
    <3> QED
      BY <2>1, <3>1, <3>2, <3>3 DEF DomainKept
  <2>6. CASE ResolveUseRemote(d, k)
    <3>1. l.conflict.open /\ m = UsedRemote(l)
      BY <1>0, <1>1, <1>2, <2>6 DEF ResolveUseRemote, MeshTypeOK
    <3>2. /\ ~m.conflict.open
          /\ l.conflict.remote = NoPayload => m.base = 0
          /\ l.conflict.remote # NoPayload => m.bound /\ m.base = l.conflict.remoteRevision
      BY <1>3, <3>1, UsedRemoteKept
    <3>3. ShownKept(l, m, entities[k], cursor[d], cursor[d])
      <4>1. ASSUME Shows(l, entities[k], cursor[d]), entities[k].revision # 0,
                   entities[k].sequence <= cursor[d],
                   ~(l.conflict.remoteRevision < l.base)
            PROVE  Shows(m, entities[k], cursor[d])
        <5>1. \/ l.conflict.remoteRevision = entities[k].revision
              \/ l.conflict.remoteRevision = 0 /\ entities[k].operation = "delete"
          BY <1>0, <1>3, <3>1, <4>1, ConflictShows
        <5>2. CASE l.conflict.remote # NoPayload
          BY <3>2, <5>1, <5>2 DEF Shows
        <5>3. CASE l.conflict.remote = NoPayload
          <6>1. Decoded(l.conflict.remote) = NoPayload
            BY <5>3 DEF Decoded
          <6>2. l.conflict.remoteRevision # 0 =>
                   WasAccepted(history, nextSequence, k, l.conflict.remoteRevision, NoPayload)
            BY <1>3, <6>1 DEF RemoteInv
          <6>3. l.conflict.remoteRevision = entities[k].revision
                   => entities[k].payload = NoPayload
            BY <1>0, <4>1, <6>2, KnownRevision
          <6>4. entities[k].payload = NoPayload => entities[k].operation = "delete"
            BY <1>0, <4>1, HeadIsNewest
          <6> QED
            BY <3>2, <5>1, <5>3, <6>3, <6>4 DEF Shows
        <5> QED
          BY <5>2, <5>3
      <4> QED
        BY <3>1, <3>2, <4>1 DEF ShownKept, Shows
    <3> QED
      BY <2>1, <3>1, <3>2, <3>3 DEF DomainKept
  <2> QED
    BY <1>4, <1>6, <2>2, <2>3, <2>4, <2>5, <2>6
<1> QED
  BY <1>5, <1>6

\* A verdict moves the base forward to what was accepted, or opens a conflict.
LEMMA VerdictKeeps ==
    ASSUME MeshInv, NEW d \in Enrollment, ApplyVerdict(d), NEW k \in Entity
    PROVE  StepKeeps(d, k)
<1>0. /\ Inv /\ MeshTypeOK /\ EntityInv(d, k) /\ verdict[d] \in Result
      /\ UNCHANGED vars /\ UNCHANGED cursor
      /\ JournalGrows
      /\ \/ local'[d][k] = local[d][k]
         \/ k \in InFlight(d) /\ local'[d][k] = Answered(local[d][k], verdict[d])
  <2>1. UNCHANGED vars /\ UNCHANGED cursor
    BY DEF ApplyVerdict
  <2> QED
    BY <2>1, ApplyVerdictStep, DeviceFacts, DeviceTypes, JournalWaits DEF vars, journalVars
<1>1. PICK l : l = local[d][k]
  OBVIOUS
<1>2. PICK m : m = local'[d][k]
  OBVIOUS
<1>3. PICK v : v = cursor'[d]
  OBVIOUS
<1>4. PICK head : head = entities[k]
  OBVIOUS
<1>5. PICK result : result = verdict[d]
  OBVIOUS
<1>6. /\ l \in LocalEntity /\ LocalInv(l) /\ cursor[d] \in Nat /\ v = cursor[d]
      /\ RemoteInv(history, nextSequence, k, l, cursor[d])
  BY <1>0, <1>1, <1>3, DeviceFacts
<1>7. CASE m = l
  BY <1>0, <1>1, <1>2, <1>7, QuietKeeps
<1>8. CASE k \in InFlight(d) /\ m = Answered(l, result)
  <2>1. PICK c : c = sent[d][l.inFlight.sequence]
    OBVIOUS
  <2>2. HasRow(l.inFlight) /\ l.bound
    BY <1>1, <1>6, <1>8 DEF InFlight, LocalInv, BindingInv, HasMutableRow
  <2>3. /\ c.entity = k /\ c.baseRevision = l.inFlight.baseRevision
        /\ c.payload = l.inFlight.payload
        /\ AnswerKnown(history, nextSequence, c, result)
        /\ AnswerNewest(history, k, l, cursor[d], result)
    <3>1. DispatchedInv(d, k)
      BY <1>0 DEF EntityInv
    <3>2. /\ c = [entity |-> k, operation |-> l.inFlight.operation,
                  baseRevision |-> l.inFlight.baseRevision,
                  payload |-> l.inFlight.payload]
          /\ AnswerKnown(history, nextSequence, c, result)
          /\ AnswerNewest(history, k, local[d][k], cursor[d], result)
      BY <1>1, <1>5, <2>1, <2>2, <3>1 DEF DispatchedInv
    <3> QED
      BY <1>1, <3>2
  <2>4. /\ m.domain = l.domain /\ (m.bound <=> l.bound)
        /\ m.base = IF result.status = "accepted" /\ l.base < result.revision
                    THEN result.revision ELSE l.base
        /\ l.conflict.open => m.conflict = l.conflict
    BY <1>0, <1>5, <1>6, <1>8, <2>2, <2>3, AnsweredKept
  <2>5. DomainKept(l, m)
    BY <2>4 DEF DomainKept
  <2>6. ASSUME Shows(l, head, v), head.revision # 0, head.sequence <= v
        PROVE  Shows(m, head, v)
    <3>1. /\ head.revision \in Nat /\ head.sequence \in Sequence
          /\ history[head.sequence].entity = k
          /\ history[head.sequence].revision = head.revision
      BY <1>0, <1>4, <2>6, HeadIsNewest
    <3>2. result.status = "accepted" =>
             result.revision \in Nat /\ result.revision <= head.revision
      <4>1. result.status = "accepted" =>
               WasAccepted(history, nextSequence, k, result.revision, c.payload)
        BY <2>3 DEF AnswerKnown
      <4> QED
        BY <1>0, <1>4, <4>1, KnownRevision
    <3>3. CASE l.bound /\ l.base = head.revision
      <4>1. m.base = l.base
        BY <2>4, <3>1, <3>2, <3>3
      <4> QED
        BY <2>4, <3>3, <4>1 DEF Shows
    <3>4. CASE l.conflict.open /\ l.conflict.remoteRevision = head.revision
      BY <2>4, <3>4 DEF Shows
    <3>5. CASE l.base = 0 /\ head.operation = "delete" /\ m.base = 0
      BY <3>5 DEF Shows
    <3>6. CASE l.base = 0 /\ m.base # 0 /\ ~l.conflict.open
      <4>1. result.status = "accepted" /\ m.base = result.revision
        BY <2>4, <3>6
      <4>2. NoneNewer(history, k, cursor[d], result.revision)
        BY <2>3, <3>6, <4>1 DEF AnswerNewest
      <4>3. head.revision <= result.revision
        BY <1>6, <2>6, <3>1, <4>2 DEF NoneNewer
      <4>4. m.base = head.revision
        BY <3>1, <3>2, <4>1, <4>3
      <4> QED
        BY <2>2, <2>4, <4>4 DEF Shows
    <3>7. CASE l.base = 0 /\ l.conflict.open
      <4>1. l.conflict.remoteRevision # 0
        BY <1>6, <2>2, <3>7 DEF LocalInv, InFlightInv
      <4>2. ~(l.conflict.remoteRevision < l.base)
        BY <1>6, <3>7, MeshNumbers, LocalFields DEF ConflictRow
      <4>3. l.conflict.remoteRevision = head.revision
        BY <1>0, <1>4, <1>6, <2>6, <3>7, <4>1, <4>2, ConflictShows
      <4> QED
        BY <3>4, <3>7, <4>3
    <3> QED
      BY <2>6, <3>3, <3>4, <3>5, <3>6, <3>7 DEF Shows
  <2>7. ShownKept(l, m, head, cursor[d], v)
    BY <1>6, <2>6 DEF ShownKept, Shows
  <2> QED
    BY <1>0, <1>1, <1>2, <1>3, <1>4, <2>5, <2>7, ShownSuffices
<1> QED
  BY <1>0, <1>1, <1>2, <1>5, <1>7, <1>8

\* A pull page shows the head of its entity, and passes nothing of any other.
LEMMA PageKeeps ==
    ASSUME MeshInv, NEW d \in Enrollment, ApplyPage(d), NEW k \in Entity
    PROVE  StepKeeps(d, k)
<1>0. /\ Inv /\ MeshTypeOK /\ page[d] # NoPage
      /\ UNCHANGED vars
      /\ cursor'[d] = page[d].sequence
      /\ local' = [local EXCEPT ![d][page[d].entity]
                     = Applied(local[d][page[d].entity], page[d])]
      /\ \A s \in Sequence : s \in Nat /\ history[s].revision \in Nat
      /\ cursor[d] \in Nat
  <2>1. Inv /\ MeshTypeOK /\ page[d] # NoPage /\ cursor[d] \in Nat
    BY DeviceFacts DEF ApplyPage
  <2>2. page[d].entity \in Entity /\ local \in [Enrollment -> [Entity -> LocalEntity]]
    BY <2>1, PageFacts DEF MeshTypeOK
  <2>3. UNCHANGED vars
    BY DEF ApplyPage
  <2>4. cursor'[d] = page[d].sequence
    BY <2>1 DEF ApplyPage, MeshTypeOK
  <2>5. local' = [local EXCEPT ![d][page[d].entity]
                    = Applied(local[d][page[d].entity], page[d])]
    BY <2>2 DEF ApplyPage
  <2> QED
    BY <2>1, <2>3, <2>4, <2>5, JournalTypes
<1>1. PICK change : change = page[d]
  OBVIOUS
<1>2. PICK l : l = local[d][k]
  OBVIOUS
<1>3. PICK m : m = local'[d][k]
  OBVIOUS
<1>4. PICK v : v = cursor'[d]
  OBVIOUS
<1>5. PICK head : head = entities[k]
  OBVIOUS
<1>6. /\ v = change.sequence /\ v = cursor[d] + 1 /\ v \in Sequence /\ v \in Nat
      /\ v < nextSequence
      /\ change.entity \in Entity /\ history[v].entity = change.entity
      /\ change.revision \in 0 .. MaxSequence /\ change.revision # 0
      /\ change.payload \in PayloadOrNull
      /\ change.operation = history[v].operation
      /\ change.revision = history[v].revision
      /\ WasAccepted(history, nextSequence, change.entity, change.revision, change.payload)
      /\ NoneNewer(history, change.entity, v, change.revision)
  BY <1>0, <1>1, <1>4, PageFacts
<1>7. /\ l \in LocalEntity /\ LocalInv(l)
      /\ RemoteInv(history, nextSequence, k, l, cursor[d])
  BY <1>2, DeviceFacts
<1>8. head.revision # 0 =>
         /\ head.sequence \in Sequence /\ head.sequence \in Nat
         /\ history[head.sequence].entity = k
         /\ history[head.sequence].revision = head.revision
         /\ history[head.sequence].operation = head.operation
         /\ \A s \in Sequence : history[s].entity = k => s <= head.sequence
  BY <1>0, <1>5, HeadIsNewest
<1>9. CASE change.entity # k
  <2>1. m = l
    BY <1>0, <1>1, <1>2, <1>3, <1>6, <1>9 DEF MeshTypeOK
  <2>2. head.revision # 0 /\ head.sequence <= v => head.sequence <= cursor[d]
    <3>1. head.revision # 0 => head.sequence # v
      BY <1>6, <1>8, <1>9
    <3> QED
      BY <1>0, <1>6, <1>8, <3>1
  <2>3. ShownKept(l, m, head, cursor[d], v)
    BY <2>1, <2>2 DEF ShownKept, Shows
  <2>4. DomainKept(l, m)
    BY <2>1 DEF DomainKept
  <2> QED
    BY <1>0, <1>2, <1>3, <1>4, <1>5, <2>3, <2>4, ShownSuffices
<1>10. CASE change.entity = k
  <2>1. m = Applied(l, change)
    BY <1>0, <1>1, <1>2, <1>3, <1>6, <1>10 DEF MeshTypeOK
  <2>2. /\ RemoteInv(history, nextSequence, k, m, v)
        /\ \/ ~m.bound /\ m.base = 0 /\ change.operation = "delete"
           \/ m.bound /\ m.base \in Nat /\ m.base >= change.revision
           \/ /\ m.conflict.open /\ m.conflict.remoteRevision \in Nat
              /\ m.conflict.remoteRevision >= change.revision
        /\ l.bound /\ (Dirty(l) \/ l.conflict.open) => m.domain = l.domain
    <3>1. /\ WasAccepted(history, nextSequence, k, change.revision, change.payload)
          /\ NoneNewer(history, k, v, change.revision)
          /\ \A s \in Sequence : history[s].revision \in Nat
          /\ change.revision \in 0 .. MaxSequence /\ change.revision # 0
          /\ change.payload \in PayloadOrNull
      BY <1>0, <1>6, <1>10
    <3>2. RemoteInv(history, nextSequence, k, m, v)
      BY <1>7, <2>1, <3>1, AppliedKept
    <3>3. \/ ~m.bound /\ m.base = 0 /\ change.operation = "delete"
          \/ m.bound /\ m.base \in Nat /\ m.base >= change.revision
          \/ /\ m.conflict.open /\ m.conflict.remoteRevision \in Nat
             /\ m.conflict.remoteRevision >= change.revision
      BY <1>7, <2>1, <3>1, AppliedKept
    <3>4. l.bound /\ (Dirty(l) \/ l.conflict.open) => m.domain = l.domain
      BY <1>7, <2>1, <3>1, AppliedKept
    <3> QED
      BY <3>2, <3>3, <3>4
  <2>3. ASSUME head.revision # 0, head.sequence <= v PROVE Shows(m, head, v)
    <3>1. head.sequence = v
      BY <1>6, <1>8, <1>10, <2>3
    <3>2. /\ head.revision = change.revision /\ head.operation = change.operation
          /\ head.revision \in Nat
      BY <1>0, <1>6, <1>8, <2>3, <3>1
    <3>3. CASE ~m.bound /\ m.base = 0 /\ change.operation = "delete"
      BY <3>2, <3>3 DEF Shows
    <3>4. CASE m.bound /\ m.base \in Nat /\ m.base >= change.revision
      <4>1. m.base # 0
        BY <1>6, <3>2, <3>4
      <4>2. WasAccepted(history, nextSequence, k, m.base, Decoded(m.basePayload))
        BY <2>2, <4>1 DEF RemoteInv
      <4>3. m.base <= head.revision
        BY <1>0, <1>5, <4>2, KnownRevision
      <4>4. m.base = head.revision
        BY <3>2, <3>4, <4>3
      <4> QED
        BY <3>4, <4>4 DEF Shows
    <3>5. CASE /\ m.conflict.open /\ m.conflict.remoteRevision \in Nat
               /\ m.conflict.remoteRevision >= change.revision
      <4>1. m.conflict.remoteRevision # 0
        BY <1>6, <3>2, <3>5
      <4>2. WasAccepted(history, nextSequence, k, m.conflict.remoteRevision,
                        Decoded(m.conflict.remote))
        BY <2>2, <4>1 DEF RemoteInv
      <4>3. m.conflict.remoteRevision <= head.revision
        BY <1>0, <1>5, <4>2, KnownRevision
      <4>4. m.conflict.remoteRevision = head.revision
        BY <3>2, <3>5, <4>3
      <4> QED
        BY <3>5, <4>4 DEF Shows
    <3> QED
      BY <2>2, <3>3, <3>4, <3>5
  <2>4. ShownKept(l, m, head, cursor[d], v)
    BY <2>3 DEF ShownKept, Shows
  <2>5. DomainKept(l, m)
    BY <2>2 DEF DomainKept
  <2> QED
    BY <1>0, <1>2, <1>3, <1>4, <1>5, <2>4, <2>5, ShownSuffices
<1> QED
  BY <1>9, <1>10

\* A rebuild shows every head its watermark covers.
LEMMA ActivationKeeps ==
    ASSUME MeshInv, NEW d \in Enrollment, ActivateStagedScan(d), NEW k \in Entity
    PROVE  StepKeeps(d, k)
<1>0. /\ Inv /\ MeshTypeOK /\ StagedInv(d) /\ staged[d].ready
      /\ staged[d].heads \in [Entity -> EntityRow]
      /\ UNCHANGED vars
      /\ cursor'[d] = staged[d].watermark
      /\ local'[d][k] = Activated(local[d][k], staged[d].heads[k])
  <2>1. Inv /\ MeshTypeOK /\ StagedInv(d) /\ staged[d].heads \in [Entity -> EntityRow]
    BY DeviceFacts, DeviceTypes
  <2> QED
    BY <2>1 DEF ActivateStagedScan, MeshTypeOK
<1>1. PICK l : l = local[d][k]
  OBVIOUS
<1>2. PICK m : m = local'[d][k]
  OBVIOUS
<1>3. PICK v : v = cursor'[d]
  OBVIOUS
<1>4. PICK head : head = entities[k]
  OBVIOUS
<1>5. PICK row : row = staged[d].heads[k]
  OBVIOUS
<1>6. /\ l \in LocalEntity /\ LocalInv(l) /\ row \in EntityRow /\ m = Activated(l, row)
      /\ RemoteInv(history, nextSequence, k, l, cursor[d])
  BY <1>0, <1>1, <1>2, <1>5, DeviceFacts
<1>7. /\ row.revision # 0 =>
            /\ WasAccepted(history, nextSequence, k, row.revision, row.payload)
            /\ row.operation = "delete" => row.payload = NoPayload
      /\ head.revision # 0 /\ head.sequence <= v => row = head
  BY <1>0, <1>3, <1>4, <1>5 DEF StagedInv
<1>8. /\ row.revision # 0 => m.bound /\ m.base = row.revision
      /\ l.bound /\ (Dirty(l) \/ l.conflict.open) => m.domain = l.domain
  BY <1>6, <1>7, ActivatedKept
<1>9. ShownKept(l, m, head, cursor[d], v)
  BY <1>7, <1>8 DEF ShownKept, Shows
<1>10. DomainKept(l, m)
  BY <1>8 DEF DomainKept
<1> QED
  BY <1>0, <1>1, <1>2, <1>3, <1>4, <1>9, <1>10, ShownSuffices

\* The push side of a cycle only numbers or drops a pending row.
LEMMA SendKeeps ==
    ASSUME MeshInv, NEW d \in Enrollment, NEW k \in Entity,
           \/ \E j \in Entity, dropped \in SUBSET Entity : Dispatch(d, j, dropped)
           \/ \E dropped \in SUBSET Entity : ReadOnlyCycle(d, dropped)
    PROVE  StepKeeps(d, k)
<1>0. /\ Inv /\ MeshTypeOK /\ cursor'[d] = cursor[d] /\ UNCHANGED vars
  <2>1. UNCHANGED cursor /\ UNCHANGED vars
    BY DEF Dispatch, ReadOnlyCycle
  <2> QED
    BY <2>1, DeviceFacts
<1>1. PICK l : l = local[d][k]
  OBVIOUS
<1>2. PICK m : m = local'[d][k]
  OBVIOUS
<1>3. PICK v : v = cursor'[d]
  OBVIOUS
<1>4. \/ m = l
      \/ k \in Unsent(d) /\ m = [l EXCEPT !.pending = NoRow]
      \/ \E row : m = WithDispatched(l, row)
  <2>1. ASSUME NEW j \in Entity, NEW dropped \in SUBSET Entity, Dispatch(d, j, dropped)
        PROVE  \/ m = l
               \/ k \in Unsent(d) /\ m = [l EXCEPT !.pending = NoRow]
               \/ \E row : m = WithDispatched(l, row)
    <3>1. dropped \subseteq Unsent(d)
      BY <2>1 DEF Dispatch
    <3>2. PICK row : local'[d] = [i \in Entity |->
                        IF i = j THEN [local[d][j] EXCEPT !.pending = NoRow, !.inFlight = row]
                        ELSE IF i \in dropped THEN [local[d][i] EXCEPT !.pending = NoRow]
                        ELSE local[d][i]]
      BY <1>0, <2>1 DEF Dispatch, MeshTypeOK
    <3>3. CASE k = j
      <4>1. m = WithDispatched(l, row)
        BY <1>1, <1>2, <3>2, <3>3 DEF WithDispatched
      <4> QED
        BY <4>1
    <3>4. CASE k # j /\ k \in dropped
      BY <1>1, <1>2, <3>1, <3>2, <3>4
    <3>5. CASE k # j /\ k \notin dropped
      BY <1>1, <1>2, <3>2, <3>5
    <3> QED
      BY <3>3, <3>4, <3>5
  <2>2. ASSUME NEW dropped \in SUBSET Entity, ReadOnlyCycle(d, dropped)
        PROVE  m = l \/ (k \in Unsent(d) /\ m = [l EXCEPT !.pending = NoRow])
    <3>1. dropped \subseteq Unsent(d)
      BY <2>2 DEF ReadOnlyCycle
    <3>2. local'[d] = [i \in Entity |->
                         IF i \in dropped THEN [local[d][i] EXCEPT !.pending = NoRow]
                         ELSE local[d][i]]
      BY <1>0, <2>2 DEF ReadOnlyCycle, MeshTypeOK
    <3> QED
      BY <1>1, <1>2, <3>1, <3>2
  <2> QED
    BY <2>1, <2>2
<1>5. l \in LocalEntity
  BY <1>1, DeviceFacts
<1>6. /\ m.domain = l.domain /\ m.bound = l.bound /\ m.base = l.base
      /\ m.conflict = l.conflict
  <2>1. CASE m = l
    BY <2>1
  <2>2. CASE m = [l EXCEPT !.pending = NoRow]
    BY <1>5, <2>2 DEF LocalEntity
  <2>3. ASSUME NEW row, m = WithDispatched(l, row)
        PROVE  /\ m.domain = l.domain /\ m.bound = l.bound /\ m.base = l.base
               /\ m.conflict = l.conflict
    BY <1>5, <2>3 DEF LocalEntity, WithDispatched
  <2> QED
    BY <1>4, <2>1, <2>2, <2>3
<1>7. DomainKept(l, m)
  BY <1>6 DEF DomainKept
<1>8. ShownKept(l, m, entities[k], cursor[d], v)
  BY <1>0, <1>3, <1>6 DEF ShownKept, Shows
<1> QED
  BY <1>0, <1>1, <1>2, <1>3, <1>7, <1>8, ShownSuffices

\* Every step.
LEMMA StepsKeep ==
    ASSUME MeshInv, MeshNext, NEW d \in Enrollment, NEW k \in Entity
    PROVE  StepKeeps(d, k)
<1>0. Inv /\ MeshTypeOK
  BY DeviceFacts
<1>1. ASSUME NEW e \in Enrollment, UserStep(e) PROVE StepKeeps(d, k)
  BY <1>1, UserKeeps
<1>2. ASSUME NEW e \in Enrollment, CycleStep(e), e # d PROVE StepKeeps(d, k)
  <2>1. /\ \E x : local' = [local EXCEPT ![e] = x]
        /\ \E x : cursor' = [cursor EXCEPT ![e] = x]
        /\ UNCHANGED vars
    <3>1. /\ local = [local EXCEPT ![e] = local[e]]
          /\ cursor = [cursor EXCEPT ![e] = cursor[e]]
      BY <1>0 DEF MeshTypeOK
    <3>2. CASE \E j \in Entity, dropped \in SUBSET Entity : Dispatch(e, j, dropped)
      BY <3>1, <3>2 DEF Dispatch
    <3>3. CASE \E dropped \in SUBSET Entity : ReadOnlyCycle(e, dropped)
      BY <3>1, <3>3 DEF ReadOnlyCycle
    <3>4. CASE Replay(e) \/ ServePull(e) \/ FinishPull(e) \/ StageScan(e) \/ AbandonCycle(e)
      <4>1. UNCHANGED <<vars, local, cursor>>
        BY <3>4 DEF Replay, ServePull, FinishPull, StageScan, AbandonCycle
      <4> QED
        BY <3>1, <4>1
    <3>5. CASE ApplyVerdict(e)
      BY <3>1, <3>5 DEF ApplyVerdict
    <3>6. CASE ApplyPage(e)
      <4>1. \E x : local' = [local EXCEPT ![e] = x]
        <5>1. \E y : local' = [local EXCEPT ![e][page[e].entity] = y]
          BY <3>6 DEF ApplyPage
        <5> QED
          BY <5>1
      <4> QED
        BY <3>6, <4>1 DEF ApplyPage
    <3>7. CASE ActivateStagedScan(e)
      BY <3>7 DEF ActivateStagedScan
    <3> QED
      BY <1>2, <3>2, <3>3, <3>4, <3>5, <3>6, <3>7 DEF CycleStep
  <2>2. local'[d][k] = local[d][k] /\ cursor'[d] = cursor[d]
    BY <1>0, <1>2, <2>1 DEF MeshTypeOK
  <2>3. JournalGrows
    BY <1>0, <2>1, JournalWaits DEF vars, journalVars
  <2> QED
    BY <2>2, <2>3, QuietKeeps
<1>3. ASSUME CycleStep(d) PROVE StepKeeps(d, k)
  <2>1. CASE Replay(d) \/ ServePull(d) \/ FinishPull(d) \/ StageScan(d) \/ AbandonCycle(d)
    <3>1. UNCHANGED <<vars, local, cursor>>
      BY <2>1 DEF Replay, ServePull, FinishPull, StageScan, AbandonCycle
    <3>2. JournalGrows
      BY <1>0, <3>1, JournalWaits DEF vars, journalVars
    <3> QED
      BY <3>1, <3>2, QuietKeeps
  <2> QED
    BY <1>3, <2>1, SendKeeps, VerdictKeeps, PageKeeps, ActivationKeeps DEF CycleStep
<1>4. ASSUME NEW e \in Enrollment, NEW n \in EnrollmentSequence, DeliverPush(e, n)
      PROVE  StepKeeps(d, k)
  <2>1. UNCHANGED <<local, cursor>>
    BY <1>4 DEF DeliverPush
  <2>2. JournalGrows
    <3>1. PICK c : c = sent[e][n]
      OBVIOUS
    <3>2. c \in Content /\ Push(e, n, c)
      BY <1>0, <1>4, <3>1, DeviceTypes DEF DeliverPush
    <3>3. HasReceipt(e, n) =>
             /\ receipts[e][n].content = c
             /\ AnswerKnown(history, nextSequence, c, receipts[e][n].result)
      BY <3>1, DeviceFacts DEF WireInv
    <3> QED
      BY <1>0, <3>2, <3>3, PushAnswers
  <2> QED
    BY <2>1, <2>2, QuietKeeps
<1>5. ASSUME NEW last \in 0 .. MaxSequence, NEW stale \in SUBSET StoredReceipts,
             Expire(last, stale)
      PROVE  StepKeeps(d, k)
  <2>1. /\ UNCHANGED <<local, cursor>>
        /\ UNCHANGED <<nextSequence, history, entities>>
    BY <1>5 DEF Expire, Sweep, deviceVars
  <2>2. JournalGrows
    BY <1>0, <2>1, JournalWaits
  <2> QED
    BY <2>1, <2>2, QuietKeeps
<1>6. ASSUME NEW j \in Entity, NEW payload \in PayloadOrNull,
             OtherWriter(j, payload), UNCHANGED deviceVars
      PROVE  StepKeeps(d, k)
  <2>1. PICK op : Append(j, op, entities[j].revision, payload)
    BY <1>6 DEF OtherWriter
  <2>2. JournalGrows
    BY <1>0, <2>1, AppendGrows
  <2>3. UNCHANGED <<local, cursor>>
    BY <1>6 DEF deviceVars
  <2> QED
    BY <2>2, <2>3, QuietKeeps
<1> QED
  BY <1>1, <1>2, <1>3, <1>4, <1>5, <1>6 DEF MeshNext

\* Sync never replaces a domain row that has local work on it.
THEOREM DirtyRowsKeptHolds == MeshSpec => DirtyRowsKept
<1> DEFINE Allowed == \A d \in Enrollment, k \in Entity :
                       LET l == local[d][k]
                       IN l.bound /\ (Dirty(l) \/ l.conflict.open)
                             /\ local'[d][k].domain # l.domain =>
                                 \/ local'[d][k].generation = l.generation + 1
                                 \/ l.conflict.open /\ ~local'[d][k].conflict.open
<1>1. MeshInv /\ [MeshNext]_meshVars => [Allowed]_meshVars
  BY StepsKeep DEF StepKeeps, DomainKept
<1> HIDE DEF Allowed
<1>2. MeshSpec => [][Allowed]_meshVars
  BY <1>1, MeshInvariant, PTL DEF MeshSpec
<1> QED
  BY <1>2 DEF DirtyRowsKept, Allowed

\* A device never loses sight of a head its cursor has passed.
THEOREM SeenStaysSeenHolds == MeshSpec => SeenStaysSeen
<1> DEFINE Shown == \A d \in Enrollment, k \in Entity :
                       LET l == local[d][k]
                       IN Seen(d, k) =>
                             \/ Seen(d, k)'
                             \/ /\ l.conflict.open /\ l.conflict.remoteRevision < l.base
                                /\ ~local'[d][k].conflict.open
<1>1. MeshInv /\ [MeshNext]_meshVars => [Shown]_meshVars
  BY StepsKeep DEF StepKeeps
<1> HIDE DEF Shown
<1>2. MeshSpec => [][Shown]_meshVars
  BY <1>1, MeshInvariant, PTL DEF MeshSpec
<1> QED
  BY <1>2 DEF SeenStaysSeen, Shown
=============================================================================
