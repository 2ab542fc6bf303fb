--------------------------- MODULE SyncScanProofs ---------------------------
(***************************************************************************)
(* Proofs about SyncScan, for every set of entities and payloads and every *)
(* bound on the journal.  They rest on the coordinator's own inductive     *)
(* invariant (SyncCoordinatorProofs), which the scan and the devices beside *)
(* it keep.                                                                *)
(***************************************************************************)
EXTENDS SyncScan, SyncCoordinatorProofs, NaturalsInduction, WellFoundedInduction

\* The changes of an entity in a history h of next - 1 changes.
Own(h, next, k) == {s \in Sequence : s < next /\ h[s].entity = k}

\* A row is a change of its entity that was accepted, up to sequence w.
Genuine(h, next, row, k, w) ==
    \/ row = NoHead
    \/ /\ row.sequence \in Own(h, next, k) /\ row.sequence <= w
       /\ row.revision = h[row.sequence].revision
       /\ row.operation = h[row.sequence].operation
       /\ row.payload = h[row.sequence].payload

\* A row is not older than the last change of its entity up to sequence w.
Covers(h, next, row, k, w) ==
    \A s \in Own(h, next, k) : s <= w => h[s].revision <= row.revision

GenuineRow(row, k, w) == Genuine(history, nextSequence, row, k, w)
CoveredTo(k, w) == Covers(history, nextSequence, staging[k], k, w)

\* The pages have passed an entity.
Passed(k) == scan.done \/ k <= scan.entityCursor

ScanTypes ==
    /\ scan \in ScanRow /\ step \in Step /\ staging \in [Entity -> EntityRow]
    /\ catchUp \in 0 .. MaxSequence

\* While pages are read: what was staged is real, and entities already passed are
\* at least as new as the start watermark.
PagingInv ==
    /\ catchUp = scan.watermarkStart /\ scan.watermarkStart < nextSequence
    /\ \A k \in Entity : GenuineRow(staging[k], k, MaxSequence)
    /\ \A k \in Entity : GenuineRow(scan.pageRows[k], k, MaxSequence)
    /\ \A k \in Entity : Passed(k) => CoveredTo(k, scan.watermarkStart)

\* Nothing that was accepted after the end watermark is ever staged.
FinishedInv ==
    /\ scan.watermarkEnd < nextSequence
    /\ \A k \in Entity : GenuineRow(staging[k], k, scan.watermarkEnd)

ScanInv ==
    /\ ScanTypes
    /\ step = "paging" => PagingInv
    /\ step = "catching" => /\ FinishedInv /\ catchUp < scan.watermarkEnd
                            /\ \A k \in Entity : CoveredTo(k, catchUp)
    /\ step = "ready" => FinishedInv /\ \A k \in Entity : CoveredTo(k, scan.watermarkEnd)

---------------------------------------------------------------------------

\* The other devices and the sweep keep what the coordinator's correctness rests
\* on; the scan itself only reads.
LEMMA CoordinatorStep == Inv /\ [ScanNext]_allVars => Inv'
<1> SUFFICES ASSUME Inv, [ScanNext]_allVars PROVE Inv'
  OBVIOUS
<1>1. CASE UNCHANGED vars
  BY <1>1, NextInv
<1>2. ASSUME NEW k \in Entity, NEW payload \in PayloadOrNull, OtherWriter(k, payload)
      PROVE  Inv'
  <2> DEFINE op == IF payload = NoPayload THEN "delete"
                   ELSE IF entities[k].revision = 0 THEN "create" ELSE "update"
  <2>1. /\ op \in Operation /\ (op = "delete" <=> payload = NoPayload)
        /\ Append(k, op, entities[k].revision, payload)
        /\ UNCHANGED <<pushVars, restricted>>
    BY <1>2 DEF OtherWriter, Operation
  <2> HIDE DEF op
  <2>2. JournalHalf'
    BY <2>1, AppendKeepsJournal DEF Inv
  <2> QED
    BY <2>1, <2>2 DEF Inv, PushHalf, PushTypeOK, ReceiptsInv, HasReceipt, pushVars
<1>3. ASSUME NEW target \in Sequence, RequestCompaction(target) PROVE Inv'
  BY <1>3, NextInv DEF Next
<1>4. ASSUME NEW last \in 0 .. MaxSequence, NEW upTo \in 0 .. MaxSequence,
             Sweep(last, upTo, {})
      PROVE  Inv'
  BY <1>4, SweepKeepsInv
<1> QED
  BY <1>1, <1>2, <1>3, <1>4 DEF ScanNext, Elsewhere, BeginScan, PageScan, ReplayPage,
     FinishScan, CatchUp, EndScan, allVars

\* The accepted history only grows.
LEMMA HistoryGrows ==
    ASSUME Inv, [ScanNext]_allVars
    PROVE  /\ nextSequence' \in Nat /\ nextSequence \in Nat /\ nextSequence' >= nextSequence
           /\ \A s \in Sequence : s < nextSequence => history'[s] = history[s]
<1>0. /\ nextSequence \in 1 .. MaxSequence + 1 /\ MaxSequence \in Nat
      /\ history \in [Sequence -> HistoryRow]
  BY CoordinatorAssumption DEF Inv, JournalHalf, JournalTypeOK
<1>1. CASE UNCHANGED <<nextSequence, history>>
  BY <1>0, <1>1
<1>2. ASSUME NEW k \in Entity, NEW payload \in PayloadOrNull, OtherWriter(k, payload)
      PROVE  /\ nextSequence' = nextSequence + 1
             /\ \A s \in Sequence : s < nextSequence => history'[s] = history[s]
  <2>1. PICK new : /\ history' = [history EXCEPT ![nextSequence] = new]
                   /\ nextSequence' = nextSequence + 1
    BY <1>2 DEF OtherWriter, Append
  <2> QED
    BY <1>0, <2>1 DEF Sequence
<1>3. \/ UNCHANGED vars
      \/ \E k \in Entity, payload \in PayloadOrNull : OtherWriter(k, payload)
      \/ \E target \in Sequence : RequestCompaction(target)
      \/ \E last \in 0 .. MaxSequence, upTo \in 0 .. MaxSequence : Sweep(last, upTo, {})
  BY DEF ScanNext, Elsewhere, BeginScan, PageScan, ReplayPage, FinishScan, CatchUp, EndScan,
     allVars
<1>4. ASSUME NEW target \in Sequence, RequestCompaction(target)
      PROVE  UNCHANGED <<nextSequence, history>>
  BY <1>4 DEF RequestCompaction
<1>5. ASSUME NEW last \in 0 .. MaxSequence, NEW upTo \in 0 .. MaxSequence,
             Sweep(last, upTo, {})
      PROVE  UNCHANGED <<nextSequence, history>>
  BY <1>5 DEF Sweep
<1>6. CASE UNCHANGED vars
  BY <1>1, <1>6 DEF vars, journalVars
<1> QED
  BY <1>0, <1>1, <1>2, <1>3, <1>4, <1>5, <1>6

\* What was a real row stays one.
LEMMA GenuineStays ==
    ASSUME NEW h, NEW g, NEW n \in Nat, NEW m \in Nat, m >= n,
           \A s \in Sequence : s < n => g[s] = h[s],
           NEW row, NEW k, NEW w, Genuine(h, n, row, k, w)
    PROVE  Genuine(g, m, row, k, w)
<1>1. \A s \in Own(h, n, k) : s \in Own(g, m, k) /\ g[s] = h[s]
  BY CoordinatorAssumption DEF Own, Sequence
<1> QED
  BY <1>1 DEF Genuine

\* What covered an earlier sequence covers it still.
LEMMA CoversStays ==
    ASSUME NEW h, NEW g, NEW n \in Nat, NEW m \in Nat, m >= n,
           \A s \in Sequence : s < n => g[s] = h[s],
           NEW row, NEW k, NEW w \in Nat, w < n, Covers(h, n, row, k, w)
    PROVE  Covers(g, m, row, k, w)
<1>1. \A s \in Own(g, m, k) : s <= w => s \in Own(h, n, k) /\ g[s] = h[s]
  BY CoordinatorAssumption DEF Own, Sequence
<1> QED
  BY <1>1 DEF Covers

\* Another device writes, or the sweep runs, beside the scan.
LEMMA ScanWaits ==
    ASSUME Inv, ScanInv, [ScanNext]_allVars, UNCHANGED scanVars
    PROVE  ScanInv'
<1>0. /\ nextSequence' \in Nat /\ nextSequence \in Nat /\ nextSequence' >= nextSequence
      /\ \A s \in Sequence : s < nextSequence => history'[s] = history[s]
  BY HistoryGrows
<1>1. /\ UNCHANGED <<scan, step, staging, catchUp>>
      /\ scan.watermarkStart \in Nat /\ scan.watermarkEnd \in Nat /\ catchUp \in Nat
      /\ ScanTypes
  BY CoordinatorAssumption DEF scanVars, ScanInv, ScanTypes, ScanRow
<1>2. ASSUME NEW row, NEW k, NEW w, Genuine(history, nextSequence, row, k, w)
      PROVE  Genuine(history', nextSequence', row, k, w)
  BY <1>0, <1>2, GenuineStays
<1>3. ASSUME NEW row, NEW k, NEW w \in Nat, w < nextSequence,
             Covers(history, nextSequence, row, k, w)
      PROVE  Covers(history', nextSequence', row, k, w)
  BY <1>0, <1>3, CoversStays
<1>4. ASSUME step = "paging" PROVE PagingInv'
  <2>1. PagingInv
    BY <1>4 DEF ScanInv
  <2> QED
    BY <1>0, <1>1, <1>2, <1>3, <2>1 DEF PagingInv, GenuineRow, CoveredTo, Passed
<1>5. ASSUME FinishedInv PROVE FinishedInv'
  BY <1>0, <1>1, <1>2, <1>5 DEF FinishedInv, GenuineRow
<1>6. ASSUME step = "catching"
      PROVE  /\ FinishedInv' /\ catchUp' < scan'.watermarkEnd
             /\ \A k \in Entity : CoveredTo(k, catchUp)'
  <2>1. /\ FinishedInv /\ catchUp < scan.watermarkEnd
        /\ \A k \in Entity : CoveredTo(k, catchUp)
    BY <1>6 DEF ScanInv
  <2>2. catchUp < nextSequence
    BY <1>0, <1>1, <2>1 DEF FinishedInv
  <2> QED
    BY <1>1, <1>3, <1>5, <2>1, <2>2 DEF CoveredTo
<1>7. ASSUME step = "ready"
      PROVE  FinishedInv' /\ \A k \in Entity : CoveredTo(k, scan.watermarkEnd)'
  <2>1. FinishedInv /\ \A k \in Entity : CoveredTo(k, scan.watermarkEnd)
    BY <1>7 DEF ScanInv
  <2> QED
    BY <1>1, <1>3, <1>5, <2>1 DEF CoveredTo, FinishedInv
<1> QED
  BY <1>1, <1>4, <1>6, <1>7 DEF ScanInv, ScanTypes

\* The head row of an entity is real and covers everything.
LEMMA HeadIsLast ==
    ASSUME Inv, NEW k \in Entity
    PROVE  /\ entities[k] \in EntityRow
           /\ Genuine(history, nextSequence, entities[k], k, MaxSequence)
           /\ \A w : Covers(history, nextSequence, entities[k], k, w)
<1>0. /\ nextSequence \in 1 .. MaxSequence + 1 /\ MaxSequence \in Nat
      /\ entities[k] \in EntityRow /\ HeadsInv /\ HistoryInv /\ ChainInv
  BY CoordinatorAssumption DEF Inv, JournalHalf, JournalTypeOK
<1>1. CASE entities[k].revision = 0
  <2>1. entities[k] = NoHead /\ \A s \in Sequence : history[s].entity # k
    BY <1>0, <1>1 DEF HeadsInv
  <2> QED
    BY <1>0, <2>1 DEF Genuine, Covers, Own
<1>2. CASE entities[k].revision # 0
  <2> DEFINE last == entities[k].sequence
  <2>1. /\ last \in Sequence /\ last < nextSequence
        /\ history[last].entity = k /\ history[last].revision = entities[k].revision
        /\ history[last].operation = entities[k].operation
        /\ history[last].payload = entities[k].payload
        /\ \A s \in Sequence : history[s].entity = k => s <= last
    BY <1>0, <1>2 DEF HeadsInv
  <2> HIDE DEF last
  <2>2. last <= MaxSequence /\ last \in Nat
    BY <1>0, <2>1 DEF Sequence
  <2>3. ASSUME NEW s \in Own(history, nextSequence, k)
        PROVE  history[s].revision <= history[last].revision
    <3>1. /\ s \in Sequence /\ s < nextSequence /\ history[s].entity = k /\ s <= last
          /\ s \in Nat
      BY <1>0, <2>1, <2>3 DEF Own, Sequence
    <3>2. history[s].revision \in Nat /\ history[last].revision \in Nat
      BY <1>0, <2>1, <3>1 DEF HistoryInv, Sequence
    <3>3. s < last => history[s].revision < history[last].revision
      BY <1>0, <2>1, <3>1 DEF ChainInv
    <3> QED
      BY <2>2, <3>1, <3>2, <3>3
  <2> QED
    BY <1>0, <2>1, <2>2, <2>3 DEF Genuine, Covers, Own, last
<1> QED
  BY <1>1, <1>2

\* Staging keeps the newer of two real rows.
LEMMA StagedKeeps ==
    ASSUME Inv, ScanTypes, NEW rows \in [Entity -> EntityRow], NEW w,
           \A k \in Entity : GenuineRow(staging[k], k, w),
           \A k \in Entity : GenuineRow(rows[k], k, w)
    PROVE  /\ Staged(rows) \in [Entity -> EntityRow]
           /\ \A k \in Entity : GenuineRow(Staged(rows)[k], k, w)
           /\ \A k \in Entity : /\ Staged(rows)[k].revision >= staging[k].revision
                                /\ Staged(rows)[k].revision >= rows[k].revision
<1>1. \A k \in Entity : staging[k] \in EntityRow /\ rows[k] \in EntityRow
  BY DEF ScanTypes
<1>2. \A k \in Entity : staging[k].revision \in Nat /\ rows[k].revision \in Nat
  BY <1>1, CoordinatorAssumption DEF EntityRow
<1>3. \A k \in Entity : Staged(rows)[k] = IF rows[k].revision > staging[k].revision
                                          THEN rows[k] ELSE staging[k]
  BY DEF Staged
<1>4. Staged(rows) \in [Entity -> EntityRow]
  BY <1>1 DEF Staged
<1> QED
  BY <1>2, <1>3, <1>4

\* A newer row covers at least as much.
LEMMA NewerCovers ==
    ASSUME Inv, NEW k \in Entity, NEW a \in EntityRow, NEW b \in EntityRow, NEW w,
           b.revision >= a.revision, Covers(history, nextSequence, a, k, w)
    PROVE  Covers(history, nextSequence, b, k, w)
<1>1. a.revision \in Nat /\ b.revision \in Nat
  BY CoordinatorAssumption DEF EntityRow
<1>2. \A s \in Own(history, nextSequence, k) : history[s].revision \in Nat
  BY CoordinatorAssumption DEF Own, Inv, JournalHalf, JournalTypeOK, HistoryRow
<1> QED
  BY <1>1, <1>2 DEF Covers

\* What a catch-up pull finds: while its cursor is not below the floor, the very
\* next sequence, with the content that was accepted.
LEMMA NextChange ==
    ASSUME Inv, NEW cursor \in Nat, cursor >= retentionFloor, cursor + 1 < nextSequence
    PROVE  /\ cursor + 1 \in Pullable(cursor) /\ \A t \in Pullable(cursor) : cursor + 1 <= t
           /\ cursor + 1 \in Sequence
           /\ changes[cursor + 1].entity = history[cursor + 1].entity
           /\ changes[cursor + 1].revision = history[cursor + 1].revision
           /\ changes[cursor + 1].operation = history[cursor + 1].operation
           /\ ServedPayload(cursor + 1) = history[cursor + 1].payload
           /\ history[cursor + 1].entity \in Entity
           /\ history[cursor + 1].operation = "delete"
                 \/ history[cursor + 1].payload # NoPayload
<1> DEFINE s == cursor + 1
<1>0. /\ nextSequence \in 1 .. MaxSequence + 1 /\ MaxSequence \in Nat
      /\ retentionFloor \in Nat /\ HistoryInv /\ JournalServesHistory
  BY CoordinatorAssumption, InvServesHistory DEF Inv, JournalHalf, JournalTypeOK
<1>1. s \in Sequence /\ retentionFloor < s /\ s < nextSequence
  BY <1>0 DEF Sequence
<1>2. /\ changes[s].revision = history[s].revision /\ changes[s].entity = history[s].entity
      /\ changes[s].operation = history[s].operation
      /\ ServedPayload(s) = history[s].payload
  BY <1>0, <1>1 DEF JournalServesHistory
<1>3. /\ history[s].entity \in Entity /\ history[s].revision \in 1 .. s
      /\ (history[s].operation = "delete" <=> history[s].payload = NoPayload)
  BY <1>0, <1>1 DEF HistoryInv
<1>4. s \in Pullable(cursor)
  BY <1>1, <1>2, <1>3 DEF Pullable, Journal
<1>5. \A t \in Pullable(cursor) : s <= t
  BY DEF Pullable, Journal, Sequence
<1> QED
  BY <1>1, <1>2, <1>3, <1>4, <1>5

\* sync.scan.page: what it passes is at least as new as the start watermark.
LEMMA PageStep ==
    ASSUME Inv, ScanInv, NEW last \in Entity \cup {0}, PageScan(last)
    PROVE  ScanInv'
<1> DEFINE after == {k \in Entity : entities[k].revision # 0 /\ k > scan.entityCursor}
           rows == [k \in Entity |-> IF k \in after /\ k <= last THEN entities[k] ELSE NoHead]
<1>0. /\ step = "paging" /\ ~scan.done /\ ScanTypes /\ PagingInv
      /\ last \in (IF after = {} THEN {scan.entityCursor} ELSE after)
      /\ scan' = [scan EXCEPT !.entityCursor = last, !.done = \A k \in after : k <= last,
                              !.pageCursor = scan.entityCursor, !.pageRows = rows]
      /\ staging' = Staged(rows)
      /\ UNCHANGED <<vars, step, catchUp>>
  BY DEF PageScan, ScanInv
<1>1. UNCHANGED <<nextSequence, history>> /\ scan.entityCursor \in Nat
      /\ \A k \in Entity : k \in Nat
  BY <1>0, ScanAssumption DEF vars, journalVars, ScanTypes, ScanRow
<1>2. rows \in [Entity -> EntityRow] /\ \A k \in Entity : GenuineRow(rows[k], k, MaxSequence)
  <2>1. NoHead \in EntityRow
    BY CoordinatorAssumption DEF NoHead, EntityRow, Operation, PayloadOrNull
  <2> HIDE DEF after
  <2> QED
    BY <2>1, HeadIsLast DEF GenuineRow, Genuine
<1>3. /\ Staged(rows) \in [Entity -> EntityRow]
      /\ \A k \in Entity : GenuineRow(Staged(rows)[k], k, MaxSequence)
      /\ \A k \in Entity : /\ Staged(rows)[k].revision >= staging[k].revision
                           /\ Staged(rows)[k].revision >= rows[k].revision
  <2> HIDE DEF rows
  <2> QED
    BY <1>0, <1>2, StagedKeeps DEF PagingInv
<1>4. ASSUME NEW k \in Entity, (\A j \in after : j <= last) \/ k <= last
      PROVE  Covers(history, nextSequence, Staged(rows)[k], k, scan.watermarkStart)
  <2>1. CASE k \in after
    <3>1. rows[k] = entities[k] /\ entities[k] \in EntityRow
      BY <1>4, <2>1, HeadIsLast
    <3>2. Staged(rows)[k] \in EntityRow /\ Staged(rows)[k].revision >= entities[k].revision
      BY <1>3, <3>1
    <3> HIDE DEF rows, after
    <3> QED
      BY <3>1, <3>2, HeadIsLast, NewerCovers
  <2>2. CASE entities[k].revision = 0
    <3>1. \A s \in Sequence : history[s].entity # k
      BY <2>2 DEF Inv, JournalHalf, HeadsInv
    <3> QED
      BY <3>1 DEF Covers, Own
  <2>3. CASE k <= scan.entityCursor
    <3>1. Covers(history, nextSequence, staging[k], k, scan.watermarkStart)
      BY <1>0, <2>3 DEF PagingInv, Passed, CoveredTo
    <3>2. staging[k] \in EntityRow /\ Staged(rows)[k] \in EntityRow
          /\ Staged(rows)[k].revision >= staging[k].revision
      BY <1>0, <1>3 DEF ScanTypes
    <3> HIDE DEF rows, after
    <3> QED
      BY <3>1, <3>2, NewerCovers
  <2> QED
    BY <1>1, <2>1, <2>2, <2>3
<1> HIDE DEF rows, after
<1>5. /\ scan' \in ScanRow /\ scan'.watermarkStart = scan.watermarkStart
      /\ scan'.entityCursor = last /\ scan'.done = (\A k \in after : k <= last)
      /\ scan'.pageRows = rows
  BY <1>0, <1>2 DEF ScanTypes, ScanRow
<1>6. ScanTypes'
  BY <1>0, <1>3, <1>5 DEF ScanTypes
<1>7. PagingInv'
  BY <1>0, <1>1, <1>2, <1>3, <1>4, <1>5 DEF PagingInv, GenuineRow, CoveredTo, Passed
<1> QED
  BY <1>0, <1>6, <1>7 DEF ScanInv

\* One pulled change of the catch-up.
LEMMA CatchUpStep ==
    ASSUME Inv, ScanInv, CatchUp
    PROVE  ScanInv'
<1> DEFINE s == catchUp + 1
           row == [revision |-> changes[s].revision, operation |-> changes[s].operation,
                   payload |-> ServedPayload(s), sequence |-> s]
           rows == [NoHeads EXCEPT ![changes[s].entity] = row]
           k0 == history[s].entity
<1>0. /\ step = "catching" /\ ScanTypes /\ FinishedInv /\ catchUp < scan.watermarkEnd
      /\ \A k \in Entity : CoveredTo(k, catchUp)
      /\ catchUp >= retentionFloor /\ catchUp \in Nat /\ scan.watermarkEnd \in Nat
      /\ nextSequence \in Nat /\ MaxSequence \in Nat
  BY CoordinatorAssumption
     DEF CatchUp, ScanInv, ScanTypes, ScanRow, ResetRequired, Inv, JournalHalf, JournalTypeOK
<1>1. s < nextSequence /\ s <= scan.watermarkEnd
  BY <1>0 DEF FinishedInv
<1>2. /\ s \in Pullable(catchUp) /\ \A t \in Pullable(catchUp) : s <= t
      /\ s \in Sequence /\ changes[s].entity = k0
      /\ changes[s].revision = history[s].revision
      /\ changes[s].operation = history[s].operation /\ ServedPayload(s) = history[s].payload
      /\ k0 \in Entity
  BY <1>0, <1>1, NextChange
<1>3. (CHOOSE t \in Pullable(catchUp) : \A u \in Pullable(catchUp) : t <= u) = s
  <2>1. \A t \in Pullable(catchUp) : t \in Nat
    BY DEF Pullable, Journal, Sequence
  <2> HIDE DEF s
  <2>2. \A t \in Pullable(catchUp) : (\A u \in Pullable(catchUp) : t <= u) => t = s
    BY <1>2, <2>1
  <2> QED
    BY <1>2, <2>2
<1>4. /\ staging' = Staged(rows) /\ catchUp' = s
      /\ step' = IF s >= scan.watermarkEnd THEN "ready" ELSE "catching"
      /\ UNCHANGED <<vars, scan>>
  <2>1. ~(s > scan.watermarkEnd)
    BY <1>0, <1>1
  <2> QED
    BY <1>3, <2>1 DEF CatchUp
<1>5. row \in EntityRow /\ row.sequence = s /\ row.revision = history[s].revision
      /\ row.operation = history[s].operation /\ row.payload = history[s].payload
  <2>1. history[s] \in HistoryRow
    BY <1>2 DEF Inv, JournalHalf, JournalTypeOK
  <2>2. s \in 0 .. MaxSequence
    BY <1>0, <1>2 DEF Sequence
  <2> HIDE DEF s
  <2> QED
    BY <1>2, <2>1, <2>2 DEF HistoryRow, EntityRow
<1> HIDE DEF row
<1>6. rows \in [Entity -> EntityRow] /\ rows[k0] = row
      /\ \A k \in Entity : rows[k] = IF k = k0 THEN row ELSE NoHead
  <2>1. NoHead \in EntityRow
    BY CoordinatorAssumption DEF NoHead, EntityRow, Operation, PayloadOrNull
  <2> QED
    BY <1>2, <1>5, <2>1 DEF NoHeads
<1>7. s \in Own(history, nextSequence, k0)
  BY <1>1, <1>2 DEF Own
<1>8. \A k \in Entity : GenuineRow(rows[k], k, scan.watermarkEnd)
  <2> HIDE DEF s, rows, k0
  <2> QED
    BY <1>1, <1>5, <1>6, <1>7 DEF GenuineRow, Genuine
<1> HIDE DEF rows
<1>9. /\ Staged(rows) \in [Entity -> EntityRow]
      /\ \A k \in Entity : GenuineRow(Staged(rows)[k], k, scan.watermarkEnd)
      /\ \A k \in Entity : /\ Staged(rows)[k].revision >= staging[k].revision
                           /\ Staged(rows)[k].revision >= rows[k].revision
  BY <1>0, <1>6, <1>8, StagedKeeps DEF FinishedInv
<1>10. ASSUME NEW k \in Entity PROVE Covers(history, nextSequence, Staged(rows)[k], k, s)
  <2>1. staging[k] \in EntityRow /\ Staged(rows)[k] \in EntityRow
    BY <1>0, <1>9 DEF ScanTypes
  <2>2. Covers(history, nextSequence, Staged(rows)[k], k, catchUp)
    BY <1>0, <1>9, <2>1, NewerCovers DEF CoveredTo
  <2>3. ASSUME NEW t \in Own(history, nextSequence, k), t <= s
        PROVE  history[t].revision <= Staged(rows)[k].revision
    <3>1. CASE t <= catchUp
      BY <2>2, <2>3, <3>1 DEF Covers
    <3>2. CASE t = s
      <4>1. k = k0
        BY <2>3, <3>2 DEF Own
      <4> QED
        BY <1>5, <1>6, <1>9, <3>2, <4>1
    <3>3. t \in Nat
      BY <2>3 DEF Own, Sequence
    <3> QED
      BY <1>0, <2>3, <3>1, <3>2, <3>3
  <2> QED
    BY <2>3 DEF Covers
<1>11. /\ UNCHANGED <<nextSequence, history, scan>> /\ s \in 0 .. MaxSequence
  BY <1>0, <1>2, <1>4 DEF vars, journalVars, Sequence
<1>12. ScanTypes'
  BY <1>0, <1>4, <1>9, <1>11 DEF ScanTypes, Step
<1>13. FinishedInv'
  BY <1>0, <1>4, <1>9, <1>11 DEF FinishedInv, GenuineRow
<1>14. \A k \in Entity : Covers(history', nextSequence', staging'[k], k, s)
  BY <1>4, <1>10, <1>11
<1>15. CASE s >= scan.watermarkEnd
  <2>1. s = scan.watermarkEnd
    BY <1>0, <1>1, <1>15
  <2> QED
    BY <1>4, <1>11, <1>12, <1>13, <1>14, <1>15, <2>1 DEF ScanInv, CoveredTo
<1>16. CASE ~(s >= scan.watermarkEnd)
  <2>1. s < scan.watermarkEnd
    BY <1>0, <1>16
  <2> HIDE DEF s
  <2> QED
    BY <1>4, <1>11, <1>12, <1>13, <1>14, <1>16, <2>1 DEF ScanInv, CoveredTo
<1> QED
  BY <1>15, <1>16

\* The scan keeps its invariant at every step of its own and of the others.
LEMMA ScanStep == Inv /\ ScanInv /\ [ScanNext]_allVars => ScanInv'
<1> SUFFICES ASSUME Inv, ScanInv, [ScanNext]_allVars PROVE ScanInv'
  OBVIOUS
<1>0. /\ nextSequence \in 1 .. MaxSequence + 1 /\ MaxSequence \in Nat /\ ScanTypes
      /\ NoScan \in ScanRow /\ NoHeads \in [Entity -> EntityRow]
  <2>1. NoHead \in EntityRow
    BY CoordinatorAssumption DEF NoHead, EntityRow, Operation, PayloadOrNull
  <2>2. NoHeads \in [Entity -> EntityRow]
    BY <2>1 DEF NoHeads
  <2> QED
    BY <2>2, CoordinatorAssumption
       DEF Inv, JournalHalf, JournalTypeOK, ScanInv, NoScan, ScanRow
<1>1. CASE UNCHANGED scanVars
  BY <1>1, ScanWaits
<1>2. CASE BeginScan
  <2>1. /\ scan' = [NoScan EXCEPT !.watermarkStart = Watermark] /\ staging' = NoHeads
        /\ catchUp' = Watermark /\ step' = "paging" /\ UNCHANGED <<nextSequence, history>>
    BY <1>2 DEF BeginScan, vars, journalVars
  <2>2. Watermark \in 0 .. MaxSequence /\ Watermark < nextSequence
    BY <1>0 DEF Watermark
  <2>3. /\ scan' \in ScanRow /\ scan'.watermarkStart = Watermark /\ scan'.entityCursor = 0
        /\ scan'.done = FALSE /\ scan'.pageRows = NoHeads
    BY <1>0, <2>1, <2>2 DEF ScanRow, NoScan
  <2>4. \A k \in Entity : ~(k <= 0)
    BY ScanAssumption
  <2>5. \A k \in Entity : \A w : GenuineRow(NoHeads[k], k, w)
    BY DEF NoHeads, GenuineRow, Genuine
  <2>6. ScanTypes'
    BY <1>0, <2>1, <2>2, <2>3 DEF ScanTypes, Step
  <2>7. PagingInv'
    BY <2>1, <2>2, <2>3, <2>4, <2>5 DEF PagingInv, GenuineRow, Passed
  <2> QED
    BY <2>1, <2>6, <2>7 DEF ScanInv
<1>3. ASSUME NEW last \in Entity \cup {0}, PageScan(last) PROVE ScanInv'
  BY <1>3, PageStep
<1>4. CASE ReplayPage
  <2>1. /\ step = "paging" /\ PagingInv /\ staging' = Staged(scan.pageRows)
        /\ UNCHANGED <<nextSequence, history, scan, step, catchUp>>
    BY <1>4 DEF ReplayPage, ScanInv, vars, journalVars
  <2>2. scan.pageRows \in [Entity -> EntityRow]
    BY <1>0 DEF ScanTypes, ScanRow
  <2>3. /\ staging' \in [Entity -> EntityRow]
        /\ \A k \in Entity : GenuineRow(staging'[k], k, MaxSequence)
        /\ \A k \in Entity : staging'[k].revision >= staging[k].revision
    BY <1>0, <2>1, <2>2, StagedKeeps DEF PagingInv
  <2>4. ScanTypes'
    BY <1>0, <2>1, <2>3 DEF ScanTypes
  <2>5. ASSUME NEW k \in Entity, Passed(k)
        PROVE  Covers(history, nextSequence, staging'[k], k, scan.watermarkStart)
    <3>1. staging[k] \in EntityRow /\ staging'[k] \in EntityRow
      BY <1>0, <2>3 DEF ScanTypes
    <3> QED
      BY <2>1, <2>3, <2>5, <3>1, NewerCovers DEF PagingInv, CoveredTo
  <2>6. PagingInv'
    BY <2>1, <2>3, <2>5 DEF PagingInv, GenuineRow, CoveredTo, Passed
  <2> QED
    BY <2>1, <2>4, <2>6 DEF ScanInv
<1>5. CASE FinishScan
  <2>1. /\ step = "paging" /\ PagingInv /\ scan.done
        /\ scan' = [scan EXCEPT !.watermarkEnd = Watermark]
        /\ step' = IF catchUp >= Watermark THEN "ready" ELSE "catching"
        /\ UNCHANGED <<nextSequence, history, staging, catchUp>>
    BY <1>5 DEF FinishScan, ScanInv, vars, journalVars
  <2>2. /\ Watermark \in 0 .. MaxSequence /\ Watermark < nextSequence
        /\ \A s \in Sequence : s < nextSequence => s <= Watermark
    BY <1>0 DEF Watermark, Sequence
  <2>3. scan' \in ScanRow /\ scan'.watermarkEnd = Watermark
    BY <1>0, <2>1, <2>2 DEF ScanTypes, ScanRow
  <2>4. catchUp \in Nat /\ catchUp < nextSequence
    BY <1>0, <2>1 DEF ScanTypes, PagingInv
  <2>5. ScanTypes'
    BY <1>0, <2>1, <2>3 DEF ScanTypes, Step
  <2>6. \A k \in Entity : GenuineRow(staging[k], k, Watermark)
    BY <2>1, <2>2 DEF PagingInv, GenuineRow, Genuine, Own
  <2>7. FinishedInv'
    BY <2>1, <2>2, <2>3, <2>6 DEF FinishedInv, GenuineRow
  <2>8. \A k \in Entity : Covers(history, nextSequence, staging[k], k, catchUp)
    BY <2>1 DEF PagingInv, CoveredTo, Passed
  <2>9. CASE catchUp >= Watermark
    <3>1. catchUp = Watermark
      BY <1>0, <2>4, <2>9 DEF Watermark
    <3> QED
      BY <2>1, <2>3, <2>5, <2>7, <2>8, <2>9, <3>1 DEF ScanInv, CoveredTo
  <2>10. CASE ~(catchUp >= Watermark)
    <3>1. catchUp < Watermark
      BY <2>2, <2>4, <2>10
    <3> QED
      BY <2>1, <2>3, <2>5, <2>7, <2>8, <2>10, <3>1 DEF ScanInv, CoveredTo
  <2> QED
    BY <2>9, <2>10
<1>6. CASE CatchUp
  BY <1>6, CatchUpStep
<1>7. CASE EndScan
  BY <1>0, <1>7 DEF EndScan, ScanInv, ScanTypes, Step
<1> QED
  BY <1>1, <1>2, <1>3, <1>4, <1>5, <1>6, <1>7 DEF ScanNext, Elsewhere, allVars

\* The journal and the scan before their first step.
LEMMA ScanInitInv == ScanInit => Inv /\ ScanInv
<1> SUFFICES ASSUME ScanInit PROVE Inv /\ ScanInv
  OBVIOUS
<1>1. Inv
  BY InitInv DEF ScanInit
<1>2. NoHead \in EntityRow
  BY CoordinatorAssumption DEF NoHead, EntityRow, Operation, PayloadOrNull
<1>3. NoHeads \in [Entity -> EntityRow]
  BY <1>2 DEF NoHeads
<1>4. NoScan \in ScanRow
  BY <1>3, CoordinatorAssumption DEF NoScan, ScanRow
<1> QED
  BY <1>1, <1>3, <1>4, CoordinatorAssumption DEF ScanInit, ScanInv, ScanTypes, Step

\* The coordinator's invariant and the scan's own hold together.
THEOREM ScanInvariant == ScanSpec => [](Inv /\ ScanInv)
  BY ScanInitInv, CoordinatorStep, ScanStep, PTL DEF ScanSpec

\* The scan row, the stored page and the staging keep their types while the
\* journal moves under them (ScanTypeOK).
THEOREM ScanTypesHold == ScanSpec => []ScanTypeOK
<1>1. Inv /\ ScanInv => ScanTypeOK
  BY DEF Inv, JournalHalf, PushHalf, JournalTypeOK, PushTypeOK, TypeOK, ScanTypeOK, ScanInv,
     ScanTypes
<1> QED
  BY ScanInvariant, <1>1, PTL

\* A nonempty set of sequences has a last one.
LEMMA LastOf ==
    ASSUME NEW T \in SUBSET Sequence, T # {}
    PROVE  \E x \in T : \A y \in T : y <= x
<1> DEFINE R == OpToRel(<, Nat)
           U == {x \in Nat : x <= MaxSequence /\ MaxSequence - x \in T}
<1>0. MaxSequence \in Nat
  BY CoordinatorAssumption
<1>1. \A y \in T : y \in Nat /\ MaxSequence - y \in U
  BY <1>0 DEF Sequence
<1>2. U \in SUBSET Nat /\ U # {}
  <2>1. PICK y \in T : TRUE
    OBVIOUS
  <2>2. MaxSequence - y \in U
    BY <1>1, <2>1
  <2>3. U \in SUBSET Nat
    OBVIOUS
  <2> HIDE DEF U
  <2> QED
    BY <2>2, <2>3
<1>3. \A x \in U : x \in Nat /\ MaxSequence - x \in T
  OBVIOUS
<1>4. \A x, y \in Nat : y < x => <<y, x>> \in R
  BY DEF OpToRel
<1>5. IsWellFoundedOn(R, Nat)
  BY NatLessThanWellFounded
<1> HIDE DEF R, U
<1>6. PICK x \in U : \A y \in U : ~(<<y, x>> \in R)
  BY <1>2, <1>5, WFMin
<1>7. ASSUME NEW y \in T PROVE y <= MaxSequence - x
  <2>1. y \in Nat /\ MaxSequence - y \in U /\ MaxSequence - y \in Nat /\ x \in Nat
    BY <1>1, <1>3
  <2>2. ~(MaxSequence - y < x)
    BY <1>4, <1>6, <2>1
  <2> QED
    BY <1>0, <2>1, <2>2
<1> QED
  BY <1>3, <1>6, <1>7

\* A complete staging is the account exactly as it was at the end watermark,
\* however the pages, the writes of other devices and the compaction interleaved
\* (StagingIsExact).
THEOREM CompleteStagingIsExact == ScanSpec => []StagingIsExact
<1>1. Inv /\ ScanInv => StagingIsExact
  <2> SUFFICES ASSUME Inv, ScanInv, step = "ready", NEW k \in Entity
               PROVE  IF LastAt(k, scan.watermarkEnd) = {} THEN staging[k] = NoHead
                      ELSE \E s \in LastAt(k, scan.watermarkEnd) :
                              /\ staging[k].revision = history[s].revision
                              /\ staging[k].operation = history[s].operation
                              /\ staging[k].payload = history[s].payload
    BY DEF StagingIsExact
  <2> DEFINE row == staging[k]
             w == scan.watermarkEnd
             own == {s \in OwnHistory(k) : s <= w}
  <2>0. /\ OwnHistory(k) = Own(history, nextSequence, k)
        /\ Genuine(history, nextSequence, row, k, w) /\ Covers(history, nextSequence, row, k, w)
    BY DEF ScanInv, FinishedInv, GenuineRow, CoveredTo, OwnHistory, Own
  <2>1. own \in SUBSET Sequence
    BY DEF OwnHistory
  <2>2. own # {} => LastAt(k, w) # {}
    <3> HIDE DEF own
    <3>1. ASSUME own # {} PROVE \E x \in own : \A y \in own : y <= x
      BY <2>1, <3>1, LastOf
    <3> QED
      BY <3>1 DEF LastAt, own
  <2>3. CASE row = NoHead
    <3>1. \A s \in own : FALSE
      <4>1. \A s \in own : history[s].revision \in 1 .. s /\ s \in Nat
        BY DEF OwnHistory, Inv, JournalHalf, HistoryInv, Sequence
      <4>2. \A s \in own : history[s].revision <= 0
        BY <2>0, <2>3 DEF Covers, NoHead
      <4> QED
        BY <4>1, <4>2
    <3> QED
      BY <2>3, <3>1 DEF LastAt
  <2>4. CASE row # NoHead
    <3> DEFINE t == row.sequence
    <3>1. /\ t \in OwnHistory(k) /\ t <= w /\ row.revision = history[t].revision
          /\ row.operation = history[t].operation /\ row.payload = history[t].payload
      BY <2>0, <2>4 DEF Genuine
    <3> HIDE DEF t, row
    <3>2. ASSUME NEW s \in OwnHistory(k), s <= w PROVE s <= t
      <4>1. /\ s \in Sequence /\ s < nextSequence /\ t \in Sequence /\ t < nextSequence
            /\ history[s].entity = k /\ history[t].entity = k
        BY <3>1, <3>2 DEF OwnHistory
      <4>2. t < s => history[t].revision < history[s].revision
        BY <4>1 DEF Inv, JournalHalf, ChainInv
      <4>3. history[s].revision <= history[t].revision
        BY <2>0, <3>1, <3>2 DEF Covers
      <4>4. history[s].revision \in Nat /\ history[t].revision \in Nat /\ s \in Nat /\ t \in Nat
        BY <4>1 DEF Inv, JournalHalf, HistoryInv, Sequence
      <4> QED
        BY <4>2, <4>3, <4>4
    <3>3. t \in LastAt(k, w)
      BY <3>1, <3>2 DEF LastAt
    <3> QED
      BY <3>1, <3>3 DEF row
  <2> QED
    BY <2>3, <2>4
<1> QED
  BY ScanInvariant, <1>1, PTL

\* A catch-up that is not told to reset always finds its next change, and its
\* payload: scanCycle's "did not reach its finish watermark" and handlePull's
\* missing payload cannot happen (CatchUpReachesEnd).
THEOREM CatchUpFindsNext == ScanSpec => []CatchUpReachesEnd
<1>1. Inv /\ ScanInv => CatchUpReachesEnd
  <2> SUFFICES ASSUME Inv, ScanInv, step = "catching", ~ResetRequired(catchUp)
               PROVE  \E s \in Pullable(catchUp) :
                         /\ s <= scan.watermarkEnd
                         /\ changes[s].operation = "delete" \/ ServedPayload(s) # NoPayload
    BY DEF CatchUpReachesEnd
  <2>1. /\ catchUp \in Nat /\ scan.watermarkEnd \in Nat /\ nextSequence \in Nat
        /\ retentionFloor \in Nat
    BY CoordinatorAssumption
       DEF ScanInv, ScanTypes, ScanRow, Inv, JournalHalf, JournalTypeOK
  <2>2. /\ catchUp + 1 <= scan.watermarkEnd /\ catchUp + 1 < nextSequence
        /\ catchUp >= retentionFloor
    BY <2>1 DEF ScanInv, FinishedInv, ResetRequired
  <2> QED
    BY <2>1, <2>2, NextChange
<1> QED
  BY ScanInvariant, <1>1, PTL

=============================================================================
