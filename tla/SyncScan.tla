------------------------------ MODULE SyncScan ------------------------------
(***************************************************************************)
(* The recovery scan of a device whose cursor fell behind the retention    *)
(* floor or whose receipts expired: sync.scan.begin / page / finish on the *)
(* coordinator, and scanCycle with catchUpStagedState on the device.  The  *)
(* pages read the live heads while other devices write and the sweep       *)
(* compacts; the catch-up pull repairs what the pages saw too early.       *)
(*                                                                         *)
(* Entity keys are numbers, in the order the coordinator pages them.       *)
(***************************************************************************)
EXTENDS SyncCoordinator

ASSUME ScanAssumption == Entity \subseteq Nat \ {0}

VARIABLES
    scan,     \* the row of table scans, with the cached last page
    step,     \* where scanCycle is
    staging,  \* sync_scan_staging
    catchUp   \* the cursor of the catch-up pull

scanVars == <<scan, step, staging, catchUp>>
allVars == <<vars, scanVars>>

---------------------------------------------------------------------------

Step == {"idle", "paging", "catching", "ready"}

\* entityCursor 0 is null; pageCursor is the request that pageRows answered.
ScanRow == [watermarkStart : 0 .. MaxSequence, entityCursor : Entity \cup {0},
            done : BOOLEAN, watermarkEnd : 0 .. MaxSequence,
            pageCursor : Entity \cup {0}, pageRows : [Entity -> EntityRow]]
NoHeads == [k \in Entity |-> NoHead]
NoScan == [watermarkStart |-> 0, entityCursor |-> 0, done |-> FALSE,
           watermarkEnd |-> 0, pageCursor |-> 0, pageRows |-> NoHeads]

\* assertScanEpochAndRetention
ScanUsable == scan.watermarkStart >= retentionFloor

\* stageScanEntities and stageScanChange: a row replaces an older one only.
Staged(rows) ==
    [k \in Entity |-> IF rows[k].revision > staging[k].revision
                      THEN rows[k] ELSE staging[k]]

---------------------------------------------------------------------------

\* Mutant: the start watermark counts the sequence about to be assigned.
BeginScanLate ==
    /\ step = "idle"
    /\ scan' = [NoScan EXCEPT !.watermarkStart =
                  IF nextSequence > MaxSequence THEN MaxSequence ELSE nextSequence]
    /\ staging' = NoHeads
    /\ catchUp' = IF nextSequence > MaxSequence THEN MaxSequence ELSE nextSequence
    /\ step' = "paging"
    /\ UNCHANGED vars

\* sync.scan.begin and beginScanStaging
BeginScan ==
    /\ step = "idle"
    /\ scan' = [NoScan EXCEPT !.watermarkStart = Watermark]
    /\ staging' = NoHeads
    /\ catchUp' = Watermark
    /\ step' = "paging"
    /\ UNCHANGED vars

\* sync.scan.page: the live heads after the cursor, cut after some of them.
PageScan(last) ==
    LET after == {k \in Entity : entities[k].revision # 0 /\ k > scan.entityCursor}
        rows == [k \in Entity |-> IF k \in after /\ k <= last
                                  THEN entities[k] ELSE NoHead]
    IN /\ step = "paging"
       /\ ScanUsable
       /\ ~scan.done
       /\ last \in (IF after = {} THEN {scan.entityCursor} ELSE after)
       /\ scan' = [scan EXCEPT !.entityCursor = last,
                               !.done = \A k \in after : k <= last,
                               !.pageCursor = scan.entityCursor,
                               !.pageRows = rows]
       /\ staging' = Staged(rows)
       /\ UNCHANGED <<vars, step, catchUp>>

\* The request of the last page again: answered from the stored result.
ReplayPage ==
    /\ step = "paging"
    /\ ScanUsable
    /\ scan.pageRows # NoHeads
    /\ staging' = Staged(scan.pageRows)
    /\ UNCHANGED <<vars, scan, step, catchUp>>

\* sync.scan.finish; a repeated finish keeps the first end watermark.
FinishScan ==
    /\ step = "paging"
    /\ ScanUsable
    /\ scan.done
    /\ scan' = [scan EXCEPT !.watermarkEnd = Watermark]
    /\ step' = IF catchUp >= Watermark THEN "ready" ELSE "catching"
    /\ UNCHANGED <<vars, staging, catchUp>>

\* One pulled change of catchUpStagedState, up to the end watermark.
CatchUp ==
    LET after == Pullable(catchUp)
        s == CHOOSE s \in after : \A t \in after : s <= t
        row == [revision |-> changes[s].revision,
                operation |-> changes[s].operation,
                payload |-> ServedPayload(s), sequence |-> s]
        beyond == s > scan.watermarkEnd
    IN /\ step = "catching"
       /\ ~ResetRequired(catchUp)
       /\ after # {}
       /\ changes[s].operation = "delete" \/ ServedPayload(s) # NoPayload
       /\ staging' = IF beyond THEN staging
                     ELSE Staged([NoHeads EXCEPT ![changes[s].entity] = row])
       /\ catchUp' = s
       /\ step' = IF s >= scan.watermarkEnd THEN "ready" ELSE "catching"
       /\ UNCHANGED <<vars, scan>>

\* Any failed request (reset-required included), a restart, or the activation
\* of a complete staging.
EndScan ==
    /\ step # "idle"
    /\ scan' = NoScan
    /\ staging' = NoHeads
    /\ catchUp' = 0
    /\ step' = "idle"
    /\ UNCHANGED vars

\* The other devices and the coordinator's own maintenance.
Elsewhere ==
    /\ \/ \E k \in Entity, payload \in PayloadOrNull : OtherWriter(k, payload)
       \/ \E target \in Sequence : RequestCompaction(target)
       \/ \E last \in 0 .. MaxSequence, upTo \in 0 .. MaxSequence :
             Sweep(last, upTo, {})
    /\ UNCHANGED scanVars

---------------------------------------------------------------------------

ScanInit ==
    /\ Init
    /\ scan = NoScan
    /\ step = "idle"
    /\ staging = NoHeads
    /\ catchUp = 0

ScanNext ==
    \/ BeginScan
    \/ \E last \in Entity \cup {0} : PageScan(last)
    \/ ReplayPage
    \/ FinishScan
    \/ CatchUp
    \/ EndScan
    \/ Elsewhere

ScanSpec == ScanInit /\ [][ScanNext]_allVars

---------------------------------------------------------------------------

\* The scan row, the stored page and the staging keep their types while the
\* journal moves under them.
ScanTypeOK ==
    /\ TypeOK
    /\ scan \in ScanRow
    /\ step \in Step
    /\ staging \in [Entity -> EntityRow]
    /\ catchUp \in 0 .. MaxSequence

\* The heads right after sequence w was assigned, from the accepted changes.
LastAt(k, w) == {s \in OwnHistory(k) : s <= w /\ \A t \in OwnHistory(k) :
                                                   t <= w => t <= s}
\* A complete staging is the account exactly as it was at the end watermark -
\* the cursor it is activated with - however the pages, the writes of other
\* devices and the compaction interleaved (scanCycle, catchUpStagedState).
StagingIsExact ==
    step = "ready" =>
        \A k \in Entity :
            IF LastAt(k, scan.watermarkEnd) = {} THEN staging[k] = NoHead
            ELSE \E s \in LastAt(k, scan.watermarkEnd) :
                    /\ staging[k].revision = history[s].revision
                    /\ staging[k].operation = history[s].operation
                    /\ staging[k].payload = history[s].payload

\* A catch-up that the coordinator does not send back to a reset finds a next
\* change up to its end watermark, and its payload: neither scanCycle's "did
\* not reach its finish watermark" nor handlePull's missing payload happens.
CatchUpReachesEnd ==
    step = "catching" /\ ~ResetRequired(catchUp) =>
        \E s \in Pullable(catchUp) :
            /\ s <= scan.watermarkEnd
            /\ changes[s].operation = "delete" \/ ServedPayload(s) # NoPayload
=============================================================================
