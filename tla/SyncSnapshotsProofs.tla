------------------------ MODULE SyncSnapshotsProofs ------------------------
(***************************************************************************)
(* Proofs about SyncSnapshots, for every journal length, any number of     *)
(* publications, chunks, faults and restores.                              *)
(***************************************************************************)
EXTENDS SyncSnapshots, FiniteSetTheorems, NaturalsInduction, WellFoundedInduction, TLAPS

Stage == {"reserved", "stored"}
Entry == [entity : Entity, revision : 1 .. MaxLength, operation : {"create", "update"},
          payload : Payload]

\* The journal: no revision is higher than the number of changes.
LogTypes ==
    /\ length \in Cursor /\ floor \in 0 .. length /\ target \in 0 .. length
    /\ aged \in 0 .. floor
    /\ keyVersion \in 0 .. MaxKeyVersion
    /\ revision \in [Entity -> Cursor] /\ \A k \in Entity : revision[k] <= length
    /\ feed \in [Log!Position -> Entry \cup {NoEntry}]

\* The variables SnapshotTypeOK does not speak of.
TypeInv ==
    /\ SnapshotTypeOK /\ LogTypes
    /\ overdue \subseteq Publication /\ verifies \subseteq Publication
    /\ puts \subseteq Publication \X Chunk \X Stage
    /\ sweep \in [pc : {"idle", "drain", "record"}, batch : SUBSET Key]

Committed == {p \in Publication : publications[p].committed}

\* The generation counts the commits; the active snapshot is the last commit, the
\* retained one the commit before it.
ChainInv ==
    /\ \A p, q \in Active : p = q
    /\ \A p, q \in Retained : p = q
    /\ Active = {} => Retained = {}
    /\ Generation = Cardinality(Committed)
    /\ \A p \in Committed : State(p) \in {"committed", "expired"}
    /\ \A p \in Published : p \in Committed /\ State(p) = "committed"
    /\ \A p \in Published : snapshots[p].generation = publications[p].expected + 1
    /\ \A p \in Active, q \in Retained :
          /\ snapshots[p].generation = snapshots[q].generation + 1
          /\ publications[p].cursor >= publications[q].cursor

\* The compaction target never passes a published snapshot.
TailInv ==
    /\ Active = {} => target = 0
    /\ \A p \in Published : target <= publications[p].cursor
    /\ TailKept

\* What will settle an object that has no row.
Cared(x) == x \in deletes \cup lost \/ \E stage \in Stage : <<x[1], x[2], stage>> \in puts

\* A row is queued for good, and the sweep drops it only when its object is gone or
\* cared for without it.
OwnInv ==
    /\ \A x \in Queued : State(x[1]) = "expired"
    /\ sweep.pc = "record" => /\ sweep.batch \subseteq Queued
                              /\ \A x \in sweep.batch \cap objects : Cared(x)
    /\ ObjectsAreOwned

\* A publication that will take no more uploads.
Closed(p) == State(p) \notin {"new", "scanned"} /\ ~Open(p)

\* One chunk.put at a time: nothing is on its way that could take an uploaded
\* object away.
KeyInv(p, c) ==
    /\ \A stage \in Stage : <<p, c, stage>> \in puts =>
          /\ State(p) \notin {"new", "scanned"}
          /\ chunks[<<p, c>>] # "uploaded"
          /\ Open(p) => chunks[<<p, c>>] # "none"
    /\ <<p, c, "stored">> \in puts =>
          /\ <<p, c, "reserved">> \notin puts
          /\ Open(p) => <<p, c>> \in objects
    /\ <<p, c>> \in deletes => Closed(p) /\ chunks[<<p, c>>] # "uploaded"
    /\ chunks[<<p, c>>] = "uploaded" => <<p, c>> \in objects

ReadInv ==
    /\ \A p \in Publication, c \in Chunk : KeyInv(p, c)
    /\ \A p \in Published : Complete(p)

\* The readable entries of a feed after one sequence and up to another.
Between(f, from, to) == {s \in Log!Position : from < s /\ s <= to /\ f[s] # NoEntry}

\* best is what a device has that starts from contents and keeps the higher
\* revision of everything in a page.
Best(f, contents, page, best) ==
    \A k \in Entity :
        /\ best[k] >= contents[k]
        /\ \A s \in page : f[s].entity = k => best[k] >= f[s].revision
        /\ best[k] = contents[k] \/ \E s \in page : f[s].entity = k /\ best[k] = f[s].revision

CaughtUp(f, contents, from, to, best) == Best(f, contents, Between(f, from, to), best)

\* A scan and the tail after it give the present heads, while the tail is there.
HeadsInv ==
    \A p \in Publication : State(p) # "new" =>
        /\ publications[p].cursor <= length
        /\ publications[p].cursor >= floor =>
              CaughtUp(feed, publications[p].contents, publications[p].cursor, length, revision)

Restore == [pc : {"idle", "chunks", "pull", "done"}, from : Seq(Publication),
            got : SUBSET Chunk, staged : Contents, cursor : Cursor, finish : Cursor,
            goal : Contents, tries : Nat]

\* A manifest on a restoring device's list leads to what it wants.
Leads(p) ==
    /\ State(p) # "new"
    /\ publications[p].cursor >= floor =>
          CaughtUp(feed, publications[p].contents, publications[p].cursor, restore.finish,
                   restore.goal)

\* What HeadsInv says, for the moment at which the restore began.
RestoreInv ==
    /\ restore \in Restore
    /\ restore.pc # "idle" =>
          /\ restore.finish <= length
          /\ Len(restore.from) > 0
          /\ \A i \in 1 .. Len(restore.from) : Leads(restore.from[i])
    /\ restore.pc = "pull" /\ restore.cursor >= floor =>
          CaughtUp(feed, restore.staged, restore.cursor, restore.finish, restore.goal)
    /\ RestoreIsExact

Inv == /\ TypeInv /\ ChainInv /\ TailInv /\ OwnInv
       /\ ~Retried => ReadInv
       /\ HeadsInv /\ RestoreInv

---------------------------------------------------------------------------

\* The larger of two numbers.
LEMMA MaxPair ==
    \A a, b \in Int : Max({a, b}) = IF a >= b THEN a ELSE b
<1> SUFFICES ASSUME NEW a \in Int, NEW b \in Int
             PROVE  Max({a, b}) = IF a >= b THEN a ELSE b
  OBVIOUS
<1> DEFINE m == IF a >= b THEN a ELSE b
<1>1. m \in {a, b} /\ \A y \in {a, b} : m >= y
  OBVIOUS
<1>2. ASSUME NEW x \in {a, b}, \A y \in {a, b} : x >= y PROVE x = m
  BY <1>2
<1> HIDE DEF m
<1> QED
  BY <1>1, <1>2 DEF Max

\* What the assumptions say of each constant.
LEMMA Bounds ==
    /\ MaxLength \in Nat /\ MaxKeyVersion \in Nat /\ MaxKeyVersion >= 1
    /\ IsFiniteSet(Publication) /\ Cardinality(Publication) \in Nat
    /\ Chunk # {} /\ NoEntry \notin Entry
  BY SnapshotAssumption, FS_CardinalityType DEF Entry

\* The numbers among the state.
LEMMA Numbers ==
    ASSUME TypeInv
    PROVE  /\ length \in Nat /\ length <= MaxLength /\ floor \in Nat /\ floor <= length
           /\ target \in Nat /\ target <= length /\ aged \in Nat /\ aged <= floor
           /\ \A p \in Publication : publications[p].cursor \in Nat
  BY Bounds DEF TypeInv, LogTypes, SnapshotTypeOK, Cursor, PublicationRow

\* The journal and its counters keep their types: the floor stays below the
\* length, and ages no more than was dropped.
LEMMA LogTypeStep == TypeInv /\ [Next]_vars => LogTypes'
<1> SUFFICES ASSUME TypeInv, [Next]_vars PROVE LogTypes'
  OBVIOUS
<1>0. LogTypes
  BY DEF TypeInv
<1> USE DEF LogTypes, logVars, tables, pending
<1>1. CASE Write
  <2>1. PICK k \in Entity, operation \in {"create", "update"}, payload \in Payload :
            Log!Write(k, operation, payload)
    BY <1>1 DEF Write
  <2>2. UNCHANGED <<target, aged, keyVersion, floor>> /\ length' = length + 1 /\ length < MaxLength
    BY <1>1, <2>1 DEF Write, Log!Write
  <2>3. revision[k] \in Nat /\ revision[k] <= length
    BY <1>0, <2>1 DEF Cursor
  <2>4. /\ revision[k] + 1 \in Cursor
        /\ revision[k] + 1 \in 1 .. MaxLength
        /\ revision[k] + 1 <= length'
    BY <2>2, <2>3, Numbers, Bounds DEF Cursor
  <2>5. revision' = [revision EXCEPT ![k] = revision[k] + 1]
    BY <2>1 DEF Log!Write
  <2>6. revision' \in [Entity -> Cursor] /\ \A e \in Entity : revision'[e] <= length'
    BY <1>0, <2>2, <2>4, <2>5, Numbers DEF Cursor
  <2>7. feed' \in [Log!Position -> Entry \cup {NoEntry}]
    BY <1>0, <2>1, <2>4 DEF Log!Write, Entry
  <2> QED
    BY <1>0, <2>2, <2>6, <2>7, Numbers, Bounds DEF Cursor
<1>2. CASE KeyRotated
  BY <1>2, <1>0, Bounds DEF KeyRotated
<1>3. ASSUME NEW p \in Publication, ScanFinished(p) PROVE LogTypes'
  BY <1>3, <1>0 DEF ScanFinished
<1>4. ASSUME NEW p \in Publication, Begin(p) PROVE LogTypes'
  BY <1>4, <1>0 DEF Begin
<1>5. ASSUME NEW p \in Publication, Verify(p) PROVE LogTypes'
  BY <1>5, <1>0 DEF Verify
<1>6. ASSUME NEW p \in Publication, Commit(p) PROVE LogTypes'
  <2>1. publications[p].cursor \in 0 .. length
    <3>1. publications[p].cursor \in floor .. length
      BY <1>6 DEF Commit
    <3> QED
      BY <3>1, Numbers
  <2>2. target' = Max({target, CompactionCursor(p)}) /\ UNCHANGED <<logVars, aged, keyVersion>>
    BY <1>6 DEF Commit
  <2>3. CompactionCursor(p) \in 0 .. length
    <3>1. Active # {} => ActiveCursor \in Nat /\ ActiveCursor <= publications[p].cursor
      BY <1>6, Numbers DEF Commit, Follows, ActiveCursor, Active
    <3> QED
      BY <2>1, <3>1, Numbers DEF CompactionCursor
  <2>4. target' \in {target, CompactionCursor(p)}
    BY <2>2, <2>3, MaxPair, Numbers
  <2> QED
    BY <1>0, <2>2, <2>3, <2>4
<1>7. ASSUME NEW p \in Publication, UploadWindowCloses(p) PROVE LogTypes'
  BY <1>7, <1>0 DEF UploadWindowCloses
<1>8. ASSUME NEW p \in Publication, NEW c \in Chunk, ChunkPut(p, c) PROVE LogTypes'
  BY <1>8, <1>0 DEF ChunkPut
<1>9. ASSUME NEW p \in Publication, NEW c \in Chunk, ChunkStored(p, c) PROVE LogTypes'
  BY <1>9, <1>0 DEF ChunkStored
<1>10. ASSUME NEW p \in Publication, NEW c \in Chunk, ChunkPutDone(p, c) PROVE LogTypes'
  BY <1>10, <1>0 DEF ChunkPutDone
<1>11. ASSUME NEW p \in Publication, VerifyDone(p) PROVE LogTypes'
  BY <1>11, <1>0 DEF VerifyDone
<1>12. ASSUME NEW x \in Key, DeleteReaches(x) PROVE LogTypes'
  BY <1>12, <1>0 DEF DeleteReaches
<1>13. ASSUME NEW last \in Cursor, NEW upTo \in Cursor, SweepCommit(last, upTo) PROVE LogTypes'
  <2> DEFINE current == IF floor >= last THEN floor ELSE last
  <2>1. last \in Nat /\ upTo \in Nat
    BY Bounds DEF Cursor
  <2>2. Max({floor, last}) = current
    BY <2>1, MaxPair, Numbers
  <2>3. Max({aged, last}) = IF aged >= last THEN aged ELSE last
    BY <2>1, MaxPair, Numbers
  <2>4. SweepJournal(last, upTo)
    BY <1>13 DEF SweepCommit
  <2>5. current \in floor .. length
    BY <2>1, <2>4, Numbers DEF SweepJournal
  <2>6. /\ upTo \in (IF target > current THEN current + 1 .. target ELSE {current})
        /\ floor' = upTo /\ aged' = (IF aged >= last THEN aged ELSE last)
        /\ target' = (IF target > current /\ upTo >= target THEN 0 ELSE target)
        /\ UNCHANGED <<length, revision>>
        /\ feed' = [s \in Log!Position |-> IF s <= upTo THEN NoEntry ELSE feed[s]]
    BY <2>2, <2>3, <2>4 DEF SweepJournal, Log!Trim
  <2>7. floor' \in 0 .. length /\ target' \in 0 .. length /\ aged' \in 0 .. floor'
    BY <2>1, <2>5, <2>6, Numbers
  <2>8. keyVersion' = keyVersion
    BY <1>13 DEF SweepCommit
  <2>9. feed' \in [Log!Position -> Entry \cup {NoEntry}]
    BY <1>0, <2>6
  <2> QED
    BY <1>0, <2>6, <2>7, <2>8, <2>9
<1>14. ASSUME NEW done \in SUBSET Queued, SweepDeletes(done) PROVE LogTypes'
  BY <1>14, <1>0 DEF SweepDeletes
<1>15. CASE SweepRecord
  BY <1>15, <1>0 DEF SweepRecord
<1>16. ASSUME NEW landed \in SUBSET Key, Evicted(landed) PROVE LogTypes'
  BY <1>16, <1>0 DEF Evicted
<1>17. CASE RestoreBegin
  BY <1>17, <1>0 DEF RestoreBegin
<1>18. ASSUME NEW c \in Chunk, RestoreChunk(c) PROVE LogTypes'
  BY <1>18, <1>0 DEF RestoreChunk
<1>19. CASE RestoreStage
  BY <1>19, <1>0 DEF RestoreStage
<1>20. ASSUME NEW upTo \in Cursor, RestorePull(upTo) PROVE LogTypes'
  BY <1>20, <1>0 DEF RestorePull
<1>21. CASE RestoreActivate
  BY <1>21, <1>0 DEF RestoreActivate
<1>22. CASE UNCHANGED vars
  BY <1>22, <1>0 DEF vars, logVars, tables, pending
<1> QED
  BY <1>1, <1>2, <1>3, <1>4, <1>5, <1>6, <1>7, <1>8, <1>9, <1>10, <1>11, <1>12, <1>13,
     <1>14, <1>15, <1>16, <1>17, <1>18, <1>19, <1>20, <1>21, <1>22 DEF Next, CallStep,
     SweepStep

\* The active snapshot's generation is a number of commits.
LEMMA GenerationType ==
    ASSUME TypeInv, ChainInv
    PROVE  /\ Generation \in 0 .. Cardinality(Publication)
           /\ \A p \in Publication \ Committed : Generation + 1 \in 0 .. Cardinality(Publication)
<1>1. Committed \subseteq Publication /\ IsFiniteSet(Committed)
  BY Bounds, FS_Subset DEF Committed
<1>2. Generation = Cardinality(Committed) /\ Cardinality(Committed) \in Nat
  BY <1>1, FS_CardinalityType DEF ChainInv
<1>3. Cardinality(Committed) <= Cardinality(Publication)
  BY <1>1, Bounds, FS_Subset
<1>4. ASSUME NEW p \in Publication \ Committed
      PROVE  Generation + 1 \in 0 .. Cardinality(Publication)
  <2>1. /\ Cardinality(Committed \cup {p}) = Cardinality(Committed) + 1
        /\ Committed \cup {p} \subseteq Publication
    BY <1>1, FS_AddElement
  <2>2. Cardinality(Committed \cup {p}) <= Cardinality(Publication)
    BY <2>1, Bounds, FS_Subset
  <2> QED
    BY <1>2, <2>1, <2>2, Bounds
<1> QED
  BY <1>2, <1>3, <1>4, Bounds

\* The rows of sync_snapshot_publications only move on, and what was scanned and
\* begun stays as it was.
RowStep(q) ==
    /\ State(q) # "new" => /\ publications'[q].cursor = publications[q].cursor
                           /\ publications'[q].contents = publications[q].contents
    /\ State(q) \notin {"new", "scanned"} =>
          publications'[q].expected = publications[q].expected
    /\ publications'[q].state \in {"new", "scanned"} => State(q) \in {"new", "scanned"}
    /\ State(q) # "new" => publications'[q].state # "new"
    /\ State(q) = "committed" => publications'[q].state \in {"committed", "expired"}
    /\ State(q) = "expired" => publications'[q].state \in {"expired", "dropped"}
    /\ State(q) = "expired" /\ publications[q].committed => publications'[q].state = "expired"
    /\ State(q) = "dropped" => publications'[q].state = "dropped"
    /\ publications'[q].state = "dropped" =>
          State(q) = "dropped" \/ \A c \in Chunk : chunks'[<<q, c>>] = "none"
    /\ publications'[q].state = "committed" => State(q) \in {"verified", "committed"}
    /\ publications'[q].state \in {"uploading", "verified"} =>
          State(q) \in {"scanned", "uploading", "verified"}
    /\ \/ /\ publications'[q].committed = publications[q].committed
          /\ State(q) = "committed" => publications'[q].state = "committed"
       \/ \E p \in Publication : Commit(p)

Rows == publications \in [Publication -> PublicationRow]
RowsStep == publications' \in [Publication -> PublicationRow] /\ \A q \in Publication : RowStep(q)

\* A step that rewrites one publication row is a step of publications if that row's is.
LEMMA OneRow ==
    ASSUME Rows, NEW p \in Publication, NEW row \in PublicationRow,
           publications' = [publications EXCEPT ![p] = row],
           publications'[p] = row => RowStep(p)
    PROVE  RowsStep
  BY DEF Rows, RowsStep, RowStep, State

\* A step that writes no publication is one.
LEMMA SameRows == Rows /\ publications' = publications => RowsStep
  BY DEF Rows, RowsStep, RowStep, State

\* Publications keep their type and only move on.
LEMMA RowsSteps == TypeInv /\ ChainInv /\ [Next]_vars => RowsStep
<1> SUFFICES ASSUME TypeInv /\ ChainInv, [Next]_vars PROVE RowsStep
  OBVIOUS
<1>0. Rows
  BY DEF TypeInv, SnapshotTypeOK, Rows
<1>1. CASE Write
  BY <1>1, <1>0, SameRows DEF Write, tables
<1>2. CASE KeyRotated
  BY <1>2, <1>0, SameRows DEF KeyRotated, tables
<1>3. ASSUME NEW p \in Publication, ScanFinished(p) PROVE RowsStep
  <2> DEFINE row == [publications[p] EXCEPT !.state = "scanned", !.cursor = length,
                                            !.contents = revision, !.key = keyVersion]
  <2>1. publications' = [publications EXCEPT ![p] = row] /\ State(p) = "new"
    BY <1>3 DEF ScanFinished
  <2>2. length \in Cursor /\ revision \in Contents /\ keyVersion \in 0 .. MaxKeyVersion
    BY DEF TypeInv, LogTypes, Contents
  <2>3. row \in PublicationRow /\ row.state = "scanned"
        /\ row.committed = publications[p].committed
    BY <1>0, <2>2 DEF Rows, PublicationRow
  <2> HIDE DEF row
  <2>4. publications'[p] = row => RowStep(p)
    BY <2>1, <2>3 DEF RowStep
  <2> QED
    BY <1>0, <2>1, <2>3, <2>4, OneRow
<1>4. ASSUME NEW p \in Publication, Begin(p) PROVE RowsStep
  <2> DEFINE row == [publications[p] EXCEPT !.state = "uploading", !.expected = Generation]
  <2>1. publications' = [publications EXCEPT ![p] = row] /\ State(p) = "scanned"
    BY <1>4, <1>0 DEF Begin, Rows
  <2>2. Generation \in 0 .. Cardinality(Publication)
    BY GenerationType
  <2>3. row \in PublicationRow /\ row.state = "uploading"
        /\ row.committed = publications[p].committed
        /\ row.cursor = publications[p].cursor /\ row.contents = publications[p].contents
    BY <1>0, <2>2 DEF Rows, PublicationRow
  <2> HIDE DEF row
  <2>4. publications'[p] = row => RowStep(p)
    BY <2>1, <2>3 DEF RowStep
  <2> QED
    BY <1>0, <2>1, <2>3, <2>4, OneRow
<1>5. ASSUME NEW p \in Publication, Verify(p) PROVE RowsStep
  BY <1>5, <1>0, SameRows DEF Verify, tables
<1>6. ASSUME NEW p \in Publication, Commit(p) PROVE RowsStep
  <2>1. \A q \in Publication : publications[q] \in PublicationRow
    BY <1>0 DEF Rows
  <2>2. publications' = [q \in Publication |->
                           IF q = p
                           THEN [publications[q] EXCEPT !.state = "committed", !.committed = TRUE]
                           ELSE IF q \in Superseded
                           THEN [publications[q] EXCEPT !.state = "expired"]
                           ELSE publications[q]]
        /\ State(p) = "verified"
    BY <1>6 DEF Commit
  <2>3. \A q \in Superseded : State(q) = "committed"
    BY DEF Superseded, Retained, Published, ChainInv
  <2>4. ASSUME NEW q \in Publication
        PROVE  /\ [publications[q] EXCEPT !.state = "committed", !.committed = TRUE]
                     \in PublicationRow
               /\ [publications[q] EXCEPT !.state = "expired"] \in PublicationRow
    BY <2>1 DEF PublicationRow
  <2>5. publications' \in [Publication -> PublicationRow]
    BY <2>1, <2>2, <2>4
  <2>6. ASSUME NEW q \in Publication PROVE RowStep(q)
    <3>1. CASE q = p
      BY <1>6, <2>1, <2>2, <3>1 DEF RowStep, State, PublicationRow
    <3>2. CASE q # p /\ q \in Superseded
      BY <1>6, <2>1, <2>2, <2>3, <3>2 DEF RowStep, State, PublicationRow
    <3>3. CASE q # p /\ q \notin Superseded
      BY <2>2, <3>3 DEF RowStep, State
    <3> QED
      BY <3>1, <3>2, <3>3
  <2> QED
    BY <2>5, <2>6 DEF RowsStep
<1>7. ASSUME NEW p \in Publication, UploadWindowCloses(p) PROVE RowsStep
  BY <1>7, <1>0, SameRows DEF UploadWindowCloses, tables
<1>8. ASSUME NEW p \in Publication, NEW c \in Chunk, ChunkPut(p, c) PROVE RowsStep
  BY <1>8, <1>0, SameRows DEF ChunkPut, tables
<1>9. ASSUME NEW p \in Publication, NEW c \in Chunk, ChunkStored(p, c) PROVE RowsStep
  BY <1>9, <1>0, SameRows DEF ChunkStored, tables
<1>10. ASSUME NEW p \in Publication, NEW c \in Chunk, ChunkPutDone(p, c) PROVE RowsStep
  BY <1>10, <1>0, SameRows DEF ChunkPutDone, tables
<1>11. ASSUME NEW p \in Publication, VerifyDone(p) PROVE RowsStep
  <2> DEFINE state == IF State(p) = "uploading" /\ p \notin overdue THEN "verified" ELSE State(p)
             row == [publications[p] EXCEPT !.state = state]
  <2>1. publications' = [publications EXCEPT ![p] = row]
    BY <1>11, <1>0 DEF VerifyDone, Rows, State
  <2>2. row \in PublicationRow /\ row.state = state
        /\ row.committed = publications[p].committed /\ row.expected = publications[p].expected
        /\ row.cursor = publications[p].cursor /\ row.contents = publications[p].contents
    BY <1>0 DEF Rows, PublicationRow, State
  <2> HIDE DEF row
  <2>3. publications'[p] = row => RowStep(p)
    BY <2>2 DEF RowStep
  <2> QED
    BY <1>0, <2>1, <2>2, <2>3, OneRow
<1>12. ASSUME NEW x \in Key, DeleteReaches(x) PROVE RowsStep
  BY <1>12, <1>0, SameRows DEF DeleteReaches, tables
<1>13. ASSUME NEW last \in Cursor, NEW upTo \in Cursor, SweepCommit(last, upTo) PROVE RowsStep
  <2>1. \A q \in Publication : publications[q] \in PublicationRow
    BY <1>0 DEF Rows
  <2>2. publications' = [q \in Publication |->
                           IF q \in Abandoned
                           THEN [publications[q] EXCEPT !.state = "expired"]
                           ELSE publications[q]]
    BY <1>13 DEF SweepCommit
  <2>3. \A q \in Abandoned : State(q) \in {"uploading", "verified", "expired"}
    BY DEF Abandoned
  <2>4. \A q \in Publication : [publications[q] EXCEPT !.state = "expired"] \in PublicationRow
    BY <2>1 DEF PublicationRow
  <2>5. publications' \in [Publication -> PublicationRow]
    BY <2>1, <2>2, <2>4
  <2>6. ASSUME NEW q \in Publication PROVE RowStep(q)
    <3>1. CASE q \in Abandoned
      BY <2>1, <2>2, <2>3, <3>1 DEF RowStep, State, PublicationRow
    <3>2. CASE q \notin Abandoned
      BY <2>2, <3>2 DEF RowStep, State
    <3> QED
      BY <3>1, <3>2
  <2> QED
    BY <2>5, <2>6 DEF RowsStep
<1>14. ASSUME NEW done \in SUBSET Queued, SweepDeletes(done) PROVE RowsStep
  BY <1>14, <1>0, SameRows DEF SweepDeletes, tables
<1>15. CASE SweepRecord
  <2>1. \A q \in Publication : publications[q] \in PublicationRow
    BY <1>0 DEF Rows
  <2>2. publications' = [q \in Publication |->
                           IF Droppable(q, chunks')
                           THEN [publications[q] EXCEPT !.state = "dropped"]
                           ELSE publications[q]]
    BY <1>15 DEF SweepRecord
  <2>3. \A q \in Publication : Droppable(q, chunks') =>
            /\ State(q) = "expired" /\ ~publications[q].committed
            /\ \A c \in Chunk : chunks'[<<q, c>>] = "none"
    BY DEF Droppable
  <2>4. \A q \in Publication : [publications[q] EXCEPT !.state = "dropped"] \in PublicationRow
    BY <2>1 DEF PublicationRow
  <2>5. publications' \in [Publication -> PublicationRow]
    BY <2>1, <2>2, <2>4
  <2>6. ASSUME NEW q \in Publication PROVE RowStep(q)
    <3>1. CASE Droppable(q, chunks')
      BY <2>1, <2>2, <2>3, <3>1 DEF RowStep, State, PublicationRow
    <3>2. CASE ~Droppable(q, chunks')
      BY <2>2, <3>2 DEF RowStep, State
    <3> QED
      BY <3>1, <3>2
  <2> QED
    BY <2>5, <2>6 DEF RowsStep
<1>16. ASSUME NEW landed \in SUBSET Key, Evicted(landed) PROVE RowsStep
  BY <1>16, <1>0, SameRows DEF Evicted, tables
<1>17. CASE RestoreBegin
  BY <1>17, <1>0, SameRows DEF RestoreBegin, tables
<1>18. ASSUME NEW c \in Chunk, RestoreChunk(c) PROVE RowsStep
  BY <1>18, <1>0, SameRows DEF RestoreChunk, tables
<1>19. CASE RestoreStage
  BY <1>19, <1>0, SameRows DEF RestoreStage, tables
<1>20. ASSUME NEW upTo \in Cursor, RestorePull(upTo) PROVE RowsStep
  BY <1>20, <1>0, SameRows DEF RestorePull, tables
<1>21. CASE RestoreActivate
  BY <1>21, <1>0, SameRows DEF RestoreActivate, tables
<1>22. CASE UNCHANGED vars
  BY <1>22, <1>0, SameRows DEF vars, logVars, tables, pending
<1> QED
  BY <1>1, <1>2, <1>3, <1>4, <1>5, <1>6, <1>7, <1>8, <1>9, <1>10, <1>11, <1>12, <1>13,
     <1>14, <1>15, <1>16, <1>17, <1>18, <1>19, <1>20, <1>21, <1>22 DEF Next, CallStep,
     SweepStep

\* Only a commit writes the table sync_snapshots.
LEMMA OnlyCommitPublishes ==
    [Next]_vars => snapshots' = snapshots \/ \E p \in Publication : Commit(p)
  BY DEF Next, CallStep, SweepStep, Write, KeyRotated, ScanFinished, Begin, Verify,
     UploadWindowCloses, ChunkPut, ChunkStored, ChunkPutDone, VerifyDone, DeleteReaches,
     SweepCommit, SweepDeletes, SweepRecord, Evicted, RestoreBegin, RestoreChunk, RestoreStage,
     RestorePull, RestoreActivate, vars, tables

\* The effect of sync.snapshot.commit on the two snapshots it knows of.
LEMMA CommitSwaps ==
    ASSUME TypeInv, ChainInv, NEW p \in Publication, Commit(p)
    PROVE  /\ p \notin Published /\ p \notin Committed
           /\ snapshots' \in [Publication -> SnapshotRow]
           /\ Active' = {p} /\ Retained' = Active /\ Published' = Active \cup {p}
           /\ snapshots'[p].generation = Generation + 1
           /\ \A q \in Active : snapshots'[q].generation = snapshots[q].generation
           /\ Committed' = Committed \cup {p}
           /\ \A q \in Active : State(q)' = "committed"
<1>1. State(p) = "verified"
  BY DEF Commit
<1>2. p \notin Committed /\ p \notin Published
  BY <1>1 DEF ChainInv
<1>3. \A q \in Publication : snapshots[q] \in SnapshotRow /\ publications[q] \in PublicationRow
  BY DEF TypeInv, SnapshotTypeOK
<1>4. Generation + 1 \in 0 .. Cardinality(Publication)
  BY <1>2, GenerationType
<1>5. snapshots' = [q \in Publication |->
                       IF q = p THEN [state |-> "active", generation |-> Generation + 1]
                       ELSE IF q \in Active THEN [snapshots[q] EXCEPT !.state = "retained"]
                       ELSE IF q \in Superseded THEN NoSnapshot
                       ELSE snapshots[q]]
  BY DEF Commit
<1>6. NoSnapshot \in SnapshotRow /\ NoSnapshot.state = "none"
  BY Bounds DEF NoSnapshot, SnapshotRow
<1>7. ASSUME NEW q \in Publication
      PROVE  /\ [snapshots[q] EXCEPT !.state = "retained"] \in SnapshotRow
             /\ [snapshots[q] EXCEPT !.state = "retained"].state = "retained"
             /\ [snapshots[q] EXCEPT !.state = "retained"].generation = snapshots[q].generation
  BY <1>3 DEF SnapshotRow
<1>8. snapshots' \in [Publication -> SnapshotRow]
  <2>1. [state |-> "active", generation |-> Generation + 1] \in SnapshotRow
    BY <1>4 DEF SnapshotRow
  <2> QED
    BY <1>3, <1>5, <1>6, <1>7, <2>1
<1>9. ASSUME NEW q \in Publication
      PROVE  snapshots'[q].state = IF q = p THEN "active"
                                   ELSE IF q \in Active THEN "retained" ELSE "none"
  <2>1. q \notin Active /\ q \notin Superseded => snapshots[q].state = "none"
    BY <1>3 DEF Active, Superseded, Retained, SnapshotRow
  <2> QED
    BY <1>5, <1>6, <1>7, <2>1
<1>10. p \notin Active
  BY <1>2 DEF Active, Published
<1>11. Active' = {p} /\ Retained' = Active /\ Published' = Active \cup {p}
  <2>1. Active \subseteq Publication
    BY DEF Active
  <2> QED
    BY <1>9, <1>10, <2>1 DEF Active, Retained, Published
<1>12. /\ snapshots'[p].generation = Generation + 1
       /\ \A q \in Active : snapshots'[q].generation = snapshots[q].generation
  BY <1>5, <1>7, <1>10 DEF Active
<1>13. publications' = [q \in Publication |->
                          IF q = p
                          THEN [publications[q] EXCEPT !.state = "committed", !.committed = TRUE]
                          ELSE IF q \in Superseded
                          THEN [publications[q] EXCEPT !.state = "expired"]
                          ELSE publications[q]]
  BY DEF Commit
<1>14. ASSUME NEW q \in Publication
       PROVE  publications'[q].committed = IF q = p THEN TRUE ELSE publications[q].committed
  BY <1>3, <1>13 DEF PublicationRow
<1>15. Committed' = Committed \cup {p}
  BY <1>14 DEF Committed
<1>16. \A q \in Active : State(q)' = "committed"
  <2>1. \A q \in Active :
        q \in Publication /\ q # p /\ q \notin Superseded /\ State(q) = "committed"
    BY <1>10 DEF Active, Superseded, Retained, ChainInv, Published
  <2> QED
    BY <1>13, <2>1 DEF State
<1> QED
  BY <1>2, <1>8, <1>11, <1>12, <1>15, <1>16

\* There is one chain of commits.
LEMMA ChainStep == TypeInv /\ ChainInv /\ [Next]_vars =>
                       ChainInv' /\ snapshots' \in [Publication -> SnapshotRow]
<1> SUFFICES ASSUME TypeInv, ChainInv, [Next]_vars
             PROVE  ChainInv' /\ snapshots' \in [Publication -> SnapshotRow]
  OBVIOUS
<1>0. RowsStep
  BY RowsSteps
<1>1. CASE /\ snapshots' = snapshots
           /\ ~\E p \in Publication : Commit(p)
  <2>1. /\ Active' = Active /\ Retained' = Retained /\ Published' = Published
        /\ Generation' = Generation
    BY <1>1 DEF Active, Retained, Published, Generation
  <2>2. \A q \in Publication : /\ publications'[q].committed = publications[q].committed
                               /\ State(q) = "committed" => publications'[q].state = "committed"
    BY <1>0, <1>1 DEF RowsStep, RowStep
  <2>3. Committed' = Committed
    BY <2>2 DEF Committed
  <2>4. ASSUME NEW p \in Published
        PROVE  /\ p \in Publication /\ State(p) = "committed" /\ State(p)' = "committed"
               /\ publications'[p].expected = publications[p].expected
               /\ publications'[p].cursor = publications[p].cursor
    <3>1. p \in Publication /\ State(p) = "committed"
      BY DEF Published, ChainInv
    <3> QED
      BY <1>0, <2>2, <3>1 DEF RowsStep, RowStep, State
  <2>5. Active \subseteq Published /\ Retained \subseteq Published
    BY DEF Active, Retained, Published
  <2>6. ASSUME NEW p \in Committed PROVE State(p)' \in {"committed", "expired"}
    BY <1>0, <2>2 DEF RowsStep, RowStep, State, ChainInv, Committed
  <2>7. snapshots \in [Publication -> SnapshotRow]
    BY DEF TypeInv, SnapshotTypeOK
  <2> QED
    BY <1>1, <2>1, <2>3, <2>4, <2>5, <2>6, <2>7 DEF ChainInv
<1>2. ASSUME NEW p \in Publication, Commit(p)
      PROVE  ChainInv' /\ snapshots' \in [Publication -> SnapshotRow]
  <2>1. /\ p \notin Published /\ p \notin Committed
        /\ snapshots' \in [Publication -> SnapshotRow]
        /\ Active' = {p} /\ Retained' = Active /\ Published' = Active \cup {p}
        /\ snapshots'[p].generation = Generation + 1
        /\ \A q \in Active : snapshots'[q].generation = snapshots[q].generation
        /\ Committed' = Committed \cup {p}
        /\ \A q \in Active : State(q)' = "committed"
    BY <1>2, CommitSwaps
  <2>2. Generation' = Generation + 1
    BY <2>1 DEF Generation
  <2>3. Generation' = Cardinality(Committed')
    <3>1. IsFiniteSet(Committed)
      BY Bounds, FS_Subset DEF Committed
    <3>2. Cardinality(Committed') = Cardinality(Committed) + 1
      BY <2>1, <3>1, FS_AddElement
    <3> QED
      BY <2>2, <3>2 DEF ChainInv
  <2>4. State(p) = "verified" /\ publications[p].expected = Generation
        /\ publications[p].cursor >= ActiveCursor
    BY <1>2 DEF Commit, Follows
  <2>5. /\ publications'[p].expected = publications[p].expected
        /\ publications'[p].cursor = publications[p].cursor
    BY <1>0, <2>4 DEF RowsStep, RowStep
  <2>6. State(p)' = "committed"
    BY <1>2 DEF Commit, State, TypeInv, SnapshotTypeOK, PublicationRow
  <2>7. ASSUME NEW q \in Active
        PROVE  /\ q \in Publication /\ q \in Committed /\ State(q) = "committed"
               /\ snapshots[q].generation = publications[q].expected + 1
               /\ publications'[q].expected = publications[q].expected
               /\ publications'[q].cursor = publications[q].cursor
               /\ Generation = snapshots[q].generation
               /\ ActiveCursor = publications[q].cursor
    <3>1. q \in Publication /\ q \in Published /\ State(q) = "committed"
      BY DEF Active, Published, ChainInv
    <3>2. (CHOOSE a \in Active : TRUE) = q
      BY DEF ChainInv
    <3> QED
      BY <1>0, <3>1, <3>2 DEF RowsStep, RowStep, ChainInv, Generation, ActiveCursor
  <2>8. ASSUME NEW q \in Committed PROVE State(q)' \in {"committed", "expired"}
    BY <1>0 DEF RowsStep, RowStep, State, ChainInv, Committed
  <2>9. \A q \in Published' : snapshots'[q].generation = publications'[q].expected + 1
    BY <2>1, <2>4, <2>5, <2>7
  <2>10. \A q \in Active : /\ snapshots'[p].generation = snapshots'[q].generation + 1
                           /\ publications'[p].cursor >= publications'[q].cursor
    BY <2>1, <2>4, <2>5, <2>7
  <2>11. \A q \in Published' : q \in Committed' /\ State(q)' = "committed"
    BY <2>1, <2>6, <2>7
  <2>12. \A q \in Committed' : State(q)' \in {"committed", "expired"}
    BY <2>1, <2>6, <2>8
  <2>13. \A a, b \in Active : a = b
    BY DEF ChainInv
  <2> QED
    BY <2>1, <2>3, <2>9, <2>10, <2>11, <2>12, <2>13 DEF ChainInv
<1> QED
  BY <1>1, <1>2, OnlyCommitPublishes

\* The rows of sync_snapshot_chunks, and the calls that wait for R2.
ChunkRows ==
    /\ chunks \in [Key -> {"none", "uploading", "uploaded", "deleting"}]
    /\ \A x \in Key : chunks[x] # "none" => State(x[1]) \notin {"new", "scanned", "dropped"}

CallTypes ==
    /\ objects \subseteq Key /\ deletes \subseteq Key
    /\ overdue \subseteq Publication /\ verifies \subseteq Publication
    /\ puts \subseteq Publication \X Chunk \X Stage
    /\ sweep \in [pc : {"idle", "drain", "record"}, batch : SUBSET Key]

\* A step that leaves the chunk rows alone drops no publication.
LEMMA SameChunks ==
    ASSUME ChunkRows, chunks' = chunks, RowsStep
    PROVE  ChunkRows'
<1>1. \A x \in Key : x[1] \in Publication /\ x[2] \in Chunk /\ x = <<x[1], x[2]>>
  BY DEF Key
<1> QED
  BY <1>1 DEF ChunkRows, RowsStep, RowStep, State

\* Chunk rows keep their type; a publication is dropped only without any.
LEMMA ChunkRowsStep == TypeInv /\ ChainInv /\ [Next]_vars => ChunkRows'
<1> SUFFICES ASSUME TypeInv /\ ChainInv, [Next]_vars PROVE ChunkRows'
  OBVIOUS
<1>0. Rows /\ ChunkRows /\ RowsStep
  BY RowsSteps DEF TypeInv, SnapshotTypeOK, Rows, ChunkRows
<1>1. CASE Write
  BY <1>1, <1>0, SameChunks DEF Write, tables
<1>2. CASE KeyRotated
  BY <1>2, <1>0, SameChunks DEF KeyRotated, tables
<1>3. ASSUME NEW p \in Publication, ScanFinished(p) PROVE ChunkRows'
  BY <1>3, <1>0, SameChunks DEF ScanFinished, tables
<1>4. ASSUME NEW p \in Publication, Begin(p) PROVE ChunkRows'
  BY <1>4, <1>0, SameChunks DEF Begin, tables
<1>5. ASSUME NEW p \in Publication, Verify(p) PROVE ChunkRows'
  BY <1>5, <1>0, SameChunks DEF Verify, tables
<1>6. ASSUME NEW p \in Publication, Commit(p) PROVE ChunkRows'
  <2>1. chunks' = [x \in Key |-> IF x[1] \in Superseded THEN "deleting" ELSE chunks[x]]
    BY <1>6 DEF Commit
  <2>2. \A q \in Superseded : q \in Publication /\ State(q) = "committed"
    BY DEF Superseded, Retained, Published, ChainInv
  <2>3. \A q \in Publication :
            State(q) \notin {"new", "scanned", "dropped"} =>
                State(q)' \notin {"new", "scanned", "dropped"}
    <3>1. State(p) = "verified" /\ State(p)' = "committed"
          /\ \A q \in Publication : q # p => State(q)' \in {"expired", State(q)}
      BY <1>6, <1>0 DEF Commit, State, Rows, PublicationRow
    <3> QED
      BY <3>1
  <2>4. \A x \in Key : x[1] \in Publication
    BY DEF Key
  <2> QED
    BY <1>0, <2>1, <2>2, <2>3, <2>4 DEF ChunkRows
<1>7. ASSUME NEW p \in Publication, UploadWindowCloses(p) PROVE ChunkRows'
  BY <1>7, <1>0, SameChunks DEF UploadWindowCloses, tables
<1>8. ASSUME NEW p \in Publication, NEW c \in Chunk, ChunkPut(p, c) PROVE ChunkRows'
  <2>1. <<p, c>> \in Key /\ State(p) \in {"uploading", "verified"}
        /\ State(p)' = State(p)
        /\ chunks' = [chunks EXCEPT ![<<p, c>>] = IF @ = "none" THEN "uploading" ELSE @]
        /\ publications' = publications
    BY <1>8 DEF ChunkPut, Open, Key, State
  <2> QED
    BY <1>0, <2>1 DEF ChunkRows, State
<1>9. ASSUME NEW p \in Publication, NEW c \in Chunk, ChunkStored(p, c) PROVE ChunkRows'
  BY <1>9, <1>0, SameChunks DEF ChunkStored, tables
<1>10. ASSUME NEW p \in Publication, NEW c \in Chunk, ChunkPutDone(p, c) PROVE ChunkRows'
  <2>1. publications' = publications
    BY <1>10 DEF ChunkPutDone
  <2>2. CASE PutAccepted(p, c)
    <3>1. <<p, c>> \in Key /\ State(p) \in {"uploading", "verified"}
          /\ chunks' = [chunks EXCEPT ![<<p, c>>] = "uploaded"]
      BY <1>10, <2>2 DEF ChunkPutDone, PutAccepted, Open, Key, State
    <3> QED
      BY <1>0, <2>1, <3>1 DEF ChunkRows, State
  <2>3. CASE ~PutAccepted(p, c)
    BY <1>10, <1>0, <2>3, SameChunks DEF ChunkPutDone
  <2> QED
    BY <2>2, <2>3
<1>11. ASSUME NEW p \in Publication, VerifyDone(p) PROVE ChunkRows'
  BY <1>11, <1>0, SameChunks DEF VerifyDone, tables
<1>12. ASSUME NEW x \in Key, DeleteReaches(x) PROVE ChunkRows'
  BY <1>12, <1>0, SameChunks DEF DeleteReaches, tables
<1>13. ASSUME NEW last \in Cursor, NEW upTo \in Cursor, SweepCommit(last, upTo) PROVE ChunkRows'
  <2>1. chunks' = [x \in Key |-> IF x[1] \in Abandoned /\ chunks[x] # "none" THEN "deleting"
                                  ELSE chunks[x]]
    BY <1>13 DEF SweepCommit
  <2>2. \A q \in Publication : State(q)' \in {"expired", State(q)}
    BY <1>13, <1>0 DEF SweepCommit, State, Rows, PublicationRow
  <2>3. \A x \in Key : x[1] \in Publication
    BY DEF Key
  <2> QED
    BY <1>0, <2>1, <2>2, <2>3 DEF ChunkRows
<1>14. ASSUME NEW done \in SUBSET Queued, SweepDeletes(done) PROVE ChunkRows'
  BY <1>14, <1>0, SameChunks DEF SweepDeletes, tables
<1>15. CASE SweepRecord
  <2> DEFINE rows == [x \in Key |-> IF x \in sweep.batch /\ chunks[x] = "deleting"
                                    THEN "none" ELSE chunks[x]]
  <2>1. chunks' = rows
    BY <1>15 DEF SweepRecord
  <2>2. \A q \in Publication :
            State(q)' = IF Droppable(q, rows) THEN "dropped" ELSE State(q)
    BY <1>15, <1>0 DEF SweepRecord, State, Rows, PublicationRow
  <2>3. \A q \in Publication : Droppable(q, rows) => \A c \in Chunk : rows[<<q, c>>] = "none"
    BY DEF Droppable
  <2>4. \A x \in Key : x[1] \in Publication /\ x[2] \in Chunk /\ x = <<x[1], x[2]>>
    BY DEF Key
  <2>5. \A x \in Key : rows[x] \in {"none", chunks[x]}
    OBVIOUS
  <2>6. rows \in [Key -> {"none", "uploading", "uploaded", "deleting"}]
    BY <1>0 DEF ChunkRows
  <2> HIDE DEF rows
  <2>7. ASSUME NEW x \in Key, rows[x] # "none"
        PROVE  State(x[1])' \notin {"new", "scanned", "dropped"}
    <3>1. ~Droppable(x[1], rows)
      BY <2>3, <2>4, <2>7
    <3> QED
      BY <1>0, <2>2, <2>4, <2>5, <2>7, <3>1 DEF ChunkRows
  <2> QED
    BY <2>1, <2>6, <2>7 DEF ChunkRows
<1>16. ASSUME NEW landed \in SUBSET Key, Evicted(landed) PROVE ChunkRows'
  BY <1>16, <1>0, SameChunks DEF Evicted, tables
<1>17. CASE RestoreBegin
  BY <1>17, <1>0, SameChunks DEF RestoreBegin, tables
<1>18. ASSUME NEW c \in Chunk, RestoreChunk(c) PROVE ChunkRows'
  BY <1>18, <1>0, SameChunks DEF RestoreChunk, tables
<1>19. CASE RestoreStage
  BY <1>19, <1>0, SameChunks DEF RestoreStage, tables
<1>20. ASSUME NEW upTo \in Cursor, RestorePull(upTo) PROVE ChunkRows'
  BY <1>20, <1>0, SameChunks DEF RestorePull, tables
<1>21. CASE RestoreActivate
  BY <1>21, <1>0, SameChunks DEF RestoreActivate, tables
<1>22. CASE UNCHANGED vars
  BY <1>22, <1>0, SameChunks DEF vars, logVars, tables, pending
<1> QED
  BY <1>1, <1>2, <1>3, <1>4, <1>5, <1>6, <1>7, <1>8, <1>9, <1>10, <1>11, <1>12, <1>13,
     <1>14, <1>15, <1>16, <1>17, <1>18, <1>19, <1>20, <1>21, <1>22 DEF Next, CallStep,
     SweepStep

\* Objects, deletes and calls keep their types.
LEMMA CallTypesStep == TypeInv /\ [Next]_vars => CallTypes'
<1> SUFFICES ASSUME TypeInv, [Next]_vars PROVE CallTypes'
  OBVIOUS
<1>0. CallTypes
  BY DEF TypeInv, SnapshotTypeOK, CallTypes
<1> USE DEF CallTypes, logVars, tables, pending, Key, Stage, NoSweep
<1>1. CASE Write
  BY <1>1, <1>0 DEF Write
<1>2. CASE KeyRotated
  BY <1>2, <1>0 DEF KeyRotated
<1>3. ASSUME NEW p \in Publication, ScanFinished(p) PROVE CallTypes'
  BY <1>3, <1>0 DEF ScanFinished
<1>4. ASSUME NEW p \in Publication, Begin(p) PROVE CallTypes'
  BY <1>4, <1>0 DEF Begin
<1>5. ASSUME NEW p \in Publication, Verify(p) PROVE CallTypes'
  BY <1>5, <1>0 DEF Verify
<1>6. ASSUME NEW p \in Publication, Commit(p) PROVE CallTypes'
  BY <1>6, <1>0 DEF Commit
<1>7. ASSUME NEW p \in Publication, UploadWindowCloses(p) PROVE CallTypes'
  BY <1>7, <1>0 DEF UploadWindowCloses
<1>8. ASSUME NEW p \in Publication, NEW c \in Chunk, ChunkPut(p, c) PROVE CallTypes'
  BY <1>8, <1>0 DEF ChunkPut
<1>9. ASSUME NEW p \in Publication, NEW c \in Chunk, ChunkStored(p, c) PROVE CallTypes'
  BY <1>9, <1>0 DEF ChunkStored
<1>10. ASSUME NEW p \in Publication, NEW c \in Chunk, ChunkPutDone(p, c) PROVE CallTypes'
  BY <1>10, <1>0 DEF ChunkPutDone, RefusedPut
<1>11. ASSUME NEW p \in Publication, VerifyDone(p) PROVE CallTypes'
  BY <1>11, <1>0 DEF VerifyDone
<1>12. ASSUME NEW x \in Key, DeleteReaches(x) PROVE CallTypes'
  BY <1>12, <1>0 DEF DeleteReaches
<1>13. ASSUME NEW last \in Cursor, NEW upTo \in Cursor, SweepCommit(last, upTo) PROVE CallTypes'
  BY <1>13, <1>0 DEF SweepCommit
<1>14. ASSUME NEW done \in SUBSET Queued, SweepDeletes(done) PROVE CallTypes'
  BY <1>14, <1>0 DEF SweepDeletes, Queued
<1>15. CASE SweepRecord
  BY <1>15, <1>0 DEF SweepRecord
<1>16. ASSUME NEW landed \in SUBSET Key, Evicted(landed) PROVE CallTypes'
  BY <1>16, <1>0 DEF Evicted
<1>17. CASE RestoreBegin
  BY <1>17, <1>0 DEF RestoreBegin
<1>18. ASSUME NEW c \in Chunk, RestoreChunk(c) PROVE CallTypes'
  BY <1>18, <1>0 DEF RestoreChunk
<1>19. CASE RestoreStage
  BY <1>19, <1>0 DEF RestoreStage
<1>20. ASSUME NEW upTo \in Cursor, RestorePull(upTo) PROVE CallTypes'
  BY <1>20, <1>0 DEF RestorePull
<1>21. CASE RestoreActivate
  BY <1>21, <1>0 DEF RestoreActivate
<1>22. CASE UNCHANGED vars
  BY <1>22, <1>0 DEF vars, logVars, tables, pending
<1> QED
  BY <1>1, <1>2, <1>3, <1>4, <1>5, <1>6, <1>7, <1>8, <1>9, <1>10, <1>11, <1>12, <1>13,
     <1>14, <1>15, <1>16, <1>17, <1>18, <1>19, <1>20, <1>21, <1>22 DEF Next, CallStep,
     SweepStep

\* Every table keeps its type.
LEMMA TypeStep == TypeInv /\ ChainInv /\ [Next]_vars => TypeInv'
  BY LogTypeStep, RowsSteps, ChainStep, ChunkRowsStep, CallTypesStep
     DEF TypeInv, SnapshotTypeOK, LogTypes, RowsStep, ChunkRows, CallTypes

\* A larger number is the larger of two.
LEMMA MaxBound ==
    \A a, b, n \in Int : (n <= Max({a, b}) <=> n <= a \/ n <= b)
  BY MaxPair

\* Compaction stops at the retained snapshot, age does not.
LEMMA TailStep == TypeInv /\ ChainInv /\ TailInv /\ [Next]_vars => TailInv'
<1> SUFFICES ASSUME TypeInv, ChainInv, TailInv, [Next]_vars PROVE TailInv'
  OBVIOUS
<1>0. RowsStep /\ TypeInv' /\ ChainInv'
  BY RowsSteps, TypeStep, ChainStep
<1>1. ASSUME NEW p \in Published
      PROVE  /\ p \in Publication /\ publications'[p].cursor = publications[p].cursor
             /\ target <= publications[p].cursor
             /\ floor <= publications[p].cursor \/ floor <= aged
  <2>1. p \in Publication /\ State(p) = "committed"
    BY DEF Published, ChainInv
  <2>2. floor <= Max({publications[p].cursor, aged})
    BY DEF TailInv, TailKept
  <2> QED
    BY <1>0, <2>1, <2>2, MaxBound, Numbers DEF TailInv, RowsStep, RowStep
<1>2. ASSUME NEW p \in Publication, Commit(p) PROVE TailInv'
  <2>1. /\ Active' = {p} /\ Published' = Active \cup {p}
        /\ target' = Max({target, CompactionCursor(p)}) /\ floor' = floor /\ aged' = aged
        /\ publications[p].cursor \in floor .. length
        /\ publications[p].cursor >= ActiveCursor
    BY <1>2, CommitSwaps DEF Commit, Follows, logVars
  <2>2. publications'[p].cursor = publications[p].cursor
    BY <1>0, <1>2 DEF Commit, RowsStep, RowStep
  <2>3. ASSUME NEW q \in Active
        PROVE  /\ q \in Publication /\ publications'[q].cursor = publications[q].cursor
               /\ publications[q].cursor = ActiveCursor /\ target <= publications[q].cursor
               /\ CompactionCursor(p) = ActiveCursor
               /\ floor <= publications[q].cursor \/ floor <= aged
    <3>1. q \in Published /\ (CHOOSE a \in Active : TRUE) = q
      BY DEF Active, Published, ChainInv
    <3> QED
      BY <1>1, <3>1 DEF ActiveCursor, CompactionCursor
  <2>4. CASE Active = {}
    <3>1. CompactionCursor(p) = publications[p].cursor /\ target = 0
      BY <2>4 DEF CompactionCursor, TailInv
    <3>2. target' = publications[p].cursor
      BY <2>1, <3>1, MaxPair, Numbers
    <3>3. floor' <= Max({publications'[p].cursor, aged'})
      BY <2>1, <2>2, MaxBound, Numbers
    <3> QED
      BY <2>1, <2>2, <2>4, <3>2, <3>3, Numbers DEF TailInv, TailKept
  <2>5. ASSUME NEW q \in Active PROVE TailInv'
    <3>1. /\ target \in Nat /\ publications[q].cursor \in Nat /\ publications[p].cursor \in Nat
      BY <2>3, Numbers
    <3>2. target' = publications[q].cursor
      BY <2>1, <2>3, <3>1, MaxPair
    <3>3. \A r \in Published' : /\ target' <= publications'[r].cursor
                                /\ floor' <= publications'[r].cursor \/ floor' <= aged'
                                /\ publications'[r].cursor \in Nat
      BY <2>1, <2>2, <2>3, <3>1, <3>2, Numbers
    <3>4. \A r \in Published' : floor' <= Max({publications'[r].cursor, aged'})
      BY <2>1, <3>3, MaxBound, Numbers
    <3> QED
      BY <2>1, <3>3, <3>4 DEF TailInv, TailKept
  <2> QED
    BY <2>4, <2>5
<1>3. ASSUME NEW last \in Cursor, NEW upTo \in Cursor, SweepCommit(last, upTo) PROVE TailInv'
  <2>1. last \in Nat /\ upTo \in Nat
    BY Bounds DEF Cursor
  <2>2. /\ Active' = Active /\ Published' = Published
    BY <1>3 DEF SweepCommit, Active, Published
  <2>3. /\ Max({floor, last}) = (IF floor >= last THEN floor ELSE last)
        /\ Max({aged, last}) = (IF aged >= last THEN aged ELSE last)
    BY <2>1, MaxPair, Numbers
  <2>4. /\ floor' <= target \/ floor' <= floor \/ floor' <= last
        /\ aged' \in Nat /\ aged' >= aged /\ aged' >= last
        /\ target' \in {0, target} /\ floor' = upTo
    BY <1>3, <2>1, <2>3, Numbers DEF SweepCommit, SweepJournal, Log!Trim
  <2>5. ASSUME NEW p \in Published
        PROVE  /\ target' <= publications'[p].cursor
               /\ floor' <= Max({publications'[p].cursor, aged'})
    <3>1. publications[p].cursor \in Nat
      BY <1>1, Numbers
    <3> QED
      BY <1>1, <2>1, <2>4, <3>1, MaxBound, Numbers
  <2> QED
    BY <2>2, <2>4, <2>5 DEF TailInv, TailKept
<1>4. CASE UNCHANGED <<snapshots, target, floor, aged>>
  <2>1. Active' = Active /\ Published' = Published
    BY <1>4 DEF Active, Published
  <2> QED
    BY <1>1, <1>4, <2>1 DEF TailInv, TailKept
<1>5. \/ UNCHANGED <<snapshots, target, floor, aged>>
      \/ \E p \in Publication : Commit(p)
      \/ \E last, upTo \in Cursor : SweepCommit(last, upTo)
  BY DEF Next, CallStep, SweepStep, Write, Log!Write, KeyRotated, ScanFinished, Begin, Verify,
     UploadWindowCloses, ChunkPut, ChunkStored, ChunkPutDone, VerifyDone, DeleteReaches,
     SweepDeletes, SweepRecord, Evicted, RestoreBegin, RestoreChunk, RestoreStage,
     RestorePull, RestoreActivate, vars, tables, logVars
<1> QED
  BY <1>2, <1>3, <1>4, <1>5

\* Queued rows stay queued, with their publication expired, until the sweep records
\* that their objects are gone.
QueueInv == \A x \in Queued : State(x[1]) = "expired"
BatchInv == sweep.pc = "record" => /\ sweep.batch \subseteq Queued
                                   /\ \A x \in sweep.batch \cap objects : Cared(x)

\* A chunk key is its publication and its chunk number.
LEMMA KeyParts == \A x \in Key : x[1] \in Publication /\ x[2] \in Chunk /\ x = <<x[1], x[2]>>
  BY DEF Key

\* A step that queues nothing keeps the queue right, however publications move on.
LEMMA SameQueue ==
    ASSUME QueueInv, RowsStep, \A x \in Key : chunks'[x] = "deleting" => chunks[x] = "deleting"
    PROVE  QueueInv'
  BY KeyParts DEF QueueInv, Queued, RowsStep, RowStep, State

\* A chunk row is queued only together with its publication's end.
LEMMA QueueStep == TypeInv /\ ChainInv /\ OwnInv /\ [Next]_vars => QueueInv'
<1> SUFFICES ASSUME TypeInv /\ ChainInv /\ OwnInv, [Next]_vars PROVE QueueInv'
  OBVIOUS
<1>0. Rows /\ ChunkRows /\ CallTypes /\ RowsStep /\ QueueInv
  BY RowsSteps DEF TypeInv, SnapshotTypeOK, Rows, ChunkRows, CallTypes, OwnInv, QueueInv
<1>1. CASE Write
  BY <1>1, <1>0, SameQueue DEF Write, tables
<1>2. CASE KeyRotated
  BY <1>2, <1>0, SameQueue DEF KeyRotated, tables
<1>3. ASSUME NEW p \in Publication, ScanFinished(p) PROVE QueueInv'
  BY <1>3, <1>0, SameQueue DEF ScanFinished, tables
<1>4. ASSUME NEW p \in Publication, Begin(p) PROVE QueueInv'
  BY <1>4, <1>0, SameQueue DEF Begin, tables
<1>5. ASSUME NEW p \in Publication, Verify(p) PROVE QueueInv'
  BY <1>5, <1>0, SameQueue DEF Verify, tables
<1>6. ASSUME NEW p \in Publication, Commit(p) PROVE QueueInv'
  <2>1. ASSUME NEW x \in Queued' PROVE State(x[1])' = "expired"
    <3>1. x \in Key /\ x[1] \in Publication
      BY KeyParts DEF Queued
    <3>2. CASE x[1] \in Superseded
      <4>1. x[1] # p
        BY <1>6, CommitSwaps, <3>2 DEF Superseded, Retained, Published
      <4> QED
        BY <1>6, <1>0, <3>1, <3>2, <4>1 DEF Commit, State, Rows, PublicationRow
    <3>3. CASE x[1] \notin Superseded
      <4>1. x \in Queued
        BY <1>6, <3>1, <3>3 DEF Commit, Queued
      <4>2. State(x[1]) = "expired" /\ x[1] # p
        BY <1>6, <1>0, <4>1 DEF QueueInv, Commit
      <4> QED
        BY <1>6, <3>1, <3>3, <4>2 DEF Commit, State
    <3> QED
      BY <3>2, <3>3
  <2> QED
    BY <2>1 DEF QueueInv
<1>7. ASSUME NEW p \in Publication, UploadWindowCloses(p) PROVE QueueInv'
  BY <1>7, <1>0, SameQueue DEF UploadWindowCloses, tables
<1>8. ASSUME NEW p \in Publication, NEW c \in Chunk, ChunkPut(p, c) PROVE QueueInv'
  BY <1>8, <1>0, SameQueue DEF ChunkPut, ChunkRows
<1>9. ASSUME NEW p \in Publication, NEW c \in Chunk, ChunkStored(p, c) PROVE QueueInv'
  BY <1>9, <1>0, SameQueue DEF ChunkStored, tables
<1>10. ASSUME NEW p \in Publication, NEW c \in Chunk, ChunkPutDone(p, c) PROVE QueueInv'
  BY <1>10, <1>0, SameQueue DEF ChunkPutDone, ChunkRows
<1>11. ASSUME NEW p \in Publication, VerifyDone(p) PROVE QueueInv'
  BY <1>11, <1>0, SameQueue DEF VerifyDone, tables
<1>12. ASSUME NEW x \in Key, DeleteReaches(x) PROVE QueueInv'
  BY <1>12, <1>0, SameQueue DEF DeleteReaches, tables
<1>13. ASSUME NEW last \in Cursor, NEW upTo \in Cursor, SweepCommit(last, upTo) PROVE QueueInv'
  <2>1. ASSUME NEW x \in Queued' PROVE State(x[1])' = "expired"
    <3>1. x \in Key /\ x[1] \in Publication
      BY KeyParts DEF Queued
    <3>2. CASE x[1] \in Abandoned
      BY <1>13, <1>0, <3>1, <3>2 DEF SweepCommit, State, Rows, PublicationRow
    <3>3. CASE x[1] \notin Abandoned
      BY <1>13, <1>0, <3>1, <3>3 DEF SweepCommit, State, Queued, QueueInv
    <3> QED
      BY <3>2, <3>3
  <2> QED
    BY <2>1 DEF QueueInv
<1>14. ASSUME NEW done \in SUBSET Queued, SweepDeletes(done) PROVE QueueInv'
  BY <1>14, <1>0, SameQueue DEF SweepDeletes, tables
<1>15. CASE SweepRecord
  BY <1>15, <1>0, SameQueue DEF SweepRecord
<1>16. ASSUME NEW landed \in SUBSET Key, Evicted(landed) PROVE QueueInv'
  BY <1>16, <1>0, SameQueue DEF Evicted, tables
<1>17. CASE RestoreBegin
  BY <1>17, <1>0, SameQueue DEF RestoreBegin, tables
<1>18. ASSUME NEW c \in Chunk, RestoreChunk(c) PROVE QueueInv'
  BY <1>18, <1>0, SameQueue DEF RestoreChunk, tables
<1>19. CASE RestoreStage
  BY <1>19, <1>0, SameQueue DEF RestoreStage, tables
<1>20. ASSUME NEW upTo \in Cursor, RestorePull(upTo) PROVE QueueInv'
  BY <1>20, <1>0, SameQueue DEF RestorePull, tables
<1>21. CASE RestoreActivate
  BY <1>21, <1>0, SameQueue DEF RestoreActivate, tables
<1>22. CASE UNCHANGED vars
  BY <1>22, <1>0, SameQueue DEF vars, logVars, tables, pending
<1> QED
  BY <1>1, <1>2, <1>3, <1>4, <1>5, <1>6, <1>7, <1>8, <1>9, <1>10, <1>11, <1>12, <1>13,
     <1>14, <1>15, <1>16, <1>17, <1>18, <1>19, <1>20, <1>21, <1>22 DEF Next, CallStep,
     SweepStep

\* A queued chunk belongs to no publication that takes uploads.
LEMMA QueuedIsClosed ==
    ASSUME QueueInv, NEW p \in Publication, NEW c \in Chunk, <<p, c>> \in Queued
    PROVE  ~Open(p)
  BY DEF QueueInv, Open

\* What a sweep is about to forget is gone or cared for, whatever uploads end
\* meanwhile.
LEMMA BatchStep == TypeInv /\ ChainInv /\ OwnInv /\ [Next]_vars => BatchInv'
<1> SUFFICES ASSUME TypeInv /\ ChainInv /\ OwnInv, [Next]_vars PROVE BatchInv'
  OBVIOUS
<1>0. Rows /\ ChunkRows /\ CallTypes /\ RowsStep /\ QueueInv
  BY RowsSteps DEF TypeInv, SnapshotTypeOK, Rows, ChunkRows, CallTypes, OwnInv, QueueInv

<1>b. BatchInv
  BY DEF OwnInv, BatchInv
<1> USE DEF logVars, tables, pending
<1>1. CASE Write
  BY <1>1, <1>0, <1>b DEF Write, BatchInv, Cared, Queued, Stage
<1>2. CASE KeyRotated
  BY <1>2, <1>0, <1>b DEF KeyRotated, BatchInv, Cared, Queued, Stage
<1>3. ASSUME NEW p \in Publication, ScanFinished(p) PROVE BatchInv'
  BY <1>3, <1>0, <1>b DEF ScanFinished, BatchInv, Cared, Queued, Stage
<1>4. ASSUME NEW p \in Publication, Begin(p) PROVE BatchInv'
  BY <1>4, <1>0, <1>b DEF Begin, BatchInv, Cared, Queued, Stage
<1>5. ASSUME NEW p \in Publication, Verify(p) PROVE BatchInv'
  BY <1>5, <1>0, <1>b DEF Verify, BatchInv, Cared, Queued, Stage
<1>6. ASSUME NEW p \in Publication, Commit(p) PROVE BatchInv'
  BY <1>6, <1>0, <1>b DEF Commit, BatchInv, Cared, Queued, Stage
<1>7. ASSUME NEW p \in Publication, UploadWindowCloses(p) PROVE BatchInv'
  BY <1>7, <1>0, <1>b DEF UploadWindowCloses, BatchInv, Cared, Queued, Stage
<1>8. ASSUME NEW p \in Publication, NEW c \in Chunk, ChunkPut(p, c) PROVE BatchInv'
  BY <1>8, <1>0, <1>b DEF ChunkPut, Key, BatchInv, Cared, Queued, Stage
<1>9. ASSUME NEW p \in Publication, NEW c \in Chunk, ChunkStored(p, c) PROVE BatchInv'
  BY <1>9, <1>0, <1>b DEF ChunkStored, Key, BatchInv, Cared, Queued, Stage
<1>10. ASSUME NEW p \in Publication, NEW c \in Chunk, ChunkPutDone(p, c) PROVE BatchInv'
  <2> SUFFICES ASSUME sweep.pc = "record", NEW x \in sweep.batch
               PROVE  x \in Queued' /\ (x \in objects => Cared(x)')
    BY <1>10 DEF ChunkPutDone, BatchInv
  <2>1. x \in Queued /\ (x \in objects => Cared(x)) /\ x \in Key
    BY <1>b DEF BatchInv, Queued
  <2>2. x = <<x[1], x[2]>> /\ <<p, c>> \in Key
    BY <2>1, KeyParts DEF Key
  <2>3. CASE PutAccepted(p, c)
    <3>1. x # <<p, c>>
      BY <1>0, <2>1, <2>3, QueuedIsClosed DEF PutAccepted
    <3>2. x \in Queued'
      BY <1>10, <1>0, <2>1, <2>2, <2>3, <3>1 DEF ChunkPutDone, ChunkRows, Queued
    <3>3. Cared(x) => Cared(x)'
      BY <1>10, <2>2, <2>3, <3>1 DEF ChunkPutDone, Cared
    <3> QED
      BY <2>1, <3>2, <3>3
  <2>4. CASE ~PutAccepted(p, c)
    <3>1. x \in Queued' /\ deletes' = deletes \cup {<<p, c>>} /\ lost' = lost
          /\ puts' = puts \ {<<p, c, "stored">>}
      BY <1>10, <2>1, <2>4 DEF ChunkPutDone, RefusedPut, Queued
    <3>2. Cared(x) => Cared(x)'
      BY <2>2, <3>1 DEF Cared
    <3> QED
      BY <2>1, <3>1, <3>2
  <2> QED
    BY <2>3, <2>4
<1>11. ASSUME NEW p \in Publication, VerifyDone(p) PROVE BatchInv'
  BY <1>11, <1>0, <1>b DEF VerifyDone, BatchInv, Cared, Queued, Stage
<1>12. ASSUME NEW x \in Key, DeleteReaches(x) PROVE BatchInv'
  BY <1>12, <1>0, <1>b DEF DeleteReaches, BatchInv, Cared, Queued, Stage
<1>13. ASSUME NEW last \in Cursor, NEW upTo \in Cursor, SweepCommit(last, upTo) PROVE BatchInv'
  BY <1>13, <1>0, <1>b DEF SweepCommit, BatchInv, Cared, Queued, Stage
<1>14. ASSUME NEW done \in SUBSET Queued, SweepDeletes(done) PROVE BatchInv'
  BY <1>14, <1>0, <1>b DEF SweepDeletes, BatchInv, Cared, Queued, Stage
<1>15. CASE SweepRecord
  BY <1>15, <1>0, <1>b DEF SweepRecord, NoSweep, BatchInv, Cared, Queued, Stage
<1>16. ASSUME NEW landed \in SUBSET Key, Evicted(landed) PROVE BatchInv'
  BY <1>16, <1>0, <1>b DEF Evicted, NoSweep, BatchInv, Cared, Queued, Stage
<1>17. CASE RestoreBegin
  BY <1>17, <1>0, <1>b DEF RestoreBegin, BatchInv, Cared, Queued, Stage
<1>18. ASSUME NEW c \in Chunk, RestoreChunk(c) PROVE BatchInv'
  BY <1>18, <1>0, <1>b DEF RestoreChunk, BatchInv, Cared, Queued, Stage
<1>19. CASE RestoreStage
  BY <1>19, <1>0, <1>b DEF RestoreStage, BatchInv, Cared, Queued, Stage
<1>20. ASSUME NEW upTo \in Cursor, RestorePull(upTo) PROVE BatchInv'
  BY <1>20, <1>0, <1>b DEF RestorePull, BatchInv, Cared, Queued, Stage
<1>21. CASE RestoreActivate
  BY <1>21, <1>0, <1>b DEF RestoreActivate, BatchInv, Cared, Queued, Stage
<1>22. CASE UNCHANGED vars
  BY <1>22, <1>0, <1>b DEF vars, tables, pending, BatchInv, Cared, Queued, Stage
<1> QED
  BY <1>1, <1>2, <1>3, <1>4, <1>5, <1>6, <1>7, <1>8, <1>9, <1>10, <1>11, <1>12, <1>13,
     <1>14, <1>15, <1>16, <1>17, <1>18, <1>19, <1>20, <1>21, <1>22 DEF Next, CallStep,
     SweepStep

\* ObjectsAreOwned in the words of this proof.
Owned == \A x \in objects : chunks[x] # "none" \/ Cared(x)

\* The two say the same.
LEMMA OwnedMeans == ObjectsAreOwned <=> Owned
  BY DEF ObjectsAreOwned, Owned, Cared, Stage

\* No object is left without a row, a call or a delete.
LEMMA OwnedStep == TypeInv /\ ChainInv /\ OwnInv /\ [Next]_vars => Owned'
<1> SUFFICES ASSUME TypeInv /\ ChainInv /\ OwnInv, [Next]_vars PROVE Owned'
  OBVIOUS
<1>0. Rows /\ ChunkRows /\ CallTypes /\ RowsStep /\ QueueInv
  BY RowsSteps DEF TypeInv, SnapshotTypeOK, Rows, ChunkRows, CallTypes, OwnInv, QueueInv

<1>b. BatchInv /\ Owned
  BY OwnedMeans DEF OwnInv, BatchInv
<1> USE DEF Owned
<1>1. CASE Write
  BY <1>1, <1>b DEF Write, tables, pending, Cared
<1>2. CASE KeyRotated
  BY <1>2, <1>b DEF KeyRotated, tables, pending, Cared
<1>3. ASSUME NEW p \in Publication, ScanFinished(p) PROVE Owned'
  BY <1>3, <1>b DEF ScanFinished, tables, pending, Cared
<1>4. ASSUME NEW p \in Publication, Begin(p) PROVE Owned'
  BY <1>4, <1>b DEF Begin, tables, pending, Cared
<1>5. ASSUME NEW p \in Publication, Verify(p) PROVE Owned'
  BY <1>5, <1>b DEF Verify, tables, pending, Cared
<1>6. ASSUME NEW p \in Publication, Commit(p) PROVE Owned'
  <2>1. \A x \in Key : chunks[x] # "none" => chunks'[x] # "none"
    BY <1>6 DEF Commit
  <2> QED
    BY <1>6, <1>0, <1>b, <2>1 DEF Commit, pending, CallTypes, Cared
<1>7. ASSUME NEW p \in Publication, UploadWindowCloses(p) PROVE Owned'
  BY <1>7, <1>b DEF UploadWindowCloses, tables, pending, Cared
<1>8. ASSUME NEW p \in Publication, NEW c \in Chunk, ChunkPut(p, c) PROVE Owned'
  <2>1. \A x \in Key : chunks[x] # "none" => chunks'[x] # "none"
    BY <1>8, <1>0 DEF ChunkPut, ChunkRows
  <2>2. \A x \in Key : Cared(x) => Cared(x)'
    BY <1>8 DEF ChunkPut, Cared
  <2> QED
    BY <1>8, <1>0, <1>b, <2>1, <2>2 DEF ChunkPut, CallTypes
<1>9. ASSUME NEW p \in Publication, NEW c \in Chunk, ChunkStored(p, c) PROVE Owned'
  <2>1. ASSUME NEW x \in objects' PROVE chunks'[x] # "none" \/ Cared(x)'
    <3>1. x \in Key /\ x = <<x[1], x[2]>>
      BY <1>9, <1>0, KeyParts DEF ChunkStored, CallTypes, Key
    <3>2. CASE x = <<p, c>>
      BY <1>9, <3>1, <3>2 DEF ChunkStored, Cared, Stage
    <3>3. CASE x # <<p, c>>
      <4>1. Cared(x) => Cared(x)'
        BY <1>9, <3>1, <3>3 DEF ChunkStored, Cared
      <4> QED
        BY <1>9, <1>b, <3>3, <4>1 DEF ChunkStored, tables
    <3> QED
      BY <3>2, <3>3
  <2> QED
    BY <2>1
<1>10. ASSUME NEW p \in Publication, NEW c \in Chunk, ChunkPutDone(p, c) PROVE Owned'
  <2>1. ASSUME NEW x \in objects' PROVE chunks'[x] # "none" \/ Cared(x)'
    <3>1. x \in Key /\ x = <<x[1], x[2]>> /\ x \in objects
      BY <1>10, <1>0, KeyParts DEF ChunkPutDone, CallTypes
    <3>2. CASE x = <<p, c>>
      BY <1>10, <1>0, <3>1, <3>2 DEF ChunkPutDone, RefusedPut, Cared, ChunkRows
    <3>3. CASE x # <<p, c>>
      <4>1. Cared(x) => Cared(x)'
        BY <1>10, <3>1, <3>3 DEF ChunkPutDone, Cared
      <4> QED
        BY <1>10, <1>0, <1>b, <3>1, <3>3, <4>1 DEF ChunkPutDone, ChunkRows
    <3> QED
      BY <3>2, <3>3
  <2> QED
    BY <2>1
<1>11. ASSUME NEW p \in Publication, VerifyDone(p) PROVE Owned'
  BY <1>11, <1>b DEF VerifyDone, tables, pending, Cared
<1>12. ASSUME NEW x \in Key, DeleteReaches(x) PROVE Owned'
  <2>1. ASSUME NEW y \in objects' PROVE chunks'[y] # "none" \/ Cared(y)'
    <3>1. y \in objects /\ chunks' = chunks
      BY <1>12 DEF DeleteReaches, tables
    <3>2. Cared(y) => Cared(y)'
      BY <1>12 DEF DeleteReaches, Cared
    <3> QED
      BY <1>b, <3>1, <3>2
  <2> QED
    BY <2>1
<1>13. ASSUME NEW last \in Cursor, NEW upTo \in Cursor, SweepCommit(last, upTo) PROVE Owned'
  <2>1. \A x \in Key : chunks[x] # "none" => chunks'[x] # "none"
    BY <1>13 DEF SweepCommit
  <2> QED
    BY <1>13, <1>0, <1>b, <2>1 DEF SweepCommit, pending, CallTypes, Cared
<1>14. ASSUME NEW done \in SUBSET Queued, SweepDeletes(done) PROVE Owned'
  BY <1>14, <1>b DEF SweepDeletes, tables, Cared
<1>15. CASE SweepRecord
  <2>1. ASSUME NEW x \in objects PROVE chunks'[x] # "none" \/ Cared(x)
    <3>1. x \in Key
      BY <1>0 DEF CallTypes
    <3>2. CASE x \in sweep.batch
      BY <1>15, <1>b, <3>2 DEF SweepRecord, BatchInv
    <3>3. CASE x \notin sweep.batch
      BY <1>15, <1>b, <3>1, <3>3 DEF SweepRecord
    <3> QED
      BY <3>2, <3>3
  <2> QED
    BY <1>15, <2>1 DEF SweepRecord, pending, Cared
<1>16. ASSUME NEW landed \in SUBSET Key, Evicted(landed) PROVE Owned'
  <2>1. ASSUME NEW x \in objects' PROVE chunks'[x] # "none" \/ Cared(x)'
    <3>1. x \in Key /\ x = <<x[1], x[2]>>
      BY <1>16, <1>0, KeyParts DEF Evicted, CallTypes
    <3>2. ASSUME NEW stage \in Stage, <<x[1], x[2], stage>> \in puts PROVE x \in lost'
      <4> DEFINE y == <<x[1], x[2], stage>>
      <4>1. <<y[1], y[2]>> \in {<<z[1], z[2]>> : z \in puts}
        BY <3>2
      <4> QED
        BY <1>16, <3>1, <4>1 DEF Evicted
    <3>3. CASE x \in landed
      BY <1>16, <3>1, <3>2, <3>3 DEF Evicted, Cared, Stage
    <3>4. CASE x \in objects
      BY <1>16, <1>b, <3>2, <3>4 DEF Evicted, Cared, tables
    <3> QED
      BY <1>16, <3>3, <3>4 DEF Evicted
  <2> QED
    BY <2>1
<1>17. CASE RestoreBegin
  BY <1>17, <1>b DEF RestoreBegin, tables, pending, Cared
<1>18. ASSUME NEW c \in Chunk, RestoreChunk(c) PROVE Owned'
  BY <1>18, <1>b DEF RestoreChunk, tables, pending, Cared
<1>19. CASE RestoreStage
  BY <1>19, <1>b DEF RestoreStage, tables, pending, Cared
<1>20. ASSUME NEW upTo \in Cursor, RestorePull(upTo) PROVE Owned'
  BY <1>20, <1>b DEF RestorePull, tables, pending, Cared
<1>21. CASE RestoreActivate
  BY <1>21, <1>b DEF RestoreActivate, tables, pending, Cared
<1>22. CASE UNCHANGED vars
  BY <1>22, <1>b DEF vars, tables, pending, Cared
<1> QED
  BY <1>1, <1>2, <1>3, <1>4, <1>5, <1>6, <1>7, <1>8, <1>9, <1>10, <1>11, <1>12, <1>13,
     <1>14, <1>15, <1>16, <1>17, <1>18, <1>19, <1>20, <1>21, <1>22 DEF Next, CallStep,
     SweepStep

\* Every step keeps each object owned by a row or by a running call.
LEMMA OwnStep == TypeInv /\ ChainInv /\ OwnInv /\ [Next]_vars => OwnInv'
<1>1. Owned' => ObjectsAreOwned'
  BY DEF ObjectsAreOwned, Owned, Cared, Stage
<1> QED
  BY <1>1, QueueStep, BatchStep, OwnedStep DEF OwnInv, QueueInv, BatchInv

\* Publications never open again.
LEMMA StaysClosed ==
    ASSUME RowsStep, overdue \subseteq overdue', NEW p \in Publication
    PROVE  /\ State(p) \notin {"new", "scanned"} => State(p)' \notin {"new", "scanned"}
           /\ State(p) \notin {"new", "scanned"} /\ Open(p)' => Open(p)
           /\ Closed(p) => Closed(p)'
  BY DEF RowsStep, RowStep, State, Open, Closed

\* Only the clock moves a publication past its window.
LEMMA OverdueGrows == [Next]_vars => overdue \subseteq overdue'
  BY DEF Next, CallStep, SweepStep, Write, KeyRotated, ScanFinished, Begin, Verify, Commit,
     UploadWindowCloses, ChunkPut, ChunkStored, ChunkPutDone, VerifyDone, DeleteReaches,
     SweepCommit, SweepDeletes, SweepRecord, Evicted, RestoreBegin, RestoreChunk, RestoreStage,
     RestorePull, RestoreActivate, vars

\* A step that does not touch an object and its row.
LEMMA SameKey ==
    ASSUME NEW p \in Publication, NEW c \in Chunk, KeyInv(p, c),
           RowsStep, overdue \subseteq overdue',
           \A stage \in Stage : <<p, c, stage>> \in puts' => <<p, c, stage>> \in puts,
           <<p, c>> \in deletes' => <<p, c>> \in deletes,
           <<p, c>> \in objects => <<p, c>> \in objects',
           chunks'[<<p, c>>] = chunks[<<p, c>>]
    PROVE  KeyInv(p, c)'
  BY StaysClosed DEF KeyInv, Stage

KeysOK == \A p \in Publication, c \in Chunk : KeyInv(p, c)

\* With one chunk.put at a time, an uploaded chunk keeps its object.
LEMMA KeyStep == TypeInv /\ ChainInv /\ OwnInv /\ ReadInv /\ ~Retried /\ [Next]_vars => KeysOK'
<1> SUFFICES ASSUME TypeInv /\ ChainInv /\ OwnInv /\ ReadInv /\ ~Retried, [Next]_vars PROVE KeysOK'
  OBVIOUS
<1>0. /\ Rows /\ ChunkRows /\ CallTypes /\ RowsStep /\ QueueInv /\ ChainInv
      /\ overdue \subseteq overdue' /\ ~Retried
      /\ \A q \in Publication, d \in Chunk : KeyInv(q, d)
  BY RowsSteps, OverdueGrows
     DEF TypeInv, SnapshotTypeOK, Rows, ChunkRows, CallTypes, OwnInv, QueueInv, ReadInv
<1> USE DEF KeysOK
<1>1. CASE Write
  BY <1>1, <1>0, SameKey DEF Write, tables, pending
<1>2. CASE KeyRotated
  BY <1>2, <1>0, SameKey DEF KeyRotated, tables, pending
<1>3. ASSUME NEW p \in Publication, ScanFinished(p) PROVE KeysOK'
  BY <1>3, <1>0, SameKey DEF ScanFinished, tables, pending
<1>4. ASSUME NEW p \in Publication, Begin(p) PROVE KeysOK'
  BY <1>4, <1>0, SameKey DEF Begin, tables, pending
<1>5. ASSUME NEW p \in Publication, Verify(p) PROVE KeysOK'
  BY <1>5, <1>0, SameKey DEF Verify, tables, pending
<1>6. ASSUME NEW p \in Publication, Commit(p) PROVE KeysOK'
  <2> SUFFICES ASSUME NEW q \in Publication, NEW d \in Chunk PROVE KeyInv(q, d)'
    OBVIOUS
  <2>1. CASE chunks'[<<q, d>>] = chunks[<<q, d>>]
    BY <1>6, <1>0, <2>1, SameKey DEF Commit, pending
  <2>2. CASE chunks'[<<q, d>>] # chunks[<<q, d>>]
    <3>1. <<q, d>> \in Key
      BY DEF Key
    <3>2. State(q) = "committed" /\ chunks'[<<q, d>>] = "deleting"
      BY <1>6, <1>0, <2>2, <3>1 DEF Commit, Superseded, Retained, Published, ChainInv
    <3>3. /\ State(q)' \notin {"uploading", "verified"}
          /\ State(q) \notin {"new", "scanned"} => State(q)' \notin {"new", "scanned"}
          /\ Closed(q) => Closed(q)'
      BY <1>6, <1>0, <3>2, StaysClosed DEF RowsStep, RowStep, State
    <3>4. ~Open(q)' /\ puts' = puts /\ deletes' = deletes
      BY <1>6, <3>3 DEF Open, Commit, pending
    <3> QED
      BY <1>0, <3>2, <3>3, <3>4 DEF KeyInv, Stage
  <2> QED
    BY <2>1, <2>2
<1>7. ASSUME NEW p \in Publication, UploadWindowCloses(p) PROVE KeysOK'
  BY <1>7, <1>0, SameKey DEF UploadWindowCloses, tables, pending
<1>8. ASSUME NEW p \in Publication, NEW c \in Chunk, ChunkPut(p, c) PROVE KeysOK'
  <2> SUFFICES ASSUME NEW q \in Publication, NEW d \in Chunk PROVE KeyInv(q, d)'
    OBVIOUS
  <2>1. CASE <<q, d>> # <<p, c>>
    BY <1>8, <1>0, <2>1, SameKey DEF ChunkPut, ChunkRows, Key

  <2>2. CASE q = p /\ d = c
    <3>1. /\ Open(p) /\ publications' = publications /\ overdue' = overdue
          /\ objects' = objects /\ deletes' = deletes
          /\ chunks[<<p, c>>] # "uploaded" /\ <<p, c, "stored">> \notin puts
          /\ puts' = puts \cup {<<p, c, "reserved">>}
      BY <1>8 DEF ChunkPut
    <3>2. chunks'[<<p, c>>] \notin {"none", "uploaded"}
      BY <1>8, <1>0, <3>1 DEF ChunkPut, ChunkRows, Key
    <3>3. /\ State(p)' \notin {"new", "scanned"}
          /\ Open(p)' <=> Open(p)
          /\ Closed(p)' <=> Closed(p)
      BY <3>1 DEF Open, State, Closed
    <3> QED
      BY <1>0, <2>2, <3>1, <3>2, <3>3 DEF KeyInv, Stage
  <2> QED
    BY <2>1, <2>2
<1>9. ASSUME NEW p \in Publication, NEW c \in Chunk, ChunkStored(p, c) PROVE KeysOK'
  <2> SUFFICES ASSUME NEW q \in Publication, NEW d \in Chunk PROVE KeyInv(q, d)'
    OBVIOUS
  <2>1. CASE <<q, d>> # <<p, c>>
    BY <1>9, <1>0, <2>1, SameKey DEF ChunkStored, tables

  <2>2. CASE q = p /\ d = c
    <3>1. /\ publications' = publications /\ overdue' = overdue /\ chunks' = chunks
          /\ <<p, c>> \in objects' /\ deletes' = deletes
          /\ <<p, c, "reserved">> \in puts /\ <<p, c, "reserved">> \notin puts'
      BY <1>9 DEF ChunkStored, tables
    <3>2. (Open(p)' <=> Open(p)) /\ (Closed(p)' <=> Closed(p)) /\ State(p)' = State(p)
      BY <3>1 DEF Open, State, Closed
    <3> QED
      BY <1>0, <2>2, <3>1, <3>2 DEF KeyInv, Stage
  <2> QED
    BY <2>1, <2>2
<1>10. ASSUME NEW p \in Publication, NEW c \in Chunk, ChunkPutDone(p, c) PROVE KeysOK'
  <2> SUFFICES ASSUME NEW q \in Publication, NEW d \in Chunk PROVE KeyInv(q, d)'
    OBVIOUS
  <2>1. CASE <<q, d>> # <<p, c>>
    BY <1>10, <1>0, <2>1, SameKey DEF ChunkPutDone, RefusedPut, ChunkRows, Key

  <2>2. CASE q = p /\ d = c
    <3>1. /\ publications' = publications /\ overdue' = overdue /\ objects' = objects
          /\ <<p, c, "stored">> \in puts /\ puts' = puts \ {<<p, c, "stored">>}
      BY <1>10 DEF ChunkPutDone
    <3>2. (Open(p)' <=> Open(p)) /\ (Closed(p)' <=> Closed(p)) /\ State(p)' = State(p)
      BY <3>1 DEF Open, State, Closed
    <3>3. KeyInv(p, c)
      BY <1>0
    <3>4. \A stage \in Stage : <<p, c, stage>> \notin puts'
      BY <3>1, <3>3 DEF KeyInv, Stage
    <3>5. CASE PutAccepted(p, c)
      <4>1. /\ chunks'[<<p, c>>] = "uploaded" /\ deletes' = deletes /\ Open(p)
        BY <1>10, <1>0, <3>5 DEF ChunkPutDone, PutAccepted, ChunkRows, Key
      <4>2. <<p, c>> \notin deletes /\ <<p, c>> \in objects
        BY <3>1, <3>3, <4>1 DEF KeyInv, Closed
      <4> QED
        BY <2>2, <3>1, <3>4, <4>1, <4>2 DEF KeyInv, Stage
    <3>6. CASE ~PutAccepted(p, c)
      <4>1. chunks' = chunks /\ deletes' = deletes \cup {<<p, c>>}
        BY <1>10, <3>6 DEF ChunkPutDone, RefusedPut
      <4>2. Closed(p) /\ chunks[<<p, c>>] # "uploaded"
        BY <3>1, <3>3, <3>6 DEF KeyInv, Stage, Closed, PutAccepted
      <4> QED
        BY <2>2, <3>1, <3>2, <3>4, <4>1, <4>2 DEF KeyInv, Stage
    <3> QED
      BY <3>5, <3>6
  <2> QED
    BY <2>1, <2>2
<1>11. ASSUME NEW p \in Publication, VerifyDone(p) PROVE KeysOK'
  BY <1>11, <1>0, SameKey DEF VerifyDone, tables, pending
<1>12. ASSUME NEW x \in Key, DeleteReaches(x) PROVE KeysOK'
  <2> SUFFICES ASSUME NEW q \in Publication, NEW d \in Chunk PROVE KeyInv(q, d)'
    OBVIOUS
  <2>1. CASE <<q, d>> # x
    BY <1>12, <1>0, <2>1, SameKey DEF DeleteReaches, tables
  <2>2. CASE <<q, d>> = x
    <3>1. Closed(q) /\ chunks[<<q, d>>] # "uploaded"
      BY <1>12, <1>0, <2>2 DEF DeleteReaches, KeyInv
    <3>2. /\ puts' = puts /\ publications' = publications /\ overdue' = overdue
          /\ chunks' = chunks /\ deletes' \subseteq deletes
      BY <1>12 DEF DeleteReaches, tables
    <3>3. ~Open(q)' /\ Closed(q)' /\ State(q)' = State(q)
      BY <3>1, <3>2 DEF Open, State, Closed
    <3> QED
      BY <1>0, <3>1, <3>2, <3>3 DEF KeyInv, Stage
  <2> QED
    BY <2>1, <2>2
<1>13. ASSUME NEW last \in Cursor, NEW upTo \in Cursor, SweepCommit(last, upTo) PROVE KeysOK'
  <2> SUFFICES ASSUME NEW q \in Publication, NEW d \in Chunk PROVE KeyInv(q, d)'
    OBVIOUS
  <2>1. CASE chunks'[<<q, d>>] = chunks[<<q, d>>]
    BY <1>13, <1>0, <2>1, SameKey DEF SweepCommit, pending
  <2>2. CASE chunks'[<<q, d>>] # chunks[<<q, d>>]
    <3>1. <<q, d>> \in Key
      BY DEF Key
    <3>2. q \in Abandoned /\ chunks'[<<q, d>>] = "deleting"
      BY <1>13, <2>2, <3>1 DEF SweepCommit
    <3>3. /\ State(q)' \notin {"uploading", "verified"}
          /\ State(q) \notin {"new", "scanned"} => State(q)' \notin {"new", "scanned"}
          /\ Closed(q) => Closed(q)'
      BY <1>13, <1>0, <3>2, StaysClosed DEF SweepCommit, State, Rows, PublicationRow
    <3>4. ~Open(q)' /\ puts' = puts /\ deletes' = deletes
      BY <1>13, <3>3 DEF Open, SweepCommit, pending
    <3> QED
      BY <1>0, <3>2, <3>3, <3>4 DEF KeyInv, Stage
  <2> QED
    BY <2>1, <2>2
<1>14. ASSUME NEW done \in SUBSET Queued, SweepDeletes(done) PROVE KeysOK'
  <2> SUFFICES ASSUME NEW q \in Publication, NEW d \in Chunk PROVE KeyInv(q, d)'
    OBVIOUS
  <2>1. CASE <<q, d>> \notin done
    BY <1>14, <1>0, <2>1, SameKey DEF SweepDeletes, tables
  <2>2. CASE <<q, d>> \in done
    <3>1. ~Open(q) /\ chunks[<<q, d>>] = "deleting"
      BY <1>0, <2>2, QueuedIsClosed DEF Queued
    <3>2. /\ puts' = puts /\ publications' = publications /\ overdue' = overdue
          /\ chunks' = chunks /\ deletes' = deletes
      BY <1>14 DEF SweepDeletes, tables
    <3>3. ~Open(q)' /\ (Closed(q)' <=> Closed(q)) /\ State(q)' = State(q)
      BY <3>1, <3>2 DEF Open, State, Closed
    <3> QED
      BY <1>0, <3>1, <3>2, <3>3 DEF KeyInv, Stage
  <2> QED
    BY <2>1, <2>2
<1>15. CASE SweepRecord
  <2> SUFFICES ASSUME NEW q \in Publication, NEW d \in Chunk PROVE KeyInv(q, d)'
    OBVIOUS
  <2>1. CASE chunks'[<<q, d>>] = chunks[<<q, d>>]
    BY <1>15, <1>0, <2>1, SameKey DEF SweepRecord, pending
  <2>2. CASE chunks'[<<q, d>>] # chunks[<<q, d>>]
    <3>1. <<q, d>> \in Key
      BY DEF Key
    <3>2. <<q, d>> \in Queued /\ chunks'[<<q, d>>] = "none"
      BY <1>15, <2>2, <3>1 DEF SweepRecord, Queued
    <3>3. /\ State(q)' \notin {"uploading", "verified"}
          /\ State(q) \notin {"new", "scanned"} => State(q)' \notin {"new", "scanned"}
          /\ Closed(q) => Closed(q)'
      BY <1>15, <1>0, <3>2, StaysClosed DEF QueueInv, RowsStep, RowStep, State
    <3>4. ~Open(q)' /\ puts' = puts /\ deletes' = deletes
      BY <1>15, <3>3 DEF Open, SweepRecord, pending
    <3> QED
      BY <1>0, <3>2, <3>3, <3>4 DEF KeyInv, Stage
  <2> QED
    BY <2>1, <2>2
<1>16. ASSUME NEW landed \in SUBSET Key, Evicted(landed) PROVE KeysOK'
  BY <1>16, <1>0, SameKey DEF Evicted, tables, pending
<1>17. CASE RestoreBegin
  BY <1>17, <1>0, SameKey DEF RestoreBegin, tables, pending
<1>18. ASSUME NEW c \in Chunk, RestoreChunk(c) PROVE KeysOK'
  BY <1>18, <1>0, SameKey DEF RestoreChunk, tables, pending
<1>19. CASE RestoreStage
  BY <1>19, <1>0, SameKey DEF RestoreStage, tables, pending
<1>20. ASSUME NEW upTo \in Cursor, RestorePull(upTo) PROVE KeysOK'
  BY <1>20, <1>0, SameKey DEF RestorePull, tables, pending
<1>21. CASE RestoreActivate
  BY <1>21, <1>0, SameKey DEF RestoreActivate, tables, pending
<1>22. CASE UNCHANGED vars
  BY <1>22, <1>0, SameKey DEF vars, tables, pending
<1> QED
  BY <1>1, <1>2, <1>3, <1>4, <1>5, <1>6, <1>7, <1>8, <1>9, <1>10, <1>11, <1>12, <1>13,
     <1>14, <1>15, <1>16, <1>17, <1>18, <1>19, <1>20, <1>21, <1>22 DEF Next, CallStep,
     SweepStep

\* The chunks of a published snapshot stay uploaded.
LEMMA CompleteStep ==
    ASSUME TypeInv, ChainInv, OwnInv, ReadInv, [Next]_vars
    PROVE  \A p \in Published' : Complete(p)'
<1>0. /\ ChunkRows
      /\ \A p \in Published : p \in Publication /\ State(p) = "committed" /\ Complete(p)
  BY DEF TypeInv, SnapshotTypeOK, ChunkRows, ReadInv, ChainInv, Published
<1>1. ASSUME NEW p \in Publication, Commit(p) PROVE \A q \in Published' : Complete(q)'
  <2>1. Published' = Active \cup {p} /\ p \notin Published
    BY <1>1, CommitSwaps
  <2>2. \A q \in Published' : q \in Publication /\ q \notin Superseded /\ Complete(q)
    BY <1>0, <1>1, <2>1 DEF Active, Superseded, Retained, Published, Commit
  <2>3. ASSUME NEW q \in Published', NEW c \in Chunk PROVE chunks'[<<q, c>>] = chunks[<<q, c>>]
    <3>1. <<q, c>> \in Key
      BY <2>2 DEF Key
    <3> QED
      BY <1>1, <2>2, <3>1 DEF Commit
  <2> QED
    BY <2>2, <2>3 DEF Complete
<1>2. ASSUME snapshots' = snapshots,
             \A p \in Published, c \in Chunk :
                 chunks[<<p, c>>] = "uploaded" => chunks'[<<p, c>>] = "uploaded"
      PROVE  \A q \in Published' : Complete(q)'
  BY <1>0, <1>2 DEF Published, Complete
<1>3. CASE UNCHANGED <<snapshots, chunks>>
  BY <1>2, <1>3
<1>4. ASSUME NEW p \in Publication, NEW c \in Chunk, ChunkPut(p, c)
      PROVE  \A q \in Published' : Complete(q)'
  <2>1. p \notin Published /\ snapshots' = snapshots
    BY <1>0, <1>4 DEF ChunkPut, Open
  <2>2. \A q \in Published, d \in Chunk : chunks'[<<q, d>>] = chunks[<<q, d>>]
    BY <1>0, <1>4, <2>1 DEF ChunkPut, ChunkRows, Key
  <2> QED
    BY <1>2, <2>1, <2>2
<1>5. ASSUME NEW p \in Publication, NEW c \in Chunk, ChunkPutDone(p, c)
      PROVE  \A q \in Published' : Complete(q)'
  <2>1. snapshots' = snapshots
    BY <1>5 DEF ChunkPutDone
  <2>2. \A q \in Published, d \in Chunk :
            chunks[<<q, d>>] = "uploaded" => chunks'[<<q, d>>] = "uploaded"
    BY <1>0, <1>5 DEF ChunkPutDone, ChunkRows, Key
  <2> QED
    BY <1>2, <2>1, <2>2
<1>6. ASSUME NEW last \in Cursor, NEW upTo \in Cursor, SweepCommit(last, upTo)
      PROVE  \A q \in Published' : Complete(q)'
  <2>1. snapshots' = snapshots
    BY <1>6 DEF SweepCommit
  <2>2. \A q \in Published, d \in Chunk : q \notin Abandoned /\ <<q, d>> \in Key
    BY <1>0 DEF Abandoned, Key
  <2>3. \A q \in Published, d \in Chunk : chunks'[<<q, d>>] = chunks[<<q, d>>]
    BY <1>6, <2>2 DEF SweepCommit
  <2> QED
    BY <1>2, <2>1, <2>3
<1>7. CASE SweepRecord
  <2>1. snapshots' = snapshots
    BY <1>7 DEF SweepRecord
  <2>2. \A q \in Published, d \in Chunk : <<q, d>> \in Key
    BY <1>0 DEF Key
  <2>3. \A q \in Published, d \in Chunk :
            chunks[<<q, d>>] = "uploaded" => chunks'[<<q, d>>] = "uploaded"
    BY <1>7, <2>2 DEF SweepRecord
  <2> QED
    BY <1>2, <2>1, <2>3
<1> QED
  BY <1>1, <1>3, <1>4, <1>5, <1>6, <1>7
     DEF Next, CallStep, SweepStep, Write, KeyRotated, ScanFinished, Begin, Verify,
     UploadWindowCloses, ChunkStored, VerifyDone, DeleteReaches, SweepDeletes, Evicted,
     RestoreBegin, RestoreChunk, RestoreStage, RestorePull, RestoreActivate, vars, tables

\* Every step keeps committed snapshots readable, unless a chunk was put twice at once.
LEMMA ReadStep ==
    TypeInv /\ ChainInv /\ OwnInv /\ (~Retried => ReadInv) /\ [Next]_vars =>
        (~Retried => ReadInv')
  BY KeyStep, CompleteStep DEF ReadInv, KeysOK

---------------------------------------------------------------------------
(* The restored device *)

\* A nonempty set of numbers has a least member.
LEMMA LeastAt ==
    ASSUME NEW T \in SUBSET Nat, T # {}
    PROVE  \E x \in T : \A y \in T : x <= y
<1> DEFINE R == OpToRel(<, Nat)
<1>1. \E x \in T : \A y \in T : ~(<<y, x>> \in R)
  <2>1. IsWellFoundedOn(R, Nat)
    BY NatLessThanWellFounded
  <2> HIDE DEF R
  <2> QED
    BY <2>1, WFMin
<1>2. \A x, y \in Nat : y < x => <<y, x>> \in R
  BY DEF OpToRel
<1> HIDE DEF R
<1>3. PICK x \in T : \A y \in T : ~(<<y, x>> \in R)
  BY <1>1
<1>4. \A y \in T : ~(y < x) /\ x \in Nat /\ y \in Nat
  BY <1>2, <1>3
<1> QED
  BY <1>4

\* A nonempty bounded set of numbers has a maximum, and Max names it.
LEMMA MaxOf ==
    ASSUME NEW n \in Nat, NEW S \in SUBSET (0 .. n), S # {}
    PROVE  Max(S) \in S /\ \A y \in S : Max(S) >= y
<1> DEFINE T == {x \in 0 .. n : n - x \in S}
<1>1. \A y \in S : y \in Nat /\ n - y \in T
  OBVIOUS
<1>2. T \in SUBSET Nat /\ T # {} /\ \A x \in T : n - x \in S
  <2>1. PICK y \in S : TRUE
    OBVIOUS
  <2>2. n - y \in T
    BY <1>1, <2>1
  <2>3. T \in SUBSET Nat /\ \A x \in T : n - x \in S
    OBVIOUS
  <2> HIDE DEF T
  <2> QED
    BY <2>2, <2>3
<1> HIDE DEF T
<1>3. PICK x \in T : \A y \in T : x <= y
  BY <1>2, LeastAt
<1>4. x \in Nat /\ n - x \in S
  BY <1>2, <1>3
<1>5. \A y \in S : n - x >= y
  <2> TAKE y \in S
  <2>1. y \in Nat /\ x <= n - y
    BY <1>1, <1>3
  <2> QED
    BY <1>4, <2>1
<1>6. ASSUME NEW z \in S, \A y \in S : z >= y PROVE z = n - x
  <2>1. z \in Nat /\ z >= n - x /\ n - x >= z
    BY <1>1, <1>4, <1>5, <1>6
  <2> QED
    BY <1>4, <2>1
<1> DEFINE m == n - x
<1>7. m \in S /\ (\A y \in S : m >= y) /\ \A z \in S : (\A y \in S : z >= y) => z = m
  BY <1>4, <1>5, <1>6
<1> HIDE DEF m
<1> QED
  BY <1>7 DEF Max

\* Staging a page keeps the higher revision of each entity.
LEMMA StagedIsBest ==
    ASSUME LogTypes, NEW contents \in Contents, NEW page \in SUBSET Log!Position,
           \A s \in page : feed[s] # NoEntry
    PROVE  /\ Staged(contents, page) \in Contents
           /\ Best(feed, contents, page, Staged(contents, page))
<1> DEFINE of(k) == {contents[k]} \cup
                    {feed[s].revision : s \in {t \in page : feed[t].entity = k}}
<1>1. ASSUME NEW k \in Entity
      PROVE  of(k) \in SUBSET (0 .. MaxLength) /\ of(k) # {}
  <2>1. \A s \in page : feed[s].revision \in 0 .. MaxLength
    BY Bounds DEF LogTypes, Entry
  <2> QED
    BY <2>1 DEF Contents, Cursor
<1>2. ASSUME NEW k \in Entity
      PROVE  Max(of(k)) \in of(k) /\ \A y \in of(k) : Max(of(k)) >= y
  <2> HIDE DEF of
  <2> QED
    BY <1>1, MaxOf, Bounds
<1>3. Staged(contents, page) = [k \in Entity |-> Max(of(k))]
  BY DEF Staged
<1>4. ASSUME NEW k \in Entity
      PROVE  /\ Max(of(k)) >= contents[k]
             /\ \A s \in page : feed[s].entity = k => Max(of(k)) >= feed[s].revision
             /\ \/ Max(of(k)) = contents[k]
                \/ \E s \in page : feed[s].entity = k /\ Max(of(k)) = feed[s].revision
  <2> DEFINE m == Max(of(k))
  <2>1. m \in of(k) /\ \A y \in of(k) : m >= y
    BY <1>2
  <2> HIDE DEF m
  <2>2. /\ m >= contents[k]
        /\ \A s \in page : feed[s].entity = k => m >= feed[s].revision
        /\ \/ m = contents[k]
           \/ \E s \in page : feed[s].entity = k /\ m = feed[s].revision
    BY <2>1
  <2> QED
    BY <2>2 DEF m
<1>5. \A k \in Entity : Max(of(k)) \in Cursor
  <2> HIDE DEF of
  <2> QED
    BY <1>1, <1>2 DEF Cursor
<1> HIDE DEF of
<1> QED
  BY <1>3, <1>4, <1>5 DEF Best, Contents

\* The best of a page is determined.
LEMMA BestIsOne ==
    ASSUME NEW f, NEW contents \in Contents, NEW page,
           NEW a \in Contents, NEW b \in Contents,
           Best(f, contents, page, a), Best(f, contents, page, b),
           \A s \in page : f[s].revision \in Nat
    PROVE  a = b
<1>1. ASSUME NEW k \in Entity PROVE a[k] = b[k]
  <2>1. a[k] \in Nat /\ b[k] \in Nat /\ contents[k] \in Nat
    BY Bounds DEF Contents, Cursor
  <2>2. a[k] >= b[k]
    BY <2>1 DEF Best
  <2>3. b[k] >= a[k]
    BY <2>1 DEF Best
  <2> QED
    BY <2>1, <2>2, <2>3
<1> QED
  BY <1>1 DEF Contents

\* Two pages one after the other are one.
LEMMA BestComposes ==
    ASSUME NEW f, NEW contents \in Contents, NEW P, NEW Q,
           NEW a \in Contents, NEW b \in Contents,
           Best(f, contents, P, a), Best(f, a, Q, b),
           \A s \in P \cup Q : f[s].revision \in Nat
    PROVE  Best(f, contents, P \cup Q, b)
<1> SUFFICES ASSUME NEW k \in Entity
             PROVE  /\ b[k] >= contents[k]
                    /\ \A s \in P \cup Q : f[s].entity = k => b[k] >= f[s].revision
                    /\ \/ b[k] = contents[k]
                       \/ \E s \in P \cup Q : f[s].entity = k /\ b[k] = f[s].revision
  BY DEF Best
<1>1. a[k] \in Nat /\ b[k] \in Nat /\ contents[k] \in Nat
  BY Bounds DEF Contents, Cursor
<1>2. /\ a[k] >= contents[k] /\ b[k] >= a[k]
      /\ \A s \in P : f[s].entity = k => a[k] >= f[s].revision
      /\ \A s \in Q : f[s].entity = k => b[k] >= f[s].revision
      /\ a[k] = contents[k] \/ \E s \in P : f[s].entity = k /\ a[k] = f[s].revision
      /\ b[k] = a[k] \/ \E s \in Q : f[s].entity = k /\ b[k] = f[s].revision
  BY DEF Best
<1> QED
  BY <1>1, <1>2

\* Only the entries that are read matter.
LEMMA SameWindow ==
    ASSUME NEW f, NEW g, NEW contents, NEW from, NEW to, NEW best,
           \A s \in Log!Position : from < s /\ s <= to => g[s] = f[s],
           CaughtUp(f, contents, from, to, best)
    PROVE  CaughtUp(g, contents, from, to, best)
<1>1. Between(g, from, to) = Between(f, from, to)
  BY DEF Between
<1>2. \A s \in Between(f, from, to) : g[s] = f[s]
  BY DEF Between
<1> QED
  BY <1>1, <1>2 DEF CaughtUp, Best

\* The journal above the floor is never rewritten.
LEMMA JournalStep ==
    ASSUME TypeInv, [Next]_vars
    PROVE  /\ length' >= length /\ floor' >= floor
           /\ \A s \in Log!Position : s <= length /\ s > floor' => feed'[s] = feed[s]
           /\ \/ UNCHANGED <<length, revision>>
              \/ UNCHANGED publications /\ \E k \in Entity :
                    /\ length' = length + 1 /\ length' \in Log!Position
                    /\ revision' = [revision EXCEPT ![k] = revision[k] + 1]
                    /\ feed'[length'] # NoEntry /\ feed'[length'].entity = k
                    /\ feed'[length'].revision = revision[k] + 1
<1>0. length \in Nat /\ length <= MaxLength /\ floor \in Nat /\ MaxLength \in Nat
  BY Numbers, Bounds
<1>1. CASE Write
  <2>1. PICK k \in Entity, operation \in {"create", "update"}, payload \in Payload :
            Log!Write(k, operation, payload)
    BY <1>1 DEF Write
  <2> DEFINE entry == [entity |-> k, revision |-> revision[k] + 1,
                       operation |-> operation, payload |-> payload]
  <2>2. /\ length < MaxLength /\ length' = length + 1 /\ floor' = floor
        /\ revision' = [revision EXCEPT ![k] = revision[k] + 1]
        /\ feed' = [feed EXCEPT ![length + 1] = entry]
    BY <2>1 DEF Log!Write
  <2>3. length' \in Log!Position /\ feed \in [Log!Position -> Entry \cup {NoEntry}]
    BY <1>0, <2>2 DEF Log!Position, TypeInv, LogTypes
  <2>4. revision[k] \in Nat /\ revision[k] <= length
    BY <1>0 DEF TypeInv, LogTypes, Cursor
  <2>5. revision[k] + 1 \in 1 .. MaxLength
    BY <1>0, <2>2, <2>4
  <2>6. entry \in Entry /\ entry.entity = k /\ entry.revision = revision[k] + 1
    BY <2>5 DEF Entry
  <2> HIDE DEF entry
  <2>7. feed'[length'] = entry
    BY <2>2, <2>3
  <2>8. \A s \in Log!Position : s <= length => feed'[s] = feed[s]
    BY <1>0, <2>2, <2>3 DEF Log!Position
  <2>9. publications' = publications
    BY <1>1 DEF Write, tables
  <2>10. length' >= length /\ floor' >= floor
    BY <1>0, <2>2
  <2>11. /\ length' = length + 1 /\ length' \in Log!Position
         /\ revision' = [revision EXCEPT ![k] = revision[k] + 1]
         /\ feed'[length'] # NoEntry /\ feed'[length'].entity = k
         /\ feed'[length'].revision = revision[k] + 1
    BY <2>2, <2>3, <2>6, <2>7, Bounds
  <2> QED
    BY <2>8, <2>9, <2>10, <2>11
<1>2. ASSUME NEW last \in Cursor, NEW upTo \in Cursor, SweepCommit(last, upTo)
      PROVE  /\ floor' >= floor /\ UNCHANGED <<length, revision>>
             /\ \A s \in Log!Position : s > floor' => feed'[s] = feed[s]
  <2>1. last \in Nat /\ upTo \in Nat
    BY Bounds DEF Cursor
  <2>2. SweepJournal(last, upTo)
    BY <1>2 DEF SweepCommit
  <2>3. Max({floor, last}) >= floor /\ Max({floor, last}) \in Nat
    BY <1>0, <2>1, MaxPair
  <2>4. upTo >= floor
    <3> DEFINE current == Max({floor, last})
    <3>1. upTo \in (IF target > current THEN current + 1 .. target ELSE {current})
      BY <2>2 DEF SweepJournal
    <3> HIDE DEF current
    <3>2. current >= floor /\ current \in Nat /\ target \in Nat
      BY <2>3, Numbers DEF current
    <3> QED
      BY <3>1, <3>2, <1>0
  <2>5. /\ floor' = upTo /\ UNCHANGED <<length, revision>>
        /\ feed' = [s \in Log!Position |-> IF s <= upTo THEN NoEntry ELSE feed[s]]
    BY <2>2 DEF SweepJournal, Log!Trim
  <2>6. \A s \in Log!Position : s > upTo => feed'[s] = feed[s]
    BY <2>1, <2>5 DEF Log!Position
  <2> QED
    BY <2>4, <2>5, <2>6
<1>3. CASE UNCHANGED logVars
  BY <1>0, <1>3 DEF logVars
<1>4. Write \/ UNCHANGED logVars \/ \E last, upTo \in Cursor : SweepCommit(last, upTo)
  BY DEF Next, CallStep, SweepStep, KeyRotated, ScanFinished, Begin, Verify, Commit, ChunkPut,
     UploadWindowCloses, ChunkStored, ChunkPutDone, VerifyDone, DeleteReaches, SweepDeletes,
     SweepRecord, Evicted, RestoreBegin, RestoreChunk, RestoreStage, RestorePull,
     RestoreActivate, vars
<1> QED
  BY <1>0, <1>1, <1>2, <1>3, <1>4

\* A tail that is still there is still the same.
LEMMA TailStays ==
    ASSUME TypeInv, [Next]_vars, NEW contents, NEW from \in Nat, NEW to \in Nat, NEW best,
           to <= length, from >= floor',
           CaughtUp(feed, contents, from, to, best)
    PROVE  CaughtUp(feed', contents, from, to, best)
<1>1. \A s \in Log!Position : s <= length /\ s > floor' => feed'[s] = feed[s]
  BY JournalStep
<1>2. \A s \in Log!Position : s \in Nat
  BY Bounds DEF Log!Position
<1>3. length \in Nat /\ floor' \in Nat
  BY Numbers, LogTypeStep DEF LogTypes, Cursor
<1>4. \A s \in Log!Position : from < s /\ s <= to => feed'[s] = feed[s]
  BY <1>1, <1>2, <1>3
<1> QED
  BY <1>4, SameWindow

\* A change adds its entity's new head to every tail.
LEMMA TailGrows ==
    ASSUME TypeInv, [Next]_vars, NEW contents \in Contents, NEW from \in Nat,
           from <= length, from >= floor',
           CaughtUp(feed, contents, from, length, revision)
    PROVE  CaughtUp(feed', contents, from, length', revision')
<1>0. length \in Nat /\ revision \in [Entity -> Nat]
  BY Numbers, Bounds DEF TypeInv, LogTypes, Cursor
<1>1. CaughtUp(feed', contents, from, length, revision)
  BY <1>0, TailStays
<1>2. CASE UNCHANGED <<length, revision>>
  BY <1>1, <1>2
<1>3. ASSUME NEW k \in Entity, length' = length + 1, length' \in Log!Position,
             revision' = [revision EXCEPT ![k] = revision[k] + 1],
             feed'[length'] # NoEntry, feed'[length'].entity = k,
             feed'[length'].revision = revision[k] + 1
      PROVE  CaughtUp(feed', contents, from, length', revision')
  <2> DEFINE P == Between(feed', from, length)
             Q == Between(feed', from, length')
  <2>1. length' \in Q /\ P \subseteq Q
    BY <1>0, <1>3 DEF Between, Log!Position
  <2>2. \A s \in Q : s = length' \/ s \in P
    BY <1>0, <1>3, Bounds DEF Between, Log!Position
  <2>3. Best(feed', contents, P, revision)
    BY <1>1 DEF CaughtUp
  <2>4. \A s \in P : feed'[s].revision \in Nat
    <3>1. feed' \in [Log!Position -> Entry \cup {NoEntry}]
      BY LogTypeStep DEF LogTypes
    <3> QED
      BY <3>1, Bounds DEF Between, Entry
  <2>5. \A e \in Entity : contents[e] \in Nat
    BY Bounds DEF Contents, Cursor
  <2> HIDE DEF P, Q
  <2>6. Best(feed', contents, Q, revision')
    <3> SUFFICES ASSUME NEW e \in Entity
                 PROVE  /\ revision'[e] >= contents[e]
                        /\ \A s \in Q : feed'[s].entity = e => revision'[e] >= feed'[s].revision
                        /\ \/ revision'[e] = contents[e]
                           \/ \E s \in Q : /\ feed'[s].entity = e
                                           /\ revision'[e] = feed'[s].revision
      BY DEF Best
    <3>1. /\ revision[e] >= contents[e]
          /\ \A s \in P : feed'[s].entity = e => revision[e] >= feed'[s].revision
          /\ \/ revision[e] = contents[e]
             \/ \E s \in P : feed'[s].entity = e /\ revision[e] = feed'[s].revision
      BY <2>3 DEF Best
    <3>2. CASE e = k
      <4>1. revision'[e] = revision[e] + 1 /\ revision[e] \in Nat
        BY <1>0, <1>3, <3>2
      <4> QED
        BY <1>3, <2>1, <2>2, <2>4, <2>5, <3>1, <3>2, <4>1
    <3>3. CASE e # k
      <4>1. revision'[e] = revision[e]
        BY <1>0, <1>3, <3>3
      <4> QED
        BY <1>3, <2>1, <2>2, <3>1, <3>3, <4>1
    <3> QED
      BY <3>2, <3>3
  <2> QED
    BY <2>6 DEF CaughtUp, Q
<1> QED
  BY <1>2, <1>3, JournalStep

\* Only a finished scan takes a publication from "new".
LEMMA NewStays ==
    ASSUME TypeInv, ChainInv, [Next]_vars, NEW q \in Publication,
           publications'[q].state # "new", State(q) = "new"
    PROVE  ScanFinished(q)
<1>0. /\ publications \in [Publication -> PublicationRow]
      /\ \A p \in Published : State(p) = "committed"
  BY DEF TypeInv, SnapshotTypeOK, ChainInv
<1>1. publications' # publications
  BY DEF State
<1>2. ASSUME NEW p \in Publication, ScanFinished(p) PROVE p = q
  BY <1>0, <1>2 DEF ScanFinished, State
<1>3. ASSUME NEW p \in Publication, Begin(p) PROVE FALSE
  BY <1>0, <1>3 DEF Begin, State
<1>4. ASSUME NEW p \in Publication, VerifyDone(p) PROVE FALSE
  BY <1>0, <1>4 DEF VerifyDone, State, PublicationRow
<1>5. ASSUME NEW p \in Publication, Commit(p) PROVE FALSE
  <2>1. q # p /\ q \notin Superseded
    BY <1>0, <1>5 DEF Commit, Superseded, Retained, Published
  <2> QED
    BY <1>5, <2>1 DEF Commit, State
<1>6. ASSUME NEW last \in Cursor, NEW upTo \in Cursor, SweepCommit(last, upTo) PROVE FALSE
  <2>1. q \notin Abandoned
    BY DEF Abandoned
  <2> QED
    BY <1>6, <2>1 DEF SweepCommit, State
<1>7. CASE SweepRecord
  BY <1>7 DEF SweepRecord, Droppable, State
<1> QED
  BY <1>1, <1>2, <1>3, <1>4, <1>5, <1>6, <1>7
     DEF Next, CallStep, SweepStep, Write, KeyRotated, Verify, ChunkPut, ChunkPutDone,
     UploadWindowCloses, ChunkStored, DeleteReaches, SweepDeletes, Evicted, RestoreBegin,
     RestoreChunk, RestoreStage, RestorePull, RestoreActivate, vars, tables

\* What was scanned stays a valid start while the journal reaches back to it.
LEMMA HeadsStep == TypeInv /\ ChainInv /\ HeadsInv /\ [Next]_vars => HeadsInv'
<1> SUFFICES ASSUME TypeInv, ChainInv, HeadsInv, [Next]_vars, NEW p \in Publication,
                    publications'[p].state # "new"
             PROVE  /\ publications'[p].cursor <= length'
                    /\ publications'[p].cursor >= floor' =>
                          CaughtUp(feed', publications'[p].contents, publications'[p].cursor,
                                   length', revision')
  BY DEF HeadsInv, State
<1>0. /\ RowsStep /\ length \in Nat /\ publications[p].cursor \in Nat
      /\ publications[p].contents \in Contents
      /\ length' >= length /\ length' \in Nat /\ floor' >= floor /\ floor' \in Nat
      /\ floor \in Nat
  <2>1. LogTypes'
    BY LogTypeStep
  <2> QED
    BY <2>1, RowsSteps, Numbers, JournalStep, Bounds
       DEF LogTypes, Cursor, TypeInv, SnapshotTypeOK, PublicationRow
<1>1. CASE State(p) # "new"
  <2>1. publications'[p].cursor = publications[p].cursor
        /\ publications'[p].contents = publications[p].contents
    BY <1>0, <1>1 DEF RowsStep, RowStep
  <2>2. publications[p].cursor <= length
        /\ (publications[p].cursor >= floor =>
              CaughtUp(feed, publications[p].contents, publications[p].cursor, length, revision))
    BY <1>1 DEF HeadsInv
  <2>3. ASSUME publications[p].cursor >= floor'
        PROVE  CaughtUp(feed', publications[p].contents, publications[p].cursor, length',
                        revision')
    <3>1. publications[p].cursor >= floor
      BY <1>0, <2>3
    <3> QED
      BY <1>0, <2>2, <2>3, <3>1, TailGrows
  <2> QED
    BY <1>0, <2>1, <2>2, <2>3
<1>2. CASE State(p) = "new"
  <2>1. ScanFinished(p)
    BY <1>2, NewStays
  <2>2. /\ publications'[p].cursor = length /\ publications'[p].contents = revision
        /\ UNCHANGED <<length, revision, feed>>
    BY <1>0, <2>1 DEF ScanFinished, logVars, TypeInv, SnapshotTypeOK, PublicationRow
  <2>3. Between(feed, length, length) = {}
    BY <1>0, Bounds DEF Between, Log!Position
  <2>4. \A k \in Entity : revision[k] \in Nat
    BY Bounds DEF TypeInv, LogTypes, Cursor
  <2>5. CaughtUp(feed, revision, length, length, revision)
    BY <2>3, <2>4 DEF CaughtUp, Best
  <2> QED
    BY <1>0, <2>2, <2>5
<1> QED
  BY <1>1, <1>2

\* The restoring device has a list of snapshots that were committed, and each
\* leads to the heads of the moment it asked.
LEMMA CandidatesLead ==
    ASSUME TypeInv, ChainInv, HeadsInv
    PROVE  /\ Candidates \in Seq(Publication)
           /\ \A i \in 1 .. Len(Candidates) :
                 LET p == Candidates[i]
                 IN /\ State(p) # "new" /\ publications[p].cursor >= floor
                    /\ CaughtUp(feed, publications[p].contents, publications[p].cursor, length,
                                revision)
<1> DEFINE usable(S) == {p \in S : publications[p].cursor >= floor}
           list(S) == IF usable(S) = {} THEN <<>> ELSE <<CHOOSE p \in usable(S) : TRUE>>
           good == {p \in Published : publications[p].cursor >= floor}
<1>1. \A p \in good :
          /\ p \in Publication /\ State(p) # "new" /\ publications[p].cursor >= floor
          /\ CaughtUp(feed, publications[p].contents, publications[p].cursor, length, revision)
  BY DEF HeadsInv, ChainInv, Published
<1>2. ASSUME NEW S \in SUBSET Published PROVE list(S) \in Seq(good)
  <2>1. usable(S) # {} => (CHOOSE p \in usable(S) : TRUE) \in good
    OBVIOUS
  <2> HIDE DEF usable, good
  <2> QED
    BY <2>1
<1>3. Active \in SUBSET Published /\ Retained \in SUBSET Published
  BY DEF Active, Retained, Published
<1>4. Candidates = IF Active = {} THEN <<>> ELSE list(Active) \o list(Retained)
  BY DEF Candidates
<1>5. list(Active) \in Seq(good) /\ list(Retained) \in Seq(good)
  BY <1>2, <1>3
<1>6. \A p \in good : p \in Publication
  BY <1>1
<1> HIDE DEF list, usable, good
<1>7. Candidates \in Seq(good)
  BY <1>4, <1>5
<1>8. Candidates \in Seq(Publication) /\ \A i \in 1 .. Len(Candidates) : Candidates[i] \in good
  BY <1>6, <1>7
<1> QED
  BY <1>1, <1>8

\* Reading a page leaves the rest to be read from there.
LEMMA PageThenRest ==
    ASSUME TypeInv, NEW staged \in Contents, NEW goal \in Contents,
           NEW from \in Nat, NEW upTo \in Nat, NEW to \in Nat, from <= upTo,
           NEW page, page = {s \in Log!Position : /\ from < s /\ s <= upTo
                                                  /\ s <= to /\ feed[s] # NoEntry},
           CaughtUp(feed, staged, from, to, goal)
    PROVE  /\ Staged(staged, page) \in Contents
           /\ CaughtUp(feed, Staged(staged, page), upTo, to, goal)
           /\ upTo >= to => Staged(staged, page) = goal
<1> DEFINE rest == Between(feed, upTo, to)
           next == Staged(staged, page)
           end == Staged(next, rest)
<1>0. LogTypes
  BY DEF TypeInv
<1>1. /\ page \in SUBSET Log!Position /\ \A s \in page : feed[s] # NoEntry
      /\ rest \in SUBSET Log!Position /\ \A s \in rest : feed[s] # NoEntry
  BY DEF Between
<1>2. \A s \in page \cup rest : feed[s].revision \in Nat
  BY <1>0, <1>1, Bounds DEF LogTypes, Entry
<1>3. page \cup rest = Between(feed, from, to)
  BY Bounds DEF Between, Log!Position
<1> HIDE DEF rest
<1>4. next \in Contents /\ Best(feed, staged, page, next)
  BY <1>0, <1>1, StagedIsBest
<1> HIDE DEF next
<1>5. end \in Contents /\ Best(feed, next, rest, end)
  BY <1>0, <1>1, <1>4, StagedIsBest
<1> HIDE DEF end
<1>6. Best(feed, staged, page \cup rest, end)
  BY <1>2, <1>4, <1>5, BestComposes
<1>7. Best(feed, staged, page \cup rest, goal)
  BY <1>3 DEF CaughtUp
<1>8. end = goal
  BY <1>2, <1>5, <1>6, <1>7, BestIsOne
<1>9. CaughtUp(feed, next, upTo, to, goal)
  BY <1>5, <1>8 DEF CaughtUp, rest
<1>10. ASSUME upTo >= to PROVE next = goal
  <2>1. rest = {}
    BY <1>10, Bounds DEF rest, Between, Log!Position
  <2>2. ASSUME NEW k \in Entity PROVE end[k] = next[k]
    BY <1>5, <2>1 DEF Best
  <2> QED
    BY <1>4, <1>5, <1>8, <2>2 DEF Contents
<1> QED
  BY <1>4, <1>9, <1>10 DEF next

\* While the device does nothing, what it has and what it can read still lead to
\* what it wants.
LEMMA RestoreWaits ==
    ASSUME TypeInv, ChainInv, RestoreInv, [Next]_vars, restore' = restore
    PROVE  RestoreInv'
<1>0. /\ RowsStep /\ restore \in Restore /\ length \in Nat
      /\ length' >= length /\ length' \in Nat /\ floor' >= floor /\ floor' \in Nat
      /\ floor \in Nat /\ restore.finish \in Nat /\ restore.cursor \in Nat
      /\ \A p \in Publication : publications[p].cursor \in Nat
  <2>1. LogTypes'
    BY LogTypeStep
  <2>2. restore \in Restore
    BY DEF RestoreInv
  <2>3. restore.finish \in Nat /\ restore.cursor \in Nat
    BY <2>2, Bounds DEF Restore, Cursor
  <2> QED
    BY <2>1, <2>2, <2>3, RowsSteps, Numbers, JournalStep, Bounds DEF LogTypes, Cursor
<1>1. ASSUME NEW p \in Publication, Leads(p), restore.finish <= length
      PROVE  /\ publications'[p].state # "new"
             /\ publications'[p].cursor >= floor' =>
                   CaughtUp(feed', publications'[p].contents, publications'[p].cursor,
                            restore'.finish, restore'.goal)
  <2>1. /\ publications'[p].state # "new"
        /\ publications'[p].cursor = publications[p].cursor
        /\ publications'[p].contents = publications[p].contents
    BY <1>0, <1>1 DEF RowsStep, RowStep, Leads
  <2>2. ASSUME publications[p].cursor >= floor'
        PROVE  CaughtUp(feed', publications[p].contents, publications[p].cursor,
                        restore.finish, restore.goal)
    <3>1. publications[p].cursor >= floor /\ publications[p].cursor \in Nat
      BY <1>0, <2>2
    <3> QED
      BY <1>0, <1>1, <2>2, <3>1, TailStays DEF Leads
  <2> QED
    BY <2>1, <2>2
<1>2. ASSUME restore.pc # "idle"
      PROVE  /\ restore.finish <= length' /\ Len(restore.from) > 0
             /\ \A i \in 1 .. Len(restore.from) : Leads(restore.from[i])'
  <2>1. /\ restore.finish <= length /\ Len(restore.from) > 0
        /\ \A i \in 1 .. Len(restore.from) : Leads(restore.from[i])
    BY <1>2 DEF RestoreInv
  <2>2. \A i \in 1 .. Len(restore.from) : restore.from[i] \in Publication
    BY <1>0 DEF Restore
  <2>3. ASSUME NEW i \in 1 .. Len(restore.from) PROVE Leads(restore.from[i])'
    <3>1. restore.from[i] \in Publication /\ Leads(restore.from[i])
      BY <2>1, <2>2
    <3> QED
      BY <1>1, <2>1, <3>1 DEF Leads, State
  <2> QED
    BY <1>0, <2>1, <2>3
<1>3. ASSUME restore.pc = "pull", restore.cursor >= floor'
      PROVE  CaughtUp(feed', restore.staged, restore.cursor, restore.finish, restore.goal)
  <2>1. restore.finish <= length /\ restore.cursor >= floor
    BY <1>0, <1>3 DEF RestoreInv
  <2>2. CaughtUp(feed, restore.staged, restore.cursor, restore.finish, restore.goal)
    BY <1>3, <2>1 DEF RestoreInv
  <2> QED
    BY <1>0, <1>3, <2>1, <2>2, TailStays
<1>4. RestoreIsExact'
  BY DEF RestoreInv, RestoreIsExact
<1>5. restore' \in Restore
  BY <1>0
<1> QED
  BY <1>2, <1>3, <1>4, <1>5 DEF RestoreInv

\* A device that is not restoring.
LEMMA NoRestoreType ==
    /\ NoRestore \in Restore
    /\ \A n \in Nat : [NoRestore EXCEPT !.tries = n] \in Restore
                      /\ [NoRestore EXCEPT !.tries = n].pc = "idle"
<1>1. [k \in Entity |-> 0] \in Contents /\ 0 \in Cursor /\ <<>> \in Seq(Publication)
  BY Bounds DEF Contents, Cursor
<1> QED
  BY <1>1 DEF NoRestore, Restore

\* What is left of a list of manifests.
LEMMA TailOf ==
    ASSUME NEW list \in Seq(Publication), Len(list) > 1
    PROVE  /\ Tail(list) \in Seq(Publication)
           /\ Len(list) \in Nat /\ Len(Tail(list)) = Len(list) - 1
           /\ \A i \in 1 .. Len(Tail(list)) : Tail(list)[i] = list[i + 1]
<1>1. Tail(list) \in Seq(Publication) /\ Len(list) \in Nat
  OBVIOUS
<1>2. Len(Tail(list)) = Len(list) - 1
  OBVIOUS
<1>3. ASSUME NEW i \in 1 .. Len(list) - 1 PROVE Tail(list)[i] = list[i + 1]
  BY <1>3
<1> QED
  BY <1>1, <1>2, <1>3

\* The next manifest, or none.
LEMMA GiveUpIsSafe ==
    ASSUME TypeInv, RestoreInv, restore.pc # "idle", restore' = GiveUp,
           UNCHANGED <<logVars, publications>>
    PROVE  RestoreInv'
<1>0. restore \in Restore /\ restore.from \in Seq(Publication) /\ restore.tries \in Nat
      /\ Len(restore.from) > 0
  BY DEF RestoreInv, Restore
<1>1. CASE Len(restore.from) > 1
  <2>1. /\ Tail(restore.from) \in Seq(Publication)
        /\ Len(restore.from) \in Nat /\ Len(Tail(restore.from)) = Len(restore.from) - 1
        /\ \A i \in 1 .. Len(Tail(restore.from)) : Tail(restore.from)[i] = restore.from[i + 1]
    BY <1>0, <1>1, TailOf
  <2>2. restore' = [restore EXCEPT !.pc = "chunks", !.from = Tail(restore.from), !.got = {}]
    BY <1>1 DEF GiveUp
  <2>3. /\ restore' \in Restore /\ restore'.pc = "chunks"
        /\ restore'.from = Tail(restore.from) /\ restore'.finish = restore.finish
        /\ restore'.goal = restore.goal
    BY <1>0, <2>1, <2>2 DEF Restore
  <2>4. \A i \in 1 .. Len(restore'.from) : restore'.from[i] = restore.from[i + 1]
                                           /\ i + 1 \in 1 .. Len(restore.from)
    BY <1>0, <2>1, <2>3
  <2>5. restore.finish <= length /\ \A i \in 1 .. Len(restore.from) : Leads(restore.from[i])
    BY DEF RestoreInv
  <2>6. \A i \in 1 .. Len(restore'.from) : Leads(restore.from[i])'
    BY <2>3, <2>4, <2>5 DEF Leads, State, logVars
  <2>7. Len(restore'.from) > 0
    BY <1>1, <2>1, <2>3
  <2> QED
    BY <2>1, <2>3, <2>5, <2>6, <2>7 DEF RestoreInv, RestoreIsExact, logVars
<1>2. CASE ~(Len(restore.from) > 1)
  BY <1>0, <1>2, NoRestoreType DEF GiveUp, RestoreInv, RestoreIsExact, NoRestore
<1> QED
  BY <1>1, <1>2

\* A restore reads on to exactly what it wanted when it began.
LEMMA RestoreStep ==
    TypeInv /\ ChainInv /\ HeadsInv /\ RestoreInv /\ [Next]_vars => RestoreInv'
<1> SUFFICES ASSUME TypeInv, ChainInv, HeadsInv, RestoreInv, [Next]_vars PROVE RestoreInv'
  OBVIOUS
<1>0. restore \in Restore /\ length \in Cursor /\ revision \in Contents
  BY DEF RestoreInv, TypeInv, LogTypes, Contents
<1>1. CASE restore' = restore
  BY <1>1, RestoreWaits
<1>2. CASE RestoreBegin
  <2>1. /\ UNCHANGED <<logVars, publications>>
        /\ restore' = [NoRestore EXCEPT !.pc = "chunks", !.from = Candidates,
                                        !.finish = length, !.goal = revision,
                                        !.tries = restore.tries + 1]
        /\ Candidates # <<>>
    BY <1>2 DEF RestoreBegin, tables
  <2>2. /\ Candidates \in Seq(Publication) /\ Len(Candidates) > 0
        /\ restore.tries + 1 \in Nat
    BY <1>0, <2>1, CandidatesLead DEF Restore
  <2>3. /\ restore' \in Restore /\ restore'.pc = "chunks" /\ restore'.from = Candidates
        /\ restore'.finish = length /\ restore'.goal = revision
    BY <1>0, <2>1, <2>2, NoRestoreType DEF Restore
  <2>4. \A i \in 1 .. Len(Candidates) :
           /\ State(Candidates[i]) # "new"
           /\ CaughtUp(feed, publications[Candidates[i]].contents,
                       publications[Candidates[i]].cursor, length, revision)
    BY CandidatesLead
  <2>5. \A i \in 1 .. Len(restore'.from) : Leads(restore.from[i])'
    BY <2>1, <2>3, <2>4 DEF Leads, State, logVars
  <2> QED
    BY <2>1, <2>2, <2>3, <2>5, Numbers DEF RestoreInv, RestoreIsExact, logVars
<1>3. ASSUME NEW c \in Chunk, RestoreChunk(c) PROVE RestoreInv'
  <2>1. restore.pc = "chunks" /\ UNCHANGED <<logVars, publications>>
    BY <1>3 DEF RestoreChunk, tables
  <2>2. CASE restore' = GiveUp
    BY <2>1, <2>2, GiveUpIsSafe
  <2>3. CASE restore' = [restore EXCEPT !.got = restore.got \cup {c}]
    <3>1. /\ restore' \in Restore /\ restore'.pc = "chunks" /\ restore'.from = restore.from
          /\ restore'.finish = restore.finish /\ restore'.goal = restore.goal
      BY <1>0, <2>1, <2>3 DEF Restore
    <3> QED
      BY <2>1, <3>1 DEF RestoreInv, RestoreIsExact, Leads, State, logVars
  <2> QED
    BY <1>3, <2>2, <2>3 DEF RestoreChunk
<1>4. CASE RestoreStage
  <2> DEFINE p == Head(restore.from)
  <2>1. /\ restore.pc = "chunks" /\ UNCHANGED <<logVars, publications>>
        /\ restore' = [restore EXCEPT !.pc = "pull", !.staged = publications[p].contents,
                                      !.cursor = publications[p].cursor]
    BY <1>4 DEF RestoreStage, tables
  <2>2. /\ restore.from \in Seq(Publication) /\ Len(restore.from) > 0
        /\ \A i \in 1 .. Len(restore.from) : Leads(restore.from[i])
    BY <2>1 DEF RestoreInv, Restore
  <2>3. p \in Publication /\ Leads(p)
    BY <2>2
  <2> HIDE DEF p
  <2>4. publications[p].contents \in Contents /\ publications[p].cursor \in Cursor
    BY <2>3 DEF TypeInv, SnapshotTypeOK, PublicationRow
  <2>5. /\ restore' \in Restore /\ restore'.pc = "pull" /\ restore'.from = restore.from
        /\ restore'.finish = restore.finish /\ restore'.goal = restore.goal
        /\ restore'.staged = publications[p].contents
        /\ restore'.cursor = publications[p].cursor
    BY <1>0, <2>1, <2>4 DEF Restore
  <2>6. restore'.cursor >= floor =>
            CaughtUp(feed, restore'.staged, restore'.cursor, restore'.finish, restore'.goal)
    BY <2>3, <2>5 DEF Leads
  <2> QED
    BY <2>1, <2>5, <2>6 DEF RestoreInv, RestoreIsExact, Leads, State, logVars
<1>5. ASSUME NEW upTo \in Cursor, RestorePull(upTo) PROVE RestoreInv'
  <2>1. restore.pc = "pull" /\ UNCHANGED <<logVars, publications>>
    BY <1>5 DEF RestorePull, tables
  <2>2. CASE ResetRequired(restore.cursor)
    BY <1>5, <2>1, <2>2, GiveUpIsSafe DEF RestorePull
  <2>3. CASE ~ResetRequired(restore.cursor)
    <3> DEFINE page == {s \in Log!Position : /\ restore.cursor < s /\ s <= upTo
                                             /\ s <= restore.finish /\ feed[s] # NoEntry}
               next == Staged(restore.staged, page)
    <3>1. restore' = [restore EXCEPT !.staged = next, !.cursor = upTo,
                                     !.pc = IF upTo >= restore.finish THEN "done" ELSE "pull"]
      BY <1>5, <2>3 DEF RestorePull
    <3>2. /\ restore.staged \in Contents /\ restore.goal \in Contents
          /\ restore.cursor \in Nat /\ restore.finish \in Nat /\ upTo \in Nat
      BY <1>0, Bounds DEF Restore, Cursor
    <3>3. restore.cursor <= upTo
      <4>1. upTo \in (IF restore.cursor = length THEN {length}
                      ELSE restore.cursor + 1 .. length)
        BY <1>5 DEF RestorePull
      <4> QED
        BY <3>2, <4>1, Numbers
    <3>4. CaughtUp(feed, restore.staged, restore.cursor, restore.finish, restore.goal)
      BY <2>1, <2>3, <3>2, Numbers DEF RestoreInv, ResetRequired
    <3>5. /\ next \in Contents
          /\ CaughtUp(feed, next, upTo, restore.finish, restore.goal)
          /\ upTo >= restore.finish => next = restore.goal
      BY <3>2, <3>3, <3>4, PageThenRest
    <3> HIDE DEF next, page
    <3>6. /\ restore' \in Restore /\ restore'.from = restore.from
          /\ restore'.pc = IF upTo >= restore.finish THEN "done" ELSE "pull"
          /\ restore'.finish = restore.finish /\ restore'.goal = restore.goal
          /\ restore'.staged = next /\ restore'.cursor = upTo
      BY <1>0, <3>1, <3>5 DEF Restore
    <3> QED
      BY <2>1, <3>5, <3>6 DEF RestoreInv, RestoreIsExact, Leads, State, logVars
  <2> QED
    BY <2>2, <2>3
<1>6. CASE RestoreActivate
  <2>1. restore' = [NoRestore EXCEPT !.tries = restore.tries] /\ restore.tries \in Nat
    BY <1>0, <1>6 DEF RestoreActivate, Restore
  <2> QED
    BY <2>1, NoRestoreType DEF RestoreInv, RestoreIsExact, NoRestore
<1> QED
  BY <1>1, <1>2, <1>3, <1>4, <1>5, <1>6
     DEF Next, CallStep, SweepStep, Write, KeyRotated, ScanFinished, Begin, Verify, Commit,
     ChunkPut, UploadWindowCloses, ChunkStored, ChunkPutDone, VerifyDone, DeleteReaches,
     SweepCommit, SweepDeletes, SweepRecord, Evicted, vars

---------------------------------------------------------------------------

\* The account before its first write and first snapshot.
LEMMA InitInv == Init => Inv
<1> SUFFICES ASSUME Init PROVE Inv
  OBVIOUS
<1>0. /\ length = 0 /\ floor = 0 /\ target = 0 /\ aged = 0 /\ keyVersion = 1
      /\ revision = [k \in Entity |-> 0] /\ feed = [s \in Log!Position |-> NoEntry]
      /\ \A p \in Publication : State(p) = "new" /\ ~publications[p].committed
      /\ \A p \in Publication : snapshots[p] = NoSnapshot
      /\ \A x \in Key : chunks[x] = "none"
      /\ objects = {} /\ puts = {} /\ deletes = {} /\ sweep = NoSweep /\ restore = NoRestore
  BY DEF Init, Log!Init, State
<1>1. TypeInv
  <2>1. publications \in [Publication -> PublicationRow]
    BY Bounds DEF Init, PublicationRow, Cursor, Contents
  <2>2. snapshots \in [Publication -> SnapshotRow]
    BY Bounds DEF Init, SnapshotRow, NoSnapshot
  <2>3. /\ chunks \in [Key -> {"none", "uploading", "uploaded", "deleting"}]
        /\ overdue \subseteq Publication /\ verifies \subseteq Publication
    BY DEF Init
  <2>4. LogTypes
    BY <1>0, Bounds DEF LogTypes, Cursor
  <2>5. sweep \in [pc : {"idle", "drain", "record"}, batch : SUBSET Key]
    BY <1>0 DEF NoSweep
  <2>6. SnapshotTypeOK
    BY <1>0, <2>1, <2>2, <2>3, <2>4 DEF SnapshotTypeOK, LogTypes
  <2> QED
    BY <1>0, <2>3, <2>4, <2>5, <2>6 DEF TypeInv
<1>2. Active = {} /\ Retained = {} /\ Published = {} /\ Committed = {}
  BY <1>0 DEF Active, Retained, Published, Committed, NoSnapshot
<1>3. ChainInv
  BY <1>2, FS_EmptySet DEF ChainInv, Generation
<1>4. TailInv
  BY <1>0, <1>2 DEF TailInv, TailKept
<1>5. OwnInv
  BY <1>0 DEF OwnInv, Queued, ObjectsAreOwned, NoSweep
<1>6. ReadInv
  BY <1>0, <1>2 DEF ReadInv, KeyInv, Key
<1>7. HeadsInv
  BY <1>0 DEF HeadsInv
<1>8. RestoreInv
  BY <1>0, NoRestoreType DEF RestoreInv, RestoreIsExact, NoRestore
<1> QED
  BY <1>1, <1>3, <1>4, <1>5, <1>6, <1>7, <1>8 DEF Inv

\* Every step preserves the whole invariant.
LEMMA NextInv == Inv /\ [Next]_vars => Inv'
  BY TypeStep, ChainStep, TailStep, OwnStep, ReadStep, HeadsStep, RestoreStep DEF Inv

\* The conjunction of everything the snapshots' correctness rests on is inductive.
THEOREM SnapshotInvariant == Spec => []Inv
<1>1. Inv /\ UNCHANGED vars => Inv'
  BY NextInv
<1> QED
  BY InitInv, NextInv, PTL DEF Spec

\* Every table keeps its type, and a chunk row belongs to a publication that was
\* begun and not deleted (SnapshotTypeOK).
THEOREM SnapshotTypes == Spec => []SnapshotTypeOK
<1>1. Inv => SnapshotTypeOK
  BY DEF Inv, TypeInv
<1> QED
  BY SnapshotInvariant, <1>1, PTL

\* A set with no two members has at most one.
LEMMA AtMostOne ==
    ASSUME NEW S, \A x, y \in S : x = y
    PROVE  Cardinality(S) <= 1
<1>1. CASE S = {}
  BY <1>1, FS_EmptySet
<1>2. ASSUME NEW x \in S PROVE Cardinality(S) <= 1
  <2>1. S = {x}
    BY <1>2
  <2> QED
    BY <2>1, FS_Singleton
<1> QED
  BY <1>1, <1>2

\* sync.snapshot.commit never forks the chain of generations: there is one active
\* and at most one retained snapshot, each begun on the generation before it, and
\* the newer never reaches less far (OneChain).
THEOREM GenerationsFormOneChain == Spec => []OneChain
<1>1. Inv => OneChain
  BY AtMostOne DEF Inv, ChainInv, OneChain
<1> QED
  BY SnapshotInvariant, <1>1, PTL

\* Compaction never drops what a published snapshot needs to be caught up; only
\* the age of the entries does (TailKept).
THEOREM CompactionSparesTails == Spec => []TailKept
<1>1. Inv => TailKept
  BY DEF Inv, TailInv
<1> QED
  BY SnapshotInvariant, <1>1, PTL

\* No object is left behind in R2 without a row, a call or a delete that will
\* settle it, short of a fault (ObjectsAreOwned).
THEOREM NoOrphanObjects == Spec => []ObjectsAreOwned
<1>1. Inv => ObjectsAreOwned
  BY DEF Inv, OwnInv
<1> QED
  BY SnapshotInvariant, <1>1, PTL

\* Where a device does not send a chunk again while its first call runs, every chunk
\* sync.snapshot.get leads to is in R2 (PublishedStaysReadable).
THEOREM ManifestsAreReadable == Spec => [](~Retried => PublishedStaysReadable)
<1>1. Inv => (~Retried => PublishedStaysReadable)
  <2> SUFFICES ASSUME Inv, ~Retried, NEW p \in Published, NEW c \in Chunk
               PROVE  chunks[<<p, c>>] = "uploaded" /\ <<p, c>> \in objects
    BY DEF PublishedStaysReadable
  <2>1. KeyInv(p, c) /\ Complete(p)
    BY DEF Inv, ReadInv, Published
  <2> QED
    BY <2>1 DEF KeyInv, Complete
<1> QED
  BY SnapshotInvariant, <1>1, PTL

\* restorePublishedSnapshot gives the device exactly the heads of the moment it
\* asked for the manifests, whichever manifest it ends up with and whatever is
\* written, committed, compacted or aged out meanwhile (RestoreIsExact).
THEOREM RestoredDeviceIsExact == Spec => []RestoreIsExact
<1>1. Inv => RestoreIsExact
  BY DEF Inv, RestoreInv
<1> QED
  BY SnapshotInvariant, <1>1, PTL

=============================================================================
