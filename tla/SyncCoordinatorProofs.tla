------------------------ MODULE SyncCoordinatorProofs ------------------------
(***************************************************************************)
(* Proofs about SyncCoordinator, for every set of enrollments, entities    *)
(* and payloads and every bound.                                           *)
(***************************************************************************)
EXTENDS SyncCoordinator, FiniteSetTheorems, TLAPS

\* Counters stay below the next sequence number.
CountersInv ==
    /\ retentionFloor < nextSequence
    /\ compactionTarget < nextSequence
    /\ historyBytes < nextSequence

\* Every assigned sequence holds one accepted change.
HistoryInv ==
    \A s \in Sequence :
        IF s < nextSequence
        THEN /\ history[s].entity \in Entity
             /\ history[s].revision \in 1 .. s
             /\ history[s].baseRevision = history[s].revision - 1
             /\ history[s].operation = "delete" <=> history[s].payload = NoPayload
        ELSE history[s] = NoHistory

\* The head row is the last accepted change of its entity.
HeadsInv ==
    \A k \in Entity :
        IF entities[k].revision = 0
        THEN /\ entities[k] = NoHead
             /\ \A s \in Sequence : history[s].entity # k
        ELSE /\ entities[k].sequence \in Sequence
             /\ entities[k].sequence < nextSequence
             /\ history[entities[k].sequence].entity = k
             /\ history[entities[k].sequence].revision = entities[k].revision
             /\ history[entities[k].sequence].operation = entities[k].operation
             /\ history[entities[k].sequence].payload = entities[k].payload
             /\ \A s \in Sequence :
                   history[s].entity = k => s <= entities[k].sequence

\* The journal holds exactly the rows above the floor; a row without its
\* payload is a deletion or its entity's head.
JournalInv ==
    \A s \in Sequence :
        IF retentionFloor < s /\ s < nextSequence
        THEN /\ changes[s].entity = history[s].entity
             /\ changes[s].revision = history[s].revision
             /\ changes[s].operation = history[s].operation
             /\ \/ changes[s].payload = history[s].payload
                \/ /\ changes[s].payload = NoPayload
                   /\ entities[changes[s].entity].sequence = s
        ELSE changes[s] = NoChange

\* The revisions of one entity grow with the sequence, without a gap.
ChainInv ==
    \A s \in Sequence : s < nextSequence =>
        /\ \A t \in Sequence :
              t < s /\ history[t].entity = history[s].entity
                  => history[t].revision < history[s].revision
        /\ history[s].revision > 1 =>
              \E t \in Sequence :
                  /\ t < s
                  /\ history[t].entity = history[s].entity
                  /\ history[t].revision = history[s].revision - 1

\* A receipt's sequence is at or below its enrollment's high water.
ReceiptsInv ==
    \A e \in Enrollment, n \in EnrollmentSequence :
        HasReceipt(e, n) => n <= highWater[e]

\* The two halves of TypeOK, for steps that touch one of them.
JournalTypeOK ==
    /\ nextSequence \in 1 .. MaxSequence + 1
    /\ retentionFloor \in 0 .. MaxSequence
    /\ compactionTarget \in 0 .. MaxSequence
    /\ historyBytes \in 0 .. MaxSequence
    /\ entities \in [Entity -> EntityRow]
    /\ changes \in [Sequence -> ChangeRow]
    /\ history \in [Sequence -> HistoryRow]
PushTypeOK ==
    /\ highWater \in [Enrollment -> 0 .. MaxEnrollmentSequence]
    /\ receipts \in [Enrollment -> [EnrollmentSequence -> Receipt]]

JournalHalf == /\ JournalTypeOK /\ CountersInv /\ HistoryInv /\ HeadsInv
               /\ JournalInv /\ ChainInv
PushHalf == PushTypeOK /\ ReceiptsInv
Inv == JournalHalf /\ PushHalf /\ restricted \in BOOLEAN

---------------------------------------------------------------------------

\* Init establishes the inductive invariant.
LEMMA InitInv == Init => Inv
<1> SUFFICES ASSUME Init PROVE Inv
  OBVIOUS
<1> USE CoordinatorAssumption DEF Init
<1>1. JournalTypeOK
  BY DEF JournalTypeOK, EntityRow, ChangeRow, HistoryRow, NoHead, NoChange,
         NoHistory, Operation, PayloadOrNull, Sequence
<1>2. CountersInv
  BY DEF CountersInv
<1>3. HistoryInv
  BY DEF HistoryInv, Sequence
<1>4. HeadsInv
  BY DEF HeadsInv, NoHead, NoHistory
<1>5. JournalInv
  BY DEF JournalInv, Sequence
<1>6. ChainInv
  BY DEF ChainInv, Sequence
<1>7. PushTypeOK
  BY DEF PushTypeOK, Receipt, NoReceipt, NoContent, Result, NoResult, Status,
         PayloadOrNull, EnrollmentSequence
<1>8. ReceiptsInv
  BY DEF ReceiptsInv, HasReceipt, NoReceipt, NoResult
<1> QED
  BY <1>1, <1>2, <1>3, <1>4, <1>5, <1>6, <1>7, <1>8 DEF Inv, JournalHalf, PushHalf

\* Appending a revision on top of the current head keeps the journal half:
\* the superseded head's payload reaches its journal row before the head
\* changes, so no row above the floor loses its content.
LEMMA AppendKeepsJournal ==
  ASSUME JournalHalf, NEW k \in Entity, NEW op \in Operation,
         NEW p \in PayloadOrNull, op = "delete" <=> p = NoPayload,
         Append(k, op, entities[k].revision, p)
  PROVE  JournalHalf'
<1> DEFINE h == entities[k]
           r == h.revision + 1
<1> USE CoordinatorAssumption
<1>0. /\ nextSequence \in Sequence
      /\ h \in EntityRow
      /\ h.revision \in 0 .. MaxSequence
      /\ h.revision < nextSequence
      /\ r \in 1 .. nextSequence
      /\ r \in 0 .. MaxSequence
  BY DEF JournalHalf, JournalTypeOK, EntityRow, HeadsInv, HistoryInv, Append,
         Sequence
<1>1. /\ nextSequence' = nextSequence + 1
      /\ retentionFloor' = retentionFloor
      /\ compactionTarget' = compactionTarget
      /\ historyBytes' \in {historyBytes, historyBytes + 1}
  BY DEF Append, EntityBytes, JournalHalf, JournalTypeOK
<1>2. /\ entities' = [entities EXCEPT ![k] =
              [revision |-> r, operation |-> op, payload |-> p,
               sequence |-> nextSequence]]
      /\ history' = [history EXCEPT ![nextSequence] =
              [entity |-> k, revision |-> r, operation |-> op, payload |-> p,
               baseRevision |-> h.revision]]
      /\ changes' = [PreserveHead(h) EXCEPT ![nextSequence] =
              [entity |-> k, revision |-> r, operation |-> op,
               payload |-> NoPayload]]
  BY DEF Append
<1>3. /\ PreserveHead(h) \in [Sequence -> ChangeRow]
      /\ \A s \in Sequence :
            /\ PreserveHead(h)[s].entity = changes[s].entity
            /\ PreserveHead(h)[s].revision = changes[s].revision
            /\ PreserveHead(h)[s].operation = changes[s].operation
            /\ s # h.sequence => PreserveHead(h)[s] = changes[s]
  <2>0. changes \in [Sequence -> ChangeRow]
    BY DEF JournalHalf, JournalTypeOK
  <2>1. CASE PreserveHead(h) = changes
    BY <2>0, <2>1
  <2>2. CASE PreserveHead(h) # changes
    <3>1. /\ h.operation # "delete"
          /\ PreserveHead(h) =
                 [changes EXCEPT ![h.sequence].payload = h.payload]
      BY <2>2 DEF PreserveHead
    <3>2. h.sequence \in Sequence
      BY <3>1 DEF JournalHalf, HeadsInv, NoHead
    <3>3. h.payload \in PayloadOrNull
      BY <1>0 DEF EntityRow
    <3>4. changes[h.sequence] \in ChangeRow
      BY <2>0, <3>2
    <3> QED
      BY <2>0, <3>1, <3>2, <3>3, <3>4 DEF ChangeRow
  <2> QED
    BY <2>1, <2>2
<1>4. \A s \in Sequence : s # nextSequence =>
         /\ history'[s] = history[s]
         /\ changes'[s] = PreserveHead(h)[s]
  BY <1>2, <1>3, <1>0 DEF JournalHalf, JournalTypeOK
<1>5. /\ history'[nextSequence] =
              [entity |-> k, revision |-> r, operation |-> op, payload |-> p,
               baseRevision |-> h.revision]
      /\ changes'[nextSequence] =
              [entity |-> k, revision |-> r, operation |-> op,
               payload |-> NoPayload]
      /\ entities'[k] = [revision |-> r, operation |-> op, payload |-> p,
                         sequence |-> nextSequence]
      /\ \A j \in Entity \ {k} : entities'[j] = entities[j]
  BY <1>2, <1>3, <1>0 DEF JournalHalf, JournalTypeOK
<1>6. JournalTypeOK'
  <2>1. entities' \in [Entity -> EntityRow]
    BY <1>2, <1>0 DEF JournalHalf, JournalTypeOK, EntityRow, Sequence
  <2>2. changes' \in [Sequence -> ChangeRow]
    BY <1>2, <1>3, <1>0 DEF ChangeRow, PayloadOrNull
  <2>3. history' \in [Sequence -> HistoryRow]
    BY <1>2, <1>0 DEF JournalHalf, JournalTypeOK, HistoryRow
  <2>4. historyBytes' \in 0 .. MaxSequence
    BY <1>1, <1>0 DEF JournalHalf, JournalTypeOK, CountersInv, Sequence
  <2>5. nextSequence' \in 1 .. MaxSequence + 1
    BY <1>1, <1>0 DEF Sequence
  <2> QED
    BY <2>1, <2>2, <2>3, <2>4, <2>5, <1>1 DEF JournalHalf, JournalTypeOK
<1>7. CountersInv'
  BY <1>1 DEF JournalHalf, JournalTypeOK, CountersInv
<1>8. HistoryInv'
  <2> SUFFICES ASSUME NEW s \in Sequence
               PROVE  IF s < nextSequence'
                      THEN /\ history'[s].entity \in Entity
                           /\ history'[s].revision \in 1 .. s
                           /\ history'[s].baseRevision = history'[s].revision - 1
                           /\ history'[s].operation = "delete"
                                <=> history'[s].payload = NoPayload
                      ELSE history'[s] = NoHistory
    BY DEF HistoryInv
  <2>1. CASE s = nextSequence
    <3>1. history'[s] = [entity |-> k, revision |-> r, operation |-> op,
                         payload |-> p, baseRevision |-> h.revision]
      BY <2>1, <1>5
    <3>2. s < nextSequence'
      BY <2>1, <1>1, <1>0 DEF Sequence
    <3>3. h.revision = r - 1
      BY <1>0
    <3> QED
      BY <2>1, <3>1, <3>2, <3>3, <1>0
  <2>2. CASE s # nextSequence
    BY <2>2, <1>4, <1>1, <1>0 DEF JournalHalf, HistoryInv, Sequence
  <2> QED
    BY <2>1, <2>2
<1>9. HeadsInv'
  <2> SUFFICES ASSUME NEW j \in Entity
               PROVE  IF entities'[j].revision = 0
                      THEN /\ entities'[j] = NoHead
                           /\ \A s \in Sequence : history'[s].entity # j
                      ELSE /\ entities'[j].sequence \in Sequence
                           /\ entities'[j].sequence < nextSequence'
                           /\ history'[entities'[j].sequence].entity = j
                           /\ history'[entities'[j].sequence].revision
                                = entities'[j].revision
                           /\ history'[entities'[j].sequence].operation
                                = entities'[j].operation
                           /\ history'[entities'[j].sequence].payload
                                = entities'[j].payload
                           /\ \A s \in Sequence : history'[s].entity = j =>
                                 s <= entities'[j].sequence
    BY DEF HeadsInv
  <2>1. CASE j = k
    <3>1. \A s \in Sequence : history'[s].entity = k => s <= nextSequence
      BY <1>4, <1>5, <1>0 DEF JournalHalf, HistoryInv, NoHistory, Sequence
    <3> QED
      BY <2>1, <3>1, <1>5, <1>1, <1>0 DEF Sequence
  <2>2. CASE j # k
    <3>1. entities'[j] = entities[j]
      BY <2>2, <1>5
    <3>2. \A s \in Sequence : history'[s].entity = j => history[s].entity = j
      BY <2>2, <1>4, <1>5
    <3>3. \A s \in Sequence : s < nextSequence => history'[s] = history[s]
      BY <1>4, <1>0 DEF Sequence
    <3> QED
      BY <3>1, <3>2, <3>3, <1>1, <1>0 DEF JournalHalf, HeadsInv, Sequence
  <2> QED
    BY <2>1, <2>2
<1>10. JournalInv'
  <2> SUFFICES ASSUME NEW s \in Sequence
               PROVE  IF retentionFloor < s /\ s < nextSequence + 1
                      THEN /\ changes'[s].entity = history'[s].entity
                           /\ changes'[s].revision = history'[s].revision
                           /\ changes'[s].operation = history'[s].operation
                           /\ \/ changes'[s].payload = history'[s].payload
                              \/ /\ changes'[s].payload = NoPayload
                                 /\ entities'[changes'[s].entity].sequence = s
                      ELSE changes'[s] = NoChange
    BY <1>1 DEF JournalInv
  <2>1. CASE s = nextSequence
    BY <2>1, <1>5, <1>0 DEF JournalHalf, CountersInv, JournalTypeOK, Sequence
  <2>2. CASE s # nextSequence /\ retentionFloor < s /\ s < nextSequence
    <3>1. /\ changes[s].entity = history[s].entity
          /\ changes[s].revision = history[s].revision
          /\ changes[s].operation = history[s].operation
          /\ changes[s].entity \in Entity
          /\ history[s].revision # 0
          /\ \/ changes[s].payload = history[s].payload
             \/ /\ changes[s].payload = NoPayload
                /\ entities[changes[s].entity].sequence = s
      <4>1. history[s].entity \in Entity /\ history[s].revision \in 1 .. s
        BY <2>2 DEF JournalHalf, HistoryInv
      <4> QED
        BY <4>1, <2>2 DEF JournalHalf, JournalInv, Sequence
    <3>2. /\ history'[s] = history[s]
          /\ changes'[s] = PreserveHead(h)[s]
      BY <2>2, <1>4
    <3>3. CASE s # h.sequence
      <4>1. changes'[s] = changes[s]
        BY <3>3, <3>2, <1>3
      <4>2. entities[changes[s].entity].sequence = s =>
               entities'[changes[s].entity].sequence = s
        BY <3>3, <3>1, <1>5
      <4> QED
        BY <4>1, <4>2, <3>1, <3>2, <2>2, <1>0 DEF Sequence
    <3>4. CASE s = h.sequence
      <4>1. /\ h.revision # 0
            /\ history[s].payload = h.payload
            /\ history[s].operation = h.operation
            /\ h.operation = "delete" <=> h.payload = NoPayload
        BY <3>4, <1>0, <2>2 DEF JournalHalf, HeadsInv, HistoryInv, NoHead, Sequence
      <4>2. PreserveHead(h)[s].payload = history[s].payload
        BY <4>1, <3>1, <3>4, <1>0
           DEF PreserveHead, JournalHalf, JournalTypeOK, ChangeRow
      <4> QED
        BY <4>2, <3>1, <3>2, <1>3, <2>2, <1>0 DEF Sequence
    <3> QED
      BY <3>3, <3>4
  <2>3. CASE s # nextSequence /\ ~(retentionFloor < s /\ s < nextSequence)
    <3>1. changes[s] = NoChange
      BY <2>3 DEF JournalHalf, JournalInv
    <3>2. PreserveHead(h)[s] = NoChange
      BY <3>1 DEF PreserveHead, JournalHalf, JournalTypeOK, NoChange
    <3> QED
      BY <3>2, <1>4, <2>3, <1>0 DEF JournalHalf, JournalTypeOK, Sequence
  <2> QED
    BY <2>1, <2>2, <2>3
<1>11. ChainInv'
  <2> SUFFICES ASSUME NEW s \in Sequence, s < nextSequence'
               PROVE  /\ \A t \in Sequence :
                            t < s /\ history'[t].entity = history'[s].entity
                                => history'[t].revision < history'[s].revision
                      /\ history'[s].revision > 1 =>
                            \E t \in Sequence :
                               /\ t < s
                               /\ history'[t].entity = history'[s].entity
                               /\ history'[t].revision = history'[s].revision - 1
    BY DEF ChainInv
  <2>1. CASE s = nextSequence
    <3>1. ASSUME NEW t \in Sequence, t < s, history'[t].entity = k
          PROVE  history'[t].revision < r
      <4>1. history'[t] = history[t]
        BY <3>1, <2>1, <1>4, <1>0 DEF Sequence
      <4>2. /\ h.revision # 0
            /\ t <= h.sequence
            /\ h.sequence \in Sequence
            /\ h.sequence < nextSequence
            /\ history[h.sequence].entity = k
            /\ history[h.sequence].revision = h.revision
        BY <4>1, <3>1 DEF JournalHalf, HeadsInv
      <4>3. history[t].revision <= h.revision
        <5>1. history[t].revision \in Int
          BY <3>1 DEF JournalHalf, JournalTypeOK, HistoryRow
        <5>2. CASE t = h.sequence
          BY <5>1, <5>2, <4>2
        <5>3. CASE t < h.sequence
          BY <5>1, <5>3, <4>1, <4>2, <3>1, <1>0 DEF JournalHalf, ChainInv
        <5> QED
          BY <5>2, <5>3, <4>2 DEF Sequence
      <4> QED
        BY <4>1, <4>3, <1>0, <3>1, <2>1 DEF JournalHalf, HistoryInv, Sequence
    <3>2. ASSUME r > 1
          PROVE  \E t \in Sequence : /\ t < s
                                     /\ history'[t].entity = k
                                     /\ history'[t].revision = r - 1
      <4>1. /\ h.sequence \in Sequence
            /\ h.sequence < nextSequence
            /\ history[h.sequence].entity = k
            /\ history[h.sequence].revision = h.revision
        BY <3>2, <1>0 DEF JournalHalf, HeadsInv
      <4>2. history'[h.sequence] = history[h.sequence]
        BY <4>1, <1>4, <1>0 DEF Sequence
      <4> QED
        BY <4>1, <4>2, <2>1, <1>0
    <3> QED
      BY <3>1, <3>2, <2>1, <1>5
  <2>2. CASE s # nextSequence
    <3>1. s < nextSequence
      BY <2>2, <1>1, <1>0 DEF Sequence
    <3>2. \A t \in Sequence : t <= s => history'[t] = history[t]
      BY <3>1, <1>4, <1>0 DEF Sequence
    <3>3. /\ \A t \in Sequence :
                t < s /\ history[t].entity = history[s].entity
                    => history[t].revision < history[s].revision
          /\ history[s].revision > 1 =>
                \E t \in Sequence :
                   /\ t < s
                   /\ history[t].entity = history[s].entity
                   /\ history[t].revision = history[s].revision - 1
      BY <3>1 DEF JournalHalf, ChainInv
    <3> QED
      BY <3>2, <3>3 DEF Sequence
  <2> QED
    BY <2>1, <2>2
<1> QED
  BY <1>6, <1>7, <1>8, <1>9, <1>10, <1>11 DEF JournalHalf

\* An accepted push or an import is an append on the current head.
LEMMA FreshPushKeepsInv ==
  ASSUME Inv, NEW e \in Enrollment, NEW n \in EnrollmentSequence,
         NEW c \in Content, WellFormed(c), PushFresh(e, n, c)
  PROVE  Inv'
<1> DEFINE result == FreshResult(e, n, c)
<1> USE CoordinatorAssumption
<1>1. /\ c.entity \in Entity /\ c.operation \in Operation
      /\ c.baseRevision \in 0 .. MaxSequence /\ c.payload \in PayloadOrNull
      /\ c.operation = "delete" <=> c.payload = NoPayload
      /\ c.operation = "create" <=> c.baseRevision = 0
  BY DEF Content, WellFormed
<1>2. entities[c.entity] \in EntityRow
  BY <1>1 DEF Inv, JournalHalf, JournalTypeOK
<1>3. CASE result.status = "accepted"
  <2>1. /\ BaseMatches(c, entities[c.entity])
        /\ result = Accepted(c)
    BY <1>3 DEF FreshResult, Plain, Conflict
  <2>2. c.baseRevision = entities[c.entity].revision
    BY <2>1, <1>1, <1>2 DEF BaseMatches, EntityRow
  <2>3. Append(c.entity, c.operation, c.baseRevision, c.payload)
    BY <1>3 DEF PushFresh
  <2>4. Append(c.entity, c.operation, entities[c.entity].revision, c.payload)
    BY <2>2, <2>3
  <2>5. JournalHalf'
    BY <2>4, <1>1, AppendKeepsJournal DEF Inv
  <2>6. entities[c.entity].revision + 1 \in 0 .. MaxSequence
    BY <1>1, <2>3 DEF Append, Inv, JournalHalf, JournalTypeOK, HeadsInv,
                      HistoryInv, NoHead, Sequence
  <2>7. result \in Result
    BY <2>1, <2>6, <1>1 DEF Accepted, Result, Status
  <2> HIDE DEF result
  <2>8. PushHalf' /\ restricted' \in BOOLEAN
    <3>1. WriteReceipt(e, n, c, result) /\ UNCHANGED restricted
      BY DEF PushFresh, result
    <3>2. [content |-> c, result |-> result] \in Receipt
      BY <2>7 DEF Receipt
    <3> QED
      BY <3>1, <3>2 DEF WriteReceipt, Inv, PushHalf, PushTypeOK, ReceiptsInv,
                        HasReceipt, EnrollmentSequence
  <2> QED
    BY <2>5, <2>8 DEF Inv
<1>4. CASE result.status # "accepted"
  <2>1. /\ WriteReceipt(e, n, c, result) /\ UNCHANGED restricted
        /\ UNCHANGED journalVars
    BY <1>4 DEF PushFresh
  <2>2. result \in Result
    <3>1. Conflict(entities[c.entity]) \in Result
      BY <1>2 DEF Conflict, Result, Status, EntityRow
    <3>2. Plain("receipt-expired") \in Result /\ Plain("quota-exceeded") \in Result
      BY DEF Plain, Result, Status, PayloadOrNull
    <3>3. result \in {Plain("receipt-expired"), Plain("quota-exceeded"),
                      Conflict(entities[c.entity]), Accepted(c)}
      BY DEF FreshResult
    <3>4. result # Accepted(c)
      BY <1>4 DEF Accepted
    <3> QED
      BY <3>1, <3>2, <3>3, <3>4
  <2> HIDE DEF result
  <2>3. PushHalf' /\ restricted' \in BOOLEAN
    <3>2. [content |-> c, result |-> result] \in Receipt
      BY <2>2 DEF Receipt
    <3> QED
      BY <2>1, <3>2 DEF WriteReceipt, Inv, PushHalf, PushTypeOK, ReceiptsInv,
                        HasReceipt, EnrollmentSequence
  <2>4. JournalHalf'
    BY <2>1 DEF journalVars, Inv, JournalHalf, JournalTypeOK, CountersInv,
                HistoryInv, HeadsInv, JournalInv, ChainInv
  <2> QED
    BY <2>3, <2>4 DEF Inv
<1> QED
  BY <1>3, <1>4

\* A push keeps the invariant: a receipted item changes nothing.
LEMMA PushKeepsInv ==
  ASSUME Inv, NEW e \in Enrollment, NEW n \in EnrollmentSequence,
         NEW c \in Content, Push(e, n, c)
  PROVE  Inv'
<1>1. CASE PushFresh(e, n, c)
  BY <1>1, FreshPushKeepsInv DEF Push
<1>2. CASE UNCHANGED vars
  BY <1>2 DEF vars, journalVars, pushVars, Inv, JournalHalf, JournalTypeOK,
              CountersInv, HistoryInv, HeadsInv, JournalInv, ChainInv, PushHalf,
              PushTypeOK, ReceiptsInv, HasReceipt
<1> QED
  BY <1>1, <1>2 DEF Push

\* An import of an absent entity is an append.
LEMMA ImportKeepsInv ==
  ASSUME Inv, NEW k \in Entity, NEW p \in Payload, ImportCommit(k, p)
  PROVE  Inv'
<1>1. /\ "create" \in Operation /\ p \in PayloadOrNull /\ p # NoPayload
      /\ entities[k].revision = 0
      /\ Append(k, "create", 0, p)
      /\ UNCHANGED <<pushVars, restricted>>
  BY CoordinatorAssumption DEF ImportCommit, Operation, PayloadOrNull
<1>2. Append(k, "create", entities[k].revision, p)
  BY <1>1
<1>3. JournalHalf'
  BY <1>1, <1>2, AppendKeepsJournal DEF Inv
<1> QED
  BY <1>1, <1>3 DEF Inv, PushHalf, PushTypeOK, ReceiptsInv, HasReceipt, pushVars

\* The sweep keeps the invariant: what it deletes is a prefix of the journal
\* and the floor moves to the end of that prefix.
LEMMA SweepKeepsInv ==
  ASSUME Inv, NEW last \in 0 .. MaxSequence, NEW upTo \in 0 .. MaxSequence,
         NEW stale, Sweep(last, upTo, stale)
  PROVE  Inv'
<1> DEFINE expired == {s \in Journal : s <= last}
           floor == IF last > retentionFloor THEN last ELSE retentionFloor
           compacting == compactionTarget > floor
           compactable == {s \in Journal \ expired :
                              floor < s /\ s <= compactionTarget}
           deleted == expired \cup {s \in compactable : s <= upTo}
           freed == Cardinality({s \in deleted : changes[s].payload # NoPayload})
<1> USE CoordinatorAssumption
<1>1. /\ last \in Journal \cup {0}
      /\ upTo \in (IF ~compacting THEN {floor}
                   ELSE IF compactable = {} THEN {compactionTarget}
                   ELSE compactable)
      /\ changes' = [s \in Sequence |->
                        IF s \in deleted THEN NoChange ELSE changes[s]]
      /\ retentionFloor' = upTo
      /\ compactionTarget' = IF compacting /\ upTo >= compactionTarget
                              THEN 0 ELSE compactionTarget
      /\ historyBytes' = IF historyBytes > freed THEN historyBytes - freed ELSE 0
      /\ receipts' = [e \in Enrollment |-> [n \in EnrollmentSequence |->
                         IF <<e, n>> \in stale THEN NoReceipt ELSE receipts[e][n]]]
      /\ UNCHANGED <<nextSequence, entities, history, highWater, restricted>>
  BY DEF Sweep
<1>2. \A s \in Sequence : s \in Journal <=> retentionFloor < s /\ s < nextSequence
  BY DEF Journal, Inv, JournalHalf, JournalInv, HistoryInv, NoChange, Sequence
<1>3. Journal \subseteq Sequence
  BY DEF Journal
<1>4. /\ nextSequence \in 1 .. MaxSequence + 1
      /\ retentionFloor \in 0 .. MaxSequence /\ retentionFloor < nextSequence
      /\ compactionTarget \in 0 .. MaxSequence /\ compactionTarget < nextSequence
      /\ historyBytes \in 0 .. MaxSequence /\ historyBytes < nextSequence
  BY DEF Inv, JournalHalf, JournalTypeOK, CountersInv
<1>5. /\ floor \in 0 .. MaxSequence /\ floor < nextSequence
      /\ retentionFloor <= floor
      /\ upTo < nextSequence /\ floor <= upTo
  BY <1>1, <1>2, <1>3, <1>4 DEF Sequence
<1>6. \A s \in Sequence : s \in deleted <=> retentionFloor < s /\ s <= upTo
  <2> SUFFICES ASSUME NEW s \in Sequence
               PROVE  s \in deleted <=> retentionFloor < s /\ s <= upTo
    OBVIOUS
  <2>1. s \in deleted => retentionFloor < s /\ s <= upTo
    BY <1>1, <1>2, <1>3, <1>4, <1>5 DEF Sequence
  <2>2. retentionFloor < s /\ s <= upTo => s \in deleted
    BY <1>1, <1>2, <1>3, <1>4, <1>5 DEF Sequence
  <2> QED
    BY <2>1, <2>2
<1>7. freed \in Nat
  <2>1. IsFiniteSet(Sequence)
    BY FS_Interval DEF Sequence
  <2>2. {s \in deleted : changes[s].payload # NoPayload} \subseteq Sequence
    BY <1>3
  <2> QED
    BY <2>1, <2>2, FS_Subset, FS_CardinalityType
<1> HIDE DEF deleted, freed, floor, compacting, compactable
<1>8. JournalTypeOK'
  <2>1. changes' \in [Sequence -> ChangeRow]
    BY <1>1 DEF Inv, JournalHalf, JournalTypeOK, ChangeRow, NoChange, Operation,
                PayloadOrNull
  <2>2. historyBytes' \in 0 .. MaxSequence
    BY <1>1, <1>4, <1>7
  <2> QED
    BY <2>1, <2>2, <1>1, <1>4 DEF Inv, JournalHalf, JournalTypeOK
<1>9. CountersInv'
  BY <1>1, <1>4, <1>5, <1>7 DEF CountersInv
<1>10. HistoryInv' /\ HeadsInv' /\ ChainInv'
  BY <1>1 DEF Inv, JournalHalf, HistoryInv, HeadsInv, ChainInv
<1>11. JournalInv'
  <2> SUFFICES ASSUME NEW s \in Sequence
               PROVE  IF upTo < s /\ s < nextSequence
                      THEN /\ changes'[s].entity = history[s].entity
                           /\ changes'[s].revision = history[s].revision
                           /\ changes'[s].operation = history[s].operation
                           /\ \/ changes'[s].payload = history[s].payload
                              \/ /\ changes'[s].payload = NoPayload
                                 /\ entities[changes'[s].entity].sequence = s
                      ELSE changes'[s] = NoChange
    BY <1>1 DEF JournalInv
  <2>1. changes'[s] = IF s \in deleted THEN NoChange ELSE changes[s]
    BY <1>1
  <2>2. CASE upTo < s /\ s < nextSequence
    <3>1. changes'[s] = changes[s] /\ retentionFloor < s
      BY <2>1, <2>2, <1>4, <1>5, <1>6 DEF Sequence
    <3> QED
      BY <2>2, <3>1 DEF Inv, JournalHalf, JournalInv
  <2>3. CASE ~(upTo < s /\ s < nextSequence)
    <3>1. s \in deleted \/ ~(retentionFloor < s /\ s < nextSequence)
      BY <2>3, <1>6 DEF Sequence
    <3> QED
      BY <2>1, <2>3, <3>1 DEF Inv, JournalHalf, JournalInv
  <2> QED
    BY <2>2, <2>3
<1>12. PushHalf'
  BY <1>1 DEF Inv, PushHalf, PushTypeOK, ReceiptsInv, HasReceipt, Receipt,
              NoReceipt, NoContent, NoResult, Result, Status, PayloadOrNull
<1> QED
  BY <1>8, <1>9, <1>10, <1>11, <1>12, <1>1 DEF Inv, JournalHalf

\* Inv is inductive.
LEMMA NextInv == Inv /\ [Next]_vars => Inv'
<1> SUFFICES ASSUME Inv, [Next]_vars PROVE Inv'
  OBVIOUS
<1>1. ASSUME NEW e \in Enrollment, NEW n \in EnrollmentSequence,
             NEW c \in Sendable, Push(e, n, c)
      PROVE  Inv'
  BY <1>1, PushKeepsInv DEF Sendable
<1>2. ASSUME NEW target \in Sequence, RequestCompaction(target)
      PROVE  Inv'
  BY <1>2 DEF RequestCompaction, Watermark, pushVars, Inv, JournalHalf,
              JournalTypeOK, CountersInv, HistoryInv, HeadsInv, JournalInv,
              ChainInv, PushHalf, PushTypeOK, ReceiptsInv, HasReceipt, Sequence
<1>3. ASSUME NEW last \in 0 .. MaxSequence, NEW upTo \in 0 .. MaxSequence,
             NEW stale \in SUBSET StoredReceipts, Sweep(last, upTo, stale)
      PROVE  Inv'
  BY <1>3, SweepKeepsInv
<1>4. ASSUME NEW k \in Entity, NEW payload \in Payload, ImportCommit(k, payload)
      PROVE  Inv'
  BY <1>4, ImportKeepsInv
<1>5. ASSUME FairUseRestriction PROVE Inv'
  BY <1>5 DEF FairUseRestriction, journalVars, pushVars, Inv, JournalHalf,
              JournalTypeOK, CountersInv, HistoryInv, HeadsInv, JournalInv,
              ChainInv, PushHalf, PushTypeOK, ReceiptsInv, HasReceipt
<1>6. ASSUME UNCHANGED vars PROVE Inv'
  BY <1>6 DEF vars, journalVars, pushVars, Inv, JournalHalf, JournalTypeOK,
              CountersInv, HistoryInv, HeadsInv, JournalInv, ChainInv, PushHalf,
              PushTypeOK, ReceiptsInv, HasReceipt
<1> QED
  BY <1>1, <1>2, <1>3, <1>4, <1>5, <1>6 DEF Next

\* The inductive invariant holds in every reachable state.
THEOREM InvHolds == Spec => []Inv
  BY InitInv, NextInv, PTL DEF Spec

\* Type correctness of the coordinator's tables.
THEOREM TypeCorrect == Spec => []TypeOK
<1>1. Inv => TypeOK
  BY DEF Inv, JournalHalf, PushHalf, JournalTypeOK, PushTypeOK, TypeOK
<1> QED
  BY <1>1, InvHolds, PTL

\* The invariant gives every row above the floor its accepted content.
LEMMA InvServesHistory == Inv => JournalServesHistory
<1> SUFFICES ASSUME Inv, NEW s \in Sequence,
                    retentionFloor < s, s < nextSequence
             PROVE  /\ changes[s].revision = history[s].revision
                    /\ changes[s].entity = history[s].entity
                    /\ changes[s].operation = history[s].operation
                    /\ ServedPayload(s) = history[s].payload
  BY DEF JournalServesHistory
<1>1. /\ changes[s].revision = history[s].revision
      /\ changes[s].entity = history[s].entity
      /\ changes[s].operation = history[s].operation
      /\ \/ changes[s].payload = history[s].payload
         \/ /\ changes[s].payload = NoPayload
            /\ entities[changes[s].entity].sequence = s
  BY DEF Inv, JournalHalf, JournalInv
<1>2. /\ history[s].entity \in Entity
      /\ history[s].operation = "delete" <=> history[s].payload = NoPayload
  BY DEF Inv, JournalHalf, HistoryInv
<1>3. entities[changes[s].entity].sequence = s =>
         entities[changes[s].entity].payload = history[s].payload
  BY <1>1, <1>2 DEF Inv, JournalHalf, HeadsInv, NoHead, Sequence
<1> QED
  BY <1>1, <1>2, <1>3 DEF ServedPayload

\* sync.pull serves every accepted change above the retention floor with the
\* content that was accepted, whatever pushes, imports, sweeps and compaction
\* have happened in between.
THEOREM JournalServesHistoryHolds == Spec => []JournalServesHistory
  BY InvServesHistory, InvHolds, PTL

\* Revisions of an entity are 1, 2, 3, ... in sequence order and the head row
\* is the last of them.
THEOREM RevisionChainHolds == Spec => []RevisionChain
<1>1. Inv => RevisionChain
  <2> SUFFICES ASSUME Inv, NEW k \in Entity
        PROVE /\ \A s, t \in OwnHistory(k) :
                    s < t => history[s].revision < history[t].revision
              /\ \A s \in OwnHistory(k) :
                    history[s].revision > 1 =>
                        \E t \in OwnHistory(k) :
                            t < s /\ history[t].revision = history[s].revision - 1
              /\ OwnHistory(k) # {} =>
                    /\ entities[k].sequence \in OwnHistory(k)
                    /\ \A s \in OwnHistory(k) : s <= entities[k].sequence
                    /\ entities[k].revision = history[entities[k].sequence].revision
                    /\ entities[k].payload = history[entities[k].sequence].payload
    BY DEF RevisionChain
  <2>1. \A s, t \in OwnHistory(k) :
           s < t => history[s].revision < history[t].revision
    BY DEF OwnHistory, Inv, JournalHalf, ChainInv
  <2>2. ASSUME NEW s \in OwnHistory(k), history[s].revision > 1
        PROVE  \E t \in OwnHistory(k) :
                  t < s /\ history[t].revision = history[s].revision - 1
    <3>1. PICK t \in Sequence : /\ t < s
                                /\ history[t].entity = history[s].entity
                                /\ history[t].revision = history[s].revision - 1
      BY <2>2 DEF OwnHistory, Inv, JournalHalf, ChainInv
    <3>2. t \in OwnHistory(k)
      BY <3>1, <2>2 DEF OwnHistory, Sequence, Inv, JournalHalf, JournalTypeOK
    <3> QED
      BY <3>1, <3>2
  <2>3. ASSUME OwnHistory(k) # {}
        PROVE  /\ entities[k].sequence \in OwnHistory(k)
               /\ \A s \in OwnHistory(k) : s <= entities[k].sequence
               /\ entities[k].revision = history[entities[k].sequence].revision
               /\ entities[k].payload = history[entities[k].sequence].payload
    BY <2>3 DEF OwnHistory, Inv, JournalHalf, HeadsInv
  <2> QED
    BY <2>1, <2>2, <2>3
<1> QED
  BY <1>1, InvHolds, PTL

\* No accepted change replaces a revision other than the one it was based on.
THEOREM NoBlindOverwriteHolds == Spec => []NoBlindOverwrite
<1>1. Inv => NoBlindOverwrite
  BY DEF Inv, JournalHalf, HistoryInv, NoBlindOverwrite
<1> QED
  BY <1>1, InvHolds, PTL

\* The answer to a receipted change never changes, except to receipt-expired.
THEOREM RetryKeepsVerdictHolds == Spec => RetryKeepsVerdict
<1> DEFINE Keeps ==
      \A e \in Enrollment, n \in EnrollmentSequence :
          HasReceipt(e, n) =>
              \A c \in {receipts[e][n].content} :
                  PushResult(e, n, c)' \in
                      {receipts[e][n].result, Plain("receipt-expired")}
<1>1. Inv /\ [Next]_vars => [Keeps]_vars
  <2> SUFFICES ASSUME Inv, Next, NEW e \in Enrollment,
                      NEW n \in EnrollmentSequence, HasReceipt(e, n),
                      NEW c \in {receipts[e][n].content}
               PROVE  PushResult(e, n, c)' \in
                         {receipts[e][n].result, Plain("receipt-expired")}
    OBVIOUS
  <2>1. n <= highWater[e]
    BY DEF Inv, PushHalf, ReceiptsInv
  <2>2. /\ receipts'[e][n] \in {receipts[e][n], NoReceipt}
        /\ highWater'[e] >= highWater[e]
    <3>0. /\ receipts \in [Enrollment -> [EnrollmentSequence -> Receipt]]
          /\ highWater \in [Enrollment -> 0 .. MaxEnrollmentSequence]
      BY DEF Inv, PushHalf, PushTypeOK
    <3>1. ASSUME NEW f \in Enrollment, NEW m \in EnrollmentSequence,
                 NEW d \in Sendable, Push(f, m, d)
          PROVE  /\ receipts'[e][n] \in {receipts[e][n], NoReceipt}
                 /\ highWater'[e] >= highWater[e]
      <4>1. CASE UNCHANGED vars
        BY <3>0, <4>1 DEF vars, pushVars
      <4>2. CASE PushFresh(f, m, d)
        <5>1. <<e, n>> # <<f, m>>
          BY <4>2 DEF PushFresh
        <5>2. receipts'[e][n] = receipts[e][n]
          BY <4>2, <5>1, <3>0 DEF PushFresh, WriteReceipt
        <5>3. highWater'[e] >= highWater[e]
          BY <4>2, <3>0 DEF PushFresh, WriteReceipt, EnrollmentSequence
        <5> QED
          BY <5>2, <5>3
      <4> QED
        BY <3>1, <4>1, <4>2 DEF Push
    <3>2. ASSUME NEW target \in Sequence, RequestCompaction(target)
          PROVE  /\ receipts'[e][n] \in {receipts[e][n], NoReceipt}
                 /\ highWater'[e] >= highWater[e]
      BY <3>0, <3>2 DEF RequestCompaction, pushVars
    <3>3. ASSUME NEW last \in 0 .. MaxSequence, NEW upTo \in 0 .. MaxSequence,
                 NEW stale \in SUBSET StoredReceipts, Sweep(last, upTo, stale)
          PROVE  /\ receipts'[e][n] \in {receipts[e][n], NoReceipt}
                 /\ highWater'[e] >= highWater[e]
      BY <3>0, <3>3 DEF Sweep
    <3>4. ASSUME NEW k \in Entity, NEW payload \in Payload,
                 ImportCommit(k, payload)
          PROVE  /\ receipts'[e][n] \in {receipts[e][n], NoReceipt}
                 /\ highWater'[e] >= highWater[e]
      BY <3>0, <3>4 DEF ImportCommit, pushVars
    <3>5. ASSUME FairUseRestriction
          PROVE  /\ receipts'[e][n] \in {receipts[e][n], NoReceipt}
                 /\ highWater'[e] >= highWater[e]
      BY <3>0, <3>5 DEF FairUseRestriction, pushVars
    <3> QED
      BY <3>1, <3>2, <3>3, <3>4, <3>5 DEF Next
  <2>3. n <= highWater'[e]
    <3>1. highWater[e] \in Int /\ highWater'[e] \in Int
      BY NextInv DEF Inv, PushHalf, PushTypeOK
    <3> QED
      BY <2>1, <2>2, <3>1 DEF EnrollmentSequence
  <2>4. CASE receipts'[e][n] = receipts[e][n]
    BY <2>4 DEF PushResult, HasReceipt
  <2>5. CASE receipts'[e][n] = NoReceipt
    BY <2>5, <2>3 DEF PushResult, HasReceipt, NoReceipt, NoResult, FreshResult
  <2> QED
    BY <2>2, <2>4, <2>5
<1>2. Spec => [][Keeps]_vars
  BY <1>1, InvHolds, PTL DEF Spec
<1> QED
  BY <1>2 DEF RetryKeepsVerdict

---------------------------------------------------------------------------
(* The coordinator implements ChangeLog.  The detailed feed is computed from *)
(* journal rows and heads; the invariant turns it into the accepted history, *)
(* which only appends and trims change.                                      *)

Readable(s) == retentionFloor < s /\ s < nextSequence
Written(s) == [entity |-> history[s].entity, revision |-> history[s].revision,
               operation |-> history[s].operation, payload |-> history[s].payload]
HistoryFeed == [s \in Sequence |-> IF Readable(s) THEN Written(s) ELSE NoChange]

\* What sync.pull serves is the accepted history above the floor.
LEMMA FeedIsHistory == Inv => Feed = HistoryFeed
<1> SUFFICES ASSUME Inv, NEW s \in Sequence
             PROVE  (IF s > retentionFloor /\ changes[s].revision # 0
                     THEN [changes[s] EXCEPT !.payload = ServedPayload(s)]
                     ELSE NoChange)
                    = IF Readable(s) THEN Written(s) ELSE NoChange
  BY DEF Feed, HistoryFeed
<1>1. /\ changes[s] \in ChangeRow
      /\ nextSequence \in Nat /\ retentionFloor \in Nat
  BY CoordinatorAssumption DEF Inv, JournalHalf, JournalTypeOK
<1>2. CASE Readable(s)
  <2>1. /\ changes[s].revision = history[s].revision
        /\ changes[s].entity = history[s].entity
        /\ changes[s].operation = history[s].operation
        /\ ServedPayload(s) = history[s].payload
    BY <1>2, InvServesHistory DEF Readable, JournalServesHistory
  <2>2. changes[s].revision # 0
    BY <1>2, <2>1 DEF Readable, Inv, JournalHalf, HistoryInv
  <2>3. [changes[s] EXCEPT !.payload = ServedPayload(s)] = Written(s)
    BY <1>1, <2>1 DEF ChangeRow, Written
  <2> QED
    BY <1>2, <2>2, <2>3 DEF Readable, Sequence
<1>3. CASE ~Readable(s)
  <2>1. changes[s] = NoChange
    BY <1>3 DEF Readable, Inv, JournalHalf, JournalInv
  <2> QED
    BY <1>3, <2>1 DEF NoChange
<1> QED
  BY <1>2, <1>3

\* An append on the current head is one write to the log.
LEMMA AppendIsWrite ==
  ASSUME Inv, Feed = HistoryFeed, (Feed = HistoryFeed)',
         NEW k \in Entity, NEW op \in Operation, NEW p \in PayloadOrNull,
         op = "delete" <=> p = NoPayload,
         op = "create" <=> entities[k].revision = 0,
         Append(k, op, entities[k].revision, p)
  PROVE  Log!Write(k, op, p)
<1> USE CoordinatorAssumption
<1>1. /\ nextSequence \in Sequence
      /\ retentionFloor \in Nat /\ retentionFloor < nextSequence
      /\ nextSequence' = nextSequence + 1 /\ retentionFloor' = retentionFloor
  BY DEF Inv, JournalHalf, JournalTypeOK, CountersInv, Append, Sequence
<1>2. history' = [history EXCEPT ![nextSequence] =
                     [entity |-> k, revision |-> entities[k].revision + 1,
                      operation |-> op, payload |-> p,
                      baseRevision |-> entities[k].revision]]
  BY DEF Append
<1>3. [j \in Entity |-> entities'[j].revision] =
        [[j \in Entity |-> entities[j].revision] EXCEPT ![k] = @ + 1]
  BY DEF Append, Inv, JournalHalf, JournalTypeOK
<1>4. Feed' = [Feed EXCEPT ![nextSequence] =
                 [entity |-> k, revision |-> entities[k].revision + 1,
                  operation |-> op, payload |-> p]]
  <2>1. HistoryFeed' = [s \in Sequence |->
           IF s = nextSequence
           THEN [entity |-> k, revision |-> entities[k].revision + 1,
                 operation |-> op, payload |-> p]
           ELSE HistoryFeed[s]]
    BY <1>1, <1>2 DEF HistoryFeed, Readable, Written, Sequence, Inv, JournalHalf,
                      JournalTypeOK
  <2> QED
    BY <2>1, <1>1 DEF HistoryFeed
<1> QED
  BY <1>1, <1>3, <1>4 DEF Log!Write, Watermark, Sequence

\* A sweep trims the log to the new floor.
LEMMA SweepIsTrim ==
  ASSUME Inv, Feed = HistoryFeed, (Feed = HistoryFeed)',
         NEW last \in 0 .. MaxSequence, NEW upTo \in 0 .. MaxSequence,
         NEW stale, Sweep(last, upTo, stale)
  PROVE  /\ upTo \in retentionFloor .. Watermark
         /\ Log!Trim(upTo)
<1> USE CoordinatorAssumption
<1>1. /\ retentionFloor' = upTo
      /\ UNCHANGED <<nextSequence, entities, history>>
  BY DEF Sweep
<1>2. /\ nextSequence \in Nat /\ retentionFloor \in Nat
      /\ retentionFloor < nextSequence
      /\ compactionTarget \in Nat /\ compactionTarget < nextSequence
  BY DEF Inv, JournalHalf, JournalTypeOK, CountersInv
<1>3. \A s \in Journal : s \in Sequence /\ s < nextSequence
  BY DEF Journal, Inv, JournalHalf, JournalInv, NoChange, Sequence
<1>4. retentionFloor <= upTo /\ upTo < nextSequence
  BY <1>2, <1>3 DEF Sweep, Sequence
<1>5. Feed' = [s \in Sequence |-> IF s <= upTo THEN NoChange ELSE Feed[s]]
  <2>1. HistoryFeed' =
          [s \in Sequence |-> IF s <= upTo THEN NoChange ELSE HistoryFeed[s]]
    BY <1>1, <1>2, <1>4 DEF HistoryFeed, Readable, Written, Sequence
  <2> QED
    BY <2>1
<1> QED
  BY <1>1, <1>2, <1>4, <1>5 DEF Log!Trim, Log!Position, Watermark, Sequence

\* Everything a device may rely on holds for every set of enrollments and
\* entities: a push or an import is one write or nothing, a sweep is one trim,
\* and compaction requests, restrictions and refusals are invisible to readers.
THEOREM ImplementsLog == Spec => ImplementsChangeLog
<1> USE CoordinatorAssumption
<1>1. Init => Log!Init
  <2> SUFFICES ASSUME Init PROVE Log!Init
    OBVIOUS
  <2>1. Feed = [s \in Sequence |-> NoChange]
    BY DEF Init, Feed, NoChange
  <2>2. [k \in Entity |-> entities[k].revision] = [k \in Entity |-> 0]
    BY DEF Init, NoHead
  <2> QED
    BY <2>1, <2>2 DEF Init, Log!Init, Log!Position, Watermark, Sequence
<1>2. Inv /\ Feed = HistoryFeed /\ (Feed = HistoryFeed)' /\ [Next]_vars
        => [Log!Next]_(Log!vars)
  <2> SUFFICES ASSUME Inv, Feed = HistoryFeed, (Feed = HistoryFeed)', [Next]_vars
               PROVE  Log!Next \/ UNCHANGED Log!vars
    OBVIOUS
  <2>1. ASSUME NEW k \in Entity, NEW op \in Operation, NEW p \in PayloadOrNull,
               Log!Write(k, op, p)
        PROVE  Log!Next
    BY <2>1 DEF Log!Next, Operation, PayloadOrNull
  <2>2. ASSUME UNCHANGED journalVars PROVE UNCHANGED Log!vars
    BY <2>2 DEF journalVars, Log!vars, Watermark, Feed, ServedPayload
  <2>3. ASSUME NEW e \in Enrollment, NEW n \in EnrollmentSequence,
               NEW c \in Sendable, Push(e, n, c)
        PROVE  Log!Next \/ UNCHANGED Log!vars
    <3>1. /\ c \in Content /\ WellFormed(c)
          /\ c.entity \in Entity /\ c.operation \in Operation
          /\ c.payload \in PayloadOrNull
      BY DEF Sendable, Content
    <3>2. CASE PushFresh(e, n, c) /\ FreshResult(e, n, c).status = "accepted"
      <4>1. /\ BaseMatches(c, entities[c.entity])
            /\ Append(c.entity, c.operation, c.baseRevision, c.payload)
        BY <3>2 DEF PushFresh, FreshResult, Plain, Conflict
      <4>2. /\ c.baseRevision = entities[c.entity].revision
            /\ c.operation = "delete" <=> c.payload = NoPayload
            /\ c.operation = "create" <=> entities[c.entity].revision = 0
        BY <4>1, <3>1 DEF BaseMatches, WellFormed
      <4>3. Append(c.entity, c.operation, entities[c.entity].revision, c.payload)
        BY <4>1, <4>2
      <4>4. Log!Write(c.entity, c.operation, c.payload)
        BY <4>2, <4>3, <3>1, AppendIsWrite
      <4> QED
        BY <4>4, <3>1, <2>1
    <3>3. CASE PushFresh(e, n, c) /\ FreshResult(e, n, c).status # "accepted"
      BY <3>3, <2>2 DEF PushFresh
    <3>4. CASE UNCHANGED vars
      BY <3>4, <2>2 DEF vars, journalVars
    <3> QED
      BY <2>3, <3>2, <3>3, <3>4 DEF Push
  <2>4. ASSUME NEW target \in Sequence, RequestCompaction(target)
        PROVE  UNCHANGED Log!vars
    BY <2>4 DEF RequestCompaction, Log!vars, Watermark, Feed, ServedPayload
  <2>5. ASSUME NEW last \in 0 .. MaxSequence, NEW upTo \in 0 .. MaxSequence,
               NEW stale \in SUBSET StoredReceipts, Sweep(last, upTo, stale)
        PROVE  Log!Next
    BY <2>5, SweepIsTrim DEF Log!Next
  <2>6. ASSUME NEW k \in Entity, NEW p \in Payload, ImportCommit(k, p)
        PROVE  Log!Next
    <3>1. /\ "create" \in Operation /\ p \in PayloadOrNull /\ p # NoPayload
          /\ entities[k].revision = 0
          /\ Append(k, "create", 0, p)
      BY <2>6 DEF ImportCommit, Operation, PayloadOrNull
    <3>2. Append(k, "create", entities[k].revision, p)
      BY <3>1
    <3>3. Log!Write(k, "create", p)
      BY <3>1, <3>2, AppendIsWrite
    <3> QED
      BY <3>1, <3>3, <2>1
  <2>7. ASSUME FairUseRestriction PROVE UNCHANGED Log!vars
    BY <2>7, <2>2 DEF FairUseRestriction
  <2>8. ASSUME UNCHANGED vars PROVE UNCHANGED Log!vars
    BY <2>8, <2>2 DEF vars, journalVars
  <2> QED
    BY <2>3, <2>4, <2>5, <2>6, <2>7, <2>8 DEF Next
<1> QED
  BY <1>1, <1>2, InvHolds, FeedIsHistory, PTL DEF Spec, Log!Spec, ImplementsChangeLog
=============================================================================
