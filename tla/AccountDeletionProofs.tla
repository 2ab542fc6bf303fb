----------------------- MODULE AccountDeletionProofs -----------------------
(***************************************************************************)
(* Proofs about AccountDeletion, for every set of devices, requests, rows  *)
(* and objects, every batch size and any number of faults.                 *)
(***************************************************************************)
EXTENDS AccountDeletion, FiniteSetTheorems, TLAPS

\* A call names an object from its put on, and no earlier.
KeysInv ==
    \A c \in Call : IF calls[c].pc \in {"put", "landed"}
                    THEN calls[c].key \in Stored ELSE calls[c].key = NoKey

\* Drivers and the account object only run behind the tombstone, which has
\* ended every session.
SessionInv ==
    /\ tombstone # "none" => sessions = {}
    /\ \A p \in Driver : drivers[p] # "idle" => tombstone # "none"
    /\ state # "none" => tombstone # "none"

\* "deleted" spreads from deletion_state to the answers and to the tombstone.
PurgeInv ==
    /\ \A p \in Starter : passes[p].pc # "idle" => state # "none"
    /\ \A p \in Driver : drivers[p] = "deleted" => state = "deleted"
    /\ tombstone = "deleted" => state = "deleted"
    /\ state = "deleted" => rows \subseteq Written

\* The objects of uploads that wait for their second transaction.
LandedKeys == {calls[c].key : c \in {b \in Call : calls[b].pc = "landed"}}

\* What takes care of an object that has no row.
Care == Deleting \cup unlinked \cup orphans \cup LandedKeys

\* The chunk rows a pass is going to drop.
Condemned == UNION {passes[p].page : p \in {q \in Starter : passes[q].pc = "settle"}}

\* An object of a row that a pass may drop although it was uploaded again, is
\* taken care of without the row.
ChunkInv ==
    /\ objects \cap Chunk \subseteq rows \cup Care
    /\ objects \cap queued \cap Condemned \subseteq Care

Inv == /\ DeletionTypeOK /\ KeysInv /\ SessionInv /\ PurgeInv
       /\ Cardinality(Chunk) <= Batch => ChunkInv

\* What a pass does, whatever its batches are.
LEMMA PassChooses ==
    ASSUME DeletionTypeOK, NEW p \in Starter, PurgePass(p)
    PROVE  /\ rows' \subseteq rows /\ rows' \cap Chunk = rows \cap Chunk
           /\ unlinked' \subseteq unlinked \cup Artifact
           /\ queued' \subseteq rows \cap Chunk
           /\ \E page \in SUBSET Chunk :
                  passes' = [passes EXCEPT ![p] = [pc |-> "delete", page |-> page]]
           /\ state' = IF state = "none" THEN "deleting" ELSE state
<1>1. PICK records \in Batches(rows \cap Record), artifacts \in Batches(rows \cap Artifact),
           more \in Batches(Unqueued) :
              /\ rows' = rows \ (records \cup artifacts)
              /\ unlinked' = unlinked \cup artifacts
              /\ queued' = queued \cup more
              /\ \E page \in Batches(queued') :
                     passes' = [passes EXCEPT ![p] = [pc |-> "delete", page |-> page]]
              /\ state' = IF state = "none" THEN "deleting" ELSE state
  BY DEF PurgePass
<1>2. /\ records \cap Chunk = {} /\ artifacts \cap Chunk = {} /\ artifacts \subseteq Artifact
      /\ more \subseteq rows \cap Chunk
  BY DeletionAssumption DEF Batches, Record, Unqueued
<1>3. queued' \subseteq rows \cap Chunk
  BY <1>1, <1>2 DEF DeletionTypeOK
<1>4. \A page \in Batches(queued') : page \in SUBSET Chunk
  BY <1>3 DEF Batches
<1> QED
  BY <1>1, <1>2, <1>3, <1>4

\* Types are kept.  A driver is answered by its own pass only.
LEMMA TypeStep == Inv /\ [Next]_vars => DeletionTypeOK' /\ KeysInv'
<1> SUFFICES ASSUME Inv, [Next]_vars PROVE DeletionTypeOK' /\ KeysInv'
  OBVIOUS
<1> USE DeletionAssumption DEF Inv, DeletionTypeOK, KeysInv, sessionVars, bucket, Row, Record,
    Stored, Driver, Starter, DriverState, PassState, NoPass, CallState, NoCall, NoKey
<1>1. CASE IssueCode
  BY <1>1 DEF IssueCode
<1>2. ASSUME NEW d \in Device, Enroll(d) PROVE DeletionTypeOK' /\ KeysInv'
  BY <1>2 DEF Enroll, EnrollmentOpen
<1>3. CASE ShareCreate
  BY <1>3 DEF ShareCreate
<1>4. CASE DeleteAccount
  BY <1>4 DEF DeleteAccount
<1>5. CASE PurgeShares
  BY <1>5 DEF PurgeShares
<1>6. CASE Poll
  BY <1>6 DEF Poll
<1>7. ASSUME NEW p \in Driver, DriveFails(p) PROVE DeletionTypeOK' /\ KeysInv'
  BY <1>7 DEF DriveFails, Fault
<1>8. ASSUME NEW p \in Driver, Fold(p) PROVE DeletionTypeOK' /\ KeysInv'
  BY <1>8 DEF Fold, Folded
<1>9. CASE EvictSession
  BY <1>9 DEF EvictSession, Fault
<1>10. ASSUME NEW p \in Driver, DrivenPass(p) PROVE DeletionTypeOK' /\ KeysInv'
  BY <1>10, PassChooses DEF DrivenPass
<1>11. CASE AlarmPass
  <2>1. PurgePass("alarm") /\ "alarm" \in Starter
    BY <1>11 DEF AlarmPass
  <2>2. PICK page \in SUBSET Chunk :
            passes' = [passes EXCEPT !["alarm"] = [pc |-> "delete", page |-> page]]
    BY <2>1, PassChooses
  <2>3. /\ rows' \subseteq rows /\ rows' \cap Chunk = rows \cap Chunk
        /\ unlinked' \subseteq unlinked \cup Artifact
        /\ queued' \subseteq rows \cap Chunk
        /\ state' \in {"none", "deleting", "deleted"}
    BY <2>1, PassChooses
  <2>4. passes' \in [Starter -> PassState] /\ passes'["alarm"].pc # "idle"
    BY <2>2
  <2> QED
    BY <1>11, <2>2, <2>3, <2>4 DEF AlarmPass
<1>12. ASSUME NEW p \in Starter, PassDeletes(p) PROVE DeletionTypeOK' /\ KeysInv'
  BY <1>12 DEF PassDeletes, Fault
<1>13. ASSUME NEW p \in Starter, PassSettles(p) PROVE DeletionTypeOK' /\ KeysInv'
  BY <1>13 DEF PassSettles, Remaining, LeftQueued, PurgeInv
<1>14. ASSUME NEW k \in Stored, Unlink(k) PROVE DeletionTypeOK' /\ KeysInv'
  BY <1>14 DEF Unlink, Fault
<1>15. CASE EvictAccount
  BY <1>15 DEF EvictAccount, Fault, Deleting
<1>16. ASSUME NEW c \in Call, Validate(c) PROVE DeletionTypeOK' /\ KeysInv'
  BY <1>16 DEF Validate
<1>17. ASSUME NEW c \in Call, Arrive(c) PROVE DeletionTypeOK' /\ KeysInv'
  BY <1>17 DEF Arrive
<1>18. ASSUME NEW c \in Call, Write(c) PROVE DeletionTypeOK' /\ KeysInv'
  BY <1>18 DEF Write
<1>19. ASSUME NEW c \in Call, NEW a \in Artifact, Reserve(c, a) PROVE DeletionTypeOK' /\ KeysInv'
  BY <1>19 DEF Reserve
<1>20. ASSUME NEW c \in Call, NEW a \in Artifact, ArtifactPut(c, a)
      PROVE DeletionTypeOK' /\ KeysInv'
  BY <1>20 DEF ArtifactPut
<1>21. ASSUME NEW c \in Call, NEW k \in Chunk, ChunkPut(c, k) PROVE DeletionTypeOK' /\ KeysInv'
  BY <1>21 DEF ChunkPut
<1>22. ASSUME NEW c \in Call, Land(c) PROVE DeletionTypeOK' /\ KeysInv'
  BY <1>22 DEF Land
<1>23. ASSUME NEW c \in Call, ArtifactPutDone(c) PROVE DeletionTypeOK' /\ KeysInv'
  BY <1>23 DEF ArtifactPutDone
<1>24. ASSUME NEW c \in Call, ChunkPutDone(c) PROVE DeletionTypeOK' /\ KeysInv'
  BY <1>24 DEF ChunkPutDone, PutAccepted
<1>25. CASE UNCHANGED vars
  BY <1>25 DEF vars, sessionVars, bucket
<1> QED
  BY <1>1, <1>2, <1>3, <1>4, <1>5, <1>6, <1>7, <1>8, <1>9, <1>10, <1>11,
     <1>12, <1>13, <1>14, <1>15, <1>16, <1>17, <1>18, <1>19, <1>20, <1>21,
     <1>22, <1>23, <1>24, <1>25 DEF Next, SessionNext, PurgeNext, CallNext

\* Nothing brings a session back once there is a tombstone, and nothing purges
\* without one.
LEMMA SessionStep == Inv /\ [Next]_vars => SessionInv'
<1> SUFFICES ASSUME Inv, [Next]_vars PROVE SessionInv'
  OBVIOUS
<1> USE DeletionAssumption DEF Inv, SessionInv, sessionVars, bucket, Driver, Blocked
<1>1. CASE IssueCode
  BY <1>1 DEF IssueCode
<1>2. ASSUME NEW d \in Device, Enroll(d) PROVE SessionInv'
  BY <1>2 DEF Enroll, EnrollmentOpen
<1>3. CASE ShareCreate
  BY <1>3 DEF ShareCreate
<1>4. CASE DeleteAccount
  BY <1>4 DEF DeleteAccount
<1>5. CASE PurgeShares
  BY <1>5 DEF PurgeShares
<1>6. CASE Poll
  BY <1>6 DEF Poll
<1>7. ASSUME NEW p \in Driver, DriveFails(p) PROVE SessionInv'
  BY <1>7 DEF DriveFails, Fault
<1>8. ASSUME NEW p \in Driver, Fold(p) PROVE SessionInv'
  BY <1>8 DEF Fold, Folded
<1>9. CASE EvictSession
  BY <1>9 DEF EvictSession, Fault
<1>10. ASSUME NEW p \in Driver, DrivenPass(p) PROVE SessionInv'
  BY <1>10, PassChooses DEF DrivenPass
<1>11. CASE AlarmPass
  BY <1>11, PassChooses DEF AlarmPass
<1>12. ASSUME NEW p \in Starter, PassDeletes(p) PROVE SessionInv'
  BY <1>12 DEF PassDeletes, Fault
<1>13. ASSUME NEW p \in Starter, PassSettles(p) PROVE SessionInv'
  BY <1>13 DEF PassSettles, Remaining, LeftQueued, PurgeInv
<1>14. ASSUME NEW k \in Stored, Unlink(k) PROVE SessionInv'
  BY <1>14 DEF Unlink, Fault
<1>15. CASE EvictAccount
  BY <1>15 DEF EvictAccount, Fault, Deleting
<1>16. ASSUME NEW c \in Call, Validate(c) PROVE SessionInv'
  BY <1>16 DEF Validate
<1>17. ASSUME NEW c \in Call, Arrive(c) PROVE SessionInv'
  BY <1>17 DEF Arrive
<1>18. ASSUME NEW c \in Call, Write(c) PROVE SessionInv'
  BY <1>18 DEF Write
<1>19. ASSUME NEW c \in Call, NEW a \in Artifact, Reserve(c, a) PROVE SessionInv'
  BY <1>19 DEF Reserve
<1>20. ASSUME NEW c \in Call, NEW a \in Artifact, ArtifactPut(c, a) PROVE SessionInv'
  BY <1>20 DEF ArtifactPut
<1>21. ASSUME NEW c \in Call, NEW k \in Chunk, ChunkPut(c, k) PROVE SessionInv'
  BY <1>21 DEF ChunkPut
<1>22. ASSUME NEW c \in Call, Land(c) PROVE SessionInv'
  BY <1>22 DEF Land
<1>23. ASSUME NEW c \in Call, ArtifactPutDone(c) PROVE SessionInv'
  BY <1>23 DEF ArtifactPutDone
<1>24. ASSUME NEW c \in Call, ChunkPutDone(c) PROVE SessionInv'
  BY <1>24 DEF ChunkPutDone, PutAccepted
<1>25. CASE UNCHANGED vars
  BY <1>25 DEF vars, sessionVars, bucket
<1> QED
  BY <1>1, <1>2, <1>3, <1>4, <1>5, <1>6, <1>7, <1>8, <1>9, <1>10, <1>11,
     <1>12, <1>13, <1>14, <1>15, <1>16, <1>17, <1>18, <1>19, <1>20, <1>21,
     <1>22, <1>23, <1>24, <1>25 DEF Next, SessionNext, PurgeNext, CallNext

\* deletion_state only moves on, and an emptied account only gets rows of its
\* own kind back.
LEMMA PurgeStep == Inv /\ [Next]_vars => PurgeInv'
<1> SUFFICES ASSUME Inv, [Next]_vars PROVE PurgeInv'
  OBVIOUS
<1> USE DeletionAssumption DEF Inv, PurgeInv, sessionVars, bucket, Driver, Starter, NoPass,
    PassState, Stored
<1>1. CASE IssueCode
  BY <1>1 DEF IssueCode
<1>2. ASSUME NEW d \in Device, Enroll(d) PROVE PurgeInv'
  BY <1>2 DEF Enroll, EnrollmentOpen
<1>3. CASE ShareCreate
  BY <1>3 DEF ShareCreate
<1>4. CASE DeleteAccount
  BY <1>4 DEF DeleteAccount
<1>5. CASE PurgeShares
  BY <1>5 DEF PurgeShares
<1>6. CASE Poll
  BY <1>6 DEF Poll
<1>7. ASSUME NEW p \in Driver, DriveFails(p) PROVE PurgeInv'
  BY <1>7 DEF DriveFails, Fault
<1>8. ASSUME NEW p \in Driver, Fold(p) PROVE PurgeInv'
  BY <1>8 DEF Fold, Folded
<1>9. CASE EvictSession
  BY <1>9 DEF EvictSession, Fault
<1>10. ASSUME NEW p \in Driver, DrivenPass(p) PROVE PurgeInv'
  BY <1>10, PassChooses DEF DrivenPass
<1>11. CASE AlarmPass
  BY <1>11, PassChooses DEF AlarmPass
<1>12. ASSUME NEW p \in Starter, PassDeletes(p) PROVE PurgeInv'
  BY <1>12 DEF PassDeletes, Fault
<1>13. ASSUME NEW p \in Starter, PassSettles(p) PROVE PurgeInv'
  BY <1>13 DEF PassSettles, Remaining, LeftQueued
<1>14. ASSUME NEW k \in Stored, Unlink(k) PROVE PurgeInv'
  BY <1>14 DEF Unlink, Fault
<1>15. CASE EvictAccount
  BY <1>15 DEF EvictAccount, Fault, Deleting
<1>16. ASSUME NEW c \in Call, Validate(c) PROVE PurgeInv'
  BY <1>16 DEF Validate
<1>17. ASSUME NEW c \in Call, Arrive(c) PROVE PurgeInv'
  BY <1>17 DEF Arrive
<1>18. ASSUME NEW c \in Call, Write(c) PROVE PurgeInv'
  <2>1. PICK r \in Record \ rows : Writable(r) /\ rows' = rows \cup {r}
    BY <1>18 DEF Write
  <2>2. rows \subseteq Written => r \in Written
    BY <2>1 DEF Writable, Record
  <2>3. UNCHANGED <<tombstone, drivers, state, passes>>
    BY <1>18 DEF Write
  <2> QED
    BY <2>1, <2>2, <2>3
<1>19. ASSUME NEW c \in Call, NEW a \in Artifact, Reserve(c, a) PROVE PurgeInv'
  BY <1>19 DEF Reserve
<1>20. ASSUME NEW c \in Call, NEW a \in Artifact, ArtifactPut(c, a) PROVE PurgeInv'
  BY <1>20 DEF ArtifactPut
<1>21. ASSUME NEW c \in Call, NEW k \in Chunk, ChunkPut(c, k) PROVE PurgeInv'
  BY <1>21 DEF ChunkPut
<1>22. ASSUME NEW c \in Call, Land(c) PROVE PurgeInv'
  BY <1>22 DEF Land
<1>23. ASSUME NEW c \in Call, ArtifactPutDone(c) PROVE PurgeInv'
  BY <1>23 DEF ArtifactPutDone
<1>24. ASSUME NEW c \in Call, ChunkPutDone(c) PROVE PurgeInv'
  BY <1>24 DEF ChunkPutDone, PutAccepted
<1>25. CASE UNCHANGED vars
  BY <1>25 DEF vars, sessionVars, bucket
<1> QED
  BY <1>1, <1>2, <1>3, <1>4, <1>5, <1>6, <1>7, <1>8, <1>9, <1>10, <1>11,
     <1>12, <1>13, <1>14, <1>15, <1>16, <1>17, <1>18, <1>19, <1>20, <1>21,
     <1>22, <1>23, <1>24, <1>25 DEF Next, SessionNext, PurgeNext, CallNext

\* A batch of a set that fits one batch is the set.
LEMMA WholeBatch ==
    ASSUME Cardinality(Chunk) <= Batch, NEW S \in SUBSET Chunk, NEW b \in Batches(S)
    PROVE  b = S
<1>1. IsFiniteSet(Chunk)
  BY DeletionAssumption, FS_Subset
<1>2. /\ IsFiniteSet(S) /\ Cardinality(S) \in Nat
      /\ Cardinality(S) <= Cardinality(Chunk) /\ Cardinality(Chunk) \in Nat
  BY <1>1, FS_Subset, FS_CardinalityType
<1>3. Min({Batch, Cardinality(S)}) = Cardinality(S)
  BY <1>2, DeletionAssumption DEF Min
<1>4. b \in SUBSET S /\ Cardinality(b) = Cardinality(S)
  BY <1>3 DEF Batches
<1> QED
  BY <1>2, <1>4, FS_Subset

\* A pass queues every chunk row and hands the whole queue to R2.
LEMMA PassTakesQueue ==
    ASSUME Cardinality(Chunk) <= Batch, DeletionTypeOK, NEW p \in Starter, PurgePass(p)
    PROVE  /\ queued' = rows \cap Chunk
           /\ passes' = [passes EXCEPT ![p] = [pc |-> "delete", page |-> rows \cap Chunk]]
           /\ rows' \cap Chunk = rows \cap Chunk
           /\ unlinked \subseteq unlinked'
<1>1. PICK records \in Batches(rows \cap Record), artifacts \in Batches(rows \cap Artifact),
           more \in Batches(Unqueued) :
              /\ rows' = rows \ (records \cup artifacts)
              /\ unlinked' = unlinked \cup artifacts
              /\ queued' = queued \cup more
              /\ \E page \in Batches(queued') :
                     passes' = [passes EXCEPT ![p] = [pc |-> "delete", page |-> page]]
  BY DEF PurgePass
<1>2. more = Unqueued
  <2>1. Unqueued \in SUBSET Chunk
    BY DEF Unqueued
  <2> QED
    BY <1>1, <2>1, WholeBatch
<1>3. queued' = rows \cap Chunk
  BY <1>1, <1>2 DEF Unqueued, DeletionTypeOK
<1>4. \A page \in Batches(queued') : page = rows \cap Chunk
  BY <1>3, WholeBatch
<1>5. records \cap Chunk = {} /\ artifacts \cap Chunk = {}
  BY DeletionAssumption DEF Batches, Record
<1> QED
  BY <1>1, <1>3, <1>4, <1>5
\* Deletes, puts, passes and crashes hand an object on before they let it go:
\* the pass that queues a chunk again has it in its page, so a pass that drops
\* the row leaves the object to that pass, to R2 or to the upload.
LEMMA ChunkStep ==
    ASSUME Inv, Cardinality(Chunk) <= Batch, [Next]_vars, DeletionTypeOK'
    PROVE  ChunkInv'
<1> USE DeletionAssumption
<1>0. /\ objects \cap Chunk \subseteq rows \cup Care
      /\ objects \cap queued \cap Condemned \subseteq Care
      /\ queued \subseteq rows \cap Chunk
  BY DEF Inv, ChunkInv, DeletionTypeOK
<1>1. ASSUME NEW p \in Starter, PurgePass(p), passes[p].pc = "idle",
             UNCHANGED <<calls, objects, orphans>>
      PROVE  ChunkInv'
  <2>1. /\ rows' \cap Chunk = rows \cap Chunk /\ unlinked \subseteq unlinked'
        /\ queued' = rows \cap Chunk
        /\ passes' = [passes EXCEPT ![p] = [pc |-> "delete", page |-> rows \cap Chunk]]
    BY <1>1, PassTakesQueue DEF Inv
  <2>2. Deleting' = Deleting \cup (rows \cap Chunk)
    BY <1>1, <2>1 DEF Deleting, Inv, DeletionTypeOK
  <2>3. LandedKeys' = LandedKeys
    BY <1>1 DEF LandedKeys
  <2> QED
    BY <1>0, <1>1, <2>1, <2>2, <2>3 DEF ChunkInv, Care
<1>2. ASSUME NEW p \in Starter, PassDeletes(p) PROVE ChunkInv'
  <2> DEFINE page == passes[p].page
  <2>1. PICK failed \in SUBSET page :
            /\ objects' = objects \ (page \ failed)
            /\ orphans' = (orphans \ page) \cup failed
            /\ passes' = [passes EXCEPT ![p] = [pc |-> "settle", page |-> page \ failed]]
    BY <1>2 DEF PassDeletes
  <2>2. passes[p].pc = "delete" /\ UNCHANGED <<rows, queued, calls, unlinked>>
    BY <1>2 DEF PassDeletes
  <2>3. Deleting \subseteq Deleting' \cup page
    BY <2>1, <2>2 DEF Deleting, Inv, DeletionTypeOK
  <2>4. Condemned' = Condemned \cup (page \ failed)
    BY <2>1, <2>2 DEF Condemned, Inv, DeletionTypeOK
  <2>5. LandedKeys' = LandedKeys
    BY <2>2 DEF LandedKeys
  <2> QED
    BY <1>0, <2>1, <2>2, <2>3, <2>4, <2>5 DEF ChunkInv, Care
<1>3. ASSUME NEW p \in Starter, PassSettles(p) PROVE ChunkInv'
  <2> DEFINE page == passes[p].page
  <2>1. /\ rows' = rows \ (page \cap queued) /\ queued' = queued \ page
        /\ passes' = [passes EXCEPT ![p] = NoPass] /\ passes[p].pc = "settle"
        /\ UNCHANGED <<calls, objects, unlinked, orphans>>
    BY <1>3 DEF PassSettles, LeftQueued, bucket
  <2>2. Deleting' = Deleting /\ page \subseteq Condemned /\ Condemned' \subseteq Condemned
    BY <2>1 DEF Deleting, Condemned, NoPass, Inv, DeletionTypeOK
  <2>3. LandedKeys' = LandedKeys
    BY <2>1 DEF LandedKeys
  <2> QED
    BY <1>0, <2>1, <2>2, <2>3 DEF ChunkInv, Care
<1>4. ASSUME NEW k \in Stored, Unlink(k) PROVE ChunkInv'
  <2>1. /\ unlinked' = unlinked \ {k} /\ (k \notin objects' \/ k \in orphans')
        /\ objects' \subseteq objects /\ orphans \subseteq orphans'
        /\ UNCHANGED <<rows, queued, passes, calls>>
    BY <1>4 DEF Unlink
  <2>2. Deleting' = Deleting /\ Condemned' = Condemned /\ LandedKeys' = LandedKeys
    BY <2>1 DEF Deleting, Condemned, LandedKeys
  <2> QED
    BY <1>0, <2>1, <2>2 DEF ChunkInv, Care
<1>5. CASE EvictAccount
  <2>1. PICK put \in SUBSET {calls[c].key : c \in {b \in Call : calls[b].pc = "put"}} :
            /\ objects' = objects \cup put
            /\ orphans' = orphans \cup ((unlinked \cup put \cup LandedKeys \cup Deleting) \ rows)
    BY <1>5 DEF EvictAccount, LandedKeys
  <2>2. UNCHANGED <<rows, queued>> /\ passes' = [p \in Starter |-> NoPass]
    BY <1>5 DEF EvictAccount
  <2>3. Condemned' = {}
    BY <2>2 DEF Condemned, NoPass
  <2> QED
    BY <1>0, <2>1, <2>2, <2>3 DEF ChunkInv, Care
<1>6. ASSUME NEW c \in Call, Land(c) PROVE ChunkInv'
  <2>1. /\ objects' = objects \cup {calls[c].key}
        /\ calls' = [calls EXCEPT ![c].pc = "landed"] /\ calls[c].pc = "put"
        /\ UNCHANGED <<rows, queued, passes, unlinked, orphans>>
    BY <1>6 DEF Land
  <2>2. LandedKeys' = LandedKeys \cup {calls[c].key}
    BY <2>1 DEF LandedKeys, Inv, DeletionTypeOK, CallState
  <2>3. Deleting' = Deleting /\ Condemned' = Condemned
    BY <2>1 DEF Deleting, Condemned
  <2> QED
    BY <1>0, <2>1, <2>2, <2>3 DEF ChunkInv, Care
<1>7. ASSUME NEW c \in Call, ChunkPutDone(c) \/ ArtifactPutDone(c) PROVE ChunkInv'
  <2> DEFINE k == calls[c].key
  <2>1. /\ calls' = [calls EXCEPT ![c] = NoCall] /\ calls[c].pc = "landed"
        /\ UNCHANGED <<rows, passes, objects, orphans>>
    BY <1>7 DEF ChunkPutDone, ArtifactPutDone, bucket
  <2>2. LandedKeys \subseteq LandedKeys' \cup {k}
    BY <2>1 DEF LandedKeys, Inv, DeletionTypeOK
  <2>3. Deleting' = Deleting /\ Condemned' = Condemned
    BY <2>1 DEF Deleting, Condemned
  <2>4. \/ k \in rows /\ queued' = queued \ {k} /\ unlinked' = unlinked
        \/ unlinked' = unlinked \cup {k} /\ queued' = queued
        \/ k \notin Chunk /\ unlinked' = unlinked /\ queued' = queued
    BY <1>7 DEF ChunkPutDone, PutAccepted, ArtifactPutDone, bucket
  <2> QED
    BY <1>0, <2>1, <2>2, <2>3, <2>4 DEF ChunkInv, Care
<1>8. ASSUME rows \subseteq rows', LandedKeys' = LandedKeys,
             UNCHANGED <<queued, passes, objects, unlinked, orphans>>
      PROVE  ChunkInv'
  <2>1. Deleting' = Deleting /\ Condemned' = Condemned
    BY <1>8 DEF Deleting, Condemned
  <2> QED
    BY <1>0, <1>8, <2>1 DEF ChunkInv, Care
<1>9. CASE SessionNext
  BY <1>8, <1>9 DEF SessionNext, IssueCode, Enroll, ShareCreate, DeleteAccount, PurgeShares,
                    Poll, DriveFails, Fold, EvictSession, bucket, LandedKeys
<1>10. CASE PurgeNext
  BY <1>1, <1>2, <1>3, <1>4, <1>5, <1>10 DEF PurgeNext, DrivenPass, AlarmPass, Starter
<1>11. ASSUME NEW c \in Call,
              \/ Validate(c) \/ Arrive(c) \/ Write(c)
              \/ \E a \in Artifact : Reserve(c, a) \/ ArtifactPut(c, a)
              \/ \E k \in Chunk : ChunkPut(c, k)
       PROVE  ChunkInv'
  <2>1. rows \subseteq rows' /\ UNCHANGED <<queued, passes, objects, unlinked, orphans>>
    <3>1. CASE Write(c)
      BY <3>1 DEF Write, bucket
    <3>2. CASE ~Write(c)
      BY <1>11, <3>2 DEF Validate, Arrive, Reserve, ArtifactPut, ChunkPut, bucket
    <3> QED
      BY <3>1, <3>2
  <2>2. /\ calls[c].pc # "landed" /\ calls'[c].pc # "landed"
        /\ \A b \in Call \ {c} : calls'[b] = calls[b]
    <3>1. CASE Write(c)
      BY <3>1 DEF Write, NoCall, Inv, DeletionTypeOK, CallState
    <3>2. CASE ~Write(c)
      BY <1>11, <3>2 DEF Validate, Arrive, Reserve, ArtifactPut, ChunkPut, NoCall, Inv,
                         DeletionTypeOK, CallState
    <3> QED
      BY <3>1, <3>2
  <2>3. LandedKeys' = LandedKeys
    BY <2>2 DEF LandedKeys
  <2> QED
    BY <1>8, <2>1, <2>3
<1>12. CASE CallNext
  BY <1>6, <1>7, <1>11, <1>12 DEF CallNext
<1>13. CASE UNCHANGED vars
  BY <1>8, <1>13 DEF vars, bucket, LandedKeys
<1> QED
  BY <1>9, <1>10, <1>12, <1>13 DEF Next
---------------------------------------------------------------------------

\* The initial state satisfies the inductive invariant.
LEMMA InitInv == Init => Inv
<1> SUFFICES ASSUME Init PROVE Inv
  OBVIOUS
<1>1. calls \in [Call -> CallState] /\ KeysInv
  BY DEF Init, KeysInv, CallState, NoCall
<1>2. DeletionTypeOK
  <2>1. passes \in [Starter -> PassState] /\ drivers \in [Driver -> DriverState]
    BY DEF Init, PassState, NoPass, DriverState
  <2>2. rows \subseteq Row /\ faults \in 0 .. MaxFaults
    BY DeletionAssumption DEF Init, Row, Record
  <2> QED
    BY <1>1, <2>1, <2>2 DEF Init, DeletionTypeOK
<1>3. SessionInv /\ PurgeInv
  BY DEF Init, SessionInv, PurgeInv, NoPass
<1>4. ChunkInv
  BY DEF Init, ChunkInv
<1> QED
  BY <1>1, <1>2, <1>3, <1>4 DEF Inv

\* Every step keeps it.
LEMMA NextInv == Inv /\ [Next]_vars => Inv'
<1> SUFFICES ASSUME Inv, [Next]_vars PROVE Inv'
  OBVIOUS
<1>1. DeletionTypeOK' /\ KeysInv' /\ SessionInv' /\ PurgeInv'
  BY TypeStep, SessionStep, PurgeStep
<1>2. Cardinality(Chunk) <= Batch => ChunkInv'
  BY <1>1, ChunkStep
<1> QED
  BY <1>1, <1>2 DEF Inv

\* The inductive invariant holds in every reachable state.
THEOREM DeletionInvariant == Spec => []Inv
BY InitInv, NextInv, PTL DEF Spec

\* Every variable keeps its type, chunk rows are queued only while they exist and
\* a driver waits only for a pass that runs (deleteAccountData, driveAccountPurge).
THEOREM DeletionTypes == Spec => []DeletionTypeOK
<1>1. Inv => DeletionTypeOK
  BY DEF Inv
<1> QED
  BY <1>1, DeletionInvariant, PTL

\* "Enrollments disable first" (deleteAccountById): no purge begins, and none goes
\* on, while a session of the account is live.
THEOREM SessionsEndFirst == Spec => []RevokedBeforePurge
<1>1. Inv => RevokedBeforePurge
  BY DEF Inv, SessionInv, RevokedBeforePurge
<1> QED
  BY <1>1, DeletionInvariant, PTL

\* The tombstone says "deleted" only when the account object has said so
\* (driveAccountPurge), with any number of drivers, crashes and failed calls.
THEOREM DeletedIsTrue == Spec => []DeletedMeansPurged
<1>1. Inv => DeletedMeansPurged
  BY DEF Inv, PurgeInv, DeletedMeansPurged
<1> QED
  BY <1>1, DeletionInvariant, PTL

\* purgeRemaining is not fooled by overlapping passes and late uploads: what is
\* left in a deleted account was written by requests that need no other row.
THEOREM NothingStaysBehind == Spec => []OnlyLateWrites
<1>1. Inv => OnlyLateWrites
  BY DEF Inv, PurgeInv, OnlyLateWrites
<1> QED
  BY <1>1, DeletionInvariant, PTL

\* No snapshot chunk is orphaned by passes that overlap with uploads, as long as
\* the chunk rows fit one batch (processQueuedSyncSnapshotChunkDeletes).
THEOREM ChunksOwned == Spec => []ChunksAreOwned
<1>1. Inv => ChunksAreOwned
  BY DEF Inv, ChunkInv, Care, LandedKeys, ChunksAreOwned
<1> QED
  BY <1>1, DeletionInvariant, PTL
=============================================================================
