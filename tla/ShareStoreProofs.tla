-------------------------- MODULE ShareStoreProofs --------------------------
(***************************************************************************)
(* Proofs about ShareStore, for every number of shares and of concurrent   *)
(* calls and every quota.                                                  *)
(***************************************************************************)
EXTENDS ShareStore, FiniteSetTheorems, WellFoundedInduction, TLAPS

\* A share has its first object until it is published, and an update is staged
\* under a key that was never used before.
RowOK(r, last) ==
    /\ r.state \in {"new", "reserved", "uploaded"} => r.key = 0 /\ r.pkey = 0
    /\ r.state = "new" => r.psha = NoDigest
    /\ r.pkey # 0 => r.key < r.pkey
    /\ r.key <= last /\ r.pkey <= last

RowsInv == \A s \in Share : RowOK(rows[s], issued[s])

Finalizing == {"finalize", "verify", "commit"}

\* What a call still knows about the row it has read.  A finalize of a first
\* object or of a staged update declares the digest the row declares for that
\* key; a key that is going to be deleted is not the row's any more.
CallOK(call, r, last) ==
    /\ call.pc # "idle" => r.state # "new"
    /\ call.key <= last /\ call.pkey <= last
    /\ call.pc \in Finalizing /\ ~call.staged =>
          /\ call.key = 0
          /\ Publishable(r) => call.sha = r.sha
    /\ call.pc \in Finalizing /\ call.staged =>
          /\ call.key < call.pkey
          /\ Exists(r) /\ r.pkey = call.pkey => r.psha = call.sha
    /\ call.pc = "swap" => (r.state \in Live => call.key < r.key)
    /\ call.pc = "lose" =>
          /\ call.pkey # 0
          /\ r.state \in Live => call.pkey \notin {r.key, r.pkey}
    /\ call.pc = "expire" => r.state \in Terminal

CallsInv == \A c \in Call : LET s == calls[c].share IN CallOK(calls[c], rows[s], issued[s])

\* A row the sweep wants to expire stays overdue until it ends; an abandoned update
\* is never swapped in.
VictimOK(v, r) ==
    /\ v.pkey <= issued[v.share]
    /\ r.state # "new"
    /\ sweep.pc = "expire" => r.state \in Terminal \/ Overdue(v.share, r)
    /\ sweep.pc = "unstage" =>
          /\ v.pkey # 0
          /\ Exists(r) => /\ r.key # v.pkey
                          /\ r.pkey = v.pkey => <<v.share, v.pkey>> \in lapsed

SweepInv == /\ sweep.gone \subseteq sweep.todo
            /\ \A v \in sweep.todo : VictimOK(v, rows[v.share])

Inv == ShareTypeOK /\ RowsInv /\ CallsInv /\ SweepInv

---------------------------------------------------------------------------

\* What a step may do to the row of a share.  Only a creation and an update reserve
\* bytes, of one share at a time and as far as they fit.
OnlyMoves(s) == \A t \in Share \ {s} : rows'[t] = rows[t]
Created(s) ==
    /\ rows[s].state = "new" /\ OnlyMoves(s)
    /\ \E d \in Digest : Fits(s, d) /\ rows'[s] = [NoRow EXCEPT !.state = "reserved", !.sha = d]
Staged(s) ==
    /\ rows[s].state = "published" /\ issued'[s] = NextKey(s) /\ issued[s] < MaxUpdates
    /\ OnlyMoves(s)
    /\ \E d \in Digest :
          Fits(s, d) /\ rows'[s] = [rows[s] EXCEPT !.pkey = NextKey(s), !.psha = d]
Ended(s) ==
    /\ rows[s].state # "new"
    /\ \/ rows'[s] = [NoRow EXCEPT !.state = "gone"]
       \/ /\ Exists(rows[s])
          /\ \E state \in Terminal :
                LET ended == [rows[s] EXCEPT !.state = state]
                IN rows'[s] \in {ended, Unstaged(ended)}
Uploaded(s) ==
    /\ rows[s].state = "reserved"
    /\ rows'[s] = [rows[s] EXCEPT !.state = "uploaded"]
Commits(c, s) == calls[c].pc = "commit" /\ calls[c].share = s
Published(s) ==
    /\ Publishable(rows[s]) /\ <<s, 0>> \notin lapsed
    /\ \E c \in Call : Commits(c, s) /\ ~calls[c].staged
    /\ rows'[s] = [rows[s] EXCEPT !.state = "published"]
SwappedIn(s) ==
    /\ HasPending(rows[s]) /\ <<s, rows[s].pkey>> \notin lapsed
    /\ \E c \in Call : Commits(c, s) /\ calls[c].staged /\ calls[c].pkey = rows[s].pkey
    /\ rows'[s] = Swapped(rows[s])
GivenUp(s) == Exists(rows[s]) /\ rows'[s] = Unstaged(rows[s])

RowStep(s) ==
    \/ rows'[s] = rows[s]
    \/ Created(s) \/ Staged(s) \/ Ended(s) \/ Uploaded(s) \/ Published(s)
    \/ SwappedIn(s) \/ GivenUp(s)

\* Deadlines pass once for a row and a key; the row takes them with it.
ClockStep(s) ==
    /\ issued'[s] \in {issued[s], issued[s] + 1} /\ issued'[s] <= MaxUpdates
    /\ \A n \in KeyNo : <<s, n>> \in lapsed /\ n <= issued[s] =>
          <<s, n>> \in lapsed' \/ rows'[s].state = "gone"
    /\ s \in due => s \in due' \/ rows'[s].state = "gone"

RowSteps == /\ rows' = [s \in Share |-> rows'[s]] /\ issued' = [s \in Share |-> issued'[s]]
            /\ \A s \in Share : RowStep(s) /\ ClockStep(s)

\* Whatever a step does to a row, it is one of these.
LEMMA RowsMove == Inv /\ [Next]_vars => RowSteps
<1> SUFFICES ASSUME Inv, [Next]_vars PROVE RowSteps
  OBVIOUS
<1>0. /\ rows \in [Share -> Row] /\ issued \in [Share -> Nat] /\ MaxUpdates \in Nat
      /\ \A s \in Share : issued[s] <= MaxUpdates
      /\ lapsed \subseteq Key /\ due \subseteq Share
      /\ \A c \in Call : calls[c].share \in Share
      /\ \A c \in Call : calls[c].pc # "idle" => rows[calls[c].share].state # "new"
      /\ \A c \in Call : calls[c].pc = "commit" /\ ~calls[c].staged => calls[c].key = 0
      /\ \A v \in sweep.gone : v.share \in Share
  BY ShareAssumption DEF Inv, ShareTypeOK, KeyNo, CallState, SweepState, Victim, CallsInv,
     CallOK, Finalizing, SweepInv
<1>a. \A s \in Share : rows'[s] = rows[s] => RowStep(s)
  BY DEF RowStep
<1>b. ASSUME rows' = rows, issued' = issued, lapsed \subseteq lapsed', due \subseteq due'
      PROVE  RowSteps
  BY <1>0, <1>a, <1>b DEF RowSteps, ClockStep
<1>c. ASSUME NEW s \in Share, RowStep(s), rows' = [rows EXCEPT ![s] = rows'[s]],
             UNCHANGED <<issued, lapsed, due>>
      PROVE  RowSteps
  BY <1>0, <1>a, <1>c DEF RowSteps, ClockStep
<1>d. ASSUME NEW ss \in SUBSET Share, \A s \in ss : rows[s].state # "new", DeleteRows(ss),
             UNCHANGED issued
      PROVE  RowSteps
  <2>1. \A s \in ss : RowStep(s)
    BY <1>d DEF RowStep, Ended, DeleteRows
  <2>2. \A s \in Share \ ss : RowStep(s)
    BY <1>a, <1>d DEF DeleteRows
  <2>3. \A s \in Share : ClockStep(s)
    BY <1>0, <1>d DEF ClockStep, DeleteRows, NoRow
  <2> QED
    BY <1>0, <1>d, <2>1, <2>2, <2>3 DEF RowSteps, DeleteRows
<1>e. ASSUME NEW c \in Call, ExpireRow(c), UNCHANGED <<issued, clocks>> PROVE RowSteps
  <2>1. RowStep(calls[c].share)
    BY <1>0, <1>e DEF ExpireRow, RowStep, Ended, Live, Terminal, Exists
  <2> QED
    BY <1>0, <1>b, <1>c, <1>e, <2>1 DEF ExpireRow, clocks
<1>1. ASSUME NEW s \in Share, NEW d \in Digest, ShareCreate(s, d) PROVE RowSteps
  <2>1. RowStep(s)
    BY <1>1, <1>0 DEF ShareCreate, RowStep, Created, OnlyMoves
  <2> QED
    BY <1>1, <1>c, <2>1 DEF ShareCreate, clocks
<1>2. ASSUME NEW s \in Share, NEW d \in Digest, ShareUpdate(s, d) PROVE RowSteps
  <2>1. /\ rows' = [rows EXCEPT ![s] = [rows[s] EXCEPT !.pkey = NextKey(s), !.psha = d]]
        /\ issued' = [issued EXCEPT ![s] = NextKey(s)] /\ rows[s].state = "published"
        /\ issued[s] < MaxUpdates /\ Fits(s, d)
        /\ due' = due /\ lapsed' = lapsed \ {<<s, NextKey(s)>>}
    BY <1>2, <1>0 DEF ShareUpdate, NextKey
  <2>2. \A t \in Share : RowStep(t)
    BY <1>0, <2>1 DEF RowStep, Staged, OnlyMoves
  <2>3. \A t \in Share : ClockStep(t)
    BY <1>0, <2>1 DEF ClockStep, NextKey, KeyNo
  <2> QED
    BY <1>0, <2>1, <2>2, <2>3 DEF RowSteps
<1>3. ASSUME NEW s \in Share, ShareUpdateTooLate(s) PROVE RowSteps
  <2>1. RowStep(s)
    BY <1>3, <1>0 DEF ShareUpdateTooLate, RowStep, Ended, Overdue, Unstaged, Terminal, Exists
  <2> QED
    BY <1>3, <1>c, <2>1 DEF ShareUpdateTooLate, clocks
<1>4. ASSUME NEW s \in Share, ShareRevoke(s) PROVE RowSteps
  <2>1. RowStep(s)
    BY <1>4, <1>0 DEF ShareRevoke, RowStep, Ended, Live, Unstaged, Terminal, Exists
  <2> QED
    BY <1>4, <1>c, <2>1 DEF ShareRevoke, clocks
<1>5. ASSUME NEW s \in Share, ShareDue(s) PROVE RowSteps
  BY <1>5, <1>b DEF ShareDue, clocks
<1>6. CASE DeleteAccount
  BY <1>6, <1>d DEF DeleteAccount, Exists
<1>7. ASSUME NEW c \in Call, NEW s \in Share, NEW d \in Digest \cup {Corrupt}, ShareUpload(c, s, d)
      PROVE RowSteps
  BY <1>7, <1>b DEF ShareUpload, clocks
<1>8. ASSUME NEW c \in Call, NEW s \in Share, ShareFinalize(c, s) PROVE RowSteps
  BY <1>8, <1>b DEF ShareFinalize, clocks
<1>9. ASSUME NEW c \in Call, NEW s \in Share, SharedArtifactRead(c, s) PROVE RowSteps
  BY <1>9, <1>b DEF SharedArtifactRead, clocks
<1>10. ASSUME NEW c \in Call, PutLands(c) PROVE RowSteps
  BY <1>10, <1>b DEF PutLands, clocks
<1>11. ASSUME NEW c \in Call, UploadDone(c) PROVE RowSteps
  <2>1. RowStep(calls[c].share)
    BY <1>11, <1>0 DEF UploadDone, RowStep, Uploaded
  <2> QED
    BY <1>11, <1>0, <1>c, <2>1 DEF UploadDone, clocks
<1>12. ASSUME NEW c \in Call, PutFails(c) PROVE RowSteps
  BY <1>12, <1>b DEF PutFails, clocks
<1>13. ASSUME NEW c \in Call, AbortUpload(c) PROVE RowSteps
  BY <1>13, <1>b DEF AbortUpload, clocks
<1>14. ASSUME NEW c \in Call, FinalizeChecks(c) PROVE RowSteps
  <2>1. CASE ExpireRow(c)
    BY <1>14, <1>e, <2>1 DEF FinalizeChecks
  <2>2. CASE UNCHANGED rows
    BY <1>14, <1>b, <2>2 DEF FinalizeChecks, clocks
  <2> QED
    BY <1>14, <2>1, <2>2 DEF FinalizeChecks
<1>15. ASSUME NEW c \in Call, Verify(c) PROVE RowSteps
  BY <1>15, <1>b DEF Verify, clocks
<1>16. ASSUME NEW c \in Call, DeleteMismatch(c) PROVE RowSteps
  BY <1>16, <1>b DEF DeleteMismatch, clocks
<1>17. ASSUME NEW c \in Call, DropRow(c) PROVE RowSteps
  BY <1>17, <1>0, <1>d DEF DropRow
<1>18. ASSUME NEW c \in Call, Publish(c) PROVE RowSteps
  <2>1. RowStep(calls[c].share)
    BY <1>18, <1>0 DEF Publish, RowStep, Published, Commits
  <2> QED
    BY <1>18, <1>0, <1>c, <2>1 DEF Publish, clocks
<1>19. ASSUME NEW c \in Call, Swap(c) PROVE RowSteps
  <2>1. RowStep(calls[c].share)
    BY <1>19, <1>0 DEF Swap, RowStep, SwappedIn, Commits, Swappable, Target
  <2> QED
    BY <1>19, <1>0, <1>c, <2>1 DEF Swap, clocks
<1>20. ASSUME NEW c \in Call, DeleteReplaced(c) PROVE RowSteps
  BY <1>20, <1>b DEF DeleteReplaced, clocks
<1>21. ASSUME NEW c \in Call, DeleteStaged(c) PROVE RowSteps
  BY <1>21, <1>b DEF DeleteStaged, clocks
<1>22. ASSUME NEW c \in Call, DeleteExpired(c) PROVE RowSteps
  BY <1>22, <1>b DEF DeleteExpired, clocks
<1>23. ASSUME NEW c \in Call, ClearPending(c) PROVE RowSteps
  <2>1. RowStep(calls[c].share)
    BY <1>23, <1>0 DEF ClearPending, RowStep, GivenUp
  <2> QED
    BY <1>23, <1>0, <1>c, <2>1 DEF ClearPending, clocks
<1>24. ASSUME NEW c \in Call, ReadExpires(c) PROVE RowSteps
  BY <1>24, <1>e DEF ReadExpires
<1>25. CASE SweepBegin
  BY <1>25, <1>b DEF SweepBegin, SweepLoop, clocks
<1>26. CASE SweepObjects
  BY <1>26, <1>b DEF SweepObjects, clocks
<1>27. CASE SweepRow
  <2>1. PICK v \in sweep.gone :
          rows' = IF Exists(rows[v.share])
                  THEN [rows EXCEPT ![v.share] = Unstaged([@ EXCEPT !.state = "expired"])]
                  ELSE rows
    BY <1>27 DEF SweepRow
  <2>2. RowStep(v.share)
    BY <1>0, <2>1 DEF RowStep, Ended, Exists, Terminal
  <2> QED
    BY <1>27, <1>0, <1>c, <2>1, <2>2 DEF SweepRow, clocks
<1>28. CASE SweepStale
  BY <1>28, <1>b DEF SweepStale, SweepLoop, clocks
<1>29. CASE SweepStaged
  BY <1>29, <1>b DEF SweepStaged, clocks
<1>30. CASE SweepUnstage
  <2>1. PICK v \in sweep.gone :
          rows' = IF Exists(rows[v.share]) /\ rows[v.share].pkey = v.pkey
                  THEN [rows EXCEPT ![v.share] = Unstaged(@)] ELSE rows
    BY <1>30 DEF SweepUnstage
  <2>2. RowStep(v.share)
    BY <1>0, <2>1 DEF RowStep, GivenUp
  <2> QED
    BY <1>30, <1>0, <1>c, <2>1, <2>2 DEF SweepUnstage, clocks
<1>31. ASSUME NEW s \in Share, SweepRetired(s) PROVE RowSteps
  BY <1>31, <1>d DEF SweepRetired
<1>32. ASSUME NEW k \in Key, WindowCloses(k) PROVE RowSteps
  BY <1>32, <1>b DEF WindowCloses, clocks
<1>33. ASSUME NEW k \in Key, WindowForgotten(k) PROVE RowSteps
  BY <1>33, <1>b DEF WindowForgotten, clocks
<1>34. CASE Evicted
  BY <1>34, <1>b DEF Evicted, clocks
<1>35. CASE UNCHANGED vars
  BY <1>35, <1>b DEF vars, clocks
<1> QED
  BY <1>1, <1>2, <1>3, <1>4, <1>5, <1>6, <1>7, <1>8, <1>9, <1>10, <1>11, <1>12, <1>13,
     <1>14, <1>15, <1>16, <1>17, <1>18, <1>19, <1>20, <1>21, <1>22, <1>23, <1>24,
     <1>25, <1>26, <1>27, <1>28, <1>29, <1>30, <1>31, <1>32, <1>33, <1>34, <1>35
     DEF Next, CallStep, SweepStep

\* A row without its staged update.
LEMMA UnstagedRow ==
    ASSUME NEW r \in Row
    PROVE  /\ Unstaged(r) \in Row /\ Unstaged(r).pkey = 0
           /\ Unstaged(r).state = r.state /\ Unstaged(r).key = r.key /\ Unstaged(r).sha = r.sha
<1>1. 0 \in KeyNo
  BY ShareAssumption DEF KeyNo
<1> QED
  BY <1>1 DEF Unstaged, Row

\* The row of a share that has ended.
LEMMA EndedRow ==
    ASSUME NEW s \in Share, rows[s] \in Row, Ended(s)
    PROVE  /\ rows'[s] \in Row /\ rows'[s].state \in Terminal
           /\ rows[s].state = "gone" => rows'[s].state = "gone"
           /\ \/ rows'[s].key = 0 /\ rows'[s].pkey = 0
              \/ rows'[s].key = rows[s].key /\ rows'[s].pkey = 0
              \/ /\ rows'[s].key = rows[s].key /\ rows'[s].pkey = rows[s].pkey
                 /\ rows'[s].psha = rows[s].psha
<1>1. CASE rows'[s] = [NoRow EXCEPT !.state = "gone"]
  <2>1. 0 \in KeyNo
    BY ShareAssumption DEF KeyNo
  <2> QED
    BY <1>1, <2>1 DEF NoRow, Row, Terminal
<1>2. ASSUME Exists(rows[s]), NEW state \in Terminal,
             rows'[s] \in {[rows[s] EXCEPT !.state = state],
                          Unstaged([rows[s] EXCEPT !.state = state])}
      PROVE  /\ rows'[s] \in Row /\ rows'[s].state \in Terminal /\ rows[s].state # "gone"
             /\ rows'[s].key = rows[s].key
             /\ \/ rows'[s].pkey = 0
                \/ rows'[s].pkey = rows[s].pkey /\ rows'[s].psha = rows[s].psha
  <2> DEFINE r == [rows[s] EXCEPT !.state = state]
  <2>1. r \in Row /\ r.state = state /\ r.key = rows[s].key /\ r.pkey = rows[s].pkey
        /\ r.psha = rows[s].psha
    BY DEF Row, Terminal
  <2>2. rows[s].state # "gone" /\ rows'[s] \in {r, Unstaged(r)}
    BY <1>2 DEF Exists
  <2> HIDE DEF r
  <2> QED
    BY <2>1, <2>2, UnstagedRow
<1> QED
  BY <1>1, <1>2 DEF Ended

\* Such a step leads from rows to rows.
LEMMA RowsType == ShareTypeOK /\ RowSteps => /\ rows' \in [Share -> Row]
                                           /\ issued' \in [Share -> KeyNo]
<1> SUFFICES ASSUME ShareTypeOK, RowSteps
             PROVE  \A s \in Share : rows'[s] \in Row /\ issued'[s] \in KeyNo
  BY DEF RowSteps
<1> TAKE s \in Share
<1>1. /\ rows[s] \in Row /\ issued[s] \in KeyNo /\ MaxUpdates \in Nat
      /\ RowStep(s) /\ ClockStep(s)
  BY ShareAssumption DEF ShareTypeOK, RowSteps
<1>2. issued'[s] \in KeyNo
  BY <1>1 DEF ClockStep, KeyNo
<1>3. /\ NoRow \in Row /\ 0 \in KeyNo /\ NoDigest \in Digest \cup {NoDigest}
      /\ issued[s] < MaxUpdates => issued[s] + 1 \in KeyNo
  BY <1>1 DEF NoRow, Row, KeyNo
<1>4. rows'[s] \in Row
  <2>1. CASE Created(s) \/ Staged(s) \/ Uploaded(s) \/ Published(s)
    BY <1>1, <1>3, <2>1 DEF Created, Staged, Uploaded, Published, Row, NextKey, Live
  <2>2. CASE Ended(s)
    BY <1>1, <2>2, EndedRow
  <2>3. CASE SwappedIn(s)
    <3>1. [rows[s] EXCEPT !.key = rows[s].pkey, !.sha = rows[s].psha] \in Row
      BY <1>1 DEF Row
    <3> QED
      BY <2>3, <3>1, UnstagedRow DEF SwappedIn, Swapped
  <2>4. CASE GivenUp(s)
    BY <1>1, <2>4, UnstagedRow DEF GivenUp
  <2> QED
    BY <1>1, <2>1, <2>2, <2>3, <2>4 DEF RowStep
<1> QED
  BY <1>2, <1>4

\* One share's row stays in order.
LEMMA RowsStay == ShareTypeOK /\ RowsInv /\ RowSteps => RowsInv'
<1> SUFFICES ASSUME ShareTypeOK, RowsInv, RowSteps, NEW s \in Share
             PROVE  RowOK(rows'[s], issued'[s])
  BY DEF RowsInv
<1>1. /\ rows[s] \in Row /\ issued[s] \in Nat /\ issued'[s] \in Nat
      /\ issued[s] <= issued'[s] /\ rows[s].key \in Nat /\ rows[s].pkey \in Nat
      /\ RowStep(s) /\ RowOK(rows[s], issued[s])
  BY ShareAssumption, RowsType DEF ShareTypeOK, RowSteps, ClockStep, RowsInv, KeyNo, Row
<1>2. CASE rows'[s] = rows[s]
  BY <1>1, <1>2 DEF RowOK
<1>3. CASE Created(s)
  BY <1>1, <1>3 DEF Created, NoRow, RowOK
<1>4. CASE Staged(s)
  BY <1>1, <1>4 DEF Staged, NextKey, RowOK, Row
<1>5. CASE Ended(s)
  BY <1>1, <1>5, EndedRow DEF Terminal, RowOK
<1>6. CASE Uploaded(s) \/ Published(s)
  BY <1>1, <1>6 DEF Uploaded, Published, Publishable, RowOK, Row
<1>7. CASE SwappedIn(s)
  BY <1>1, <1>7 DEF SwappedIn, HasPending, Swapped, Unstaged, RowOK, Row
<1>8. CASE GivenUp(s)
  BY <1>1, <1>8 DEF GivenUp, Exists, Unstaged, RowOK, Row
<1> QED
  BY <1>1, <1>2, <1>3, <1>4, <1>5, <1>6, <1>7, <1>8 DEF RowStep

\* What a waiting call knows stays true, whatever happens to its row.
LEMMA CallWaits ==
    ASSUME ShareTypeOK, RowsInv, RowSteps, NEW s \in Share, NEW call \in CallState,
           CallOK(call, rows[s], issued[s])
    PROVE  CallOK(call, rows'[s], issued'[s])
<1>1. /\ rows[s] \in Row /\ issued[s] \in Nat /\ issued'[s] \in Nat
      /\ issued[s] <= issued'[s] /\ rows[s].key \in Nat /\ rows[s].pkey \in Nat
      /\ call.key \in Nat /\ call.pkey \in Nat
      /\ RowStep(s) /\ RowOK(rows[s], issued[s])
  BY ShareAssumption, RowsType
     DEF ShareTypeOK, RowSteps, ClockStep, RowsInv, KeyNo, Row, CallState
<1>2. CASE rows'[s] = rows[s]
  BY <1>1, <1>2 DEF CallOK
<1>3. CASE Created(s)
  BY <1>1, <1>3 DEF Created, NoRow, CallOK, Finalizing
<1>4. CASE Staged(s)
  BY <1>1, <1>4 DEF Staged, NextKey, CallOK, RowOK, Row, Finalizing, Publishable, Exists, Live
<1>5. CASE Ended(s)
  <2>1. rows'[s].state \notin Live \cup {"new"} /\ ~Publishable(rows'[s]) /\ rows[s].state # "new"
    BY <1>1, <1>5, EndedRow DEF Terminal, Live, Publishable, Ended
  <2>2. Exists(rows'[s]) => Exists(rows[s])
    BY <1>1, <1>5, EndedRow DEF Terminal, Ended, Exists
  <2>3. call.pc = "expire" => rows'[s].state \in Terminal
    BY <1>1, <1>5, EndedRow
  <2>4. call.pc \in Finalizing /\ call.staged /\ Exists(rows'[s]) /\ rows'[s].pkey = call.pkey
        => rows'[s].psha = call.sha
    BY <1>1, <1>5, <2>2, EndedRow DEF CallOK
  <2> QED
    BY <1>1, <2>1, <2>3, <2>4 DEF CallOK
<1>6. CASE Uploaded(s) \/ Published(s)
  BY <1>1, <1>6 DEF Uploaded, Published, Publishable, CallOK, RowOK, Row, Finalizing, Exists, Live,
     Terminal
<1>7. CASE SwappedIn(s)
  BY <1>1, <1>7 DEF SwappedIn, HasPending, Swapped, Unstaged, CallOK, RowOK, Row, Finalizing,
     Publishable, Exists, Live, Terminal
<1>8. CASE GivenUp(s)
  BY <1>1, <1>8 DEF GivenUp, Unstaged, CallOK, RowOK, Row, Finalizing, Publishable, Exists,
     Live, Terminal
<1> QED
  BY <1>1, <1>2, <1>3, <1>4, <1>5, <1>6, <1>7, <1>8 DEF RowStep

\* So does what the sweep knows.
LEMMA VictimWaits ==
    ASSUME ShareTypeOK, RowsInv, RowSteps, NEW v \in Victim, VictimOK(v, rows[v.share]),
           sweep'.pc = sweep.pc
    PROVE  VictimOK(v, rows[v.share])'
<1> DEFINE s == v.share
<1>1. /\ s \in Share /\ rows[s] \in Row /\ issued[s] \in Nat /\ issued'[s] \in Nat
      /\ issued[s] <= issued'[s] /\ rows[s].key \in Nat /\ rows[s].pkey \in Nat
      /\ v.pkey \in Nat /\ v.pkey \in KeyNo /\ 0 \in KeyNo /\ v.pkey <= issued[s]
      /\ RowStep(s) /\ ClockStep(s) /\ RowOK(rows[s], issued[s])
  BY ShareAssumption, RowsType
     DEF ShareTypeOK, RowSteps, ClockStep, RowsInv, KeyNo, Row, Victim, VictimOK
<1>2. \/ rows'[s].state = "gone"
      \/ /\ \A n \in KeyNo : <<s, n>> \in lapsed /\ n <= issued[s] => <<s, n>> \in lapsed'
         /\ s \in due => s \in due'
  BY <1>1 DEF ClockStep
<1>3. CASE rows'[s].state = "gone"
  BY <1>1, <1>3 DEF VictimOK, Terminal, Exists
<1>4. ASSUME rows'[s].state # "gone", sweep.pc = "expire"
      PROVE  rows'[s].state \in Terminal \/ Overdue(s, rows[s])'
  <2>1. rows[s].state \in Terminal \/ Overdue(s, rows[s])
    BY <1>4 DEF VictimOK
  <2>2. rows[s].state \in Terminal => rows'[s].state \in Terminal
    BY <1>1 DEF RowStep, Created, Staged, Ended, Uploaded, Published, Publishable, SwappedIn,
       HasPending, Swapped, GivenUp, Unstaged, Terminal, Row, NoRow
  <2>3. CASE rows[s].state \in {"reserved", "uploaded"} /\ <<s, 0>> \in lapsed
    <3>1. <<s, 0>> \in lapsed'
      BY <1>1, <1>2, <1>4, <2>3
    <3>2. rows'[s].state \in Terminal \cup {"reserved", "uploaded"}
      BY <1>1, <2>3 DEF RowStep, Created, Staged, Ended, Uploaded, Published, Publishable,
         SwappedIn, HasPending, Swapped, GivenUp, Unstaged, Terminal, Row, NoRow
    <3> QED
      BY <3>1, <3>2 DEF Overdue
  <2>4. CASE rows[s].state = "published" /\ s \in due
    <3>1. s \in due'
      BY <1>2, <1>4, <2>4
    <3>2. rows'[s].state \in Terminal \cup {"published"}
      BY <1>1, <2>4 DEF RowStep, Created, Staged, Ended, Uploaded, Published, Publishable,
         SwappedIn, HasPending, Swapped, GivenUp, Unstaged, Terminal, Row, NoRow
    <3> QED
      BY <3>1, <3>2 DEF Overdue
  <2> QED
    BY <2>1, <2>2, <2>3, <2>4 DEF Overdue
<1>5. ASSUME rows'[s].state # "gone", sweep.pc = "unstage", Exists(rows'[s])
      PROVE  rows'[s].key # v.pkey /\ (rows'[s].pkey = v.pkey => <<s, v.pkey>> \in lapsed')
  <2>1. /\ v.pkey # 0
        /\ Exists(rows[s]) => /\ rows[s].key # v.pkey
                              /\ rows[s].pkey = v.pkey => <<s, v.pkey>> \in lapsed
        /\ rows[s].state # "new"
    BY <1>5 DEF VictimOK
  <2>2. <<s, v.pkey>> \in lapsed => <<s, v.pkey>> \in lapsed'
    BY <1>1, <1>2, <1>5
  <2>3. Exists(rows[s])
    <3>1. Ended(s) => Exists(rows[s])
      BY <1>1, <1>5, <2>1, EndedRow DEF Exists
    <3> QED
      BY <1>1, <1>5, <2>1, <3>1 DEF RowStep, Created, Staged, Uploaded, Published, Publishable,
         SwappedIn, HasPending, GivenUp, Exists
  <2>4. CASE rows'[s] = rows[s] \/ Uploaded(s) \/ Published(s) \/ GivenUp(s)
    BY <1>1, <2>1, <2>2, <2>3, <2>4 DEF Uploaded, Published, GivenUp, Unstaged, Row
  <2>5. CASE Staged(s)
    BY <1>1, <2>1, <2>3, <2>5 DEF Staged, NextKey, Row
  <2>6. CASE Ended(s)
    BY <1>1, <1>5, <2>1, <2>2, <2>3, <2>6, EndedRow
  <2>7. CASE SwappedIn(s)
    BY <1>1, <2>1, <2>2, <2>3, <2>7 DEF SwappedIn, Swapped, Unstaged, Row
  <2> QED
    BY <1>1, <2>1, <2>4, <2>5, <2>6, <2>7 DEF RowStep, Created
<1>6. rows'[s].state # "new"
  BY <1>1 DEF RowStep, Created, Staged, Ended, Uploaded, Published, SwappedIn, Swapped,
     GivenUp, Unstaged, Terminal, Row, NoRow, VictimOK, Exists
<1> QED
  BY <1>1, <1>3, <1>4, <1>5, <1>6 DEF VictimOK

\* Every call keeps what it knows, and learns only what is true when it reads.
LEMMA CallsStep ==
    ASSUME Inv, [Next]_vars, RowSteps
    PROVE  calls' \in [Call -> CallState] /\ CallsInv'
<1> DEFINE Goal == calls' \in [Call -> CallState] /\ CallsInv'
<1>0. /\ rows \in [Share -> Row] /\ rows' \in [Share -> Row]
      /\ issued \in [Share -> Nat] /\ issued' \in [Share -> Nat]
      /\ calls \in [Call -> CallState]
      /\ \A c \in Call : calls[c].share \in Share
      /\ \A c \in Call : CallOK(calls[c], rows[calls[c].share], issued[calls[c].share])
      /\ \A s \in Share : RowOK(rows[s], issued[s])
      /\ 0 \in KeyNo /\ Idle \in CallState
  <2>1. 0 \in KeyNo /\ MaxUpdates \in Nat
    BY ShareAssumption DEF KeyNo
  <2>2. Idle \in CallState
    BY <2>1, ShareAssumption DEF Idle, CallState, Pc
  <2>3. issued \in [Share -> Nat] /\ issued' \in [Share -> Nat]
    BY <2>1, RowsType DEF Inv, ShareTypeOK, KeyNo
  <2>4. \A c \in Call : calls[c].share \in Share
    BY DEF Inv, ShareTypeOK, CallState
  <2> QED
    BY <2>1, <2>2, <2>3, <2>4, RowsType DEF Inv, ShareTypeOK, CallsInv, RowsInv
<1>k. \A c \in Call : CallOK(calls[c], rows'[calls[c].share], issued'[calls[c].share])
  BY <1>0, CallWaits DEF Inv
<1>u. calls' = calls => Goal
  BY <1>0, <1>k DEF CallsInv
<1>c. ASSUME NEW c \in Call, NEW call \in CallState, calls' = [calls EXCEPT ![c] = call],
             CallOK(call, rows'[call.share], issued'[call.share])
      PROVE  Goal
  BY <1>0, <1>k, <1>c DEF CallsInv
<1>i. CallOK(Idle, rows'[Idle.share], issued'[Idle.share])
  <2>1. Idle.share \in Share
    BY <1>0 DEF CallState
  <2> QED
    BY <1>0, <2>1 DEF CallOK, Idle, Finalizing
<1>r. ASSUME NEW c \in Call, Return(c) PROVE Goal
  BY <1>0, <1>c, <1>i, <1>r DEF Return
<1>w. ASSUME NEW c \in Call, NEW pc \in Pc \ {"idle", "swap", "lose", "expire"}, Wait(c, pc),
             calls[c].pc # "idle", pc \in Finalizing => calls[c].pc \in Finalizing
      PROVE  Goal
  <2> DEFINE call == [calls[c] EXCEPT !.pc = pc]
  <2>1. /\ call \in CallState /\ call.pc = pc /\ call.share = calls[c].share
        /\ call.key = calls[c].key /\ call.pkey = calls[c].pkey
        /\ call.staged = calls[c].staged /\ call.sha = calls[c].sha
        /\ calls' = [calls EXCEPT ![c] = call]
    BY <1>0, <1>w DEF CallState, Wait
  <2> HIDE DEF call
  <2>2. CallOK(call, rows'[call.share], issued'[call.share])
    BY <1>k, <1>w, <2>1 DEF CallOK
  <2> QED
    BY <1>c, <2>1, <2>2
<1>e. ASSUME NEW c \in Call, ExpireRow(c), calls[c].pc # "idle" PROVE Goal
  <2> DEFINE call == [calls[c] EXCEPT !.pc = "expire"]
  <2>1. CASE Return(c)
    BY <1>r, <2>1
  <2>2. CASE Wait(c, "expire") /\ rows'[calls[c].share].state = "expired"
    <3>1. /\ call \in CallState /\ call.pc = "expire" /\ call.share = calls[c].share
          /\ call.key = calls[c].key /\ call.pkey = calls[c].pkey
          /\ calls' = [calls EXCEPT ![c] = call]
      BY <1>0, <2>2 DEF CallState, Pc, Wait
    <3> HIDE DEF call
    <3>2. CallOK(call, rows'[call.share], issued'[call.share])
      BY <1>k, <1>e, <2>2, <3>1 DEF CallOK, Terminal, Finalizing
    <3> QED
      BY <1>c, <3>1, <3>2
  <2>3. rows[calls[c].share] \in Row
    BY <1>0
  <2> QED
    BY <1>0, <1>e, <2>1, <2>2, <2>3 DEF ExpireRow, Row
<1>s. ASSUME NEW c \in Call, NEW call \in CallState, calls' = [calls EXCEPT ![c] = call],
             rows' = rows, issued' = issued, CallOK(call, rows[call.share], issued[call.share])
      PROVE  Goal
  BY <1>c, <1>s
<1> HIDE DEF Goal
<1>1. ASSUME NEW s \in Share, NEW d \in Digest, ShareCreate(s, d) PROVE Goal
  BY <1>1, <1>u DEF ShareCreate
<1>2. ASSUME NEW s \in Share, NEW d \in Digest, ShareUpdate(s, d) PROVE Goal
  BY <1>2, <1>u DEF ShareUpdate
<1>3. ASSUME NEW s \in Share, ShareUpdateTooLate(s) PROVE Goal
  BY <1>3, <1>u DEF ShareUpdateTooLate
<1>4. ASSUME NEW s \in Share, ShareRevoke(s) PROVE Goal
  BY <1>4, <1>u DEF ShareRevoke
<1>5. ASSUME NEW s \in Share, ShareDue(s) PROVE Goal
  BY <1>5, <1>u DEF ShareDue
<1>6. ASSUME DeleteAccount PROVE Goal
  BY <1>6, <1>u DEF DeleteAccount, DeleteRows
<1>7. ASSUME NEW c \in Call, NEW s \in Share, NEW d \in Digest \cup {Corrupt}, ShareUpload(c, s, d)
      PROVE Goal
  <2> DEFINE call == [Idle EXCEPT !.pc = "put", !.share = s, !.pkey = rows[s].pkey,
                     !.staged = HasPending(rows[s]), !.body = d,
                     !.sha = IF HasPending(rows[s]) THEN rows[s].psha ELSE rows[s].sha]
  <2>1. call \in CallState /\ call.share = s
    BY <1>0 DEF Idle, CallState, Pc, Row, HasPending
  <2>2. CallOK(call, rows[s], issued[s])
    BY <1>0, <1>7 DEF ShareUpload, CallOK, RowOK, Finalizing, HasPending, Idle, Row
  <2>3. calls' = [calls EXCEPT ![c] = call] /\ rows' = rows /\ issued' = issued
    BY <1>7 DEF ShareUpload, Start
  <2> HIDE DEF call
  <2> QED
    BY <1>s, <2>1, <2>2, <2>3
<1>8. ASSUME NEW c \in Call, NEW s \in Share, ShareFinalize(c, s) PROVE Goal
  <2> DEFINE call == [Idle EXCEPT !.pc = "finalize", !.share = s, !.key = rows[s].key,
                     !.pkey = rows[s].pkey, !.staged = HasPending(rows[s]),
                     !.sha = IF HasPending(rows[s]) THEN rows[s].psha ELSE rows[s].sha]
  <2>1. call \in CallState /\ call.share = s
    BY <1>0 DEF Idle, CallState, Pc, Row, HasPending
  <2>2. CallOK(call, rows[s], issued[s])
    BY <1>0, <1>8 DEF ShareFinalize, CallOK, RowOK, Finalizing, HasPending, Publishable, Idle, Row
  <2>3. calls' = [calls EXCEPT ![c] = call] /\ rows' = rows /\ issued' = issued
    BY <1>8 DEF ShareFinalize, Start
  <2> HIDE DEF call
  <2> QED
    BY <1>s, <2>1, <2>2, <2>3
<1>9. ASSUME NEW c \in Call, NEW s \in Share, SharedArtifactRead(c, s) PROVE Goal
  <2> DEFINE call == [Idle EXCEPT !.pc = "read", !.share = s,
                                  !.key = rows[s].key, !.pkey = rows[s].pkey]
  <2>1. call \in CallState /\ call.share = s
    BY <1>0 DEF Idle, CallState, Pc, Row
  <2>2. CallOK(call, rows[s], issued[s])
    BY <1>0, <1>9 DEF SharedArtifactRead, CallOK, RowOK, Finalizing, Overdue, Idle, Row
  <2>3. calls' = [calls EXCEPT ![c] = call] /\ rows' = rows /\ issued' = issued
    BY <1>9 DEF SharedArtifactRead, Start
  <2> HIDE DEF call
  <2> QED
    BY <1>s, <2>1, <2>2, <2>3
<1>10. ASSUME NEW c \in Call, PutLands(c) PROVE Goal
  BY <1>10, <1>w DEF PutLands, Finalizing, Pc
<1>11. ASSUME NEW c \in Call, UploadDone(c) PROVE Goal
  BY <1>11, <1>r DEF UploadDone
<1>12. ASSUME NEW c \in Call, PutFails(c) PROVE Goal
  BY <1>12, <1>w DEF PutFails, Finalizing, Pc
<1>13. ASSUME NEW c \in Call, AbortUpload(c) PROVE Goal
  BY <1>13, <1>r DEF AbortUpload
<1>14. ASSUME NEW c \in Call, FinalizeChecks(c) PROVE Goal
  <2>1. CASE ExpireRow(c)
    BY <1>14, <1>e, <2>1 DEF FinalizeChecks
  <2>2. CASE Return(c)
    BY <1>r, <2>2
  <2>3. CASE Wait(c, "verify")
    BY <1>14, <1>w, <2>3 DEF FinalizeChecks, Finalizing, Pc
  <2> QED
    BY <1>14, <2>1, <2>2, <2>3 DEF FinalizeChecks
<1>15. ASSUME NEW c \in Call, Verify(c) PROVE Goal
  <2>1. Return(c) \/ Wait(c, "mismatch") \/ Wait(c, "commit")
    BY <1>15 DEF Verify
  <2> QED
    BY <1>15, <1>r, <1>w, <2>1 DEF Verify, Finalizing, Pc
<1>16. ASSUME NEW c \in Call, DeleteMismatch(c) PROVE Goal
  <2>1. Wait(c, "clear") \/ Wait(c, "drop")
    BY <1>16 DEF DeleteMismatch
  <2> QED
    BY <1>16, <1>w, <2>1 DEF DeleteMismatch, Finalizing, Pc
<1>17. ASSUME NEW c \in Call, DropRow(c) PROVE Goal
  BY <1>17, <1>r DEF DropRow
<1>18. ASSUME NEW c \in Call, Publish(c) PROVE Goal
  BY <1>18, <1>r DEF Publish
<1>19. ASSUME NEW c \in Call, Swap(c) PROVE Goal
  <2> DEFINE s == calls[c].share
             pc == IF Won(c, rows[s], rows'[s]) THEN "swap" ELSE "lose"
             call == [calls[c] EXCEPT !.pc = pc]
  <2>1. CASE Return(c)
    BY <1>r, <2>1
  <2>2. CASE Wait(c, pc) /\ rows' = IF Swappable(rows[s], calls[c].pkey)
                                   THEN [rows EXCEPT ![s] = Swapped(@)] ELSE rows
    <3>1. /\ s \in Share /\ calls[c].pc = "commit" /\ calls[c].staged
          /\ calls[c] \in CallState /\ CallOK(calls[c], rows[s], issued[s])
          /\ rows[s] \in Row /\ RowOK(rows[s], issued[s])
      BY <1>0, <1>19 DEF Swap
    <3>2. calls[c].key < calls[c].pkey /\ calls[c].pkey # 0 /\ rows[s].state # "new"
          /\ calls[c].key \in Nat /\ calls[c].pkey \in Nat
      BY <3>1, ShareAssumption DEF CallOK, Finalizing, CallState, KeyNo
    <3>3. rows'[s] = IF Swappable(rows[s], calls[c].pkey) THEN Swapped(rows[s]) ELSE rows[s]
      BY <1>0, <2>2, <3>1
    <3>4. CallOK(calls[c], rows'[s], issued'[s])
      BY <3>1, CallWaits DEF Inv
    <3>5. /\ call \in CallState /\ call.share = s /\ call.pc = pc /\ call.key = calls[c].key
          /\ call.pkey = calls[c].pkey /\ calls' = [calls EXCEPT ![c] = call]
      BY <1>0, <2>2, <3>1 DEF CallState, Pc, Wait
    <3>6. pc = "swap" => (rows'[s].state \in Live => calls[c].key < rows'[s].key)
      BY <3>2 DEF Won
    <3>7. pc = "lose" /\ rows'[s].state \in Live
          => calls[c].pkey \notin {rows'[s].key, rows'[s].pkey}
      <4>1. pc = "lose" /\ rows'[s].state \in Live => rows'[s].key # calls[c].pkey
        BY DEF Won, Exists, Live
      <4>2. CASE Swappable(rows[s], calls[c].pkey)
        <5>1. rows'[s].key = calls[c].pkey
          BY <3>1, <3>3, <4>2 DEF Swappable, Swapped, Unstaged, Row
        <5> QED
          BY <4>1, <5>1
      <4>3. ASSUME ~Swappable(rows[s], calls[c].pkey), rows[s].state \in Live
            PROVE  rows[s].pkey # calls[c].pkey
        BY <3>1, <3>2, <4>3 DEF Swappable, HasPending, RowOK, Live
      <4> QED
        BY <3>3, <4>1, <4>2, <4>3
    <3>8. pc \in {"swap", "lose"}
      OBVIOUS
    <3> HIDE DEF call, pc
    <3>9. CallOK(call, rows'[s], issued'[s])
      <4>1. /\ call.pc \in {"swap", "lose"} /\ call.pkey # 0 /\ rows'[s].state # "new"
            /\ call.key <= issued'[s] /\ call.pkey <= issued'[s]
        BY <3>1, <3>2, <3>4, <3>5, <3>8 DEF CallOK
      <4> QED
        BY <3>5, <3>6, <3>7, <4>1 DEF CallOK, Finalizing
    <3> QED
      BY <1>c, <3>1, <3>5, <3>9
  <2> QED
    BY <1>19, <1>0, <2>1, <2>2 DEF Swap
<1>20. ASSUME NEW c \in Call, DeleteReplaced(c) PROVE Goal
  BY <1>20, <1>r DEF DeleteReplaced
<1>21. ASSUME NEW c \in Call, DeleteStaged(c) PROVE Goal
  BY <1>21, <1>r DEF DeleteStaged
<1>22. ASSUME NEW c \in Call, DeleteExpired(c) PROVE Goal
  <2>1. Return(c) \/ Wait(c, "clear")
    BY <1>22 DEF DeleteExpired
  <2> QED
    BY <1>22, <1>r, <1>w, <2>1 DEF DeleteExpired, Finalizing, Pc
<1>23. ASSUME NEW c \in Call, ClearPending(c) PROVE Goal
  BY <1>23, <1>r DEF ClearPending
<1>24. ASSUME NEW c \in Call, ReadExpires(c) PROVE Goal
  BY <1>24, <1>e DEF ReadExpires
<1>25. ASSUME SweepBegin PROVE Goal
  BY <1>25, <1>u DEF SweepBegin, SweepLoop
<1>26. ASSUME SweepObjects PROVE Goal
  BY <1>26, <1>u DEF SweepObjects
<1>27. ASSUME SweepRow PROVE Goal
  BY <1>27, <1>u DEF SweepRow
<1>28. ASSUME SweepStale PROVE Goal
  BY <1>28, <1>u DEF SweepStale, SweepLoop
<1>29. ASSUME SweepStaged PROVE Goal
  BY <1>29, <1>u DEF SweepStaged
<1>30. ASSUME SweepUnstage PROVE Goal
  BY <1>30, <1>u DEF SweepUnstage
<1>31. ASSUME NEW s \in Share, SweepRetired(s) PROVE Goal
  BY <1>31, <1>u DEF SweepRetired, DeleteRows
<1>32. ASSUME NEW k \in Key, WindowCloses(k) PROVE Goal
  BY <1>32, <1>u DEF WindowCloses
<1>33. ASSUME NEW k \in Key, WindowForgotten(k) PROVE Goal
  BY <1>33, <1>u DEF WindowForgotten
<1>34. ASSUME Evicted PROVE Goal
  <2>1. calls' = [c \in Call |-> Idle]
    BY <1>34 DEF Evicted
  <2>2. \A c \in Call : calls'[c] = Idle
    BY <2>1
  <2> QED
    BY <1>0, <1>i, <2>1, <2>2 DEF CallsInv, Goal
<1>35. ASSUME UNCHANGED vars PROVE Goal
  BY <1>35, <1>u DEF vars
<1>36. Goal
  BY <1>1, <1>2, <1>3, <1>4, <1>5, <1>6, <1>7, <1>8, <1>9, <1>10, <1>11, <1>12, <1>13,
     <1>14, <1>15, <1>16, <1>17, <1>18, <1>19, <1>20, <1>21, <1>22, <1>23, <1>24,
     <1>25, <1>26, <1>27, <1>28, <1>29, <1>30, <1>31, <1>32, <1>33, <1>34, <1>35
     DEF Next, CallStep, SweepStep
<1> QED
  BY <1>36 DEF Goal

\* The sweep keeps what it knows of its victims.
LEMMA SweepsStep ==
    ASSUME Inv, [Next]_vars, RowSteps
    PROVE  sweep' \in SweepState /\ SweepInv'
<1> DEFINE Goal == sweep' \in SweepState /\ SweepInv'
<1>0. /\ sweep \in SweepState /\ sweep.todo \subseteq Victim /\ sweep.gone \subseteq sweep.todo
      /\ \A v \in sweep.todo : VictimOK(v, rows[v.share])
      /\ rows \in [Share -> Row] /\ issued \in [Share -> Nat] /\ 0 \in KeyNo
      /\ stale \subseteq lapsed
      /\ \A s \in Share : RowOK(rows[s], issued[s])
  BY ShareAssumption DEF Inv, ShareTypeOK, SweepInv, RowsInv, SweepState, KeyNo
<1>k. sweep'.pc = sweep.pc => \A v \in sweep.todo : VictimOK(v, rows[v.share])'
  BY <1>0, VictimWaits DEF Inv
<1>g. ASSUME sweep' \in SweepState, sweep'.pc = sweep.pc, sweep'.todo \subseteq sweep.todo,
             sweep'.gone \subseteq sweep'.todo
      PROVE  Goal
  BY <1>0, <1>k, <1>g DEF SweepInv
<1>u. ASSUME sweep' = sweep PROVE Goal
  BY <1>0, <1>g, <1>u
<1>n. ASSUME sweep' = NoSweep PROVE Goal
  BY <1>0, <1>n DEF NoSweep, SweepState, SweepInv
<1>o. ASSUME SweepOn PROVE Goal
  <2> DEFINE left == sweep.todo \ sweep.gone
  <2>1. CASE sweep' = NoSweep
    BY <1>n, <2>1
  <2>2. CASE sweep' = [sweep EXCEPT !.todo = left, !.gone = {}]
    <3>1. sweep' = [pc |-> sweep.pc, todo |-> left, gone |-> {}]
      BY <1>0, <2>2 DEF SweepState
    <3> QED
      BY <1>0, <1>g, <3>1 DEF SweepState
  <2> QED
    BY <1>o, <2>1, <2>2 DEF SweepOn
<1>l. ASSUME NEW pc \in {"expire", "unstage"}, NEW found \in SUBSET Share, SweepLoop(pc, found),
             pc = "expire" => \A s \in found : Overdue(s, rows[s]),
             pc = "unstage" => \A s \in found : /\ Exists(rows[s]) /\ rows[s].pkey # 0
                                                /\ <<s, rows[s].pkey>> \in stale
      PROVE  Goal
  <2>1. sweep' = [pc |-> pc, todo |-> VictimsOf(found), gone |-> {}]
        /\ UNCHANGED <<rows, issued, lapsed, due>>
    BY <1>l DEF SweepLoop, clocks
  <2>2. ASSUME NEW s \in found
        PROVE  [share |-> s, key |-> rows[s].key, pkey |-> rows[s].pkey] \in Victim
    BY <1>0 DEF Victim, Row
  <2>3. VictimsOf(found) \subseteq Victim
    BY <2>2 DEF VictimsOf
  <2>4. ASSUME NEW v \in VictimsOf(found) PROVE VictimOK(v, rows[v.share])'
    <3>1. PICK s \in found : v = [share |-> s, key |-> rows[s].key, pkey |-> rows[s].pkey]
      BY <2>4 DEF VictimsOf
    <3>2. /\ v.share = s /\ v.pkey = rows[s].pkey /\ rows[s] \in Row /\ RowOK(rows[s], issued[s])
          /\ sweep'.pc = pc /\ rows[s].key \in Nat /\ rows[s].pkey \in Nat
      BY <1>0, <2>1, <3>1, ShareAssumption DEF Row, KeyNo
    <3>3. v.pkey <= issued'[v.share] /\ rows'[s].state # "new"
      BY <1>l, <2>1, <3>2 DEF RowOK, Overdue, Exists
    <3>4. pc = "expire" => Overdue(s, rows[s])'
      BY <1>l, <2>1 DEF Overdue
    <3>5. pc = "unstage" => /\ rows[s].pkey # 0 /\ rows[s].key # rows[s].pkey
                           /\ <<s, rows[s].pkey>> \in lapsed
      BY <1>l, <1>0, <3>2 DEF RowOK
    <3> QED
      BY <2>1, <3>2, <3>3, <3>4, <3>5 DEF VictimOK
  <2> QED
    BY <2>1, <2>3, <2>4 DEF SweepState, SweepInv
<1> HIDE DEF Goal
<1>1. ASSUME NEW s \in Share, NEW d \in Digest, ShareCreate(s, d) PROVE Goal
  BY <1>1, <1>u DEF ShareCreate
<1>2. ASSUME NEW s \in Share, NEW d \in Digest, ShareUpdate(s, d) PROVE Goal
  BY <1>2, <1>u DEF ShareUpdate
<1>3. ASSUME NEW s \in Share, ShareUpdateTooLate(s) PROVE Goal
  BY <1>3, <1>u DEF ShareUpdateTooLate
<1>4. ASSUME NEW s \in Share, ShareRevoke(s) PROVE Goal
  BY <1>4, <1>u DEF ShareRevoke
<1>5. ASSUME NEW s \in Share, ShareDue(s) PROVE Goal
  BY <1>5, <1>u DEF ShareDue
<1>6. ASSUME DeleteAccount PROVE Goal
  BY <1>6, <1>u DEF DeleteAccount, DeleteRows
<1>7. ASSUME NEW c \in Call, NEW s \in Share, NEW d \in Digest \cup {Corrupt}, ShareUpload(c, s, d)
      PROVE Goal
  BY <1>7, <1>u DEF ShareUpload
<1>8. ASSUME NEW c \in Call, NEW s \in Share, ShareFinalize(c, s) PROVE Goal
  BY <1>8, <1>u DEF ShareFinalize
<1>9. ASSUME NEW c \in Call, NEW s \in Share, SharedArtifactRead(c, s) PROVE Goal
  BY <1>9, <1>u DEF SharedArtifactRead
<1>10. ASSUME NEW c \in Call, PutLands(c) PROVE Goal
  BY <1>10, <1>u DEF PutLands
<1>11. ASSUME NEW c \in Call, UploadDone(c) PROVE Goal
  BY <1>11, <1>u DEF UploadDone
<1>12. ASSUME NEW c \in Call, PutFails(c) PROVE Goal
  BY <1>12, <1>u DEF PutFails
<1>13. ASSUME NEW c \in Call, AbortUpload(c) PROVE Goal
  BY <1>13, <1>u DEF AbortUpload
<1>14. ASSUME NEW c \in Call, FinalizeChecks(c) PROVE Goal
  BY <1>14, <1>u DEF FinalizeChecks, ExpireRow
<1>15. ASSUME NEW c \in Call, Verify(c) PROVE Goal
  BY <1>15, <1>u DEF Verify
<1>16. ASSUME NEW c \in Call, DeleteMismatch(c) PROVE Goal
  BY <1>16, <1>u DEF DeleteMismatch
<1>17. ASSUME NEW c \in Call, DropRow(c) PROVE Goal
  BY <1>17, <1>u DEF DropRow, DeleteRows
<1>18. ASSUME NEW c \in Call, Publish(c) PROVE Goal
  BY <1>18, <1>u DEF Publish
<1>19. ASSUME NEW c \in Call, Swap(c) PROVE Goal
  BY <1>19, <1>u DEF Swap
<1>20. ASSUME NEW c \in Call, DeleteReplaced(c) PROVE Goal
  BY <1>20, <1>u DEF DeleteReplaced
<1>21. ASSUME NEW c \in Call, DeleteStaged(c) PROVE Goal
  BY <1>21, <1>u DEF DeleteStaged
<1>22. ASSUME NEW c \in Call, DeleteExpired(c) PROVE Goal
  BY <1>22, <1>u DEF DeleteExpired
<1>23. ASSUME NEW c \in Call, ClearPending(c) PROVE Goal
  BY <1>23, <1>u DEF ClearPending
<1>24. ASSUME NEW c \in Call, ReadExpires(c) PROVE Goal
  BY <1>24, <1>u DEF ReadExpires, ExpireRow
<1>25. ASSUME SweepBegin PROVE Goal
  BY <1>25, <1>l DEF SweepBegin
<1>26. ASSUME SweepObjects PROVE Goal
  <2>1. PICK v \in sweep.todo : sweep' = [sweep EXCEPT !.gone = {v}]
    BY <1>26 DEF SweepObjects
  <2>2. sweep' = [pc |-> sweep.pc, todo |-> sweep.todo, gone |-> {v}]
    BY <1>0, <2>1 DEF SweepState
  <2> QED
    BY <1>0, <1>k, <1>g, <2>1, <2>2 DEF SweepState
<1>27. ASSUME SweepRow PROVE Goal
  BY <1>27, <1>o DEF SweepRow
<1>28. ASSUME SweepStale PROVE Goal
  BY <1>28, <1>l DEF SweepStale, AbandonedUpdates
<1>29. ASSUME SweepStaged PROVE Goal
  <2>1. PICK v \in sweep.todo : sweep' = [sweep EXCEPT !.gone = {v}]
    BY <1>29 DEF SweepStaged
  <2>2. sweep' = [pc |-> sweep.pc, todo |-> sweep.todo, gone |-> {v}]
    BY <1>0, <2>1 DEF SweepState
  <2> QED
    BY <1>0, <1>k, <1>g, <2>1, <2>2 DEF SweepState
<1>30. ASSUME SweepUnstage PROVE Goal
  BY <1>30, <1>o DEF SweepUnstage
<1>31. ASSUME NEW s \in Share, SweepRetired(s) PROVE Goal
  BY <1>31, <1>u DEF SweepRetired, DeleteRows
<1>32. ASSUME NEW k \in Key, WindowCloses(k) PROVE Goal
  BY <1>32, <1>u DEF WindowCloses
<1>33. ASSUME NEW k \in Key, WindowForgotten(k) PROVE Goal
  BY <1>33, <1>u DEF WindowForgotten
<1>34. ASSUME Evicted PROVE Goal
  BY <1>34, <1>n DEF Evicted
<1>35. ASSUME UNCHANGED vars PROVE Goal
  BY <1>35, <1>u DEF vars
<1>36. Goal
  BY <1>1, <1>2, <1>3, <1>4, <1>5, <1>6, <1>7, <1>8, <1>9, <1>10, <1>11, <1>12, <1>13,
     <1>14, <1>15, <1>16, <1>17, <1>18, <1>19, <1>20, <1>21, <1>22, <1>23, <1>24,
     <1>25, <1>26, <1>27, <1>28, <1>29, <1>30, <1>31, <1>32, <1>33, <1>34, <1>35
     DEF Next, CallStep, SweepStep
<1> QED
  BY <1>36 DEF Goal

\* The tables that are neither rows nor calls.
Content == Digest \cup {Corrupt, NoDigest}
OtherTypes ==
    /\ objects \in [Key -> Content]
    /\ stale \subseteq lapsed /\ lapsed \subseteq Key /\ due \subseteq Share
    /\ deleted \in BOOLEAN

\* They keep their types.
LEMMA OtherTypesStep == ShareTypeOK /\ [Next]_vars => OtherTypes'
<1> SUFFICES ASSUME ShareTypeOK, [Next]_vars PROVE OtherTypes'
  OBVIOUS
<1> USE DEF OtherTypes
<1>0. /\ objects \in [Key -> Content] /\ NoDigest \in Content
      /\ stale \subseteq lapsed /\ lapsed \subseteq Key /\ due \subseteq Share
      /\ deleted \in BOOLEAN /\ rows \in [Share -> Row] /\ calls \in [Call -> CallState]
      /\ \A c \in Call : calls[c].body \in Content
  BY DEF ShareTypeOK, Content, CallState
<1>d. ASSUME NEW ks, DeleteObjects(ks) PROVE objects' \in [Key -> Content]
  BY <1>0, <1>d DEF DeleteObjects
<1>1. ASSUME NEW s \in Share, NEW d \in Digest, ShareCreate(s, d) PROVE OtherTypes'
  BY <1>1, <1>0 DEF ShareCreate, clocks
<1>2. ASSUME NEW s \in Share, NEW d \in Digest, ShareUpdate(s, d) PROVE OtherTypes'
  <2>1. objects' \in [Key -> Content]
    BY <1>2, <1>d DEF ShareUpdate
  <2> QED
    BY <1>2, <1>0, <2>1 DEF ShareUpdate
<1>3. ASSUME NEW s \in Share, ShareUpdateTooLate(s) PROVE OtherTypes'
  BY <1>3, <1>0, <1>d DEF ShareUpdateTooLate, clocks
<1>4. ASSUME NEW s \in Share, ShareRevoke(s) PROVE OtherTypes'
  BY <1>4, <1>0, <1>d DEF ShareRevoke, clocks
<1>5. ASSUME NEW s \in Share, ShareDue(s) PROVE OtherTypes'
  BY <1>5, <1>0 DEF ShareDue, clocks
<1>6. CASE DeleteAccount
  <2>1. objects' \in [Key -> Content]
    BY <1>6, <1>d DEF DeleteAccount
  <2> QED
    BY <1>6, <1>0, <2>1 DEF DeleteAccount, DeleteRows
<1>7. ASSUME NEW c \in Call, NEW s \in Share, NEW d \in Digest \cup {Corrupt}, ShareUpload(c, s, d)
      PROVE OtherTypes'
  BY <1>7, <1>0 DEF ShareUpload, clocks
<1>8. ASSUME NEW c \in Call, NEW s \in Share, ShareFinalize(c, s) PROVE OtherTypes'
  BY <1>8, <1>0 DEF ShareFinalize, clocks
<1>9. ASSUME NEW c \in Call, NEW s \in Share, SharedArtifactRead(c, s) PROVE OtherTypes'
  BY <1>9, <1>0 DEF SharedArtifactRead, clocks
<1>10. ASSUME NEW c \in Call, PutLands(c) PROVE OtherTypes'
  BY <1>10, <1>0 DEF PutLands, Target, CallState, Key, clocks
<1>11. ASSUME NEW c \in Call, UploadDone(c) PROVE OtherTypes'
  BY <1>11, <1>0 DEF UploadDone, clocks
<1>12. ASSUME NEW c \in Call, PutFails(c) PROVE OtherTypes'
  BY <1>12, <1>0 DEF PutFails, clocks
<1>13. ASSUME NEW c \in Call, AbortUpload(c) PROVE OtherTypes'
  BY <1>13, <1>0, <1>d DEF AbortUpload, clocks
<1>14. ASSUME NEW c \in Call, FinalizeChecks(c) PROVE OtherTypes'
  BY <1>14, <1>0 DEF FinalizeChecks, clocks
<1>15. ASSUME NEW c \in Call, Verify(c) PROVE OtherTypes'
  BY <1>15, <1>0 DEF Verify, clocks
<1>16. ASSUME NEW c \in Call, DeleteMismatch(c) PROVE OtherTypes'
  BY <1>16, <1>0, <1>d DEF DeleteMismatch, clocks
<1>17. ASSUME NEW c \in Call, DropRow(c) PROVE OtherTypes'
  BY <1>17, <1>0 DEF DropRow, DeleteRows, clocks
<1>18. ASSUME NEW c \in Call, Publish(c) PROVE OtherTypes'
  BY <1>18, <1>0 DEF Publish, clocks
<1>19. ASSUME NEW c \in Call, Swap(c) PROVE OtherTypes'
  BY <1>19, <1>0 DEF Swap, clocks
<1>20. ASSUME NEW c \in Call, DeleteReplaced(c) PROVE OtherTypes'
  BY <1>20, <1>0, <1>d DEF DeleteReplaced, clocks
<1>21. ASSUME NEW c \in Call, DeleteStaged(c) PROVE OtherTypes'
  BY <1>21, <1>0, <1>d DEF DeleteStaged, clocks
<1>22. ASSUME NEW c \in Call, DeleteExpired(c) PROVE OtherTypes'
  BY <1>22, <1>0, <1>d DEF DeleteExpired, clocks
<1>23. ASSUME NEW c \in Call, ClearPending(c) PROVE OtherTypes'
  BY <1>23, <1>0 DEF ClearPending, clocks
<1>24. ASSUME NEW c \in Call, ReadExpires(c) PROVE OtherTypes'
  BY <1>24, <1>0 DEF ReadExpires, clocks
<1>25. CASE SweepBegin
  BY <1>25, <1>0 DEF SweepBegin, SweepLoop, clocks
<1>26. CASE SweepObjects
  BY <1>26, <1>0, <1>d DEF SweepObjects, clocks
<1>27. CASE SweepRow
  BY <1>27, <1>0 DEF SweepRow, clocks
<1>28. CASE SweepStale
  BY <1>28, <1>0 DEF SweepStale, SweepLoop, clocks
<1>29. CASE SweepStaged
  BY <1>29, <1>0, <1>d DEF SweepStaged, clocks
<1>30. CASE SweepUnstage
  BY <1>30, <1>0 DEF SweepUnstage, clocks
<1>31. ASSUME NEW s \in Share, SweepRetired(s) PROVE OtherTypes'
  BY <1>31, <1>0 DEF SweepRetired, DeleteRows, clocks
<1>32. ASSUME NEW k \in Key, WindowCloses(k) PROVE OtherTypes'
  BY <1>32, <1>0 DEF WindowCloses, clocks
<1>33. ASSUME NEW k \in Key, WindowForgotten(k) PROVE OtherTypes'
  BY <1>33, <1>0 DEF WindowForgotten, clocks
<1>34. CASE Evicted
  BY <1>34, <1>0 DEF Evicted, clocks
<1>35. CASE UNCHANGED vars
  BY <1>35, <1>0 DEF vars, clocks
<1> QED
  BY <1>1, <1>2, <1>3, <1>4, <1>5, <1>6, <1>7, <1>8, <1>9, <1>10, <1>11, <1>12, <1>13,
     <1>14, <1>15, <1>16, <1>17, <1>18, <1>19, <1>20, <1>21, <1>22, <1>23, <1>24,
     <1>25, <1>26, <1>27, <1>28, <1>29, <1>30, <1>31, <1>32, <1>33, <1>34, <1>35
     DEF Next, CallStep, SweepStep

\* Every step preserves the whole invariant.
LEMMA NextInv == Inv /\ [Next]_vars => Inv'
<1> SUFFICES ASSUME Inv, [Next]_vars PROVE Inv'
  OBVIOUS
<1>1. RowSteps
  BY RowsMove
<1> QED
  BY <1>1, RowsType, RowsStay, CallsStep, SweepsStep, OtherTypesStep
     DEF Inv, ShareTypeOK, OtherTypes, Content

\* An account without shares.
LEMMA InitInv == Init => Inv
<1> SUFFICES ASSUME Init PROVE Inv
  OBVIOUS
<1>0. 0 \in KeyNo /\ Idle.share \in Share /\ NoRow \in Row
  BY ShareAssumption DEF KeyNo, Idle, NoRow, Row
<1>1. Idle \in CallState
  BY <1>0 DEF Idle, CallState, Pc
<1>2. ShareTypeOK
  BY <1>0, <1>1 DEF Init, ShareTypeOK, NoSweep, SweepState
<1>3. RowsInv
  BY <1>0 DEF Init, RowsInv, RowOK, NoRow
<1>4. CallsInv
  <2>1. \A c \in Call : calls[c] = Idle
    BY DEF Init
  <2>2. CallOK(Idle, rows[Idle.share], issued[Idle.share])
    BY <1>0 DEF Init, CallOK, Idle, Finalizing
  <2> QED
    BY <2>1, <2>2 DEF CallsInv
<1>5. SweepInv
  BY DEF Init, SweepInv, NoSweep
<1> QED
  BY <1>2, <1>3, <1>4, <1>5 DEF Inv

---------------------------------------------------------------------------
(* The quota.  UsedBytes is a sum over the shares, folded in the order of    *)
(* CHOOSE; that the fold is defined, and what a change of one row does to    *)
(* it, is proved by induction on the number of shares summed so far.         *)

\* The bytes a row accounts for.
BytesOfRow(r) == IF r.state \in Live THEN Bytes(r.sha) + Bytes(r.psha) ELSE 0
\* The share a sum picks next, and those it leaves.
Pick(T) == CHOOSE x \in T : TRUE
Rest(T) == T \ {Pick(T)}

\* What the shares of every subset use, in the table rs.
Sums(rs) ==
    CHOOSE sum : sum = [T \in SUBSET Share |->
        IF T = {} THEN 0 ELSE BytesOfRow(rs[Pick(T)]) + sum[Rest(T)]]

\* What a table uses is the sum over all shares.
LEMMA UsedIsSum == /\ UsedBytes = Sums(rows)[Share]
                   /\ UsedBytes' = Sums(rows')[Share]
<1>1. UsedBytes = Sums(rows)[Share]
  BY DEF UsedBytes, MapThenSumSet, MapThenFoldSet, Sums, BytesOfRow, Pick, Rest
<1>2. UsedBytes' = Sums(rows')[Share]
  BY DEF UsedBytes, MapThenSumSet, MapThenFoldSet, Sums, BytesOfRow, Pick, Rest
<1> QED
  BY <1>1, <1>2

LEMMA LeastSize ==
    ASSUME NEW T \in SUBSET Nat, T # {}
    PROVE  \E x \in T : \A y \in T : x <= y
<1> DEFINE R == OpToRel(<, Nat)
<1>1. \E x \in T : \A y \in T : ~(<<y, x>> \in R)
  <2>1. IsWellFoundedOn(R, Nat)
    BY NatLessThanWellFounded
  <2> HIDE DEF R
  <2> QED
    BY <2>1, WFMin
<1>2. \A x, y \in Nat : y < x => <<y, x>> \in R
  BY DEF OpToRel
<1> HIDE DEF R
<1>3. PICK x \in T : \A y \in T : ~(<<y, x>> \in R)
  BY <1>1
<1>4. \A y \in T : ~(y < x) /\ x \in Nat /\ y \in Nat
  BY <1>2, <1>3
<1> QED
  BY <1>4


\* Taking away the share a sum picks next.
LEMMA RestIsSmaller ==
    ASSUME NEW T \in SUBSET Share, T # {}
    PROVE  /\ Pick(T) \in T /\ Rest(T) \in SUBSET Share
           /\ Cardinality(T) \in Nat /\ Cardinality(T) # 0
           /\ Cardinality(Rest(T)) = Cardinality(T) - 1
<1>1. Pick(T) \in T
  BY DEF Pick
<1>2. IsFiniteSet(T)
  BY FiniteShares, FS_Subset
<1> QED
  BY <1>1, <1>2, FS_RemoveElement, FS_CardinalityType, FS_EmptySet DEF Rest

\* Induction over the shares, in the order a sum picks them.
LEMMA SubsetInduction ==
    ASSUME NEW P \in SUBSET (SUBSET Share), {} \in P,
           \A T \in SUBSET Share : T # {} /\ Rest(T) \in P => T \in P
    PROVE  P = SUBSET Share
<1> DEFINE Bad == {T \in SUBSET Share : T \notin P}
           Sizes == {n \in Nat : \E T \in Bad : Cardinality(T) = n}
<1>1. ASSUME NEW T \in Bad PROVE FALSE
  <2>1. \A S \in Bad : Cardinality(S) \in Nat
    BY FiniteShares, FS_Subset, FS_CardinalityType
  <2>2. Sizes \in SUBSET Nat /\ Sizes # {}
    BY <1>1, <2>1
  <2>3. PICK n \in Sizes : \A m \in Sizes : n <= m
    <3> HIDE DEF Sizes
    <3> QED
      BY <2>2, LeastSize
  <2>4. PICK S \in Bad : Cardinality(S) = n
    BY <2>3
  <2>5. S # {} /\ S \in SUBSET Share
    OBVIOUS
  <2>6. Rest(S) \in Bad
    BY <2>5, RestIsSmaller
  <2>7. Cardinality(Rest(S)) = n - 1
    BY <2>4, <2>5, RestIsSmaller
  <2>8. n - 1 \in Sizes
    BY <2>1, <2>6, <2>7
  <2> QED
    BY <2>3, <2>8
<1> QED
  BY <1>1

\* The sum over a set of at most n shares is defined.
SumsUpTo(rs, n, sum) ==
    sum = [T \in {S \in SUBSET Share : Cardinality(S) <= n} |->
              IF T = {} THEN 0 ELSE BytesOfRow(rs[Pick(T)]) + sum[Rest(T)]]

\* There is such a sum for every size.
LEMMA SumsExist == ASSUME NEW rs, NEW n \in Nat PROVE \E sum : SumsUpTo(rs, n, sum)
<1> DEFINE Bad == {m \in Nat : ~ \E sum : SumsUpTo(rs, m, sum)}
<1>1. ASSUME Bad # {} PROVE FALSE
  <2>1. PICK m \in Bad : \A k \in Bad : m <= k
    <3>1. Bad \in SUBSET Nat
      OBVIOUS
    <3> HIDE DEF Bad
    <3> QED
      BY <1>1, <3>1, LeastSize
  <2>2. CASE m = 0
    <3> DEFINE zero == [T \in {S \in SUBSET Share : Cardinality(S) <= 0} |-> 0]
    <3>1. \A T \in SUBSET Share : Cardinality(T) <= 0 => T = {}
      BY RestIsSmaller
    <3>2. SumsUpTo(rs, 0, zero)
      BY <3>1 DEF SumsUpTo
    <3> HIDE DEF zero
    <3> QED
      BY <2>2, <3>2
  <2>3. CASE m # 0
    <3>1. m - 1 \in Nat /\ m - 1 \notin Bad /\ m \in Nat
      BY <2>1, <2>3
    <3>2. PICK sum : SumsUpTo(rs, m - 1, sum)
      BY <3>1
    <3> DEFINE next == [T \in {S \in SUBSET Share : Cardinality(S) <= m} |->
                  IF T = {} THEN 0 ELSE BytesOfRow(rs[Pick(T)]) + sum[Rest(T)]]
    <3>3. ASSUME NEW T \in SUBSET Share, Cardinality(T) <= m, T # {}
          PROVE  next[Rest(T)] = sum[Rest(T)]
      <4>1. Rest(T) \in SUBSET Share /\ Cardinality(Rest(T)) <= m - 1
            /\ Cardinality(Rest(T)) <= m
        BY <3>1, <3>3, RestIsSmaller
      <4>2. next[Rest(T)] = IF Rest(T) = {} THEN 0
                            ELSE BytesOfRow(rs[Pick(Rest(T))]) + sum[Rest(Rest(T))]
        BY <4>1
      <4>3. sum[Rest(T)] = IF Rest(T) = {} THEN 0
                            ELSE BytesOfRow(rs[Pick(Rest(T))]) + sum[Rest(Rest(T))]
        BY <3>2, <4>1 DEF SumsUpTo
      <4> QED
        BY <4>2, <4>3
    <3>4. SumsUpTo(rs, m, next)
      BY <3>3 DEF SumsUpTo
    <3> HIDE DEF next
    <3> QED
      BY <2>1, <3>4
  <2> QED
    BY <2>2, <2>3
<1> QED
  BY <1>1

\* The sum follows its recursion.
LEMMA SumStep ==
    ASSUME NEW rs
    PROVE  /\ Sums(rs)[{}] = 0
           /\ \A T \in SUBSET Share : T # {} =>
                 Sums(rs)[T] = BytesOfRow(rs[Pick(T)]) + Sums(rs)[Rest(T)]
<1>1. PICK sum : SumsUpTo(rs, Cardinality(Share), sum)
  BY FiniteShares, FS_CardinalityType, SumsExist
<1>2. {S \in SUBSET Share : Cardinality(S) <= Cardinality(Share)} = SUBSET Share
  BY FiniteShares, FS_Subset
<1>3. sum = [T \in SUBSET Share |->
               IF T = {} THEN 0 ELSE BytesOfRow(rs[Pick(T)]) + sum[Rest(T)]]
  BY <1>1, <1>2 DEF SumsUpTo
<1>4. Sums(rs) = [T \in SUBSET Share |->
               IF T = {} THEN 0 ELSE BytesOfRow(rs[Pick(T)]) + Sums(rs)[Rest(T)]]
  BY <1>3 DEF Sums
<1> QED
  BY <1>4

\* The bytes a table of rows accounts for.
Used(rs) == Sums(rs)[Share]

\* Every row accounts for a natural number of bytes.
Counted(rs) == \A s \in Share : BytesOfRow(rs[s]) \in Nat

\* The total is a natural number then.
LEMMA UsedIsNat == ASSUME NEW rs, Counted(rs) PROVE Used(rs) \in Nat
<1> DEFINE P == {T \in SUBSET Share : Sums(rs)[T] \in Nat}
<1>1. {} \in P
  BY SumStep
<1>2. ASSUME NEW T \in SUBSET Share, T # {}, Rest(T) \in P PROVE T \in P
  BY <1>2, SumStep, RestIsSmaller DEF Counted
<1>3. P = SUBSET Share
  <2> HIDE DEF P
  <2>1. P \in SUBSET (SUBSET Share)
    BY DEF P
  <2> QED
    BY <1>1, <1>2, <2>1, SubsetInduction
<1> QED
  BY <1>3 DEF Used

\* Rows that use no more bytes than before use no more in total.
LEMMA UsedShrinks ==
    ASSUME NEW rs, NEW new, Counted(rs), Counted(new),
           \A s \in Share : BytesOfRow(new[s]) <= BytesOfRow(rs[s])
    PROVE  Used(new) <= Used(rs)
<1> DEFINE P == {T \in SUBSET Share : /\ Sums(rs)[T] \in Nat /\ Sums(new)[T] \in Nat
                                      /\ Sums(new)[T] <= Sums(rs)[T]}
<1>1. {} \in P
  BY SumStep
<1>2. ASSUME NEW T \in SUBSET Share, T # {}, Rest(T) \in P PROVE T \in P
  <2>1. Pick(T) \in Share
    BY <1>2, RestIsSmaller
  <2>2. /\ Sums(rs)[T] = BytesOfRow(rs[Pick(T)]) + Sums(rs)[Rest(T)]
        /\ Sums(new)[T] = BytesOfRow(new[Pick(T)]) + Sums(new)[Rest(T)]
    BY <1>2, SumStep
  <2>3. /\ BytesOfRow(rs[Pick(T)]) \in Nat /\ BytesOfRow(new[Pick(T)]) \in Nat
        /\ BytesOfRow(new[Pick(T)]) <= BytesOfRow(rs[Pick(T)])
    BY <2>1 DEF Counted
  <2> QED
    BY <1>2, <2>2, <2>3
<1>3. P = SUBSET Share
  <2> HIDE DEF P
  <2>1. P \in SUBSET (SUBSET Share)
    BY DEF P
  <2> QED
    BY <1>1, <1>2, <2>1, SubsetInduction
<1> QED
  BY <1>3 DEF Used

\* Changing one row changes the total by what that row changes.
LEMMA UsedMoves ==
    ASSUME NEW rs, NEW new, Counted(rs), Counted(new), NEW s \in Share,
           \A t \in Share \ {s} : new[t] = rs[t]
    PROVE  Used(new) = Used(rs) - BytesOfRow(rs[s]) + BytesOfRow(new[s])
<1> DEFINE a == BytesOfRow(rs[s])
           b == BytesOfRow(new[s])
           P == {T \in SUBSET Share :
                   /\ Sums(rs)[T] \in Nat /\ Sums(new)[T] \in Nat
                   /\ s \in T => Sums(new)[T] = Sums(rs)[T] - a + b
                   /\ s \notin T => Sums(new)[T] = Sums(rs)[T]}
<1>1. {} \in P
  BY SumStep
<1>2. ASSUME NEW T \in SUBSET Share, T # {}, Rest(T) \in P PROVE T \in P
  <2> DEFINE x == Pick(T)
  <2>1. x \in T /\ x \in Share
    BY <1>2, RestIsSmaller
  <2>2. /\ Sums(rs)[T] = BytesOfRow(rs[x]) + Sums(rs)[Rest(T)]
        /\ Sums(new)[T] = BytesOfRow(new[x]) + Sums(new)[Rest(T)]
    BY <1>2, SumStep
  <2>3. /\ BytesOfRow(rs[x]) \in Nat /\ BytesOfRow(new[x]) \in Nat /\ a \in Nat /\ b \in Nat
        /\ x # s => BytesOfRow(new[x]) = BytesOfRow(rs[x])
    BY <2>1 DEF Counted
  <2>4. s \in T <=> s = x \/ s \in Rest(T)
    BY <2>1 DEF Rest
  <2>5. x \notin Rest(T)
    BY DEF Rest
  <2>6. /\ Sums(rs)[Rest(T)] \in Nat /\ Sums(new)[Rest(T)] \in Nat
        /\ s \in Rest(T) => Sums(new)[Rest(T)] = Sums(rs)[Rest(T)] - a + b
        /\ s \notin Rest(T) => Sums(new)[Rest(T)] = Sums(rs)[Rest(T)]
    BY <1>2
  <2>7. x = s => BytesOfRow(rs[x]) = a /\ BytesOfRow(new[x]) = b
    OBVIOUS
  <2> HIDE DEF x, a, b
  <2>8. Sums(rs)[T] \in Nat /\ Sums(new)[T] \in Nat
    BY <2>2, <2>3, <2>6
  <2>9. s \in T => Sums(new)[T] = Sums(rs)[T] - a + b
    BY <2>2, <2>3, <2>4, <2>5, <2>6, <2>7
  <2>10. s \notin T => Sums(new)[T] = Sums(rs)[T]
    BY <2>2, <2>3, <2>4, <2>6
  <2> QED
    BY <2>8, <2>9, <2>10
<1>3. P = SUBSET Share
  <2> HIDE DEF P
  <2>1. P \in SUBSET (SUBSET Share)
    BY DEF P
  <2> QED
    BY <1>1, <1>2, <2>1, SubsetInduction
<1> QED
  BY <1>3 DEF Used

\* Rows without bytes use none.
LEMMA UsedIsZero == ASSUME NEW rs, \A s \in Share : BytesOfRow(rs[s]) = 0 PROVE Used(rs) = 0
<1> DEFINE P == {T \in SUBSET Share : Sums(rs)[T] = 0}
<1>1. {} \in P
  BY SumStep
<1>2. ASSUME NEW T \in SUBSET Share, T # {}, Rest(T) \in P PROVE T \in P
  <2>1. Pick(T) \in Share
    BY <1>2, RestIsSmaller
  <2> QED
    BY <1>2, <2>1, SumStep
<1>3. P = SUBSET Share
  <2> HIDE DEF P
  <2>1. P \in SUBSET (SUBSET Share)
    BY DEF P
  <2> QED
    BY <1>1, <1>2, <2>1, SubsetInduction
<1> QED
  BY <1>3 DEF Used

\* Every row in a table of rows has a byte count.
LEMMA RowsAreCounted == ASSUME NEW rs \in [Share -> Row] PROVE Counted(rs)
<1>1. \A d \in Digest \cup {NoDigest} : Bytes(d) \in Nat
  BY ShareAssumption DEF Bytes
<1> QED
  BY <1>1 DEF Counted, BytesOfRow, Row

\* A row that reserves nothing in a step uses no more bytes after it.
LEMMA BytesShrink ==
    ASSUME NEW s \in Share, rows[s] \in Row, RowStep(s), ~Created(s), ~Staged(s)
    PROVE  BytesOfRow(rows'[s]) <= BytesOfRow(rows[s])
<1>1. /\ \A d \in Digest \cup {NoDigest} : Bytes(d) \in Nat
      /\ Bytes(NoDigest) = 0
      /\ rows[s].sha \in Digest \cup {NoDigest} /\ rows[s].psha \in Digest \cup {NoDigest}
  BY ShareAssumption DEF Bytes, Row
<1>2. BytesOfRow(rows[s]) \in Nat
  BY <1>1 DEF BytesOfRow
<1>3. CASE rows'[s] = rows[s]
  BY <1>2, <1>3
<1>4. CASE Ended(s)
  <2>1. rows'[s].state \notin Live
    BY <1>4, EndedRow DEF Terminal, Live
  <2> QED
    BY <1>2, <2>1 DEF BytesOfRow
<1>5. CASE Uploaded(s) \/ Published(s)
  <2>1. /\ rows[s].state \in Live
        /\ rows'[s].sha = rows[s].sha /\ rows'[s].psha = rows[s].psha
    BY <1>5 DEF Uploaded, Published, Publishable, Live, Row
  <2> QED
    BY <1>1, <1>2, <2>1 DEF BytesOfRow
<1>6. CASE SwappedIn(s)
  <2>1. /\ rows[s].state \in Live
        /\ rows'[s].sha = rows[s].psha /\ rows'[s].psha = NoDigest
    BY <1>6 DEF SwappedIn, HasPending, Swapped, Unstaged, Live, Row
  <2> QED
    BY <1>1, <1>2, <2>1 DEF BytesOfRow
<1>7. CASE GivenUp(s)
  <2>1. /\ rows'[s].state = rows[s].state
        /\ rows'[s].sha = rows[s].sha /\ rows'[s].psha = NoDigest
    BY <1>7 DEF GivenUp, Unstaged, Row
  <2> QED
    BY <1>1, <2>1 DEF BytesOfRow
<1> QED
  BY <1>3, <1>4, <1>5, <1>6, <1>7 DEF RowStep

\* A reservation that fits keeps the quota.
LEMMA ReservationFits ==
    ASSUME Inv, rows' \in [Share -> Row], NEW s \in Share, Created(s) \/ Staged(s)
    PROVE  Used(rows') <= AccountBytes
<1>1. PICK d \in Digest : /\ Fits(s, d)
                          /\ \/ /\ rows[s].state = "new"
                                /\ rows'[s] = [NoRow EXCEPT !.state = "reserved", !.sha = d]
                             \/ /\ rows[s].state = "published"
                                /\ rows'[s] = [rows[s] EXCEPT !.pkey = NextKey(s), !.psha = d]
  BY DEF Created, Staged
<1>2. /\ rows \in [Share -> Row] /\ rows[s] \in Row
      /\ rows[s].state = "new" => rows[s].psha = NoDigest
  BY DEF Inv, ShareTypeOK, RowsInv, RowOK
<1>3. /\ Bytes(d) \in Nat /\ Bytes(NoDigest) = 0
      /\ Bytes(rows[s].sha) \in Nat /\ Bytes(rows[s].psha) \in Nat
  BY <1>2, ShareAssumption DEF Bytes, Row
<1>4. Used(rows) - Bytes(rows[s].psha) + Bytes(d) <= AccountBytes
  BY <1>1, UsedIsSum DEF Fits, Used
<1>5. BytesOfRow(rows'[s]) - BytesOfRow(rows[s]) = Bytes(d) - Bytes(rows[s].psha)
  <2>1. CASE /\ rows[s].state = "new"
             /\ rows'[s] = [NoRow EXCEPT !.state = "reserved", !.sha = d]
    BY <1>2, <1>3, <2>1 DEF BytesOfRow, NoRow, Live
  <2>2. CASE /\ rows[s].state = "published"
             /\ rows'[s] = [rows[s] EXCEPT !.pkey = NextKey(s), !.psha = d]
    <3>1. rows'[s].state = "published" /\ rows'[s].sha = rows[s].sha /\ rows'[s].psha = d
      BY <1>2, <2>2 DEF Row
    <3> QED
      BY <1>3, <2>2, <3>1 DEF BytesOfRow, Live
  <2> QED
    BY <1>1, <2>1, <2>2
<1>6. Counted(rows) /\ Counted(rows')
  BY <1>2, RowsAreCounted
<1>7. Used(rows') = Used(rows) - BytesOfRow(rows[s]) + BytesOfRow(rows'[s])
  <2>1. \A t \in Share \ {s} : rows'[t] = rows[t]
    BY DEF Created, Staged, OnlyMoves
  <2> QED
    BY <1>6, <2>1, UsedMoves
<1>8. /\ Used(rows) \in Nat /\ BytesOfRow(rows[s]) \in Nat /\ BytesOfRow(rows'[s]) \in Nat
      /\ AccountBytes \in Nat
  BY <1>6, UsedIsNat, ShareAssumption DEF Counted
<1> QED
  BY <1>3, <1>4, <1>5, <1>7, <1>8

---------------------------------------------------------------------------
(* The theorems                                                            *)

\* Rows, objects, waiting calls and the sweep fit together, whatever is read before
\* an await and used after it.
THEOREM ShareInvariant == Spec => []Inv
  BY InitInv, NextInv, PTL DEF Spec

\* Every table keeps its type (ShareTypeOK).
THEOREM ShareTypes == Spec => []ShareTypeOK
<1>1. Inv => ShareTypeOK
  BY DEF Inv
<1> QED
  BY <1>1, ShareInvariant, PTL

\* A share that was revoked, expired or deleted is never served, staged or reserved
\* again, whatever finalize, read or sweep was waiting when it ended (EndedStaysEnded).
THEOREM EndedIsFinal == Spec => EndedStaysEnded
<1> DEFINE Stays == \A s \in Share : rows[s].state \in Terminal => rows'[s].state \in Terminal
<1>1. Inv /\ [Next]_vars => Stays
  <2> SUFFICES ASSUME Inv, [Next]_vars, NEW s \in Share, rows[s].state \in Terminal
               PROVE  rows'[s].state \in Terminal
    OBVIOUS
  <2>1. rows[s] \in Row /\ RowStep(s)
    BY RowsMove DEF RowSteps, Inv, ShareTypeOK
  <2>2. CASE Ended(s)
    BY <2>1, <2>2, EndedRow
  <2>3. CASE GivenUp(s)
    BY <2>1, <2>3, UnstagedRow DEF GivenUp
  <2> QED
    BY <2>1, <2>2, <2>3 DEF RowStep, Created, Staged, Uploaded, Published, Publishable, SwappedIn,
       HasPending, Terminal
<1> QED
  BY <1>1, ShareInvariant, PTL DEF Spec, EndedStaysEnded

\* The bytes an account has published, reserved or staged stay within its quota: a
\* creation and an update count what they reserve together with everything there is,
\* an update credits only what it had staged before, and nothing else adds bytes
\* (QuotaHeld).
THEOREM QuotaIsHeld == Spec => []QuotaHeld
<1>1. Init => QuotaHeld
  <2> SUFFICES ASSUME Init PROVE QuotaHeld
    OBVIOUS
  <2>1. \A s \in Share : BytesOfRow(rows[s]) = 0
    BY DEF Init, NoRow, BytesOfRow, Live
  <2> QED
    BY <2>1, UsedIsZero, UsedIsSum, ShareAssumption DEF QuotaHeld, Used
<1>2. Inv /\ QuotaHeld /\ [Next]_vars => QuotaHeld'
  <2> SUFFICES ASSUME Inv, QuotaHeld, [Next]_vars PROVE QuotaHeld'
    OBVIOUS
  <2>1. RowSteps /\ rows \in [Share -> Row] /\ rows' \in [Share -> Row]
    BY RowsMove, RowsType DEF Inv, ShareTypeOK
  <2>2. Used(rows') <= AccountBytes
    <3>1. CASE \E s \in Share : Created(s) \/ Staged(s)
      BY <2>1, <3>1, ReservationFits
    <3>2. CASE \A s \in Share : ~Created(s) /\ ~Staged(s)
      <4>1. \A s \in Share : BytesOfRow(rows'[s]) <= BytesOfRow(rows[s])
        BY <2>1, <3>2, BytesShrink DEF RowSteps
      <4>2. Counted(rows) /\ Counted(rows')
        BY <2>1, RowsAreCounted
      <4>3. Used(rows') <= Used(rows) /\ Used(rows') \in Nat /\ Used(rows) \in Nat
        BY <4>1, <4>2, UsedShrinks, UsedIsNat
      <4>4. Used(rows) <= AccountBytes /\ AccountBytes \in Nat
        BY UsedIsSum, ShareAssumption DEF QuotaHeld, Used
      <4> QED
        BY <4>3, <4>4
    <3> QED
      BY <3>1, <3>2
  <2> QED
    BY <2>2, UsedIsSum DEF QuotaHeld, Used
<1> QED
  BY <1>1, <1>2, ShareInvariant, PTL DEF Spec

\* share.finalize publishes, or swaps in, only an object it has read back under the
\* key that is served from then on, with the digest the row declares from then on: its
\* conditional UPDATEs see to it (PublishesWhatItVerified).
THEOREM OnlyVerifiedIsPublished == Spec => PublishesWhatItVerified
<1> DEFINE New(s) == rows'[s].state = "published" /\ (rows[s].state # "published"
                                                    \/ rows'[s].key # rows[s].key)
           By(c, s) == /\ calls[c].pc = "commit"
                       /\ Target(c) = <<s, rows'[s].key>>
                       /\ calls[c].sha = rows'[s].sha
<1>1. Inv /\ [Next]_vars => \A s \in Share : New(s) => \E c \in Call : By(c, s)
  <2> SUFFICES ASSUME Inv, [Next]_vars, NEW s \in Share, New(s) PROVE \E c \in Call : By(c, s)
    OBVIOUS
  <2>1. rows[s] \in Row /\ RowStep(s) /\ RowOK(rows[s], issued[s])
    BY RowsMove DEF RowSteps, Inv, ShareTypeOK, RowsInv
  <2>2. \A c \in Call : Commits(c, s) => CallOK(calls[c], rows[s], issued[s])
    BY DEF Inv, CallsInv, Commits
  <2>3. CASE Published(s)
    <3>1. PICK c \in Call : Commits(c, s) /\ ~calls[c].staged
      BY <2>3 DEF Published
    <3>2. calls[c].key = 0 /\ calls[c].sha = rows[s].sha
      BY <2>2, <2>3, <3>1 DEF CallOK, Finalizing, Commits, Published
    <3>3. rows'[s].key = 0 /\ rows'[s].sha = rows[s].sha
      BY <2>1, <2>3 DEF Published, Publishable, RowOK, Row
    <3> QED
      BY <3>1, <3>2, <3>3 DEF Commits, Target
  <2>4. CASE SwappedIn(s)
    <3>1. PICK c \in Call : Commits(c, s) /\ calls[c].staged /\ calls[c].pkey = rows[s].pkey
      BY <2>4 DEF SwappedIn
    <3>2. calls[c].sha = rows[s].psha
      BY <2>2, <2>4, <3>1 DEF CallOK, Finalizing, Commits, SwappedIn, HasPending, Exists
    <3>3. rows'[s].key = rows[s].pkey /\ rows'[s].sha = rows[s].psha
      BY <2>1, <2>4 DEF SwappedIn, Swapped, Unstaged, Row
    <3> QED
      BY <3>1, <3>2, <3>3 DEF Commits, Target
  <2>5. Ended(s) => rows'[s].state \in Terminal
    BY <2>1, EndedRow
  <2>6. CASE GivenUp(s)
    BY <2>1, <2>6, UnstagedRow DEF GivenUp
  <2> QED
    BY <2>1, <2>3, <2>4, <2>5, <2>6 DEF RowStep, Created, Staged, Uploaded, Terminal, NoRow, Row
<1> QED
  BY <1>1, ShareInvariant, PTL DEF Spec, PublishesWhatItVerified

\* One key, one step.
LEMMA ObjectStep ==
    ASSUME Inv, [Next]_vars, NEW x \in Key, objects'[x] # objects[x], x \in InUse, x \in InUse'
    PROVE  \E c \in Call : /\ Target(c) = x
                           /\ calls[c].pc \in {"put", "abort", "mismatch"}
                           /\ calls'[c].pc # calls[c].pc
<1> DEFINE Goal == \E c \in Call : /\ Target(c) = x
                                   /\ calls[c].pc \in {"put", "abort", "mismatch"}
                                   /\ calls'[c].pc # calls[c].pc
<1>0. /\ rows \in [Share -> Row] /\ issued \in [Share -> Nat] /\ calls \in [Call -> CallState]
      /\ objects \in [Key -> Digest \cup {Corrupt, NoDigest}] /\ objects'[x] # objects[x]
      /\ \A s \in Share : RowOK(rows[s], issued[s]) /\ rows[s].key \in Nat /\ rows[s].pkey \in Nat
      /\ \A c \in Call : /\ calls[c].share \in Share /\ calls[c].key \in Nat
                          /\ CallOK(calls[c], rows[calls[c].share], issued[calls[c].share])
      /\ \A v \in sweep.todo : v.share \in Share /\ VictimOK(v, rows[v.share])
  BY ShareAssumption DEF Inv, ShareTypeOK, RowsInv, CallsInv, SweepInv, KeyNo, Row, CallState,
     SweepState, Victim
<1>d. ASSUME NEW ks, DeleteObjects(ks) PROVE x \in ks
  BY <1>0, <1>d DEF DeleteObjects
<1>v. /\ x[1] \in Share
      /\ rows[x[1]].state \in Live /\ ~Overdue(x[1], rows[x[1]])
      /\ \/ rows[x[1]].key = x[2]
         \/ rows[x[1]].pkey = x[2] /\ rows[x[1]].pkey # 0 /\ x \notin lapsed
      /\ rows'[x[1]].state \in Live
      /\ x[2] \in {rows'[x[1]].key, rows'[x[1]].pkey}
  BY DEF InUse, HasPending, Live, Key
<1>1. ASSUME NEW s \in Share, NEW d \in Digest, ShareCreate(s, d) PROVE Goal
  BY <1>1, <1>0 DEF ShareCreate
<1>2. ASSUME NEW s \in Share, NEW d \in Digest, ShareUpdate(s, d) PROVE Goal
  <2>1. /\ DeleteObjects(KeysOf(s, rows[s]) \ {<<s, rows[s].key>>}) /\ rows[s].state = "published"
        /\ rows' = [rows EXCEPT ![s] = [rows[s] EXCEPT !.pkey = NextKey(s), !.psha = d]]
    BY <1>2, <1>0 DEF ShareUpdate
  <2>2. x = <<s, rows[s].pkey>> /\ rows[s].pkey # 0
    BY <1>d, <2>1 DEF KeysOf
  <2>3. rows[s].key < rows[s].pkey /\ rows[s].pkey <= issued[s]
    BY <1>0, <2>2 DEF RowOK
  <2>4. rows'[s].key = rows[s].key /\ rows'[s].pkey = issued[s] + 1
    BY <1>0, <2>1 DEF NextKey, Row
  <2> QED
    BY <1>0, <1>v, <2>2, <2>3, <2>4
<1>3. ASSUME NEW s \in Share, ShareUpdateTooLate(s) PROVE Goal
  <2>1. x[1] = s
    BY <1>3, <1>d DEF ShareUpdateTooLate, KeysOf
  <2>2. rows'[s].state = "expired"
    BY <1>3, <1>0 DEF ShareUpdateTooLate, Unstaged, Row
  <2> QED
    BY <1>v, <2>1, <2>2 DEF Live
<1>4. ASSUME NEW s \in Share, ShareRevoke(s) PROVE Goal
  <2>1. x[1] = s
    BY <1>4, <1>d DEF ShareRevoke, KeysOf
  <2>2. rows'[s].state \in {"revoked", "expired"}
    BY <1>4, <1>0 DEF ShareRevoke, Unstaged, Row
  <2> QED
    BY <1>v, <2>1, <2>2 DEF Live
<1>5. ASSUME NEW s \in Share, ShareDue(s) PROVE Goal
  BY <1>5, <1>0 DEF ShareDue
<1>6. ASSUME DeleteAccount PROVE Goal
  <2>1. Exists(rows[x[1]])
    BY <1>6, <1>d DEF DeleteAccount, KeysOf
  <2>2. rows'[x[1]].state = "gone"
    BY <1>6, <1>0, <1>v, <2>1 DEF DeleteAccount, DeleteRows, NoRow
  <2> QED
    BY <1>v, <2>2 DEF Live
<1>7. ASSUME NEW c \in Call, NEW s \in Share, NEW d \in Digest \cup {Corrupt}, ShareUpload(c, s, d)
      PROVE Goal
  BY <1>7, <1>0 DEF ShareUpload
<1>8. ASSUME NEW c \in Call, NEW s \in Share, ShareFinalize(c, s) PROVE Goal
  BY <1>8, <1>0 DEF ShareFinalize
<1>9. ASSUME NEW c \in Call, NEW s \in Share, SharedArtifactRead(c, s) PROVE Goal
  BY <1>9, <1>0 DEF SharedArtifactRead
<1>10. ASSUME NEW c \in Call, PutLands(c) PROVE Goal
  <2>1. x = Target(c) /\ calls[c].pc = "put" /\ calls'[c].pc = "landed"
    BY <1>10, <1>0 DEF PutLands, Wait, CallState
  <2> QED
    BY <2>1
<1>11. ASSUME NEW c \in Call, UploadDone(c) PROVE Goal
  BY <1>11, <1>0 DEF UploadDone
<1>12. ASSUME NEW c \in Call, PutFails(c) PROVE Goal
  BY <1>12, <1>0 DEF PutFails
<1>13. ASSUME NEW c \in Call, AbortUpload(c) PROVE Goal
  <2>1. x = Target(c) /\ calls[c].pc = "abort" /\ calls'[c].pc = "idle"
    BY <1>13, <1>0, <1>d DEF AbortUpload, Return, Idle
  <2> QED
    BY <2>1
<1>14. ASSUME NEW c \in Call, FinalizeChecks(c) PROVE Goal
  BY <1>14, <1>0 DEF FinalizeChecks
<1>15. ASSUME NEW c \in Call, Verify(c) PROVE Goal
  BY <1>15, <1>0 DEF Verify
<1>16. ASSUME NEW c \in Call, DeleteMismatch(c) PROVE Goal
  <2>1. x = Target(c) /\ calls[c].pc = "mismatch" /\ calls'[c].pc \in {"clear", "drop"}
    BY <1>16, <1>0, <1>d DEF DeleteMismatch, Wait, CallState
  <2> QED
    BY <2>1
<1>17. ASSUME NEW c \in Call, DropRow(c) PROVE Goal
  BY <1>17, <1>0 DEF DropRow, DeleteRows
<1>18. ASSUME NEW c \in Call, Publish(c) PROVE Goal
  BY <1>18, <1>0 DEF Publish
<1>19. ASSUME NEW c \in Call, Swap(c) PROVE Goal
  BY <1>19, <1>0 DEF Swap
<1>20. ASSUME NEW c \in Call, DeleteReplaced(c) PROVE Goal
  <2>1. x = <<calls[c].share, calls[c].key>> /\ calls[c].pc = "swap"
    BY <1>20, <1>d DEF DeleteReplaced
  <2>2. rows[calls[c].share].state \in Live => calls[c].key < rows[calls[c].share].key
    BY <1>0, <2>1 DEF CallOK
  <2> QED
    BY <1>0, <1>v, <2>1, <2>2 DEF RowOK
<1>21. ASSUME NEW c \in Call, DeleteStaged(c) PROVE Goal
  <2>1. x = <<calls[c].share, calls[c].pkey>> /\ calls[c].pc = "lose"
    BY <1>21, <1>d DEF DeleteStaged
  <2> QED
    BY <1>0, <1>v, <2>1 DEF CallOK
<1>22. ASSUME NEW c \in Call, DeleteExpired(c) PROVE Goal
  <2>1. x[1] = calls[c].share /\ calls[c].pc = "expire"
    BY <1>22, <1>d DEF DeleteExpired, KeysOf
  <2> QED
    BY <1>0, <1>v, <2>1 DEF CallOK, Live, Terminal
<1>23. ASSUME NEW c \in Call, ClearPending(c) PROVE Goal
  BY <1>23, <1>0 DEF ClearPending
<1>24. ASSUME NEW c \in Call, ReadExpires(c) PROVE Goal
  BY <1>24, <1>0 DEF ReadExpires
<1>25. ASSUME SweepBegin PROVE Goal
  BY <1>25, <1>0 DEF SweepBegin, SweepLoop
<1>26. ASSUME SweepObjects PROVE Goal
  <2>1. PICK v \in sweep.todo : DeleteObjects(KeysOf(v.share, v))
    BY <1>26 DEF SweepObjects
  <2>2. x[1] = v.share /\ sweep.pc = "expire"
    BY <1>26, <1>d, <2>1 DEF SweepObjects, KeysOf
  <2> QED
    BY <1>0, <1>v, <2>1, <2>2 DEF VictimOK, Live, Terminal
<1>27. ASSUME SweepRow PROVE Goal
  BY <1>27, <1>0 DEF SweepRow
<1>28. ASSUME SweepStale PROVE Goal
  BY <1>28, <1>0 DEF SweepStale, SweepLoop
<1>29. ASSUME SweepStaged PROVE Goal
  <2>1. PICK v \in sweep.todo : DeleteObjects({<<v.share, v.pkey>>})
    BY <1>29 DEF SweepStaged
  <2>2. x = <<v.share, v.pkey>> /\ sweep.pc = "unstage"
    BY <1>29, <1>d, <2>1 DEF SweepStaged
  <2> QED
    BY <1>0, <1>v, <2>1, <2>2 DEF VictimOK, Live, Exists
<1>30. ASSUME SweepUnstage PROVE Goal
  BY <1>30, <1>0 DEF SweepUnstage
<1>31. ASSUME NEW s \in Share, SweepRetired(s) PROVE Goal
  BY <1>31, <1>0 DEF SweepRetired, DeleteRows
<1>32. ASSUME NEW k \in Key, WindowCloses(k) PROVE Goal
  BY <1>32, <1>0 DEF WindowCloses
<1>33. ASSUME NEW k \in Key, WindowForgotten(k) PROVE Goal
  BY <1>33, <1>0 DEF WindowForgotten
<1>34. ASSUME Evicted PROVE Goal
  BY <1>34, <1>0 DEF Evicted
<1>35. ASSUME UNCHANGED vars PROVE Goal
  BY <1>35, <1>0 DEF vars
<1>36. Goal
  BY <1>1, <1>2, <1>3, <1>4, <1>5, <1>6, <1>7, <1>8, <1>9, <1>10, <1>11, <1>12, <1>13,
     <1>14, <1>15, <1>16, <1>17, <1>18, <1>19, <1>20, <1>21, <1>22, <1>23, <1>24,
     <1>25, <1>26, <1>27, <1>28, <1>29, <1>30, <1>31, <1>32, <1>33, <1>34, <1>35
     DEF Next, CallStep, SweepStep
<1> QED
  BY <1>36 DEF Goal

\* No delete by a key that was read before an await hits an object that is needed; only
\* uploads to the key itself and a finalize that found it wrong touch it
\* (CleanupSparesInUse).
THEOREM CleanupIsSafe == Spec => CleanupSparesInUse
<1> DEFINE Spares == \A k \in {x \in Key : objects'[x] # objects[x]} :
                        k \in InUse /\ k \in InUse'
                        => \E c \in Call : /\ Target(c) = k
                                           /\ calls[c].pc \in {"put", "abort", "mismatch"}
                                           /\ calls'[c].pc # calls[c].pc
<1>1. Inv /\ [Next]_vars => Spares
  BY ObjectStep
<1> QED
  BY <1>1, ShareInvariant, PTL DEF Spec, CleanupSparesInUse

=============================================================================
