------------------------ MODULE JobCoordinatorProofs ------------------------
(***************************************************************************)
(* Proofs about JobCoordinator, for any number of workers and jobs.        *)
(*                                                                         *)
(* The inductive invariant is RowsOK for every job: a statement about one  *)
(* job row, its attempts and its approvals, closed under every operation   *)
(* on them (the lemmas of the first half).  IncarnationsOK does the same   *)
(* for the worker rows.                                                    *)
(***************************************************************************)
EXTENDS JobCoordinator, FiniteSetTheorems, WellFoundedInduction, TLAPS

AttemptRows == [Fence -> AttemptRow]
ApprovalRows == [Fence -> ApprovalRow]

\* Only the newest attempt is active, and the job knows it.
OwnerOK(r, a) ==
    \A f \in Fence : a[f].state \in ActiveAttemptState =>
        /\ f = r.nextFence - 1
        /\ r.state \notin {"none", "queued"}
        /\ r.state \notin TerminalJobState => r.active = f

\* The fence counts the attempts, and only a retry allows a second one.
FenceOK(r, a) ==
    /\ r.nextFence <= IF r.retried THEN 3 ELSE 2
    /\ r.retried => r.safe
    /\ r.state = "none" => r.nextFence = 1
    /\ r.state = "queued" => r.nextFence = IF r.retried THEN 2 ELSE 1
    /\ \A f \in Fence :
          /\ f >= r.nextFence => a[f] = NoAttempt
          /\ f < r.nextFence - 1 => a[f].state = "failed"
          /\ (r.state = "queued" /\ f < r.nextFence) => a[f].state = "failed"

\* The job and its newest attempt agree on completion.
CompletionOK(r, a) ==
    /\ r.state = "completed" => /\ r.nextFence - 1 \in Fence
                                /\ a[r.nextFence - 1].state = "completed"
    /\ \A f \in Fence : a[f].state = "completed" =>
          r.state = "completed" /\ f = r.nextFence - 1

\* An open request belongs to the newest attempt of a waiting or failed job.
PendingOK(r, p) ==
    \A f \in Fence : p[f].state = "pending" =>
        /\ f = r.nextFence - 1
        /\ r.state \in {"awaiting-approval", "failed"}

RowsOK(r, a, p) ==
    /\ OwnerOK(r, a)
    /\ FenceOK(r, a)
    /\ CompletionOK(r, a)
    /\ PendingOK(r, p)

\* A worker that is not revoked runs under an incarnation no revocation hit.
IncarnationsOK ==
    \A w \in Worker :
        /\ workers[w].incarnation <= minted[w]
        /\ expelled[w] <= minted[w]
        /\ (workers[w].incarnation # 0 /\ ~workers[w].revoked) =>
              expelled[w] < workers[w].incarnation

WorkersInv ==
    /\ workers \in [Worker -> WorkerRow]
    /\ minted \in [Worker -> Incarnation]
    /\ expelled \in [Worker -> Incarnation]
    /\ IncarnationsOK
RowsInv ==
    /\ jobs \in [Job -> JobRow]
    /\ attempts \in [Job -> AttemptRows]
    /\ approvals \in [Job -> ApprovalRows]
    /\ \A j \in Job : RowsOK(jobs[j], attempts[j], approvals[j])
JobInv == WorkersInv /\ RowsInv

---------------------------------------------------------------------------
(* One operation on the rows of one job *)

\* The job moves without giving out work, and the open requests fit its new
\* state: expiry, cancellation, an approval request and its decision.
LEMMA MoveJob ==
    ASSUME NEW r \in JobRow, NEW a \in AttemptRows, NEW p \in ApprovalRows,
           NEW c \in JobRow, NEW q \in ApprovalRows, RowsOK(r, a, p),
           c.nextFence = r.nextFence, c.retried = r.retried, c.safe = r.safe,
           r.state \notin {"none", "completed"},
           c.state \in {"failed", "cancelled", "cancel-requested", "running",
                        "awaiting-approval"},
           c.state \in {"failed", "cancelled"} \/
              (c.active = r.active /\
               r.state \in {"running", "awaiting-approval", "cancel-requested"}),
           PendingOK(c, q)
    PROVE  RowsOK(c, a, q)
<1>1. OwnerOK(c, a)
  BY DEF RowsOK, OwnerOK, TerminalJobState
<1>2. FenceOK(c, a)
  BY DEF RowsOK, FenceOK
<1>3. CompletionOK(c, a)
  BY DEF RowsOK, CompletionOK
<1> QED
  BY <1>1, <1>2, <1>3 DEF RowsOK

\* Nothing the invariant speaks of changes (the queue deadline passes).
LEMMA SameJob ==
    ASSUME NEW r \in JobRow, NEW a \in AttemptRows, NEW p \in ApprovalRows,
           NEW c \in JobRow, RowsOK(r, a, p),
           c.nextFence = r.nextFence, c.retried = r.retried, c.safe = r.safe,
           c.state = r.state, c.active = r.active
    PROVE  RowsOK(c, a, p)
<1>1. OwnerOK(c, a)
  BY DEF RowsOK, OwnerOK
<1>2. FenceOK(c, a)
  BY DEF RowsOK, FenceOK
<1>3. CompletionOK(c, a)
  BY DEF RowsOK, CompletionOK
<1>4. PendingOK(c, p)
  BY DEF RowsOK, PendingOK
<1> QED
  BY <1>1, <1>2, <1>3, <1>4 DEF RowsOK

\* The queue deadline fails a job that has no attempt in progress
\* (expireQueuedJobs).
LEMMA ExpireRows ==
    ASSUME NEW r \in JobRow, NEW a \in AttemptRows, NEW p \in ApprovalRows,
           RowsOK(r, a, p)
    PROVE  RowsOK(ExpiredJob(r), a, p) /\ ExpiredJob(r) \in JobRow
<1> DEFINE c == ExpiredJob(r)
<1>1. CASE c = r
  BY <1>1
<1>2. CASE c # r
  <2>1. r.state = "queued" /\ c = [r EXCEPT !.state = "failed", !.active = 0]
    BY <1>2 DEF ExpiredJob
  <2> HIDE DEF c
  <2>2. "failed" \in JobState \cup {"none"} /\ 0 \in 0 .. MaxFence
    BY JobAssumption DEF JobState
  <2>3. c \in JobRow
    BY <2>1, <2>2 DEF JobRow
  <2>4. /\ c.state = "failed" /\ c.nextFence = r.nextFence
        /\ c.retried = r.retried /\ c.safe = r.safe
    BY <2>1 DEF JobRow
  <2>5. PendingOK(c, p)
    BY <2>4, <2>1 DEF RowsOK, PendingOK
  <2> QED
    BY <2>1, <2>3, <2>4, <2>5, MoveJob DEF c
<1> QED
  BY <1>1, <1>2

\* Closing requests never hurts (expiry, cancellation, late decisions).
LEMMA CloseApprovals ==
    ASSUME NEW r \in JobRow, NEW a \in AttemptRows, NEW p \in ApprovalRows,
           NEW q \in ApprovalRows, RowsOK(r, a, p),
           \A f \in Fence : q[f].state = "pending" => p[f].state = "pending"
    PROVE  RowsOK(r, a, q)
  BY DEF RowsOK, PendingOK

\* An attempt may stop, age or keep a late result (handleJobCancel, the sweep).
LEMMA MoveAttempts ==
    ASSUME NEW r \in JobRow, NEW a \in AttemptRows, NEW p \in ApprovalRows,
           NEW b \in AttemptRows, RowsOK(r, a, p),
           \A f \in Fence :
              \/ b[f] = a[f]
              \/ a[f].worker # NoWorker /\ b[f].state = a[f].state
              \/ /\ a[f].state \in ActiveAttemptState
                 /\ b[f].state \in ActiveAttemptState \cup {"unknown-outcome"}
    PROVE  RowsOK(r, b, p)
<1>1. OwnerOK(r, b)
  BY DEF RowsOK, OwnerOK
<1>2. FenceOK(r, b)
  <2>1. ASSUME NEW f \in Fence
        PROVE  /\ f >= r.nextFence => b[f] = NoAttempt
               /\ a[f].state = "failed" => b[f].state = "failed"
    <3>1. NoAttempt.worker = NoWorker /\ NoAttempt.state \notin ActiveAttemptState
      BY DEF NoAttempt, ActiveAttemptState
    <3>2. a[f] = NoAttempt => b[f] = NoAttempt
      BY <3>1, <2>1
    <3>3. a[f].state = "failed" => b[f].state = "failed"
      BY <2>1 DEF ActiveAttemptState
    <3> QED
      BY <3>2, <3>3, <2>1 DEF RowsOK, FenceOK
  <2> QED
    BY <2>1 DEF RowsOK, FenceOK
<1>3. CompletionOK(r, b)
  BY DEF RowsOK, OwnerOK, CompletionOK, ActiveAttemptState, TerminalJobState
<1>4. PendingOK(r, p)
  BY DEF RowsOK
<1> QED
  BY <1>1, <1>2, <1>3, <1>4 DEF RowsOK

\* A claim opens the next attempt of a queued job (handleJobClaim).
LEMMA ClaimRows ==
    ASSUME NEW r \in JobRow, NEW a \in AttemptRows, NEW p \in ApprovalRows,
           NEW w \in Worker, NEW b \in AttemptRows, RowsOK(r, a, p),
           r.state = "queued", r.nextFence \in Fence,
           b[r.nextFence].state = "claimed",
           \A f \in Fence : f # r.nextFence => b[f] = a[f]
    PROVE  RowsOK(Claimed(r, w), b, p)
<1> DEFINE c == Claimed(r, w)
<1>0. /\ c.state = "running" /\ c.nextFence = r.nextFence + 1
      /\ c.active = r.nextFence /\ c.retried = r.retried /\ c.safe = r.safe
      /\ r.nextFence \in Nat /\ r.nextFence >= 1
  BY JobAssumption DEF Claimed, JobRow, Fence
<1> HIDE DEF c
<1>1. OwnerOK(c, b)
  BY <1>0 DEF RowsOK, OwnerOK
<1>2. FenceOK(c, b)
  BY <1>0 DEF RowsOK, FenceOK, Fence
<1>3. CompletionOK(c, b)
  BY <1>0 DEF RowsOK, CompletionOK, FenceOK
<1>4. PendingOK(c, p)
  BY <1>0 DEF RowsOK, PendingOK
<1> QED
  BY <1>1, <1>2, <1>3, <1>4 DEF RowsOK, c

\* An applied report, or a denial, closes the one active attempt and moves the
\* job along, or back to the queue for its one retry (handleAttemptReport).
LEMMA SettleRows ==
    ASSUME NEW r \in JobRow, NEW a \in AttemptRows, NEW p \in ApprovalRows,
           NEW c \in JobRow, NEW b \in AttemptRows, NEW q \in ApprovalRows,
           RowsOK(r, a, p), NEW f \in Fence, a[f].state \in ActiveAttemptState,
           r.state \in {"running", "awaiting-approval", "cancel-requested"},
           b[f].state \in {"completed", "failed", "cancelled"},
           \A g \in Fence : g # f => b[g] = a[g],
           c.nextFence = r.nextFence, c.safe = r.safe,
           \/ c.state = b[f].state /\ c.retried = r.retried
           \/ /\ c.state = "queued" /\ b[f].state = "failed"
              /\ r.safe /\ ~r.retried /\ c.retried,
           r.state = "awaiting-approval" => c.state = "failed",
           \A g \in Fence : q[g].state = "pending" => p[g].state = "pending"
    PROVE  RowsOK(c, b, q)
<1>0. /\ f = r.nextFence - 1 /\ b[f].state \notin ActiveAttemptState
      /\ r.nextFence \in Nat /\ f \in Nat
      /\ \A g \in Fence : g \in Nat
      /\ c.retried \in BOOLEAN /\ r.retried \in BOOLEAN
  BY JobAssumption DEF RowsOK, OwnerOK, ActiveAttemptState, JobRow, Fence
<1>1. OwnerOK(c, b)
  BY <1>0 DEF RowsOK, OwnerOK
<1>2. FenceOK(c, b)
  <2>1. \A g \in Fence :
          /\ g >= c.nextFence => b[g] = NoAttempt
          /\ g < c.nextFence - 1 => b[g].state = "failed"
          /\ (c.state = "queued" /\ g < c.nextFence) => b[g].state = "failed"
    BY <1>0 DEF RowsOK, FenceOK
  <2>2. r.nextFence <= (IF r.retried THEN 3 ELSE 2) /\ (r.retried => r.safe)
    BY DEF RowsOK, FenceOK
  <2>3. r.nextFence >= 2
    BY <1>0 DEF Fence
  <2>4. /\ c.nextFence <= IF c.retried THEN 3 ELSE 2
        /\ c.retried => c.safe
        /\ c.state = "none" => c.nextFence = 1
        /\ c.state = "queued" => c.nextFence = IF c.retried THEN 2 ELSE 1
    BY <1>0, <2>2, <2>3
  <2> QED
    BY <2>1, <2>4 DEF FenceOK
<1>3. CompletionOK(c, b)
  BY <1>0 DEF RowsOK, CompletionOK
<1>4. PendingOK(c, q)
  BY <1>0 DEF RowsOK, PendingOK
<1> QED
  BY <1>1, <1>2, <1>3, <1>4 DEF RowsOK

\* A created job has no attempt yet (handleJobCreate).
LEMMA CreateRows ==
    ASSUME NEW r \in JobRow, NEW a \in AttemptRows, NEW p \in ApprovalRows,
           NEW c \in JobRow, RowsOK(r, a, p), r.state = "none",
           c.state = "queued", c.nextFence = 1, ~c.retried
    PROVE  RowsOK(c, a, p)
<1>0. \A f \in Fence : f >= 1 /\ f \in Int /\ a[f] = NoAttempt
  BY DEF RowsOK, FenceOK, Fence
<1>1. OwnerOK(c, a)
  BY <1>0 DEF OwnerOK, NoAttempt, ActiveAttemptState
<1>2. FenceOK(c, a)
  BY <1>0 DEF FenceOK
<1>3. CompletionOK(c, a)
  BY <1>0 DEF CompletionOK, NoAttempt
<1>4. PendingOK(c, p)
  BY DEF RowsOK, PendingOK
<1> QED
  BY <1>1, <1>2, <1>3, <1>4 DEF RowsOK

---------------------------------------------------------------------------
(* Placement *)

\* A nonempty set of numbers has a least member.
LEMMA LeastMember ==
    ASSUME NEW T \in SUBSET Nat, T # {}
    PROVE  \E x \in T : \A y \in T : x <= y
<1> DEFINE R == OpToRel(<, Nat)
<1>1. \E x \in T : \A y \in T : ~(<<y, x>> \in R)
  <2>1. IsWellFoundedOn(R, Nat)
    BY NatLessThanWellFounded
  <2> HIDE DEF R
  <2> QED
    BY <2>1, WFMin
<1>2. \A x, y \in Nat : y < x => <<y, x>> \in R
  BY DEF OpToRel
<1>3. ASSUME NEW Q, \E x \in T : \A y \in T : ~(<<y, x>> \in Q),
             \A x, y \in Nat : y < x => <<y, x>> \in Q
      PROVE  \E x \in T : \A y \in T : x <= y
  <2>1. PICK x \in T : \A y \in T : ~(<<y, x>> \in Q)
    BY <1>3
  <2>2. \A y \in T : ~(y < x) /\ x \in Nat /\ y \in Nat
    BY <1>3, <2>1
  <2> QED
    BY <2>2
<1> HIDE DEF R
<1> QED
  BY <1>1, <1>2, <1>3

\* The load of a worker is a number.
LEMMA LoadType ==
    \A w \in Worker : Load(w) \in Nat
<1> SUFFICES ASSUME NEW w \in Worker PROVE Load(w) \in Nat
  OBVIOUS
<1>1. IsFiniteSet(Fence)
  BY FS_Interval, JobAssumption DEF Fence
<1>2. IsFiniteSet(Job \X Fence)
  BY <1>1, FS_Product, JobAssumption
<1>3. ActiveAttempts(w) \in SUBSET (Job \X Fence)
  BY DEF ActiveAttempts
<1>4. IsFiniteSet(ActiveAttempts(w))
  BY <1>2, <1>3, FS_Subset
<1> QED
  BY <1>4, FS_CardinalityType DEF Load

\* An auto job is left in the queue exactly when no worker is eligible, and
\* else goes to an eligible worker, none of which has less to do
\* (resolvePlacement).
THEOREM PlacementIsLeastLoaded ==
    ASSUME NEW needs
    PROVE  IF Eligible(needs) = {} THEN Placement(needs) = NoWorker
           ELSE /\ Placement(needs) \in Eligible(needs)
                /\ \A v \in Eligible(needs) : Load(Placement(needs)) <= Load(v)
<1> DEFINE E == Eligible(needs)
<1>1. CASE E = {}
  BY <1>1 DEF Placement
<1>2. CASE E # {}
  <2>1. E \subseteq Worker /\ E \subseteq Nat /\ \A v \in E : Load(v) \in Nat
    BY JobAssumption, LoadType DEF Eligible
  <2> DEFINE Loads == {Load(v) : v \in E}
  <2>2. PICK n \in Loads : \A m \in Loads : n <= m
    <3>1. Loads \in SUBSET Nat /\ Loads # {}
      BY <1>2, <2>1
    <3> HIDE DEF Loads
    <3> QED
      BY <3>1, LeastMember
  <2> DEFINE Idle == {v \in E : Load(v) = n}
  <2>3. PICK w \in Idle : \A v \in Idle : w <= v
    <3>1. Idle \in SUBSET Nat /\ Idle # {}
      BY <2>1, <2>2
    <3> HIDE DEF Idle
    <3> QED
      BY <3>1, LeastMember
  <2>4. \A v \in E : Load(w) < Load(v) \/ (Load(w) = Load(v) /\ w <= v)
    BY <2>1, <2>2, <2>3
  <2> HIDE DEF E
  <2>5. \E x \in E : \A v \in E :
            Load(x) < Load(v) \/ (Load(x) = Load(v) /\ x <= v)
    BY <2>3, <2>4
  <2>6. /\ Placement(needs) \in E
        /\ \A v \in E : \/ Load(Placement(needs)) < Load(v)
                        \/ /\ Load(Placement(needs)) = Load(v)
                           /\ Placement(needs) <= v
    BY <1>2, <2>5 DEF Placement, E
  <2> QED
    BY <1>2, <2>1, <2>6 DEF E
<1> QED
  BY <1>1, <1>2

---------------------------------------------------------------------------
(* Workers *)

\* One worker row changes, and the incarnations it speaks of stay below the
\* ones a revocation can still hit.
LEMMA WorkerRowStep ==
    ASSUME WorkersInv, NEW w \in Worker, NEW row \in WorkerRow,
           NEW m \in Incarnation, NEW x \in Incarnation,
           workers' = [workers EXCEPT ![w] = row],
           minted' = [minted EXCEPT ![w] = m],
           expelled' = [expelled EXCEPT ![w] = x],
           row.incarnation <= m, x <= m,
           (row.incarnation # 0 /\ ~row.revoked) => x < row.incarnation
    PROVE  WorkersInv'
<1>1. workers' \in [Worker -> WorkerRow]
  BY DEF WorkersInv
<1>2. minted' \in [Worker -> Incarnation] /\ expelled' \in [Worker -> Incarnation]
  BY DEF WorkersInv
<1>3. IncarnationsOK'
  BY DEF WorkersInv, IncarnationsOK
<1> QED
  BY <1>1, <1>2, <1>3 DEF WorkersInv

\* The fields of the row of a worker.
LEMMA WorkerFields ==
    ASSUME WorkersInv, NEW w \in Worker
    PROVE  /\ workers[w] \in WorkerRow
           /\ workers[w].incarnation \in Incarnation
           /\ workers[w].incarnation <= minted[w]
           /\ minted[w] \in Incarnation /\ expelled[w] \in Incarnation
           /\ expelled[w] <= minted[w]
           /\ (workers[w].incarnation # 0 /\ ~workers[w].revoked) =>
                 expelled[w] < workers[w].incarnation
  BY DEF WorkersInv, IncarnationsOK, WorkerRow

\* What the operations of a worker, its revocation and its lease do to its row.
LEMMA WorkersStep ==
    ASSUME WorkersInv, NEW w \in Worker, WorkerStep(w)
    PROVE  WorkersInv'
<1> DEFINE r == workers[w]
           Same == minted' = minted /\ expelled' = expelled
<1>0. /\ r \in WorkerRow
      /\ minted = [minted EXCEPT ![w] = minted[w]]
      /\ expelled = [expelled EXCEPT ![w] = expelled[w]]
      /\ 0 \in Incarnation /\ Incarnation \subseteq Nat
  BY WorkerFields, JobAssumption DEF WorkersInv, Incarnation
<1>1. ASSUME NEW p \in Policies, NEW c \in 1 .. MaxCapacity,
             DevicePolicyPublish(w, p, c)
      PROVE  WorkersInv'
  <2> DEFINE n == Published(r, p, c)
  <2>1. n \in WorkerRow
    BY <1>0 DEF Published, WorkerRow
  <2>2. /\ n.incarnation = (IF r.revoked THEN 0 ELSE r.incarnation)
        /\ ~n.revoked
    BY <1>0 DEF Published, WorkerRow
  <2>3. /\ workers' = [workers EXCEPT ![w] = n]
        /\ Same
    BY <1>1 DEF DevicePolicyPublish
  <2> HIDE DEF n
  <2>4. /\ n.incarnation <= minted[w] /\ expelled[w] <= minted[w]
        /\ n.incarnation # 0 => expelled[w] < n.incarnation
    BY <2>2, <1>0, WorkerFields
  <2> QED
    BY <1>0, <2>1, <2>2, <2>3, <2>4, WorkerFields, WorkerRowStep
<1>2. CASE WorkerConnect(w)
  <2> DEFINE n == [r EXCEPT !.incarnation = minted[w] + 1, !.live = TRUE]
  <2>0. minted[w] + 1 \in Incarnation /\ minted[w] \in Nat
    BY <1>0, <1>2, WorkerFields, JobAssumption DEF WorkerConnect, Incarnation
  <2>1. n \in WorkerRow
    BY <1>0, <2>0 DEF WorkerRow
  <2>2. n.incarnation = minted[w] + 1
    BY <1>0 DEF WorkerRow
  <2>3. /\ workers' = [workers EXCEPT ![w] = n]
        /\ minted' = [minted EXCEPT ![w] = minted[w] + 1]
        /\ expelled' = expelled
    BY <1>2 DEF WorkerConnect, WorkersInv
  <2> HIDE DEF n
  <2>4. expelled[w] <= minted[w] /\ expelled[w] \in Nat
    BY WorkerFields, <1>0
  <2>5. /\ n.incarnation <= minted[w] + 1 /\ expelled[w] <= minted[w] + 1
        /\ expelled[w] < n.incarnation
    BY <2>0, <2>2, <2>4
  <2>6. expelled' = [expelled EXCEPT ![w] = expelled[w]]
        /\ expelled[w] \in Incarnation
    BY <1>0, <2>3, WorkerFields
  <2> QED
    BY <2>0, <2>1, <2>3, <2>5, <2>6, WorkerRowStep
<1>3. CASE \/ \E b \in BOOLEAN, c \in 1 .. MaxCapacity :
                 WorkerCapabilitiesPublish(w, b, c)
           \/ \E b \in BOOLEAN : WorkerReplicaPublish(w, b)
           \/ WorkerLeaseLapses(w)
  <2>1. PICK n \in WorkerRow :
            /\ workers' = [workers EXCEPT ![w] = n]
            /\ n.incarnation = r.incarnation /\ n.revoked = r.revoked
    <3>1. ASSUME NEW b \in BOOLEAN, NEW c \in 1 .. MaxCapacity,
                 WorkerCapabilitiesPublish(w, b, c)
          PROVE  \E n \in WorkerRow :
                    /\ workers' = [workers EXCEPT ![w] = n]
                    /\ n.incarnation = r.incarnation /\ n.revoked = r.revoked
      <4> DEFINE n == [r EXCEPT !.capable = IF b THEN r.incarnation ELSE 0,
                                !.capacity = c]
      <4>1. workers' = [workers EXCEPT ![w] = n]
        BY <3>1 DEF WorkerCapabilitiesPublish, WorkersInv
      <4>2. n \in WorkerRow /\ n.incarnation = r.incarnation
            /\ n.revoked = r.revoked
        BY <1>0 DEF WorkerRow
      <4> QED
        BY <4>1, <4>2
    <3>2. ASSUME NEW b \in BOOLEAN, WorkerReplicaPublish(w, b)
          PROVE  \E n \in WorkerRow :
                    /\ workers' = [workers EXCEPT ![w] = n]
                    /\ n.incarnation = r.incarnation /\ n.revoked = r.revoked
      <4> DEFINE n == [r EXCEPT !.ready = b]
      <4>1. workers' = [workers EXCEPT ![w] = n]
        BY <3>2 DEF WorkerReplicaPublish, WorkersInv
      <4>2. n \in WorkerRow /\ n.incarnation = r.incarnation
            /\ n.revoked = r.revoked
        BY <1>0 DEF WorkerRow
      <4> QED
        BY <4>1, <4>2
    <3>3. CASE WorkerLeaseLapses(w)
      <4> DEFINE n == [r EXCEPT !.live = FALSE]
      <4>1. workers' = [workers EXCEPT ![w] = n]
        BY <3>3 DEF WorkerLeaseLapses, WorkersInv
      <4>2. n \in WorkerRow /\ n.incarnation = r.incarnation
            /\ n.revoked = r.revoked
        BY <1>0 DEF WorkerRow
      <4> QED
        BY <4>1, <4>2
    <3> QED
      BY <1>3, <3>1, <3>2, <3>3
  <2>2. Same
    BY <1>3 DEF WorkerCapabilitiesPublish, WorkerReplicaPublish,
                WorkerLeaseLapses
  <2> QED
    BY <1>0, <2>1, <2>2, WorkerFields, WorkerRowStep
<1>4. CASE RevokeEnrollment(w)
  <2> DEFINE n == [r EXCEPT !.revoked = TRUE]
             x == IF r.incarnation = 0 THEN expelled[w] ELSE r.incarnation
  <2>1. n \in WorkerRow /\ n.revoked /\ n.incarnation = r.incarnation
    BY <1>0 DEF WorkerRow
  <2>2. /\ workers' = [workers EXCEPT ![w] = n]
        /\ minted' = minted
        /\ expelled' = [expelled EXCEPT ![w] = x]
    BY <1>4 DEF RevokeEnrollment, WorkersInv
  <2>3. x \in Incarnation /\ x <= minted[w]
    BY WorkerFields
  <2> HIDE DEF n, x
  <2> QED
    BY <1>0, <2>1, <2>2, <2>3, WorkerFields, WorkerRowStep
<1> QED
  BY <1>1, <1>2, <1>3, <1>4 DEF WorkerStep

\* A report revives its sender's lease, the sweep forgets revoked workers.
LEMMA WorkersOtherStep ==
    ASSUME WorkersInv, minted' = minted, expelled' = expelled,
           \/ workers' = workers
           \/ \E w \in Worker : workers' = [workers EXCEPT ![w].live = TRUE]
           \/ \E purged \in SUBSET Worker : workers' =
                 [w \in Worker |-> IF w \in purged THEN NoRow ELSE workers[w]]
    PROVE  WorkersInv'
<1>1. CASE workers' = workers
  BY <1>1 DEF WorkersInv, IncarnationsOK
<1>2. ASSUME NEW w \in Worker, workers' = [workers EXCEPT ![w].live = TRUE]
      PROVE  WorkersInv'
  <2> DEFINE n == [workers[w] EXCEPT !.live = TRUE]
  <2>1. n \in WorkerRow /\ n.incarnation = workers[w].incarnation
        /\ n.revoked = workers[w].revoked
    BY WorkerFields DEF WorkerRow
  <2>2. /\ workers' = [workers EXCEPT ![w] = n]
        /\ minted' = [minted EXCEPT ![w] = minted[w]]
        /\ expelled' = [expelled EXCEPT ![w] = expelled[w]]
    BY <1>2 DEF WorkersInv
  <2> HIDE DEF n
  <2> QED
    BY <2>1, <2>2, WorkerFields, WorkerRowStep
<1>3. ASSUME NEW purged \in SUBSET Worker, workers' =
                 [w \in Worker |-> IF w \in purged THEN NoRow ELSE workers[w]]
      PROVE  WorkersInv'
  <2>1. NoRow \in WorkerRow /\ NoRow.incarnation = 0
    BY JobAssumption DEF NoRow, WorkerRow, Incarnation
  <2>2. workers' \in [Worker -> WorkerRow]
    BY <1>3, <2>1 DEF WorkersInv
  <2>3. IncarnationsOK'
    BY <1>3, <2>1, JobAssumption DEF WorkersInv, IncarnationsOK, Incarnation
  <2> QED
    BY <2>2, <2>3 DEF WorkersInv
<1> QED
  BY <1>1, <1>2, <1>3

---------------------------------------------------------------------------
(* Jobs *)

\* The rows of one job change.
LEMMA RowsAt ==
    ASSUME RowsInv, NEW j \in Job, NEW c \in JobRow, NEW b \in AttemptRows,
           NEW q \in ApprovalRows, RowsOK(c, b, q),
           jobs' = [jobs EXCEPT ![j] = c],
           attempts' = [attempts EXCEPT ![j] = b],
           approvals' = [approvals EXCEPT ![j] = q]
    PROVE  RowsInv'
<1>1. /\ jobs' \in [Job -> JobRow] /\ attempts' \in [Job -> AttemptRows]
      /\ approvals' \in [Job -> ApprovalRows]
  BY DEF RowsInv
<1>2. ASSUME NEW i \in Job
      PROVE  RowsOK(jobs'[i], attempts'[i], approvals'[i])
  <2>1. CASE i = j
    BY <2>1 DEF RowsInv
  <2>2. CASE i # j
    BY <2>2 DEF RowsInv
  <2> QED
    BY <2>1, <2>2
<1> QED
  BY <1>1, <1>2 DEF RowsInv

\* The rows of one job.
LEMMA RowsTypes ==
    ASSUME RowsInv, NEW j \in Job
    PROVE  /\ jobs[j] \in JobRow /\ attempts[j] \in AttemptRows
           /\ approvals[j] \in ApprovalRows
           /\ RowsOK(jobs[j], attempts[j], approvals[j])
           /\ jobs = [jobs EXCEPT ![j] = jobs[j]]
           /\ attempts = [attempts EXCEPT ![j] = attempts[j]]
           /\ approvals = [approvals EXCEPT ![j] = approvals[j]]
  BY DEF RowsInv

\* job.create
LEMMA JobCreateRows ==
    ASSUME RowsInv, NEW j \in Job, NEW device \in Worker \cup {NoWorker},
           NEW safe \in BOOLEAN, NEW needs \in Needs,
           JobCreate(j, device, safe, needs)
    PROVE  RowsInv'
<1> DEFINE t == IF device # NoWorker THEN device ELSE Placement(needs)
           c == [NoJob EXCEPT !.state = "queued", !.safe = safe,
                              !.needs = needs, !.target = t]
<1>1. t \in Worker \cup {NoWorker}
  BY PlacementIsLeastLoaded DEF Eligible
<1>2. /\ jobs' = [jobs EXCEPT ![j] = c] /\ attempts' = attempts
      /\ approvals' = approvals /\ jobs[j].state = "none"
  BY DEF JobCreate
<1> HIDE DEF t
<1>3. c \in JobRow /\ c.state = "queued" /\ c.nextFence = 1 /\ ~c.retried
  <2>1. /\ 1 \in 1 .. MaxFence + 1 /\ 0 \in 0 .. MaxFence
        /\ "queued" \in JobState \cup {"none"}
    BY JobAssumption DEF JobState
  <2>2. NoJob \in JobRow /\ NoJob.nextFence = 1 /\ ~NoJob.retried
    BY <2>1, JobAssumption DEF NoJob, JobRow
  <2>3. c \in JobRow
    BY <1>1, <2>1, <2>2 DEF JobRow
  <2>4. /\ c.state = "queued" /\ c.nextFence = NoJob.nextFence
        /\ c.retried = NoJob.retried
    BY <2>2 DEF JobRow
  <2> QED
    BY <2>2, <2>3, <2>4
<1> HIDE DEF c
<1>4. RowsOK(c, attempts[j], approvals[j])
  BY <1>2, <1>3, RowsTypes, CreateRows
<1> QED
  BY <1>2, <1>3, <1>4, RowsTypes, RowsAt

\* job.claim
LEMMA JobClaimRows ==
    ASSUME WorkersInv, RowsInv, NEW j \in Job, NEW w \in Worker, JobClaim(w, j)
    PROVE  RowsInv'
<1> DEFINE r == jobs[j]
           n == [NoAttempt EXCEPT !.state = "claimed", !.worker = w,
                                  !.incarnation = workers[w].incarnation]
           b == [attempts[j] EXCEPT ![r.nextFence] = n]
           c == Claimed(r, w)
<1>1. /\ r \in JobRow /\ attempts[j] \in AttemptRows
      /\ r.state = "queued" /\ r.nextFence \in Fence
  BY RowsTypes DEF JobClaim, Claimable
<1>2. n \in AttemptRow /\ n.state = "claimed"
  BY WorkerFields DEF NoAttempt, AttemptRow, AttemptState, ActiveAttemptState
<1>3. /\ jobs' = [jobs EXCEPT ![j] = c]
      /\ attempts' = [attempts EXCEPT ![j] = b] /\ approvals' = approvals
  BY DEF JobClaim, RowsInv
<1> HIDE DEF n
<1>4. /\ b \in AttemptRows /\ b[r.nextFence].state = "claimed"
      /\ \A f \in Fence : f # r.nextFence => b[f] = attempts[j][f]
  BY <1>1, <1>2 DEF AttemptRows
<1>5. c \in JobRow
  <2>1. r.nextFence + 1 \in 1 .. MaxFence + 1 /\ r.nextFence \in 0 .. MaxFence
        /\ "running" \in JobState \cup {"none"}
    BY <1>1, JobAssumption DEF Fence, JobState
  <2> QED
    BY <1>1, <2>1 DEF Claimed, JobRow
<1> HIDE DEF b
<1>6. RowsOK(c, b, approvals[j])
  BY <1>1, <1>4, RowsTypes, ClaimRows
<1> HIDE DEF c
<1> QED
  BY <1>3, <1>4, <1>5, <1>6, RowsTypes, RowsAt

\* The report of one attempt, with what the transition tables allow.
LEMMA ReportFacts ==
    ASSUME RowsInv, NEW j \in Job, NEW f \in Fence,
           NEW outcome \in {"completed", "failed"},
           IsActive(j, f), ReportLegal(j, f, outcome)
    PROVE  /\ jobs[j].state \in {"running", "awaiting-approval",
                                 "cancel-requested"}
           /\ ReportedAttempt(j, outcome) \in {"completed", "failed", "cancelled"}
           /\ \/ ReportedJob(j, outcome) = ReportedAttempt(j, outcome)
              \/ /\ ReportedJob(j, outcome) = "queued"
                 /\ ReportedAttempt(j, outcome) = "failed"
                 /\ MayRetry(j)
           /\ jobs[j].state = "awaiting-approval" =>
                 ReportedJob(j, outcome) = "failed"
<1>1. jobs[j].state \in JobState \ {"queued"}
  <2>1. jobs[j].state \notin {"none", "queued"}
    BY RowsTypes DEF RowsOK, OwnerOK, IsActive
  <2> QED
    BY <2>1, RowsTypes DEF JobRow
<1>2. ReportedJob(j, outcome) \in JobTransitions(jobs[j].state)
  BY DEF ReportLegal, CanSetJob
<1>3. jobs[j].state \in {"running", "awaiting-approval", "cancel-requested"}
  BY <1>1, <1>2 DEF JobTransitions, JobState
<1>4. jobs[j].state = "awaiting-approval" =>
          ReportedJob(j, outcome) \in {"running", "failed", "cancelled",
                                       "cancel-requested", "unknown-outcome"}
  BY <1>2 DEF JobTransitions
<1> QED
  BY <1>3, <1>4 DEF ReportedJob, ReportedAttempt

\* attempt.report, when it is applied
LEMMA AttemptReportRows ==
    ASSUME RowsInv, NEW j \in Job, NEW w \in Worker, NEW f \in Fence,
           NEW outcome \in {"completed", "failed"},
           AttemptReport(w, j, f, outcome)
    PROVE  RowsInv'
<1> DEFINE r == jobs[j]
           s == ReportedJob(j, outcome)
           t == ReportedAttempt(j, outcome)
           n == [attempts[j][f] EXCEPT !.state = t]
           b == [attempts[j] EXCEPT ![f] = n]
           c == Settled(r, s)
<1>1. IsActive(j, f) /\ ReportLegal(j, f, outcome)
  BY DEF AttemptReport
<1>2. /\ r.state \in {"running", "awaiting-approval", "cancel-requested"}
      /\ t \in {"completed", "failed", "cancelled"}
      /\ s = t \/ (s = "queued" /\ t = "failed" /\ r.safe /\ ~r.retried)
      /\ r.state = "awaiting-approval" => s = "failed"
  BY <1>1, ReportFacts DEF MayRetry
<1>3. /\ jobs' = [jobs EXCEPT ![j] = c]
      /\ attempts' = [attempts EXCEPT ![j] = b] /\ approvals' = approvals
  BY DEF AttemptReport, AttemptAfter, RowsInv
<1> HIDE DEF s, t
<1>4. n \in AttemptRow /\ n.state = t
  BY <1>2, RowsTypes DEF AttemptRows, AttemptRow, AttemptState
<1> HIDE DEF n
<1>5. /\ b \in AttemptRows /\ b[f].state = t
      /\ \A g \in Fence : g # f => b[g] = attempts[j][g]
  BY <1>4, RowsTypes DEF AttemptRows
<1>6. /\ c \in JobRow /\ c.state = s /\ c.nextFence = r.nextFence
      /\ c.safe = r.safe /\ c.retried = (r.retried \/ s = "queued")
  <2>1. s \in JobState \cup {"none"} /\ 0 \in 0 .. MaxFence /\ r \in JobRow
    BY <1>2, RowsTypes, JobAssumption DEF JobState
  <2> QED
    BY <2>1 DEF Settled, JobRow
<1> HIDE DEF b, c
<1>7. \/ c.state = t /\ c.retried = r.retried
      \/ /\ c.state = "queued" /\ t = "failed"
         /\ r.safe /\ ~r.retried /\ c.retried
  BY <1>2, <1>6, RowsTypes DEF JobRow
<1>8. RowsOK(c, b, approvals[j])
  BY <1>1, <1>2, <1>5, <1>6, <1>7, RowsTypes, SettleRows DEF IsActive
<1> QED
  BY <1>3, <1>5, <1>6, <1>8, RowsTypes, RowsAt

\* The rows of every job change.
LEMMA RowsAll ==
    ASSUME NEW C, NEW B, NEW Q,
           C \in [Job -> JobRow], B \in [Job -> AttemptRows],
           Q \in [Job -> ApprovalRows],
           \A i \in Job : RowsOK(C[i], B[i], Q[i]),
           jobs' = C, attempts' = B, approvals' = Q
    PROVE  RowsInv'
  BY DEF RowsInv

\* Closing one request, or none, keeps the type and opens nothing.
LEMMA ClosedApproval ==
    ASSUME NEW row \in ApprovalRow
    PROVE  /\ ExpiredApproval(row) \in ApprovalRow
           /\ CancelledApproval(row) \in ApprovalRow
           /\ ExpiredApproval(row).state = "pending" => row.state = "pending"
           /\ CancelledApproval(row).state # "pending"
  BY DEF ExpiredApproval, CancelledApproval, ApprovalRow

\* An aged attempt keeps its type and its state, or its outcome is unknown.
LEMMA AgedRow ==
    ASSUME NEW row \in AttemptRow
    PROVE  /\ AgedAttempt(row) \in AttemptRow
           /\ \/ AgedAttempt(row) = row
              \/ /\ row.state \in ActiveAttemptState
                 /\ AgedAttempt(row).state = "unknown-outcome"
  BY DEF AgedAttempt, AttemptRow, AttemptState

\* Queued jobs past their deadline fail (job.get, job.list, the sweep).
LEMMA ExpireAll ==
    ASSUME RowsInv
    PROVE  /\ [i \in Job |-> ExpiredJob(jobs[i])] \in [Job -> JobRow]
           /\ \A i \in Job : /\ ExpiredJob(jobs[i]) \in JobRow
                             /\ RowsOK(ExpiredJob(jobs[i]), attempts[i],
                                       approvals[i])
  BY RowsTypes, ExpireRows

\* job.get, job.list
LEMMA ReadRows ==
    ASSUME RowsInv, JobList \/ \E j \in Job : JobGet(j)
    PROVE  RowsInv'
<1> DEFINE C == [i \in Job |-> ExpiredJob(jobs[i])]
<1>0. C \in [Job -> JobRow] /\ \A i \in Job : C[i] = ExpiredJob(jobs[i])
  BY ExpireAll
<1>1. CASE JobList
  <2>1. jobs' = C /\ attempts' = attempts /\ approvals' = approvals
    BY <1>1 DEF JobList
  <2>2. \A i \in Job : RowsOK(C[i], attempts[i], approvals[i])
    BY <1>0, ExpireAll
  <2> HIDE DEF C
  <2> QED
    BY <1>0, <2>1, <2>2, RowsAll DEF RowsInv
<1>2. ASSUME NEW j \in Job, JobGet(j)
      PROVE  RowsInv'
  <2> DEFINE q == [f \in Fence |-> ExpiredApproval(approvals[j][f])]
             Q == [approvals EXCEPT ![j] = q]
  <2>1. jobs' = C /\ attempts' = attempts /\ approvals' = Q
    BY <1>2 DEF JobGet
  <2>2. /\ q \in ApprovalRows
        /\ \A f \in Fence : q[f].state = "pending" =>
                            approvals[j][f].state = "pending"
    BY RowsTypes, ClosedApproval DEF ApprovalRows
  <2> HIDE DEF q, C
  <2>3. Q \in [Job -> ApprovalRows]
    BY <2>2 DEF RowsInv
  <2>4. ASSUME NEW i \in Job PROVE RowsOK(C[i], attempts[i], Q[i])
    <3>1. RowsOK(C[i], attempts[i], approvals[i]) /\ C[i] \in JobRow
      BY <1>0, ExpireAll
    <3>2. CASE i # j
      BY <3>1, <3>2 DEF RowsInv
    <3>3. CASE i = j
      BY <3>1, <3>3, <2>2, RowsTypes, CloseApprovals DEF RowsInv
    <3> QED
      BY <3>2, <3>3
  <2> HIDE DEF Q
  <2> QED
    BY <1>0, <2>1, <2>3, <2>4, RowsAll DEF RowsInv
<1> QED
  BY <1>1, <1>2

\* The sweep
LEMMA SweepRows ==
    ASSUME RowsInv, NEW purged \in SUBSET Worker, Sweep(purged)
    PROVE  RowsInv'
<1> DEFINE C == [i \in Job |-> ExpiredJob(jobs[i])]
           B == [i \in Job |-> [f \in Fence |-> AgedAttempt(attempts[i][f])]]
           Q == [i \in Job |->
                   [f \in Fence |-> ExpiredApproval(approvals[i][f])]]
<1>1. jobs' = C /\ attempts' = B /\ approvals' = Q
  BY DEF Sweep
<1>2. ASSUME NEW i \in Job
      PROVE  /\ C[i] \in JobRow /\ B[i] \in AttemptRows
             /\ Q[i] \in ApprovalRows /\ RowsOK(C[i], B[i], Q[i])
  <2> DEFINE c == C[i]
             b == B[i]
             q == Q[i]
  <2>1. c \in JobRow /\ RowsOK(c, attempts[i], approvals[i])
    BY ExpireAll
  <2>2. /\ q \in ApprovalRows
        /\ \A f \in Fence : q[f].state = "pending" =>
                            approvals[i][f].state = "pending"
    BY RowsTypes, ClosedApproval DEF ApprovalRows
  <2>3. /\ b \in AttemptRows
        /\ \A f \in Fence : \/ b[f] = attempts[i][f]
                            \/ /\ attempts[i][f].state \in ActiveAttemptState
                               /\ b[f].state = "unknown-outcome"
    BY RowsTypes, AgedRow DEF AttemptRows
  <2> HIDE DEF c, b, q
  <2>4. RowsOK(c, attempts[i], q)
    BY <2>1, <2>2, RowsTypes, CloseApprovals
  <2>5. RowsOK(c, b, q)
    BY <2>1, <2>2, <2>3, <2>4, RowsTypes, MoveAttempts
  <2> QED
    BY <2>1, <2>2, <2>3, <2>5 DEF c, b, q
<1>3. C \in [Job -> JobRow] /\ B \in [Job -> AttemptRows]
      /\ Q \in [Job -> ApprovalRows]
  BY <1>2
<1> HIDE DEF C, B, Q
<1> QED
  BY <1>1, <1>2, <1>3, RowsAll

\* A cancelled job closes its open requests; a running one keeps its attempt.
LEMMA CancelRows ==
    ASSUME NEW r \in JobRow, NEW a \in AttemptRows, NEW p \in ApprovalRows,
           NEW q \in ApprovalRows, RowsOK(r, a, p),
           \A f \in Fence : q[f].state = "pending" => p[f].state = "pending",
           CancelledJob(r).state \in {"cancel-requested", "cancelled"} =>
              \A f \in Fence : q[f].state # "pending"
    PROVE  RowsOK(CancelledJob(r), a, q) /\ CancelledJob(r) \in JobRow
<1> DEFINE c == CancelledJob(r)
<1>0. /\ "cancelled" \in JobState \cup {"none"}
      /\ "cancel-requested" \in JobState \cup {"none"} /\ 0 \in 0 .. MaxFence
  BY JobAssumption DEF JobState
<1>1. CASE c = r
  BY <1>1, CloseApprovals
<1>2. CASE r.state \in {"queued", "awaiting-approval"}
  <2>1. c = [r EXCEPT !.state = "cancelled", !.active = 0]
    BY <1>2 DEF CancelledJob
  <2>2. c \in JobRow
    BY <1>0, <2>1 DEF JobRow
  <2>3. /\ c.state = "cancelled" /\ c.nextFence = r.nextFence
        /\ c.retried = r.retried /\ c.safe = r.safe
    BY <2>1 DEF JobRow
  <2>4. PendingOK(c, q)
    BY <2>3 DEF PendingOK
  <2> QED
    BY <1>2, <2>2, <2>3, <2>4, MoveJob
<1>3. CASE r.state = "running"
  <2>1. c = [r EXCEPT !.state = "cancel-requested"]
    BY <1>3 DEF CancelledJob
  <2>2. c \in JobRow
    BY <1>0, <2>1 DEF JobRow
  <2>3. /\ c.state = "cancel-requested" /\ c.nextFence = r.nextFence
        /\ c.retried = r.retried /\ c.safe = r.safe /\ c.active = r.active
    BY <2>1 DEF JobRow
  <2>4. PendingOK(c, q)
    BY <2>3 DEF PendingOK
  <2> QED
    BY <1>3, <2>2, <2>3, <2>4, MoveJob
<1> QED
  BY <1>1, <1>2, <1>3 DEF CancelledJob

\* job.cancel
LEMMA JobCancelRows ==
    ASSUME RowsInv, NEW j \in Job, JobCancel(j)
    PROVE  RowsInv'
<1> DEFINE E == [i \in Job |-> ExpiredJob(jobs[i])]
           After == CancelledJob(E[j])
           C == [E EXCEPT ![j] = After]
           b == [f \in Fence |-> StoppedAttempt(j, f)]
           closed == [f \in Fence |-> CancelledApproval(approvals[j][f])]
           q == IF After.state \in {"cancel-requested", "cancelled"}
                THEN closed ELSE approvals[j]
           B == [attempts EXCEPT ![j] = b]
           Q == [approvals EXCEPT ![j] = q]
<1>1. jobs' = C /\ attempts' = B /\ approvals' = Q
  BY RowsTypes DEF JobCancel
<1>2. /\ E \in [Job -> JobRow]
      /\ \A i \in Job : RowsOK(E[i], attempts[i], approvals[i])
  BY ExpireAll
<1>3. /\ closed \in ApprovalRows
      /\ \A f \in Fence : closed[f].state # "pending"
  BY RowsTypes, ClosedApproval DEF ApprovalRows
<1>4. /\ b \in AttemptRows
      /\ \A f \in Fence : \/ b[f] = attempts[j][f]
                          \/ /\ attempts[j][f].state \in ActiveAttemptState
                             /\ b[f].state \in ActiveAttemptState
  <2>1. ASSUME NEW f \in Fence
        PROVE  /\ b[f] \in AttemptRow
               /\ \/ b[f] = attempts[j][f]
                  \/ /\ attempts[j][f].state \in ActiveAttemptState
                     /\ b[f].state \in ActiveAttemptState
    <3>1. attempts[j][f] \in AttemptRow
      BY RowsTypes DEF AttemptRows
    <3> QED
      BY <3>1 DEF StoppedAttempt, IsActive, AttemptRow, AttemptState,
                  ActiveAttemptState
  <2> QED
    BY <2>1 DEF AttemptRows
<1> HIDE DEF E, b, closed
<1>5. /\ q \in ApprovalRows
      /\ \A f \in Fence : q[f].state = "pending" =>
                          approvals[j][f].state = "pending"
      /\ After.state \in {"cancel-requested", "cancelled"} =>
            \A f \in Fence : q[f].state # "pending"
  BY <1>3, RowsTypes
<1> HIDE DEF q
<1>6. RowsOK(After, attempts[j], q) /\ After \in JobRow
  BY <1>2, <1>5, RowsTypes, CancelRows
<1> HIDE DEF After
<1>7. RowsOK(After, b, q)
  BY <1>4, <1>5, <1>6, RowsTypes, MoveAttempts
<1>8. /\ C \in [Job -> JobRow] /\ B \in [Job -> AttemptRows]
      /\ Q \in [Job -> ApprovalRows]
  BY <1>2, <1>4, <1>5, <1>6 DEF RowsInv
<1>9. ASSUME NEW i \in Job PROVE RowsOK(C[i], B[i], Q[i])
  <2>1. CASE i = j
    BY <1>2, <1>7, <2>1 DEF RowsInv
  <2>2. CASE i # j
    BY <1>2, <2>2 DEF RowsInv
  <2> QED
    BY <2>1, <2>2
<1> HIDE DEF C, B, Q
<1> QED
  BY <1>1, <1>8, <1>9, RowsAll

\* A late result is stored, or the lease of an attempt runs out.
LEMMA AttemptOnlyRows ==
    ASSUME RowsInv, NEW j \in Job, NEW f \in Fence,
           \/ \E w \in Worker, genuine \in BOOLEAN : LateReport(w, j, f, genuine)
           \/ AttemptLeaseExpires(j, f)
           \/ AttemptLeaseLapses(j, f)
    PROVE  RowsInv'
<1> DEFINE r == attempts[j][f]
<1>0. r \in AttemptRow
  BY RowsTypes DEF AttemptRows
<1>1. PICK n \in AttemptRow :
          /\ attempts' = [attempts EXCEPT ![j] = [@ EXCEPT ![f] = n]]
          /\ n.state = r.state
          /\ r.worker # NoWorker \/ r.state \in ActiveAttemptState
  <2>1. ASSUME NEW w \in Worker, NEW genuine \in BOOLEAN,
               LateReport(w, j, f, genuine)
        PROVE  \E n \in AttemptRow :
                  /\ attempts' = [attempts EXCEPT ![j] = [@ EXCEPT ![f] = n]]
                  /\ n.state = r.state
                  /\ r.worker # NoWorker \/ r.state \in ActiveAttemptState
    <3> DEFINE n == [r EXCEPT !.late = TRUE]
    <3>1. attempts' = [attempts EXCEPT ![j] = [@ EXCEPT ![f] = n]]
      BY <2>1 DEF LateReport, RowsInv, AttemptRows
    <3>2. n \in AttemptRow /\ n.state = r.state
      BY <1>0 DEF AttemptRow
    <3>3. r.worker # NoWorker
      BY <2>1, JobAssumption DEF LateReport, NoWorker
    <3> QED
      BY <3>1, <3>2, <3>3
  <2>2. ASSUME NEW l \in {"expired", "lapsed"}, r.state \in ActiveAttemptState,
               attempts' = [attempts EXCEPT ![j][f].lease = l]
        PROVE  \E n \in AttemptRow :
                  /\ attempts' = [attempts EXCEPT ![j] = [@ EXCEPT ![f] = n]]
                  /\ n.state = r.state
                  /\ r.worker # NoWorker \/ r.state \in ActiveAttemptState
    <3> DEFINE n == [r EXCEPT !.lease = l]
    <3>1. attempts' = [attempts EXCEPT ![j] = [@ EXCEPT ![f] = n]]
      BY <2>2 DEF RowsInv, AttemptRows
    <3>2. n \in AttemptRow /\ n.state = r.state
      BY <1>0 DEF AttemptRow
    <3> QED
      BY <3>1, <3>2, <2>2
  <2> QED
    BY <2>1, <2>2 DEF AttemptLeaseExpires, AttemptLeaseLapses, IsActive
<1> DEFINE b == [attempts[j] EXCEPT ![f] = n]
<1>2. /\ attempts' = [attempts EXCEPT ![j] = b]
      /\ jobs' = jobs /\ approvals' = approvals
  BY <1>1 DEF LateReport, AttemptLeaseExpires, AttemptLeaseLapses
<1>3. /\ b \in AttemptRows
      /\ \A g \in Fence :
            \/ b[g] = attempts[j][g]
            \/ attempts[j][g].worker # NoWorker /\ b[g].state = attempts[j][g].state
            \/ /\ attempts[j][g].state \in ActiveAttemptState
               /\ b[g].state \in ActiveAttemptState \cup {"unknown-outcome"}
  BY <1>1, RowsTypes DEF AttemptRows
<1> HIDE DEF b
<1>4. RowsOK(jobs[j], b, approvals[j])
  BY <1>3, RowsTypes, MoveAttempts
<1>5. /\ jobs[j] \in JobRow /\ approvals[j] \in ApprovalRows
      /\ jobs' = [jobs EXCEPT ![j] = jobs[j]]
      /\ approvals' = [approvals EXCEPT ![j] = approvals[j]]
  BY <1>2, RowsTypes
<1> QED
  BY <1>2, <1>3, <1>4, <1>5, RowsAt

\* The queue deadline passes.
LEMMA DeadlineRows ==
    ASSUME RowsInv, NEW j \in Job, QueueDeadlinePasses(j)
    PROVE  RowsInv'
<1> DEFINE c == [jobs[j] EXCEPT !.overdue = TRUE]
<1>1. /\ jobs' = [jobs EXCEPT ![j] = c] /\ attempts' = attempts
      /\ approvals' = approvals
  BY DEF QueueDeadlinePasses
<1>2. /\ c \in JobRow /\ c.nextFence = jobs[j].nextFence
      /\ c.retried = jobs[j].retried /\ c.safe = jobs[j].safe
      /\ c.state = jobs[j].state /\ c.active = jobs[j].active
  BY RowsTypes DEF JobRow
<1> HIDE DEF c
<1>3. RowsOK(c, attempts[j], approvals[j])
  BY <1>2, RowsTypes, SameJob
<1>4. /\ attempts[j] \in AttemptRows /\ approvals[j] \in ApprovalRows
      /\ attempts' = [attempts EXCEPT ![j] = attempts[j]]
      /\ approvals' = [approvals EXCEPT ![j] = approvals[j]]
  BY <1>1, RowsTypes
<1>5. c \in JobRow /\ jobs' = [jobs EXCEPT ![j] = c]
  BY <1>1, <1>2
<1> QED
  BY <1>3, <1>4, <1>5, RowsAt

\* Requests are read, expire, or are decided too late.
LEMMA ApprovalOnlyRows ==
    ASSUME RowsInv, NEW j \in Job,
           \/ ApprovalGet(j)
           \/ \E f \in Fence : ApprovalTooLate(j, f)
           \/ \E f \in Fence : ApprovalDeadlinePasses(j, f)
    PROVE  RowsInv'
<1> DEFINE p == approvals[j]
<1>0. p \in ApprovalRows /\ \A f \in Fence : p[f] \in ApprovalRow
  BY RowsTypes DEF ApprovalRows
<1>1. PICK q \in ApprovalRows :
          /\ approvals' = [approvals EXCEPT ![j] = q]
          /\ \A f \in Fence : q[f].state = "pending" => p[f].state = "pending"
  <2>1. ASSUME ApprovalGet(j)
        PROVE  \E q \in ApprovalRows :
                  /\ approvals' = [approvals EXCEPT ![j] = q]
                  /\ \A f \in Fence : q[f].state = "pending" =>
                                      p[f].state = "pending"
    <3> DEFINE q == [f \in Fence |-> ExpiredApproval(p[f])]
    <3>1. approvals' = [approvals EXCEPT ![j] = q]
      BY <2>1 DEF ApprovalGet
    <3>2. /\ q \in ApprovalRows
          /\ \A f \in Fence : q[f].state = "pending" => p[f].state = "pending"
      BY <1>0, ClosedApproval DEF ApprovalRows
    <3> QED
      BY <3>1, <3>2
  <2>2. ASSUME NEW f \in Fence, NEW n \in ApprovalRow, p[f].state = "pending",
               approvals' = [approvals EXCEPT ![j] = [@ EXCEPT ![f] = n]]
        PROVE  \E q \in ApprovalRows :
                  /\ approvals' = [approvals EXCEPT ![j] = q]
                  /\ \A g \in Fence : q[g].state = "pending" =>
                                      p[g].state = "pending"
    <3> DEFINE q == [p EXCEPT ![f] = n]
    <3>1. approvals' = [approvals EXCEPT ![j] = q]
      BY <2>2
    <3>2. /\ q \in ApprovalRows
          /\ \A g \in Fence : q[g].state = "pending" => p[g].state = "pending"
      BY <1>0, <2>2 DEF ApprovalRows
    <3> QED
      BY <3>1, <3>2
  <2>3. ASSUME NEW f \in Fence, ApprovalTooLate(j, f)
        PROVE  \E n \in ApprovalRow :
                  /\ p[f].state = "pending"
                  /\ approvals' = [approvals EXCEPT ![j] = [@ EXCEPT ![f] = n]]
    <3> DEFINE n == [p[f] EXCEPT !.state = IF p[f].due THEN "expired"
                                           ELSE "cancelled"]
    <3>1. p[f].state = "pending" /\ n \in ApprovalRow
      BY <1>0, <2>3 DEF ApprovalTooLate, ApprovalRow
    <3>2. approvals' = [approvals EXCEPT ![j] = [@ EXCEPT ![f] = n]]
      BY <2>3 DEF ApprovalTooLate, RowsInv, ApprovalRows
    <3> QED
      BY <3>1, <3>2
  <2>4. ASSUME NEW f \in Fence, ApprovalDeadlinePasses(j, f)
        PROVE  \E n \in ApprovalRow :
                  /\ p[f].state = "pending"
                  /\ approvals' = [approvals EXCEPT ![j] = [@ EXCEPT ![f] = n]]
    <3> DEFINE n == [p[f] EXCEPT !.due = TRUE]
    <3>1. p[f].state = "pending" /\ n \in ApprovalRow
      BY <1>0, <2>4 DEF ApprovalDeadlinePasses, ApprovalRow
    <3>2. approvals' = [approvals EXCEPT ![j] = [@ EXCEPT ![f] = n]]
      BY <2>4 DEF ApprovalDeadlinePasses, RowsInv, ApprovalRows
    <3> QED
      BY <3>1, <3>2
  <2> QED
    BY <2>1, <2>2, <2>3, <2>4
<1>2. jobs' = jobs /\ attempts' = attempts
  BY DEF ApprovalGet, ApprovalTooLate, ApprovalDeadlinePasses
<1>3. RowsOK(jobs[j], attempts[j], q)
  BY <1>1, RowsTypes, CloseApprovals
<1> QED
  BY <1>1, <1>2, <1>3, RowsTypes, RowsAt

\* The running worker asks for an approval.
LEMMA RequestRows ==
    ASSUME RowsInv, NEW j \in Job, NEW f \in Fence, NEW w \in Worker,
           ApprovalRequest(w, j, f)
    PROVE  RowsInv'
<1> DEFINE r == jobs[j]
           n == [NoApproval EXCEPT !.state = "pending"]
           q == [approvals[j] EXCEPT ![f] = n]
           c == [r EXCEPT !.state = "awaiting-approval"]
<1>1. /\ jobs' = [jobs EXCEPT ![j] = c] /\ attempts' = attempts
      /\ approvals' = [approvals EXCEPT ![j] = q]
      /\ IsActive(j, f) /\ r.state = "running"
  BY DEF ApprovalRequest, RowsInv
<1>2. n \in ApprovalRow
  BY DEF NoApproval, ApprovalRow
<1> HIDE DEF n
<1>3. /\ q \in ApprovalRows
      /\ \A g \in Fence : g # f => q[g] = approvals[j][g]
  BY <1>2, RowsTypes DEF ApprovalRows
<1>4. /\ c \in JobRow /\ c.state = "awaiting-approval"
      /\ c.nextFence = r.nextFence /\ c.retried = r.retried
      /\ c.safe = r.safe /\ c.active = r.active
  BY RowsTypes DEF JobRow, JobState
<1> HIDE DEF q, c
<1>5. f = r.nextFence - 1
  BY <1>1, RowsTypes DEF RowsOK, OwnerOK, IsActive
<1>6. PendingOK(c, q)
  BY <1>1, <1>3, <1>4, <1>5, RowsTypes DEF RowsOK, PendingOK
<1>7. RowsOK(c, attempts[j], q)
  BY <1>1, <1>3, <1>4, <1>6, RowsTypes, MoveJob
<1> QED
  BY <1>1, <1>3, <1>4, <1>7, RowsTypes, RowsAt

\* A decision closes every request of the job.
LEMMA DecidedRows ==
    ASSUME RowsInv, NEW j \in Job, NEW f \in Fence,
           NEW decision \in {"approved", "denied"}
    PROVE  /\ Decided(j, f, decision) \in ApprovalRows
           /\ \A g \in Fence : Decided(j, f, decision)[g].state # "pending"
<1> SUFFICES ASSUME NEW g \in Fence
             PROVE  /\ Decided(j, f, decision)[g] \in ApprovalRow
                    /\ Decided(j, f, decision)[g].state # "pending"
  BY DEF Decided, ApprovalRows
<1>0. approvals[j][g] \in ApprovalRow
  BY RowsTypes DEF ApprovalRows
<1>1. CASE g = f
  BY <1>0, <1>1 DEF Decided, ApprovalRow
<1>2. CASE g # f
  BY <1>0, <1>2, ClosedApproval DEF Decided
<1> QED
  BY <1>1, <1>2

\* approval.approve lets the job run on.
LEMMA ApproveRows ==
    ASSUME RowsInv, NEW j \in Job, NEW f \in Fence, ApprovalApprove(j, f)
    PROVE  RowsInv'
<1> DEFINE r == jobs[j]
           q == Decided(j, f, "approved")
           c == [r EXCEPT !.state = "running"]
<1>1. /\ jobs' = [jobs EXCEPT ![j] = c] /\ attempts' = attempts
      /\ approvals' = [approvals EXCEPT ![j] = q]
      /\ r.state = "awaiting-approval"
  BY DEF ApprovalApprove
<1>2. q \in ApprovalRows /\ \A g \in Fence : q[g].state # "pending"
  BY DecidedRows
<1>3. /\ c \in JobRow /\ c.state = "running"
      /\ c.nextFence = r.nextFence /\ c.retried = r.retried
      /\ c.safe = r.safe /\ c.active = r.active
  BY RowsTypes DEF JobRow, JobState
<1> HIDE DEF q, c
<1>4. RowsOK(c, attempts[j], q)
  <2>1. PendingOK(c, q)
    BY <1>2 DEF PendingOK
  <2> QED
    BY <1>1, <1>2, <1>3, <2>1, RowsTypes, MoveJob
<1> QED
  BY <1>1, <1>2, <1>3, <1>4, RowsTypes, RowsAt

\* approval.deny fails the job and the attempt that asked.
LEMMA DenyRows ==
    ASSUME RowsInv, NEW j \in Job, NEW f \in Fence, ApprovalDeny(j, f)
    PROVE  RowsInv'
<1> DEFINE r == jobs[j]
           q == Decided(j, f, "denied")
           c == [r EXCEPT !.state = "failed", !.active = 0]
<1>1. /\ jobs' = [jobs EXCEPT ![j] = c]
      /\ approvals' = [approvals EXCEPT ![j] = q]
      /\ r.state = "awaiting-approval"
  BY DEF ApprovalDeny, RowsInv
<1>2. q \in ApprovalRows /\ \A g \in Fence : q[g].state # "pending"
  BY DecidedRows
<1>3. /\ c \in JobRow /\ c.state = "failed"
      /\ c.nextFence = r.nextFence /\ c.retried = r.retried
      /\ c.safe = r.safe
  <2>1. "failed" \in JobState \cup {"none"} /\ 0 \in 0 .. MaxFence
    BY JobAssumption DEF JobState
  <2> QED
    BY <2>1, RowsTypes DEF JobRow
<1> HIDE DEF q, c
<1>4. CASE ~IsActive(j, f)
  <2>1. attempts' = attempts
    BY <1>4 DEF ApprovalDeny
  <2>2. RowsOK(c, attempts[j], q)
    <3>1. PendingOK(c, q)
      BY <1>2 DEF PendingOK
    <3> QED
      BY <1>1, <1>2, <1>3, <3>1, RowsTypes, MoveJob
  <2> QED
    BY <1>1, <1>2, <1>3, <2>1, <2>2, RowsTypes, RowsAt
<1>5. CASE IsActive(j, f)
  <2> DEFINE n == [attempts[j][f] EXCEPT !.state = "failed"]
             b == [attempts[j] EXCEPT ![f] = n]
  <2>1. attempts' = [attempts EXCEPT ![j] = b]
    BY <1>5 DEF ApprovalDeny, RowsInv
  <2>2. n \in AttemptRow /\ n.state = "failed"
    BY RowsTypes DEF AttemptRows, AttemptRow, AttemptState
  <2> HIDE DEF n
  <2>3. /\ b \in AttemptRows /\ b[f].state = "failed"
        /\ \A g \in Fence : g # f => b[g] = attempts[j][g]
    BY <2>2, RowsTypes DEF AttemptRows
  <2> HIDE DEF b
  <2>4. RowsOK(c, b, q)
    BY <1>1, <1>2, <1>3, <1>5, <2>3, RowsTypes, SettleRows DEF IsActive
  <2> QED
    BY <1>1, <1>2, <1>3, <2>1, <2>3, <2>4, RowsTypes, RowsAt
<1> QED
  BY <1>4, <1>5

---------------------------------------------------------------------------
(* The inductive invariant *)

\* Init establishes the inductive invariant.
LEMMA InitJobInv == Init => JobInv
<1> SUFFICES ASSUME Init PROVE JobInv
  OBVIOUS
<1>1. NoRow \in WorkerRow /\ NoRow.incarnation = 0 /\ 0 \in Incarnation
  BY JobAssumption DEF NoRow, WorkerRow, Incarnation
<1>2. WorkersInv
  BY <1>1 DEF Init, WorkersInv, IncarnationsOK
<1>3. NoJob \in JobRow /\ NoJob.nextFence = 1 /\ ~NoJob.retried
      /\ NoJob.state = "none"
  <2>1. /\ 1 \in 1 .. MaxFence + 1 /\ 0 \in 0 .. MaxFence
        /\ "none" \in JobState \cup {"none"}
    BY JobAssumption
  <2> QED
    BY <2>1 DEF NoJob, JobRow
<1>4. /\ NoAttempt \in AttemptRow /\ NoAttempt.state = "none"
      /\ NoApproval \in ApprovalRow /\ NoApproval.state = "none"
  BY <1>1 DEF NoAttempt, AttemptRow, NoApproval, ApprovalRow
<1> DEFINE a == [f \in Fence |-> NoAttempt]
           p == [f \in Fence |-> NoApproval]
<1>5. /\ a \in AttemptRows /\ \A f \in Fence : a[f] = NoAttempt
      /\ p \in ApprovalRows /\ \A f \in Fence : p[f] = NoApproval
  BY <1>4 DEF AttemptRows, ApprovalRows
<1>6. /\ jobs \in [Job -> JobRow] /\ attempts \in [Job -> AttemptRows]
      /\ approvals \in [Job -> ApprovalRows]
      /\ \A j \in Job : jobs[j] = NoJob /\ attempts[j] = a /\ approvals[j] = p
  BY <1>3, <1>5 DEF Init
<1> HIDE DEF a, p
<1>7. RowsOK(NoJob, a, p)
  <2>1. \A f \in Fence : f \in Int /\ f >= 1
    BY DEF Fence
  <2>2. OwnerOK(NoJob, a)
    BY <1>4, <1>5 DEF OwnerOK, ActiveAttemptState
  <2>3. FenceOK(NoJob, a)
    BY <1>3, <1>5, <2>1 DEF FenceOK
  <2>4. CompletionOK(NoJob, a)
    BY <1>3, <1>4, <1>5 DEF CompletionOK
  <2>5. PendingOK(NoJob, p)
    BY <1>4, <1>5 DEF PendingOK
  <2> QED
    BY <2>2, <2>3, <2>4, <2>5 DEF RowsOK
<1> QED
  BY <1>2, <1>6, <1>7 DEF JobInv, RowsInv

\* Every operation, and every stutter, preserves it.
LEMMA NextJobInv == JobInv /\ [Next]_vars => JobInv'
<1> SUFFICES ASSUME JobInv, [Next]_vars PROVE JobInv'
  OBVIOUS
<1>0. WorkersInv /\ RowsInv
  BY DEF JobInv
<1>1. ASSUME NEW w \in Worker, WorkerStep(w)
      PROVE  JobInv'
  <2>1. jobs' = jobs /\ attempts' = attempts /\ approvals' = approvals
    BY <1>1 DEF WorkerStep, DevicePolicyPublish, WorkerConnect,
                WorkerCapabilitiesPublish, WorkerReplicaPublish,
                RevokeEnrollment, WorkerLeaseLapses
  <2>2. RowsInv'
    BY <1>0, <2>1, RowsAll DEF RowsInv
  <2> QED
    BY <1>0, <1>1, <2>2, WorkersStep DEF JobInv
<1>2. ASSUME NEW w \in Worker, NEW j \in Job, NEW f \in Fence,
             AttemptStep(w, j, f)
      PROVE  JobInv'
  <2>1. WorkersInv'
    <3>1. /\ minted' = minted /\ expelled' = expelled
          /\ workers' = workers \/ workers' = [workers EXCEPT ![w].live = TRUE]
      BY <1>2 DEF AttemptStep, AttemptReport, LateReport, ApprovalRequest
    <3> QED
      BY <1>0, <3>1, WorkersOtherStep
  <2>2. RowsInv'
    BY <1>0, <1>2, AttemptReportRows, AttemptOnlyRows, RequestRows
       DEF AttemptStep
  <2> QED
    BY <2>1, <2>2 DEF JobInv
<1>3. ASSUME NEW j \in Job, JobStep(j)
      PROVE  JobInv'
  <2>1. WorkersInv'
    <3>1. minted' = minted /\ expelled' = expelled /\ workers' = workers
      BY <1>3 DEF JobStep, JobCreate, JobClaim, JobCancel, JobGet, ApprovalGet,
                  QueueDeadlinePasses
    <3> QED
      BY <1>0, <3>1, WorkersOtherStep
  <2>2. RowsInv'
    BY <1>0, <1>3, JobCreateRows, JobClaimRows, JobCancelRows, ReadRows,
       ApprovalOnlyRows, DeadlineRows DEF JobStep
  <2> QED
    BY <2>1, <2>2 DEF JobInv
<1>4. ASSUME NEW j \in Job, NEW f \in Fence, ApprovalStep(j, f)
      PROVE  JobInv'
  <2>1. WorkersInv'
    <3>1. minted' = minted /\ expelled' = expelled /\ workers' = workers
      BY <1>4 DEF ApprovalStep, ApprovalTooLate, ApprovalApprove, ApprovalDeny,
                  AttemptLeaseExpires, AttemptLeaseLapses,
                  ApprovalDeadlinePasses
    <3> QED
      BY <1>0, <3>1, WorkersOtherStep
  <2>2. RowsInv'
    BY <1>0, <1>4, ApprovalOnlyRows, ApproveRows, DenyRows, AttemptOnlyRows
       DEF ApprovalStep
  <2> QED
    BY <2>1, <2>2 DEF JobInv
<1>5. CASE JobList
  <2>1. WorkersInv'
    BY <1>0, <1>5, WorkersOtherStep DEF JobList
  <2> QED
    BY <1>0, <1>5, <2>1, ReadRows DEF JobInv
<1>6. ASSUME NEW purged \in SUBSET Worker, Sweep(purged)
      PROVE  JobInv'
  <2>1. WorkersInv'
    BY <1>0, <1>6, WorkersOtherStep DEF Sweep
  <2> QED
    BY <1>0, <1>6, <2>1, SweepRows DEF JobInv
<1>7. CASE UNCHANGED vars
  <2>1. WorkersInv'
    BY <1>0, <1>7, WorkersOtherStep DEF vars
  <2>2. RowsInv'
    BY <1>0, <1>7, RowsAll DEF vars, RowsInv
  <2> QED
    BY <2>1, <2>2 DEF JobInv
<1> QED
  BY <1>1, <1>2, <1>3, <1>4, <1>5, <1>6, <1>7 DEF Next

\* The inductive invariant holds in every reachable state.
THEOREM JobInvariant == Spec => []JobInv
  BY InitJobInv, NextJobInv, PTL DEF Spec

\* Every table keeps its types, however many workers and jobs there are.
THEOREM JobTypes == Spec => []JobTypeOK
<1>1. JobInv => JobTypeOK
  BY DEF JobInv, WorkersInv, RowsInv, JobTypeOK, AttemptRows, ApprovalRows
<1> QED
  BY <1>1, JobInvariant, PTL

\* At most one attempt of a job is active, it is the newest, and the job knows
\* it: no two workers own one job (handleJobClaim, handleAttemptReport).
THEOREM OneOwner == Spec => []SingleOwner
<1>1. JobInv => SingleOwner
  BY DEF JobInv, RowsInv, RowsOK, OwnerOK, SingleOwner, IsActive, Newest
<1> QED
  BY <1>1, JobInvariant, PTL

\* A job is given out once, or twice under a safe retry policy.
THEOREM ExecutionsBounded == Spec => []BoundedExecutions
<1>1. JobInv => BoundedExecutions
  <2> SUFFICES ASSUME JobInv, NEW j \in Job
               PROVE  /\ jobs[j].nextFence <= IF jobs[j].safe THEN 3 ELSE 2
                      /\ \A f \in Fence :
                            /\ f >= jobs[j].nextFence =>
                                  attempts[j][f] = NoAttempt
                            /\ f < Newest(j) => attempts[j][f].state = "failed"
    BY DEF BoundedExecutions
  <2>1. FenceOK(jobs[j], attempts[j]) /\ jobs[j].nextFence \in Int
    BY JobAssumption DEF JobInv, RowsInv, RowsOK, JobRow
  <2>2. \A f \in Fence : /\ f >= jobs[j].nextFence => attempts[j][f] = NoAttempt
                         /\ f < Newest(j) => attempts[j][f].state = "failed"
    BY <2>1 DEF FenceOK, Newest
  <2>3. jobs[j].nextFence <= IF jobs[j].safe THEN 3 ELSE 2
    <3>1. /\ jobs[j].nextFence <= IF jobs[j].retried THEN 3 ELSE 2
          /\ jobs[j].retried => jobs[j].safe
      BY <2>1 DEF FenceOK
    <3> QED
      BY <2>1, <3>1
  <2> QED
    BY <2>2, <2>3
<1> QED
  BY <1>1, JobInvariant, PTL

\* A job is completed exactly when its newest attempt is.
THEOREM CompletionsAgree == Spec => []CompletionAgrees
<1>1. JobInv => CompletionAgrees
  BY DEF JobInv, RowsInv, RowsOK, CompletionOK, CompletionAgrees, Newest
<1> QED
  BY <1>1, JobInvariant, PTL

\* An open approval request belongs to the newest attempt of a job that waits
\* for it or has failed.
THEOREM PendingIsOpen == Spec => []PendingApprovalIsOpen
<1>1. JobInv => PendingApprovalIsOpen
  BY DEF JobInv, RowsInv, RowsOK, PendingOK, PendingApprovalIsOpen, Newest
<1> QED
  BY <1>1, JobInvariant, PTL

\* What a worker had claimed before its revocation it never completes: its
\* record is revoked, or forgotten, or carries a younger incarnation.
THEOREM RevokedStaysOut == Spec => RevokedNeverCompletes
<1>1. ASSUME JobInv, [Next]_vars, NEW j \in Job, NEW f \in Fence,
             IsActive(j, f),
             attempts[j][f].incarnation <= expelled[attempts[j][f].worker],
             attempts'[j][f].state = "completed"
      PROVE  FALSE
  <2>0. /\ WorkersInv /\ RowsInv
        /\ attempts[j][f].state \in ActiveAttemptState
        /\ attempts[j][f].state # "completed"
    BY <1>1 DEF JobInv, IsActive, ActiveAttemptState
  <2>1. ~(UNCHANGED attempts)
    BY <1>1, <2>0
  <2>2. ASSUME NEW w \in Worker, NEW outcome \in {"completed", "failed"},
               AttemptReport(w, j, f, outcome)
        PROVE  FALSE
    <3>1. /\ attempts[j][f].worker = w /\ workers[w].incarnation # 0
          /\ workers[w].incarnation = attempts[j][f].incarnation
          /\ ~workers[w].revoked
      BY <2>2 DEF AttemptReport, Current, Authorized
    <3>2. /\ expelled[w] < workers[w].incarnation
          /\ expelled[w] \in Int /\ workers[w].incarnation \in Int
      BY <2>0, <3>1, WorkerFields, JobAssumption DEF Incarnation
    <3>3. workers[w].incarnation <= expelled[w]
      BY <1>1, <3>1
    <3> QED
      BY <3>2, <3>3
  <2>3. ASSUME NEW w \in Worker, NEW i \in Job, NEW g \in Fence,
               AttemptStep(w, i, g)
        PROVE  FALSE
    <3>1. ASSUME NEW outcome \in {"completed", "failed"},
                 AttemptReport(w, i, g, outcome)
          PROVE  FALSE
      <4>1. attempts' = [attempts EXCEPT ![i][g] = AttemptAfter(i, outcome, @)]
        BY <3>1 DEF AttemptReport
      <4>2. ~(i = j /\ g = f)
        BY <3>1, <2>2
      <4>3. attempts'[j][f] = attempts[j][f]
        BY <4>1, <4>2, <2>0 DEF RowsInv, AttemptRows
      <4> QED
        BY <4>3, <2>0, <1>1
    <3>2. ASSUME NEW genuine \in BOOLEAN, LateReport(w, i, g, genuine)
          PROVE  FALSE
      <4>1. attempts'[j][f].state = attempts[j][f].state
        BY <3>2, <2>0 DEF LateReport, RowsInv, AttemptRows, AttemptRow
      <4> QED
        BY <4>1, <2>0, <1>1
    <3>3. CASE ApprovalRequest(w, i, g)
      BY <3>3, <2>1 DEF ApprovalRequest
    <3> QED
      BY <2>3, <3>1, <3>2, <3>3 DEF AttemptStep
  <2>4. ASSUME NEW i \in Job, JobStep(i)
        PROVE  FALSE
    <3>1. ASSUME NEW w \in Worker, JobClaim(w, i)
          PROVE  FALSE
      <4> DEFINE n == [NoAttempt EXCEPT !.state = "claimed", !.worker = w,
                           !.incarnation = workers[w].incarnation]
      <4>1. attempts' = [attempts EXCEPT ![i][jobs[i].nextFence] = n]
        BY <3>1 DEF JobClaim
      <4>2. n.state = "claimed"
        BY DEF NoAttempt
      <4> HIDE DEF n
      <4>3. attempts'[j][f] = attempts[j][f] \/ attempts'[j][f] = n
        BY <4>1, <2>0 DEF RowsInv, AttemptRows
      <4> QED
        BY <4>2, <4>3, <2>0, <1>1
    <3>2. CASE JobCancel(i)
      <4>1. attempts' = [attempts EXCEPT ![i] =
                           [g \in Fence |-> StoppedAttempt(i, g)]]
        BY <3>2 DEF JobCancel
      <4>2. \/ attempts'[j][f] = attempts[j][f]
            \/ attempts'[j][f] = [attempts[j][f] EXCEPT !.state = "stopping"]
        BY <4>1, <2>0 DEF StoppedAttempt, RowsInv, AttemptRows
      <4>3. attempts[j][f] \in AttemptRow
        BY <2>0 DEF RowsInv, AttemptRows
      <4> QED
        BY <4>2, <4>3, <2>0, <1>1 DEF AttemptRow
    <3> QED
      BY <2>1, <2>4, <3>1, <3>2 DEF JobStep, JobCreate, JobGet, ApprovalGet,
                                    QueueDeadlinePasses
  <2>5. ASSUME NEW i \in Job, NEW g \in Fence, ApprovalStep(i, g)
        PROVE  FALSE
    <3>0. attempts[j][f] \in AttemptRow
      BY <2>0 DEF RowsInv, AttemptRows
    <3>1. CASE ApprovalDeny(i, g)
      <4>1. \/ attempts'[j][f] = attempts[j][f]
            \/ attempts'[j][f] = [attempts[j][f] EXCEPT !.state = "failed"]
        BY <3>1, <2>0 DEF ApprovalDeny, RowsInv, AttemptRows
      <4> QED
        BY <4>1, <3>0, <2>0, <1>1 DEF AttemptRow
    <3>2. CASE AttemptLeaseExpires(i, g) \/ AttemptLeaseLapses(i, g)
      <4>1. PICK l \in {"expired", "lapsed"} :
                attempts' = [attempts EXCEPT ![i][g].lease = l]
        BY <3>2 DEF AttemptLeaseExpires, AttemptLeaseLapses
      <4>2. \/ attempts'[j][f] = attempts[j][f]
            \/ attempts'[j][f] = [attempts[j][f] EXCEPT !.lease = l]
        BY <4>1, <2>0 DEF RowsInv, AttemptRows
      <4>3. attempts'[j][f].state = attempts[j][f].state
        BY <4>2, <3>0 DEF AttemptRow
      <4> QED
        BY <4>3, <2>0, <1>1
    <3> QED
      BY <2>1, <2>5, <3>1, <3>2 DEF ApprovalStep, ApprovalTooLate,
                                    ApprovalApprove, ApprovalDeadlinePasses
  <2>6. ASSUME NEW purged \in SUBSET Worker, Sweep(purged)
        PROVE  FALSE
    <3>1. attempts'[j][f] = AgedAttempt(attempts[j][f])
      BY <2>6 DEF Sweep
    <3>2. attempts[j][f] \in AttemptRow
      BY <2>0 DEF RowsInv, AttemptRows
    <3> QED
      BY <3>1, <3>2, <2>0, <1>1, AgedRow
  <2>7. ASSUME NEW w \in Worker, WorkerStep(w)
        PROVE  FALSE
    BY <2>1, <2>7 DEF WorkerStep, DevicePolicyPublish, WorkerConnect,
                WorkerCapabilitiesPublish, WorkerReplicaPublish,
                RevokeEnrollment, WorkerLeaseLapses
  <2> QED
    BY <1>1, <2>1, <2>3, <2>4, <2>5, <2>6, <2>7 DEF Next, JobList, vars
<1>2. JobInv /\ [Next]_vars =>
        [\A j \in Job, f \in Fence :
            (/\ IsActive(j, f)
             /\ attempts[j][f].incarnation <= expelled[attempts[j][f].worker])
            => attempts'[j][f].state # "completed"]_vars
  BY <1>1
<1> QED
  BY <1>2, JobInvariant, PTL DEF Spec, RevokedNeverCompletes

---------------------------------------------------------------------------
(* How much work a worker has *)

\* An attempt is active afterwards only if it was, for the same worker.
NoNewWork ==
    \A j \in Job, f \in Fence :
        attempts'[j][f].state \in ActiveAttemptState =>
            /\ attempts[j][f].state \in ActiveAttemptState
            /\ attempts'[j][f].worker = attempts[j][f].worker

\* Nothing but a claim gives out work: reports, late reports, cancellations,
\* denials, expiring leases and the sweep never make an attempt active.
LEMMA OnlyClaimsGiveWork ==
    ASSUME RowsInv, [Next]_vars, \A w \in Worker, j \in Job : ~JobClaim(w, j)
    PROVE  NoNewWork
<1>0. \A j \in Job, f \in Fence : attempts[j][f] \in AttemptRow
  BY DEF RowsInv, AttemptRows
<1>1. CASE UNCHANGED attempts
  BY <1>1 DEF NoNewWork
<1>2. ASSUME NEW i \in Job, NEW g \in Fence, NEW row, row.worker = attempts[i][g].worker,
             row.state \in ActiveAttemptState => attempts[i][g].state \in ActiveAttemptState,
             attempts' = [attempts EXCEPT ![i][g] = row]
      PROVE  NoNewWork
  <2> SUFFICES ASSUME NEW j \in Job, NEW f \in Fence,
                      attempts'[j][f].state \in ActiveAttemptState
               PROVE  /\ attempts[j][f].state \in ActiveAttemptState
                      /\ attempts'[j][f].worker = attempts[j][f].worker
    BY DEF NoNewWork
  <2>1. attempts'[j][f] = IF j = i /\ f = g THEN row ELSE attempts[j][f]
    BY <1>2 DEF RowsInv, AttemptRows
  <2> QED
    BY <1>2, <2>1
<1>3. ASSUME NEW w \in Worker, NEW i \in Job, NEW g \in Fence,
             NEW outcome \in {"completed", "failed"}, AttemptReport(w, i, g, outcome)
      PROVE  NoNewWork
  <2> DEFINE row == AttemptAfter(i, outcome, attempts[i][g])
  <2>1. attempts' = [attempts EXCEPT ![i][g] = row] /\ IsActive(i, g)
    BY <1>3 DEF AttemptReport
  <2>2. row.worker = attempts[i][g].worker
    BY <1>0 DEF AttemptAfter, AttemptRow
  <2> QED
    BY <1>2, <2>1, <2>2 DEF IsActive
<1>4. ASSUME NEW w \in Worker, NEW i \in Job, NEW g \in Fence, NEW genuine \in BOOLEAN,
             LateReport(w, i, g, genuine)
      PROVE  NoNewWork
  <2> DEFINE row == [attempts[i][g] EXCEPT !.late = TRUE]
  <2>1. attempts' = [attempts EXCEPT ![i][g] = row]
    BY <1>4 DEF LateReport
  <2>2. row.worker = attempts[i][g].worker /\ row.state = attempts[i][g].state
    BY <1>0 DEF AttemptRow
  <2> QED
    BY <1>2, <2>1, <2>2
<1>5. ASSUME NEW i \in Job, JobCancel(i) PROVE NoNewWork
  <2> SUFFICES ASSUME NEW j \in Job, NEW f \in Fence,
                      attempts'[j][f].state \in ActiveAttemptState
               PROVE  /\ attempts[j][f].state \in ActiveAttemptState
                      /\ attempts'[j][f].worker = attempts[j][f].worker
    BY DEF NoNewWork
  <2>1. attempts' = [attempts EXCEPT ![i] = [g \in Fence |-> StoppedAttempt(i, g)]]
    BY <1>5 DEF JobCancel
  <2>2. \/ attempts'[j][f] = attempts[j][f]
        \/ /\ attempts'[j][f] = [attempts[j][f] EXCEPT !.state = "stopping"]
           /\ attempts[j][f].state \in ActiveAttemptState
    BY <2>1 DEF StoppedAttempt, IsActive, RowsInv, AttemptRows
  <2> QED
    BY <1>0, <2>2 DEF AttemptRow
<1>6. ASSUME NEW i \in Job, NEW g \in Fence, ApprovalDeny(i, g), attempts' # attempts
      PROVE  NoNewWork
  <2> DEFINE row == [attempts[i][g] EXCEPT !.state = "failed"]
  <2>1. attempts' = [attempts EXCEPT ![i][g] = row]
    BY <1>6 DEF ApprovalDeny
  <2>2. row.worker = attempts[i][g].worker /\ row.state = "failed"
    BY <1>0 DEF AttemptRow
  <2> QED
    BY <1>2, <2>1, <2>2 DEF ActiveAttemptState
<1>7. ASSUME NEW i \in Job, NEW g \in Fence,
             AttemptLeaseExpires(i, g) \/ AttemptLeaseLapses(i, g)
      PROVE  NoNewWork
  <2>1. PICK l \in {"expired", "lapsed"} :
            attempts' = [attempts EXCEPT ![i][g].lease = l]
    BY <1>7 DEF AttemptLeaseExpires, AttemptLeaseLapses
  <2> DEFINE row == [attempts[i][g] EXCEPT !.lease = l]
  <2>2. attempts' = [attempts EXCEPT ![i][g] = row]
    BY <2>1
  <2>3. row.worker = attempts[i][g].worker /\ row.state = attempts[i][g].state
    BY <1>0 DEF AttemptRow
  <2> QED
    BY <1>2, <2>2, <2>3
<1>8. ASSUME NEW purged \in SUBSET Worker, Sweep(purged) PROVE NoNewWork
  <2> SUFFICES ASSUME NEW j \in Job, NEW f \in Fence,
                      attempts'[j][f].state \in ActiveAttemptState
               PROVE  /\ attempts[j][f].state \in ActiveAttemptState
                      /\ attempts'[j][f].worker = attempts[j][f].worker
    BY DEF NoNewWork
  <2>1. attempts'[j][f] = AgedAttempt(attempts[j][f])
    BY <1>8 DEF Sweep
  <2>2. attempts'[j][f] = attempts[j][f]
    BY <1>0, <2>1, AgedRow DEF ActiveAttemptState
  <2> QED
    BY <2>2
<1>9. ASSUME NEW w \in Worker, NEW i \in Job, NEW g \in Fence, AttemptStep(w, i, g)
      PROVE  NoNewWork
  BY <1>1, <1>3, <1>4, <1>9 DEF AttemptStep, ApprovalRequest
<1>10. ASSUME NEW i \in Job, JobStep(i) PROVE NoNewWork
  BY <1>1, <1>5, <1>10 DEF JobStep, JobCreate, JobGet, ApprovalGet, QueueDeadlinePasses
<1>11. ASSUME NEW i \in Job, NEW g \in Fence, ApprovalStep(i, g) PROVE NoNewWork
  BY <1>1, <1>6, <1>7, <1>11 DEF ApprovalStep, ApprovalTooLate, ApprovalApprove,
     ApprovalDeadlinePasses
<1>12. ASSUME NEW w \in Worker, WorkerStep(w) PROVE NoNewWork
  BY <1>1, <1>12 DEF WorkerStep, DevicePolicyPublish, WorkerConnect,
     WorkerCapabilitiesPublish, WorkerReplicaPublish, RevokeEnrollment, WorkerLeaseLapses
<1> QED
  BY <1>1, <1>8, <1>9, <1>10, <1>11, <1>12 DEF Next, JobList, vars

\* The attempts a worker is busy with are finitely many.
LEMMA FiniteWork ==
    ASSUME NEW w PROVE IsFiniteSet(ActiveAttempts(w))
<1>0. IsFiniteSet(Fence)
  BY FS_Interval, JobAssumption DEF Fence
<1>1. IsFiniteSet(Job \X Fence)
  BY <1>0, FS_Product, JobAssumption
<1>2. ActiveAttempts(w) \in SUBSET (Job \X Fence)
  BY DEF ActiveAttempts
<1> QED
  BY <1>1, <1>2, FS_Subset

WorkBounded == \A w \in Worker : Load(w) <= MaxCapacity

\* A claim is refused at the worker's own limit, which is at most
\* MAX_CONCURRENT_JOBS; everything else only ends attempts.
LEMMA WorkStaysBounded == JobInv /\ WorkBounded /\ [Next]_vars => WorkBounded'
<1> SUFFICES ASSUME JobInv, WorkBounded, [Next]_vars, NEW v \in Worker
             PROVE  Cardinality(ActiveAttempts(v)') <= MaxCapacity
  BY DEF WorkBounded, Load
<1> DEFINE old == ActiveAttempts(v)
           new == {p \in Job \X Fence : /\ attempts'[p[1]][p[2]].worker = v
                                        /\ attempts'[p[1]][p[2]].state \in ActiveAttemptState}
<1>0. /\ WorkersInv /\ RowsInv /\ IsFiniteSet(old) /\ Cardinality(old) = Load(v)
      /\ Load(v) \in Nat /\ Load(v) <= MaxCapacity /\ MaxCapacity \in Nat
      /\ ActiveAttempts(v)' = new
  BY FiniteWork, LoadType, JobAssumption
     DEF JobInv, Load, WorkBounded, ActiveAttempts, IsActive
<1>1. old = {p \in Job \X Fence : /\ attempts[p[1]][p[2]].worker = v
                                  /\ attempts[p[1]][p[2]].state \in ActiveAttemptState}
  BY DEF ActiveAttempts, IsActive
<1>2. CASE \A w \in Worker, j \in Job : ~JobClaim(w, j)
  <2>1. NoNewWork
    BY <1>0, <1>2, OnlyClaimsGiveWork
  <2>2. new \subseteq old
    BY <1>1, <2>1 DEF NoNewWork
  <2> HIDE DEF old, new
  <2>3. Cardinality(new) <= Cardinality(old) /\ Cardinality(new) \in Nat
    BY <1>0, <2>2, FS_Subset, FS_CardinalityType
  <2> QED
    BY <1>0, <2>3
<1>3. ASSUME NEW w \in Worker, NEW j \in Job, JobClaim(w, j)
      PROVE  Cardinality(new) <= MaxCapacity
  <2> DEFINE f == jobs[j].nextFence
             row == [NoAttempt EXCEPT !.state = "claimed", !.worker = w,
                                      !.incarnation = workers[w].incarnation]
  <2>1. /\ attempts' = [attempts EXCEPT ![j][f] = row] /\ f \in Fence
        /\ Load(w) < workers[w].capacity
    BY <1>3 DEF JobClaim, Claimable
  <2>2. row.worker = w
    BY DEF NoAttempt
  <2>3. workers[w].capacity \in 1 .. MaxCapacity
    BY <1>0 DEF WorkersInv, WorkerRow
  <2> HIDE DEF row, f
  <2>4. \A i \in Job, g \in Fence :
            attempts'[i][g] = IF i = j /\ g = f THEN row ELSE attempts[i][g]
    BY <1>0, <2>1 DEF RowsInv, AttemptRows
  <2>5. CASE v = w
    <3>1. new \subseteq old \cup {<<j, f>>}
      BY <1>1, <2>4
    <3>2. /\ IsFiniteSet(old \cup {<<j, f>>})
          /\ Cardinality(old \cup {<<j, f>>}) <= Cardinality(old) + 1
          /\ Cardinality(old \cup {<<j, f>>}) \in Nat
      <4> HIDE DEF old
      <4>1. /\ IsFiniteSet(old \cup {<<j, f>>})
            /\ Cardinality(old \cup {<<j, f>>}) =
                  IF <<j, f>> \in old THEN Cardinality(old) ELSE Cardinality(old) + 1
        BY <1>0, FS_AddElement
      <4> QED
        BY <1>0, <4>1
    <3>3. Cardinality(new) <= Cardinality(old \cup {<<j, f>>}) /\ Cardinality(new) \in Nat
      <4> HIDE DEF old, new
      <4> QED
        BY <3>1, <3>2, FS_Subset, FS_CardinalityType
    <3> HIDE DEF old, new
    <3> QED
      BY <1>0, <2>1, <2>3, <2>5, <3>2, <3>3
  <2>6. CASE v # w
    <3>1. new \subseteq old
      BY <1>1, <2>2, <2>4, <2>6
    <3> HIDE DEF old, new
    <3>2. Cardinality(new) <= Cardinality(old) /\ Cardinality(new) \in Nat
      BY <1>0, <3>1, FS_Subset, FS_CardinalityType
    <3> QED
      BY <1>0, <3>2
  <2> QED
    BY <2>5, <2>6
<1> QED
  BY <1>0, <1>2, <1>3

\* No worker ever has more attempts in progress than MAX_CONCURRENT_JOBS, those
\* that are stopping or whose lease has expired included (WithinCapacity).
THEOREM CapacityHolds == Spec => []WithinCapacity
<1>1. Init => WorkBounded
  <2> SUFFICES ASSUME Init, NEW w \in Worker PROVE Load(w) <= MaxCapacity
    BY DEF WorkBounded
  <2>1. ActiveAttempts(w) = {}
    BY DEF Init, ActiveAttempts, IsActive, NoAttempt, ActiveAttemptState
  <2> QED
    BY <2>1, FS_EmptySet, JobAssumption DEF Load
<1>2. WorkBounded => WithinCapacity
  BY DEF WorkBounded, WithinCapacity, Load, ActiveAttempts
<1> QED
  BY <1>1, <1>2, JobInvariant, WorkStaysBounded, PTL DEF Spec
=============================================================================
