--------------------------- MODULE JobCoordinator ---------------------------
(***************************************************************************)
(* Jobs, attempts, workers and approvals of the AccountCoordinator durable *)
(* object (mezair-app/cloud/backend/src/account-coordinator.ts): placement,*)
(* fenced claims, leases and incarnations, outcome reports with one safe   *)
(* retry, cancellation, approval requests and the sweep that ages them.    *)
(*                                                                         *)
(* A handler runs in one transaction and a throw rolls all of it back, so  *)
(* an action is a handler that returns and a refusal is a missing action.  *)
(* Deadlines are the flags overdue, lease, due and live, raised by the     *)
(* passage of time and reset where the code writes a new deadline.  An     *)
(* attempt is named by its job and its fence.                              *)
(***************************************************************************)
EXTENDS Integers, FiniteSets

CONSTANTS
    Worker,          \* enrollment ids of devices that may work
    Job,             \* (source enrollment, request id) pairs that create jobs
    Policies,        \* device policies published in this instance
    Needs,           \* placement requirements of the jobs of this instance
    MaxCapacity,     \* MAX_CONCURRENT_JOBS
    MaxIncarnation,  \* bound: incarnations minted per worker
    MaxFence         \* bound: attempts per job

ASSUME JobAssumption ==
    /\ Worker \subseteq Nat \ {0}
    /\ IsFiniteSet(Job)
    /\ Policies \subseteq {"refuses", "distrusts", "allows"}
    /\ Needs \subseteq {"nothing", "capability", "workspace"}
    /\ MaxCapacity \in Nat \ {0}
    /\ MaxIncarnation \in Nat
    /\ MaxFence \in Nat

VARIABLES
    workers,    \* tables workers and worker_replicas
    minted,     \* incarnations minted so far (they are fresh UUIDs)
    jobs,       \* table jobs
    attempts,   \* table attempts
    approvals,  \* table approvals: the latest request of every attempt
    expelled    \* history variable: the last incarnation a revocation hit

vars == <<workers, minted, jobs, attempts, approvals, expelled>>

---------------------------------------------------------------------------
(* Rows *)

NoWorker == 0
Fence == 1 .. MaxFence
Incarnation == 0 .. MaxIncarnation   \* 0 is SQL NULL

\* policy: "none" is a missing row; "refuses" has allowJobs off, "distrusts"
\* does not list the source of the jobs.  capable is the incarnation the
\* published capabilities are stamped with, 0 when they do not satisfy the
\* requirement; capacity is effectiveConcurrencyCap of policy and capabilities.
WorkerRow == [policy : Policies \cup {"none"}, revoked : BOOLEAN,
              incarnation : Incarnation, live : BOOLEAN,
              capable : Incarnation, capacity : 1 .. MaxCapacity,
              ready : BOOLEAN]
NoRow == [policy |-> "none", revoked |-> FALSE, incarnation |-> 0,
          live |-> FALSE, capable |-> 0, capacity |-> 1, ready |-> FALSE]

JobState == {"queued", "running", "awaiting-approval", "completed", "failed",
             "cancel-requested", "cancelled", "unknown-outcome"}
TerminalJobState == {"completed", "failed", "cancelled", "unknown-outcome"}
\* state "none": no row; active 0: active_attempt_id is NULL.
JobRow == [state : JobState \cup {"none"}, target : Worker \cup {NoWorker},
           safe : BOOLEAN, needs : Needs \cup {"nothing"}, retried : BOOLEAN,
           nextFence : 1 .. MaxFence + 1, active : 0 .. MaxFence,
           overdue : BOOLEAN]
NoJob == [state |-> "none", target |-> NoWorker, safe |-> FALSE,
          needs |-> "nothing", retried |-> FALSE, nextFence |-> 1,
          active |-> 0, overdue |-> FALSE]

ActiveAttemptState == {"claimed", "preparing", "running", "stopping"}
AttemptState == ActiveAttemptState \cup
                {"completed", "failed", "cancelled", "unknown-outcome"}
\* lease: "lapsed" is past its expiry by ATTEMPT_UNKNOWN_GRACE_MS; late: a
\* late_result is stored.
AttemptRow == [state : AttemptState \cup {"none"},
               worker : Worker \cup {NoWorker}, incarnation : Incarnation,
               lease : {"live", "expired", "lapsed"}, late : BOOLEAN]
NoAttempt == [state |-> "none", worker |-> NoWorker, incarnation |-> 0,
              lease |-> "live", late |-> FALSE]

ApprovalRow == [state : {"none", "pending", "approved", "denied", "expired",
                         "cancelled"}, due : BOOLEAN]
NoApproval == [state |-> "none", due |-> FALSE]

Newest(j) == jobs[j].nextFence - 1
IsActive(j, f) == attempts[j][f].state \in ActiveAttemptState
HasActive(j) == \E f \in Fence : IsActive(j, f)

---------------------------------------------------------------------------
(* Transition tables *)

JobTransitions(state) ==
    CASE state = "queued" -> {"running", "awaiting-approval", "failed",
                              "cancel-requested", "cancelled"}
      [] state = "running" -> {"awaiting-approval", "completed", "failed",
                               "cancel-requested", "unknown-outcome", "queued"}
      [] state = "awaiting-approval" -> {"running", "failed", "cancelled",
                                         "cancel-requested", "unknown-outcome"}
      [] state = "cancel-requested" -> {"cancel-requested", "cancelled",
                                        "failed", "unknown-outcome"}
      [] OTHER -> {}

AttemptTransitions(state) ==
    CASE state \in {"claimed", "preparing"} ->
            {IF state = "claimed" THEN "preparing" ELSE "running",
             "stopping", "cancelled", "failed", "unknown-outcome"}
      [] state = "running" -> {"stopping", "completed", "failed",
                               "unknown-outcome"}
      [] state = "stopping" -> {"cancelled", "failed", "unknown-outcome"}
      [] OTHER -> {}

\* attemptTransitionReachable; no path of the table is longer than four hops.
Hop(states) == states \cup UNION {AttemptTransitions(s) : s \in states}
AttemptReachable(from, to) == to \in Hop(Hop(Hop(Hop({from}))))

CanSetJob(j, target) == target \in JobTransitions(jobs[j].state)
CanSetAttempt(j, f, target) == AttemptReachable(attempts[j][f].state, target)

---------------------------------------------------------------------------
(* Workers *)

\* requireWorker
Authorized(w) ==
    /\ workers[w].policy \in {"distrusts", "allows"}
    /\ ~workers[w].revoked
\* isLeaseLive
IsLeaseLive(w) == workers[w].incarnation # 0 /\ workers[w].live
\* capabilitiesSatisfy: a requirement needs capabilities published by the
\* worker's current incarnation.
CapabilitiesSatisfy(w, needs) ==
    needs = "capability" => /\ workers[w].incarnation # 0
                            /\ workers[w].capable = workers[w].incarnation
\* Mutant: an attempt that is stopping no longer counts.
ActiveAttemptsUnstopped(w) ==
    {p \in Job \X Fence : /\ attempts[p[1]][p[2]].worker = w
                          /\ attempts[p[1]][p[2]].state = "claimed"}

\* countActiveAttempts
ActiveAttempts(w) ==
    {p \in Job \X Fence : /\ attempts[p[1]][p[2]].worker = w
                          /\ IsActive(p[1], p[2])}
Load(w) == Cardinality(ActiveAttempts(w))

\* Mutant: a new policy over a revoked record keeps the incarnation.
PublishedOver(row, p, c) == [row EXCEPT !.policy = p, !.capacity = c,
                                        !.revoked = FALSE]

\* The upsert of device.policy.publish: over a revoked record it is a fresh
\* opt-in, without an incarnation.
Published(row, p, c) ==
    [row EXCEPT !.policy = p, !.capacity = c, !.revoked = FALSE,
                !.incarnation = IF row.revoked THEN 0 ELSE @,
                !.live = IF row.revoked THEN FALSE ELSE @]

DevicePolicyPublish(w, p, c) ==
    /\ workers' = [workers EXCEPT ![w] = Published(@, p, c)]
    /\ UNCHANGED <<minted, jobs, attempts, approvals, expelled>>

\* handleWorkerConnect: a live lease keeps its incarnation, else one is minted.
WorkerConnect(w) ==
    /\ Authorized(w)
    /\ ~IsLeaseLive(w)
    /\ minted[w] < MaxIncarnation
    /\ minted' = [minted EXCEPT ![w] = @ + 1]
    /\ workers' = [workers EXCEPT ![w].incarnation = minted[w] + 1,
                                  ![w].live = TRUE]
    /\ UNCHANGED <<jobs, attempts, approvals, expelled>>

WorkerCapabilitiesPublish(w, satisfies, c) ==
    /\ "capability" \in Needs
    /\ Authorized(w)
    /\ IsLeaseLive(w)
    /\ workers' = [workers EXCEPT
                     ![w].capable = IF satisfies THEN workers[w].incarnation
                                                 ELSE 0,
                     ![w].capacity = c]
    /\ UNCHANGED <<minted, jobs, attempts, approvals, expelled>>

WorkerReplicaPublish(w, ready) ==
    /\ "workspace" \in Needs
    /\ Authorized(w)
    /\ IsLeaseLive(w)
    /\ workers' = [workers EXCEPT ![w].ready = ready]
    /\ UNCHANGED <<minted, jobs, attempts, approvals, expelled>>

\* /internal/revoke-enrollment
RevokeEnrollment(w) ==
    /\ workers[w].policy # "none"
    /\ ~workers[w].revoked
    /\ workers' = [workers EXCEPT ![w].revoked = TRUE]
    /\ expelled' = [expelled EXCEPT ![w] = IF workers[w].incarnation = 0 THEN @
                                           ELSE workers[w].incarnation]
    /\ UNCHANGED <<minted, jobs, attempts, approvals>>

---------------------------------------------------------------------------
(* job.create *)

\* The workers resolvePlacement would give an auto job with these needs to.
Eligible(needs) ==
    {w \in Worker :
        /\ workers[w].policy = "allows"
        /\ ~workers[w].revoked
        /\ IsLeaseLive(w)
        /\ CapabilitiesSatisfy(w, needs)
        /\ Load(w) < workers[w].capacity
        /\ (needs = "workspace") => workers[w].ready}

\* Least loaded first, then by enrollment id; NoWorker leaves the job queued.
Placement(needs) ==
    LET Before(v, w) == \/ Load(v) < Load(w)
                        \/ (Load(v) = Load(w) /\ v <= w)
    IN  IF Eligible(needs) = {} THEN NoWorker
        ELSE CHOOSE w \in Eligible(needs) :
                \A v \in Eligible(needs) : Before(w, v)

\* An explicit device target is checked eagerly and never replaced.
DeviceAccepted(w, needs) ==
    /\ workers[w].policy = "allows"
    /\ ~workers[w].revoked
    /\ IsLeaseLive(w)
    /\ CapabilitiesSatisfy(w, needs)

\* device = NoWorker asks for an auto target.  A repeated request finds its row
\* and changes nothing.
JobCreate(j, device, safe, needs) ==
    /\ jobs[j].state = "none"
    /\ device # NoWorker => DeviceAccepted(device, needs)
    /\ jobs' = [jobs EXCEPT ![j] =
                  [NoJob EXCEPT !.state = "queued", !.safe = safe,
                                !.needs = needs,
                                !.target = IF device # NoWorker THEN device
                                           ELSE Placement(needs)]]
    /\ UNCHANGED <<workers, minted, attempts, approvals, expelled>>

---------------------------------------------------------------------------
(* Attempts *)

\* The guards of handleJobClaim on the worker, the job and its target.
Claimable(w, j) ==
    /\ Authorized(w)
    /\ IsLeaseLive(w)
    /\ jobs[j].state = "queued"
    /\ ~jobs[j].overdue
    /\ workers[w].policy = "allows"
    /\ IF jobs[j].target = NoWorker THEN Placement(jobs[j].needs) = w
                                    ELSE jobs[j].target = w
    /\ CapabilitiesSatisfy(w, jobs[j].needs)
    /\ Load(w) < workers[w].capacity
    /\ ~HasActive(j)

\* Mutant: a claim does not move the fence on.
ClaimedSameFence(row, w) ==
    [row EXCEPT !.state = "running", !.target = w, !.active = row.nextFence]

\* The job row after a claim.
Claimed(row, w) ==
    [row EXCEPT !.state = "running", !.target = w, !.active = row.nextFence,
                !.nextFence = @ + 1]

JobClaim(w, j) ==
    /\ Claimable(w, j)
    /\ jobs[j].nextFence \in Fence
    /\ attempts' = [attempts EXCEPT ![j][jobs[j].nextFence] =
                      [NoAttempt EXCEPT !.state = "claimed", !.worker = w,
                           !.incarnation = workers[w].incarnation]]
    /\ jobs' = [jobs EXCEPT ![j] = Claimed(@, w)]
    /\ UNCHANGED <<workers, minted, approvals, expelled>>

\* The worker is still the incarnation that claimed the attempt.
Current(w, j, f) ==
    /\ attempts[j][f].worker = w
    /\ workers[w].incarnation # 0
    /\ workers[w].incarnation = attempts[j][f].incarnation

\* attempt.renew extends the lease of an attempt that passes every check; a
\* renewed lease is one that does not expire (AttemptLeaseExpires).
Renewable(w, j, f) ==
    /\ Authorized(w)
    /\ Current(w, j, f)
    /\ IsActive(j, f)
    /\ attempts[j][f].lease = "live"
    /\ IsLeaseLive(w)

\* handleAttemptReport: the states a matched report moves attempt and job to.
ReportedAttempt(j, outcome) ==
    IF outcome = "completed" /\ jobs[j].state = "cancel-requested"
    THEN "cancelled" ELSE outcome
MayRetry(j) == jobs[j].safe /\ ~jobs[j].retried

\* Mutant: a completed attempt of a safe job is repeated too.
ReportedJobRetryAlways(j, outcome) ==
    IF jobs[j].state # "cancel-requested" /\ MayRetry(j)
    THEN "queued" ELSE ReportedAttempt(j, outcome)

ReportedJob(j, outcome) ==
    IF outcome = "failed" /\ jobs[j].state # "cancel-requested" /\ MayRetry(j)
    THEN "queued" ELSE ReportedAttempt(j, outcome)

ReportLegal(j, f, outcome) ==
    /\ CanSetAttempt(j, f, ReportedAttempt(j, outcome))
    /\ CanSetJob(j, ReportedJob(j, outcome))

\* Mutant: the one safe retry is not remembered.
SettledUncounted(row, state) ==
    [row EXCEPT !.state = state, !.active = 0,
                !.overdue = IF state = "queued" THEN FALSE ELSE @]

\* The job row after a report: a retry is queued with a fresh deadline.
Settled(row, state) ==
    [row EXCEPT !.state = state, !.active = 0,
                !.retried = @ \/ state = "queued",
                !.overdue = IF state = "queued" THEN FALSE ELSE @]

\* Mutant: a requeued job leaves its failed attempt open.
AttemptAfterOpen(j, outcome, row) ==
    IF ReportedJob(j, outcome) = "queued" THEN row
    ELSE [row EXCEPT !.state = ReportedAttempt(j, outcome)]

AttemptAfter(j, outcome, row) ==
    [row EXCEPT !.state = ReportedAttempt(j, outcome)]

\* A report from the owner of an active attempt, with its incarnation and fence.
AttemptReport(w, j, f, outcome) ==
    /\ Authorized(w)
    /\ Current(w, j, f)
    /\ IsActive(j, f)
    /\ ReportLegal(j, f, outcome)
    /\ attempts' = [attempts EXCEPT ![j][f] = AttemptAfter(j, outcome, @)]
    /\ jobs' = [jobs EXCEPT ![j] = Settled(@, ReportedJob(j, outcome))]
    /\ workers' = [workers EXCEPT ![w].live = TRUE]
    /\ UNCHANGED <<minted, approvals, expelled>>

\* Any other report of the attempt's worker is only kept as a late result.
LateReport(w, j, f, genuine) ==
    /\ Authorized(w)
    /\ attempts[j][f].worker = w
    /\ ~(genuine /\ Current(w, j, f) /\ IsActive(j, f))
    /\ attempts' = [attempts EXCEPT ![j][f].late = TRUE]
    /\ UNCHANGED <<workers, minted, jobs, approvals, expelled>>

---------------------------------------------------------------------------
(* Cancellation, reads and expiry *)

\* Mutant: only jobs with a resolved target expire.
ExpiredJobResolved(row) ==
    IF row.state = "queued" /\ row.overdue /\ row.target # NoWorker
    THEN [row EXCEPT !.state = "failed", !.active = 0] ELSE row

\* expireQueuedJobs on one row
ExpiredJob(row) ==
    IF row.state = "queued" /\ row.overdue
    THEN [row EXCEPT !.state = "failed", !.active = 0] ELSE row

\* expireJobApprovals on one row
ExpiredApproval(row) ==
    IF row.state = "pending" /\ row.due THEN [row EXCEPT !.state = "expired"]
    ELSE row

\* Mutant: a cancelled job keeps its approval requests.
CancelledApprovalKept(row) == row

\* cancelPendingApprovals on one row
CancelledApproval(row) ==
    IF row.state = "pending" THEN [row EXCEPT !.state = "cancelled"] ELSE row

CancelledJob(row) ==
    IF row.state \in {"queued", "awaiting-approval"}
    THEN [row EXCEPT !.state = "cancelled", !.active = 0]
    ELSE IF row.state = "running" THEN [row EXCEPT !.state = "cancel-requested"]
    ELSE row

\* The active attempt of a running job is told to stop.
StoppedAttempt(j, f) ==
    IF jobs[j].state = "running" /\ jobs[j].active = f /\ IsActive(j, f)
    THEN [attempts[j][f] EXCEPT !.state = "stopping"]
    ELSE attempts[j][f]

\* handleJobCancel; every overdue job expires first, this one too.
JobCancel(j) ==
    LET Expired == [i \in Job |-> ExpiredJob(jobs[i])]
        After == CancelledJob(Expired[j])
    IN  /\ jobs[j].state # "none"
        /\ jobs' = [Expired EXCEPT ![j] = After]
        /\ attempts' = [attempts EXCEPT ![j] =
                          [f \in Fence |-> StoppedAttempt(j, f)]]
        /\ approvals' =
              IF After.state \in {"cancel-requested", "cancelled"}
              THEN [approvals EXCEPT ![j] =
                      [f \in Fence |-> CancelledApproval(approvals[j][f])]]
              ELSE approvals
        /\ UNCHANGED <<workers, minted, expelled>>

\* job.get; job.list and job.cancel of a settled job only expire queued jobs.
JobGet(j) ==
    /\ jobs[j].state # "none"
    /\ jobs' = [i \in Job |-> ExpiredJob(jobs[i])]
    /\ approvals' = [approvals EXCEPT ![j] =
                       [f \in Fence |-> ExpiredApproval(approvals[j][f])]]
    /\ UNCHANGED <<workers, minted, attempts, expelled>>

JobList ==
    /\ jobs' = [i \in Job |-> ExpiredJob(jobs[i])]
    /\ UNCHANGED <<workers, minted, attempts, approvals, expelled>>

---------------------------------------------------------------------------
(* Approvals *)

\* A control frame of the running worker asks for an approval.
ApprovalRequest(w, j, f) ==
    /\ workers[w].policy # "none"
    /\ ~workers[w].revoked
    /\ Current(w, j, f)
    /\ IsLeaseLive(w)
    /\ IsActive(j, f)
    /\ jobs[j].state = "running"
    /\ approvals[j][f].state # "pending"
    /\ approvals' = [approvals EXCEPT ![j][f] =
                       [NoApproval EXCEPT !.state = "pending"]]
    /\ jobs' = [jobs EXCEPT ![j].state = "awaiting-approval"]
    /\ UNCHANGED <<workers, minted, attempts, expelled>>

\* approval.get of one attempt expires every due request of its job.
ApprovalGet(j) ==
    /\ \E f \in Fence : approvals[j][f].state # "none"
    /\ approvals' = [approvals EXCEPT ![j] =
                       [f \in Fence |-> ExpiredApproval(approvals[j][f])]]
    /\ UNCHANGED <<workers, minted, jobs, attempts, expelled>>

\* A decision that comes too late closes the request without deciding it.
ApprovalTooLate(j, f) ==
    /\ approvals[j][f].state = "pending"
    /\ approvals[j][f].due \/ jobs[j].state # "awaiting-approval"
    /\ approvals' = [approvals EXCEPT ![j][f].state =
                       IF approvals[j][f].due THEN "expired" ELSE "cancelled"]
    /\ UNCHANGED <<workers, minted, jobs, attempts, expelled>>

\* The requests of the job after the one of attempt f was decided.
Decided(j, f, decision) ==
    [g \in Fence |-> IF g = f THEN [approvals[j][g] EXCEPT !.state = decision]
                     ELSE CancelledApproval(approvals[j][g])]

ApprovalApprove(j, f) ==
    /\ approvals[j][f].state = "pending"
    /\ ~approvals[j][f].due
    /\ jobs[j].state = "awaiting-approval"
    /\ jobs' = [jobs EXCEPT ![j].state = "running"]
    /\ approvals' = [approvals EXCEPT ![j] = Decided(j, f, "approved")]
    /\ UNCHANGED <<workers, minted, attempts, expelled>>

ApprovalDeny(j, f) ==
    /\ approvals[j][f].state = "pending"
    /\ ~approvals[j][f].due
    /\ jobs[j].state = "awaiting-approval"
    /\ attempts' = IF IsActive(j, f)
                   THEN [attempts EXCEPT ![j][f].state = "failed"]
                   ELSE attempts
    /\ jobs' = [jobs EXCEPT ![j].state = "failed", ![j].active = 0]
    /\ approvals' = [approvals EXCEPT ![j] = Decided(j, f, "denied")]
    /\ UNCHANGED <<workers, minted, expelled>>

---------------------------------------------------------------------------
(* The sweep and the passage of time *)

\* Mutant: an attempt that is stopping is not aged.
AgedAttemptUnstopped(row) ==
    IF row.state \in ActiveAttemptState \ {"stopping"} /\ row.lease = "lapsed"
    THEN [row EXCEPT !.state = "unknown-outcome"] ELSE row

AgedAttempt(row) ==
    IF row.state \in ActiveAttemptState /\ row.lease = "lapsed"
    THEN [row EXCEPT !.state = "unknown-outcome"] ELSE row

\* The job part of the sweep; purged are the revoked workers past the audit
\* window.
Sweep(purged) ==
    /\ \A w \in purged : workers[w].revoked
    /\ workers' = [w \in Worker |-> IF w \in purged THEN NoRow ELSE workers[w]]
    /\ jobs' = [j \in Job |-> ExpiredJob(jobs[j])]
    /\ attempts' = [j \in Job |-> [f \in Fence |-> AgedAttempt(attempts[j][f])]]
    /\ approvals' = [j \in Job |->
                       [f \in Fence |-> ExpiredApproval(approvals[j][f])]]
    /\ UNCHANGED <<minted, expelled>>

QueueDeadlinePasses(j) ==
    /\ jobs[j].state = "queued"
    /\ ~jobs[j].overdue
    /\ jobs' = [jobs EXCEPT ![j].overdue = TRUE]
    /\ UNCHANGED <<workers, minted, attempts, approvals, expelled>>

WorkerLeaseLapses(w) ==
    /\ workers[w].live
    /\ workers' = [workers EXCEPT ![w].live = FALSE]
    /\ UNCHANGED <<minted, jobs, attempts, approvals, expelled>>

AttemptLeaseExpires(j, f) ==
    /\ IsActive(j, f)
    /\ attempts[j][f].lease = "live"
    /\ attempts' = [attempts EXCEPT ![j][f].lease = "expired"]
    /\ UNCHANGED <<workers, minted, jobs, approvals, expelled>>

AttemptLeaseLapses(j, f) ==
    /\ IsActive(j, f)
    /\ attempts[j][f].lease = "expired"
    /\ attempts' = [attempts EXCEPT ![j][f].lease = "lapsed"]
    /\ UNCHANGED <<workers, minted, jobs, approvals, expelled>>

ApprovalDeadlinePasses(j, f) ==
    /\ approvals[j][f].state = "pending"
    /\ ~approvals[j][f].due
    /\ approvals' = [approvals EXCEPT ![j][f].due = TRUE]
    /\ UNCHANGED <<workers, minted, jobs, attempts, expelled>>

---------------------------------------------------------------------------
(* Specification *)

Init ==
    /\ workers = [w \in Worker |-> NoRow]
    /\ minted = [w \in Worker |-> 0]
    /\ jobs = [j \in Job |-> NoJob]
    /\ attempts = [j \in Job |-> [f \in Fence |-> NoAttempt]]
    /\ approvals = [j \in Job |-> [f \in Fence |-> NoApproval]]
    /\ expelled = [w \in Worker |-> 0]

WorkerStep(w) ==
    \/ \E p \in Policies, c \in 1 .. MaxCapacity : DevicePolicyPublish(w, p, c)
    \/ WorkerConnect(w)
    \/ \E b \in BOOLEAN, c \in 1 .. MaxCapacity :
          WorkerCapabilitiesPublish(w, b, c)
    \/ \E b \in BOOLEAN : WorkerReplicaPublish(w, b)
    \/ RevokeEnrollment(w)
    \/ WorkerLeaseLapses(w)

AttemptStep(w, j, f) ==
    \/ \E outcome \in {"completed", "failed"} : AttemptReport(w, j, f, outcome)
    \/ \E genuine \in BOOLEAN : LateReport(w, j, f, genuine)
    \/ ApprovalRequest(w, j, f)

JobStep(j) ==
    \/ \E device \in Worker \cup {NoWorker}, safe \in BOOLEAN, needs \in Needs :
          JobCreate(j, device, safe, needs)
    \/ \E w \in Worker : JobClaim(w, j)
    \/ JobCancel(j)
    \/ JobGet(j)
    \/ ApprovalGet(j)
    \/ QueueDeadlinePasses(j)

ApprovalStep(j, f) ==
    \/ ApprovalTooLate(j, f)
    \/ ApprovalApprove(j, f)
    \/ ApprovalDeny(j, f)
    \/ AttemptLeaseExpires(j, f)
    \/ AttemptLeaseLapses(j, f)
    \/ ApprovalDeadlinePasses(j, f)

Next ==
    \/ \E w \in Worker : WorkerStep(w)
    \/ \E w \in Worker, j \in Job, f \in Fence : AttemptStep(w, j, f)
    \/ \E j \in Job : JobStep(j)
    \/ \E j \in Job, f \in Fence : ApprovalStep(j, f)
    \/ JobList
    \/ \E purged \in SUBSET Worker : Sweep(purged)

Spec == Init /\ [][Next]_vars

CanRenew(j, f) == \E w \in Worker : Renewable(w, j, f)

\* Time passes: a queue deadline is reached, a lease nobody may renew expires
\* and an expired one lapses.  The alarm runs the sweep again and again.  A
\* worker whose report would be applied sends it.
Fairness ==
    /\ \A j \in Job : WF_vars(QueueDeadlinePasses(j))
    /\ \A j \in Job, f \in Fence :
          /\ WF_vars(AttemptLeaseExpires(j, f) /\ ~CanRenew(j, f))
          /\ WF_vars(AttemptLeaseLapses(j, f))
          /\ WF_vars(\E w \in Worker, outcome \in {"completed", "failed"} :
                        AttemptReport(w, j, f, outcome))
    /\ WF_vars(Sweep({}))

FairSpec == Spec /\ Fairness

---------------------------------------------------------------------------
(* Properties *)

\* Every table keeps its types.
JobTypeOK ==
    /\ workers \in [Worker -> WorkerRow]
    /\ minted \in [Worker -> Incarnation]
    /\ jobs \in [Job -> JobRow]
    /\ attempts \in [Job -> [Fence -> AttemptRow]]
    /\ approvals \in [Job -> [Fence -> ApprovalRow]]
    /\ expelled \in [Worker -> Incarnation]

\* Whatever leases expire and whichever incarnations come and go, only the
\* newest attempt of a job can be active, a job waiting in the queue has none,
\* and a job that is neither queued nor settled still points at it.  So no two
\* workers run one job, and the duplicate check of handleJobClaim never fires.
SingleOwner ==
    \A j \in Job, f \in Fence : IsActive(j, f) =>
        /\ f = Newest(j)
        /\ jobs[j].state \notin {"none", "queued"}
        /\ jobs[j].state \notin TerminalJobState => jobs[j].active = f

\* No worker is given more work than MAX_CONCURRENT_JOBS, attempts that are
\* stopping or whose lease has expired included (handleJobClaim).
WithinCapacity ==
    \A w \in Worker :
        Cardinality({p \in Job \X Fence : /\ attempts[p[1]][p[2]].worker = w
                                          /\ IsActive(p[1], p[2])})
        <= MaxCapacity

\* A job is given out once, and a second time only under a safe retry policy
\* after its first attempt was reported failed (handleAttemptReport re-queues
\* at most once, an expired lease never does).
BoundedExecutions ==
    \A j \in Job :
        /\ jobs[j].nextFence <= IF jobs[j].safe THEN 3 ELSE 2
        /\ \A f \in Fence :
              /\ f >= jobs[j].nextFence => attempts[j][f] = NoAttempt
              /\ f < Newest(j) => attempts[j][f].state = "failed"

\* A job and its newest attempt agree on completion: no late, fenced-off or
\* masked report completes one without the other (handleAttemptReport).
CompletionAgrees ==
    \A j \in Job :
        /\ jobs[j].state = "completed" =>
              /\ Newest(j) \in Fence
              /\ attempts[j][Newest(j)].state = "completed"
        /\ \A f \in Fence : attempts[j][f].state = "completed" =>
              jobs[j].state = "completed" /\ f = Newest(j)

\* An open approval request belongs to the newest attempt of a job that waits
\* for it, or that its worker failed meanwhile: a running, queued or cancelled
\* job is never held by one (handleJobCancel, handleApprovalDecide).
PendingApprovalIsOpen ==
    \A j \in Job, f \in Fence : approvals[j][f].state = "pending" =>
        /\ f = Newest(j)
        /\ jobs[j].state \in {"awaiting-approval", "failed"}

\* What a revoked worker had claimed it can never complete, not even after the
\* device opts in again: the new policy starts without an incarnation and the
\* next connect mints a fresh one (handleDevicePolicyPublish).
RevokedNeverCompletes ==
    [][\A j \in Job, f \in Fence :
          (/\ IsActive(j, f)
           /\ attempts[j][f].incarnation <= expelled[attempts[j][f].worker])
          => attempts'[j][f].state # "completed"]_vars

\* A queued job is claimed, cancelled or failed at its deadline; none waits
\* forever, whether or not it has a target (expireQueuedJobs).
QueueDrains ==
    \A j \in Job : jobs[j].state = "queued" ~> jobs[j].state # "queued"

\* An attempt whose worker came back as another incarnation does not hold the
\* worker's capacity for good: nobody can renew it and the sweep settles it.
OrphanSettles ==
    \A w \in Worker, j \in Job, f \in Fence :
        (/\ IsActive(j, f)
         /\ attempts[j][f].worker = w
         /\ attempts[j][f].incarnation # workers[w].incarnation)
        ~> ~IsActive(j, f)

---------------------------------------------------------------------------
(* What comments of the code say, and the code does not do *)

\* The contract of the transition table: awaiting-approval may cancel directly
\* because nothing is running.
CancelledMeansStopped ==
    \A j \in Job : jobs[j].state = "cancelled" => ~HasActive(j)

\* The comment on handleAttemptReport: a matched report of an active attempt
\* records its outcome and moves the job.  A worker that waits for an approval
\* sends none.
MatchedReportApplies ==
    \A w \in Worker, j \in Job, f \in Fence :
        (/\ Authorized(w)
         /\ Current(w, j, f)
         /\ IsActive(j, f)
         /\ jobs[j].state \notin TerminalJobState
         /\ approvals[j][f].state # "pending") =>
            \A outcome \in {"completed", "failed"} : ReportLegal(j, f, outcome)

\* The comment on the sweep: it cancels the requests of jobs that no longer
\* wait.
SweepClosesApprovals ==
    [][(\E purged \in SUBSET Worker : Sweep(purged)) =>
          \A j \in Job, f \in Fence : approvals'[j][f].state = "pending" =>
              jobs'[j].state = "awaiting-approval"]_vars

\* The comment on requireLiveIncarnation: a stale lease comes back only through
\* worker.connect, with a fresh incarnation.
RevivedOnlyByConnect ==
    [][\A w \in Worker : (~IsLeaseLive(w) /\ IsLeaseLive(w)') =>
          workers'[w].incarnation # workers[w].incarnation]_vars

\* The comment on handleJobCancel: the verified stop of a job whose
\* cancellation was requested arrives by a report or by the sweep.
CancelIsConfirmed ==
    \A j \in Job : jobs[j].state = "cancel-requested" ~>
                   jobs[j].state \in TerminalJobState
=============================================================================
