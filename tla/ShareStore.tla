----------------------------- MODULE ShareStore -----------------------------
(***************************************************************************)
(* Hosted artifact shares: the table shared_artifacts of the session       *)
(* coordinator and the objects in R2 it points to.  share.create,          *)
(* share.update, share.revoke and the deletion of the account run under    *)
(* blockConcurrencyWhile and are one step.  Uploads, share.finalize, public *)
(* reads, share.list and the alarm are not: they read a row, wait for R2 or *)
(* D1, and go on with what they read, so each is cut at its awaits.        *)
(*                                                                         *)
(* Bytes are known by their digest.  A share's first object has key 0, the *)
(* n-th update stages its bytes under key n.  Deadlines are flags raised   *)
(* by time.  Deletes in R2 are best effort: they may do nothing.           *)
(***************************************************************************)
EXTENDS Integers, FiniteSets, FiniteSetsExt

CONSTANTS
    Share,        \* share ids
    Call,         \* concurrent uploads, finalizes and reads
    Digest,       \* contents that are declared, by SHA-256
    Corrupt,      \* any other content of the declared length
    NoDigest,     \* no object, or a NULL sha256 column
    ByteLength,   \* the length of a content
    AccountBytes, \* SHARE_ACCOUNT_MAX_BYTES
    MaxUpdates,   \* bound on share.update calls of one share
    MaxCorrupt    \* bound on corrupt objects and uploads at a time

ASSUME ShareAssumption ==
    /\ Share # {}
    /\ NoDigest \notin Digest \cup {Corrupt}
    /\ Corrupt \notin Digest
    /\ ByteLength \in [Digest -> Nat]
    /\ AccountBytes \in Nat
    /\ MaxUpdates \in Nat
    /\ MaxCorrupt \in Nat

\* The bytes of an account are a sum over its shares.
ASSUME FiniteShares == IsFiniteSet(Share)

VARIABLES
    rows,     \* table shared_artifacts
    objects,  \* the bucket ARTIFACTS
    issued,   \* how many pending keys each share has used
    lapsed,   \* keys whose upload window is over
    stale,    \* keys whose upload window is over by another SHARE_UPLOAD_TTL_MS
    due,      \* shares past expires_at
    deleted,  \* the account has a row in account_deletions
    calls,    \* the calls that wait for R2 or D1
    sweep     \* runSweep, which waits for R2 too

vars == <<rows, objects, issued, lapsed, stale, due, deleted, calls, sweep>>
clocks == <<lapsed, stale, due>>

---------------------------------------------------------------------------

KeyNo == 0 .. MaxUpdates
Key == Share \X KeyNo
Live == {"reserved", "uploaded", "published"}
Terminal == {"revoked", "expired", "gone"}

\* pkey 0 is a NULL pending_r2_key; "new" and "gone" are rows not there yet
\* and not there any more.
Row == [state : {"new"} \cup Live \cup Terminal, key : KeyNo,
        sha : Digest \cup {NoDigest}, pkey : KeyNo, psha : Digest \cup {NoDigest}]
NoRow == [state |-> "new", key |-> 0, sha |-> NoDigest, pkey |-> 0, psha |-> NoDigest]
Unstaged(r) == [r EXCEPT !.pkey = 0, !.psha = NoDigest]
Exists(r) == r.state \notin {"new", "gone"}

\* pc is the await a call is in.  key, pkey and sha are from the row it read:
\* sha is the digest declared for the key it works on, the pending one if staged.
\* body is what it uploads.
Pc == {"idle", "put", "landed", "abort", "finalize", "verify", "commit",
       "mismatch", "drop", "lose", "swap", "read", "expire", "clear"}
CallState == [pc : Pc, share : Share, key : KeyNo, pkey : KeyNo, staged : BOOLEAN,
              sha : Digest \cup {NoDigest}, body : Digest \cup {Corrupt, NoDigest}]
Idle == [pc |-> "idle", share |-> CHOOSE s \in Share : TRUE, key |-> 0, pkey |-> 0,
         staged |-> FALSE, sha |-> NoDigest, body |-> NoDigest]

Victim == [share : Share, key : KeyNo, pkey : KeyNo]
SweepState == [pc : {"idle", "expire", "unstage"},
               todo : SUBSET Victim, gone : SUBSET Victim]
NoSweep == [pc |-> "idle", todo |-> {}, gone |-> {}]

Init ==
    /\ rows = [s \in Share |-> NoRow]
    /\ objects = [k \in Key |-> NoDigest]
    /\ issued = [s \in Share |-> 0]
    /\ lapsed = {} /\ stale = {} /\ due = {}
    /\ deleted = FALSE
    /\ calls = [c \in Call |-> Idle]
    /\ sweep = NoSweep

---------------------------------------------------------------------------

\* ARTIFACTS.delete(...).catch(): any of the deletes may have failed.
DeleteObjects(ks) ==
    \E lost \in SUBSET ks :
        objects' = [k \in Key |-> IF k \in ks \ lost THEN NoDigest ELSE objects[k]]

\* DELETE FROM shared_artifacts: the deadlines go with the rows.
DeleteRows(ss) ==
    /\ rows' = [s \in Share |-> IF s \in ss THEN [NoRow EXCEPT !.state = "gone"] ELSE rows[s]]
    /\ lapsed' = {k \in lapsed : k[1] \notin ss}
    /\ stale' = {k \in stale : k[1] \notin ss}
    /\ due' = due \ ss

\* The two keys of a row.
KeysOf(s, r) == {<<s, r.key>>} \cup (IF r.pkey = 0 THEN {} ELSE {<<s, r.pkey>>})

\* Mutant: only published shares have a deadline.
OverduePublished(s, r) == r.state = "published" /\ s \in due

\* The deadline of a row, by the present clock.
Overdue(s, r) ==
    \/ r.state \in {"reserved", "uploaded"} /\ <<s, 0>> \in lapsed
    \/ r.state = "published" /\ s \in due

\* hasPendingShareUpdate
HasPending(r) == r.state = "published" /\ r.pkey # 0

Bytes(d) == IF d = NoDigest THEN 0 ELSE ByteLength[d]

\* Bytes the account has published, reserved or staged.
UsedBytes ==
    LET BytesOf(s) == IF rows[s].state \in Live
                      THEN Bytes(rows[s].sha) + Bytes(rows[s].psha) ELSE 0
    IN MapThenSumSet(BytesOf, Share)

\* Mutant: an update is credited with the bytes it is going to replace.
FitsInPlace(s, d) ==
    UsedBytes - Bytes(rows[s].psha) - Bytes(rows[s].sha) + Bytes(d) <= AccountBytes

\* The quota of share.create and share.update; an update replaces the bytes it
\* had staged before.
Fits(s, d) == UsedBytes - Bytes(rows[s].psha) + Bytes(d) <= AccountBytes

---------------------------------------------------------------------------
(* The calls that block all others.                                        *)

\* share.create
ShareCreate(s, d) ==
    /\ rows[s].state = "new"
    /\ ~deleted
    /\ Fits(s, d)
    /\ rows' = [rows EXCEPT ![s] = [NoRow EXCEPT !.state = "reserved", !.sha = d]]
    /\ UNCHANGED <<objects, issued, clocks, deleted, calls, sweep>>

\* The pending key of an update contains a fresh UUID.
NextKey(s) == issued[s] + 1

\* share.update of a share that is still published.
ShareUpdate(s, d) ==
    /\ rows[s].state = "published" /\ s \notin due
    /\ ~deleted
    /\ issued[s] < MaxUpdates
    /\ Fits(s, d)
    /\ DeleteObjects(KeysOf(s, rows[s]) \ {<<s, rows[s].key>>})
    /\ issued' = [issued EXCEPT ![s] = @ + 1]
    /\ rows' = [rows EXCEPT ![s].pkey = NextKey(s), ![s].psha = d]
    /\ lapsed' = lapsed \ {<<s, NextKey(s)>>}
    /\ stale' = stale \ {<<s, NextKey(s)>>}
    /\ UNCHANGED <<due, deleted, calls, sweep>>

\* share.update that finds the row past its deadline: expireShareIfDue.
ShareUpdateTooLate(s) ==
    /\ Overdue(s, rows[s])
    /\ ~deleted
    /\ rows' = [rows EXCEPT ![s] = Unstaged([@ EXCEPT !.state = "expired"])]
    /\ DeleteObjects(KeysOf(s, rows[s]))
    /\ UNCHANGED <<issued, clocks, deleted, calls, sweep>>

\* share.revoke: a reservation lapses, a published share is revoked.
ShareRevoke(s) ==
    /\ rows[s].state \in Live
    /\ rows' = [rows EXCEPT ![s] = Unstaged([@ EXCEPT
                  !.state = IF @ = "published" THEN "revoked" ELSE "expired"])]
    /\ DeleteObjects(KeysOf(s, rows[s]))
    /\ UNCHANGED <<issued, clocks, deleted, calls, sweep>>

\* The tombstone of the account, and purgeAccountShares.
DeleteAccount ==
    LET all == {s \in Share : Exists(rows[s])}
    IN /\ ~deleted
       /\ deleted' = TRUE
       /\ DeleteObjects(UNION {KeysOf(s, rows[s]) : s \in all})
       /\ DeleteRows(all)
       /\ UNCHANGED <<issued, calls, sweep>>

---------------------------------------------------------------------------
(* Uploads.                                                                *)

Wait(c, pc) == calls' = [calls EXCEPT ![c].pc = pc]
Return(c) == calls' = [calls EXCEPT ![c] = Idle]
Start(c, state) == calls[c].pc = "idle" /\ calls' = [calls EXCEPT ![c] = state]

\* The key a call works on.
Target(c) == <<calls[c].share, IF calls[c].staged THEN calls[c].pkey ELSE calls[c].key>>

CorruptCopies == Cardinality({k \in Key : objects[k] = Corrupt})
                 + Cardinality({c \in Call : calls[c].body = Corrupt})

\* handleShareUpload and handleShareReplacementUpload up to the put.  The body
\* has the declared length; whether it has the declared digest is not looked at.
ShareUpload(c, s, d) ==
    LET r == rows[s]
    IN /\ ~deleted
       /\ r.state = "reserved" \/ HasPending(r)
       /\ <<s, r.pkey>> \notin lapsed
       /\ d = Corrupt => CorruptCopies < MaxCorrupt
       /\ Start(c, [Idle EXCEPT !.pc = "put", !.share = s, !.pkey = r.pkey,
                                !.staged = HasPending(r), !.body = d,
                                !.sha = IF HasPending(r) THEN r.psha ELSE r.sha])
       /\ UNCHANGED <<rows, objects, issued, clocks, deleted, sweep>>

\* R2 stores the object, whatever has happened to the row since.
PutLands(c) ==
    /\ calls[c].pc = "put"
    /\ objects' = [objects EXCEPT ![Target(c)] = calls[c].body]
    /\ Wait(c, "landed")
    /\ UNCHANGED <<rows, issued, clocks, deleted, sweep>>

\* The upload is acknowledged; a replacement only sets pending_uploaded, which
\* nothing reads.
UploadDone(c) ==
    LET s == calls[c].share
    IN /\ calls[c].pc = "landed"
       /\ rows' = IF rows[s].state = "reserved" /\ ~calls[c].staged
                  THEN [rows EXCEPT ![s].state = "uploaded"] ELSE rows
       /\ Return(c)
       /\ UNCHANGED <<objects, issued, clocks, deleted, sweep>>

\* The put throws, or stored another length than was declared.
PutFails(c) ==
    /\ calls[c].pc = "put" \/ (calls[c].pc = "landed" /\ calls[c].body # calls[c].sha)
    /\ Wait(c, "abort")
    /\ UNCHANGED <<rows, objects, issued, clocks, deleted, sweep>>

\* The catch block deletes the key.
AbortUpload(c) ==
    /\ calls[c].pc = "abort"
    /\ DeleteObjects({Target(c)})
    /\ Return(c)
    /\ UNCHANGED <<rows, issued, clocks, deleted, sweep>>

---------------------------------------------------------------------------
(* share.finalize.                                                         *)

\* The row is read, then the audience is checked in D1.
ShareFinalize(c, s) ==
    LET r == rows[s]
    IN /\ ~deleted
       /\ r.state \in {"reserved", "uploaded"} \/ HasPending(r)
       /\ Start(c, [Idle EXCEPT !.pc = "finalize", !.share = s, !.key = r.key,
                                !.pkey = r.pkey, !.staged = HasPending(r),
                                !.sha = IF HasPending(r) THEN r.psha ELSE r.sha])
       /\ UNCHANGED <<rows, objects, issued, clocks, deleted, sweep>>

\* expireShareIfDue, up to its first await.  Only a row that is not terminal is
\* expired; the keys to delete are those of the row that was read.  The row is
\* gone only for a read, as its deadlines go with it: the code then
\* answers from what it read of the row, if at all, and writes nothing.
ExpireRow(c) ==
    LET s == calls[c].share
    IN IF rows[s].state \in Live
       THEN /\ rows' = [rows EXCEPT ![s].state = "expired"]
            /\ Wait(c, "expire")
       ELSE /\ IF rows[s].state = "expired" THEN Wait(c, "expire") ELSE Return(c)
            /\ UNCHANGED rows

\* The checks before the digest is read, on the row read before.
FinalizeChecks(c) ==
    /\ calls[c].pc = "finalize"
    /\ IF calls[c].staged /\ calls[c].share \in due
       THEN ExpireRow(c)
       ELSE /\ IF Target(c) \in lapsed THEN Return(c) ELSE Wait(c, "verify")
            /\ UNCHANGED rows
    /\ UNCHANGED <<objects, issued, clocks, deleted, sweep>>

\* readShareObjectDigest: nothing there, another digest, or the declared one.
Verify(c) ==
    LET k == Target(c)
        d == calls[c].sha
    IN /\ calls[c].pc = "verify"
       /\ \/ /\ objects[k] = NoDigest
             /\ Return(c)
          \/ /\ objects[k] \notin {NoDigest, d}
             /\ Wait(c, "mismatch")
          \/ /\ objects[k] = d
             /\ Wait(c, "commit")
       /\ UNCHANGED <<rows, objects, issued, clocks, deleted, sweep>>

\* The bytes that failed the check are deleted, wherever the key has gone.
DeleteMismatch(c) ==
    /\ calls[c].pc = "mismatch"
    /\ DeleteObjects({Target(c)})
    /\ Wait(c, IF calls[c].staged THEN "clear" ELSE "drop")
    /\ UNCHANGED <<rows, issued, clocks, deleted, sweep>>

\* DELETE FROM shared_artifacts, whatever the state of the row is by now.
DropRow(c) ==
    /\ calls[c].pc = "drop"
    /\ DeleteRows({calls[c].share})
    /\ Return(c)
    /\ UNCHANGED <<objects, issued, deleted, sweep>>

\* Mutant: the UPDATE names the share only.
PublishableRow(r) == Exists(r)

\* The condition of the UPDATE that publishes.
Publishable(r) == r.state \in {"reserved", "uploaded"}

\* Mutant: the UPDATE does not ask which update is staged.
SwappableAny(r, pkey) == HasPending(r)

\* The condition of the UPDATE that swaps; the token names the update as the
\* key does.
Swappable(r, pkey) == HasPending(r) /\ r.pkey = pkey

\* The row after the swap.
Swapped(r) == Unstaged([r EXCEPT !.key = r.pkey, !.sha = r.psha])

\* The audience has been checked again: publish.
Publish(c) ==
    LET s == calls[c].share
    IN /\ calls[c].pc = "commit"
       /\ ~calls[c].staged
       /\ rows' = IF ~deleted /\ <<s, 0>> \notin lapsed /\ Publishable(rows[s])
                  THEN [rows EXCEPT ![s].state = "published"] ELSE rows
       /\ Return(c)
       /\ UNCHANGED <<objects, issued, clocks, deleted, sweep>>

\* Mutant: a call that did not swap the object in itself has lost.
WonBySwapping(c, before, after) == after # before

\* Another finalize of the same update may have been faster: what counts is
\* which object the row serves now.
Won(c, before, after) == Exists(after) /\ after.key = calls[c].pkey

\* The same for a replacement: swap the staged object in, then delete the one
\* it replaces, or itself if another call was faster.
Swap(c) ==
    LET s == calls[c].share
        after == IF Swappable(rows[s], calls[c].pkey)
                 THEN [rows EXCEPT ![s] = Swapped(@)] ELSE rows
    IN /\ calls[c].pc = "commit"
       /\ calls[c].staged
       /\ IF deleted \/ Target(c) \in lapsed \/ s \in due
          THEN Return(c) /\ UNCHANGED rows
          ELSE /\ rows' = after
               /\ Wait(c, IF Won(c, rows[s], after[s])
                          THEN "swap" ELSE "lose")
       /\ UNCHANGED <<objects, issued, clocks, deleted, sweep>>

DeleteReplaced(c) ==
    /\ calls[c].pc = "swap"
    /\ DeleteObjects({<<calls[c].share, calls[c].key>>})
    /\ Return(c)
    /\ UNCHANGED <<rows, issued, clocks, deleted, sweep>>

DeleteStaged(c) ==
    /\ calls[c].pc = "lose"
    /\ DeleteObjects({<<calls[c].share, calls[c].pkey>>})
    /\ Return(c)
    /\ UNCHANGED <<rows, issued, clocks, deleted, sweep>>

\* The rest of expireShareIfDue.
DeleteExpired(c) ==
    /\ calls[c].pc = "expire"
    /\ DeleteObjects(KeysOf(calls[c].share, calls[c]))
    /\ IF calls[c].pkey = 0 THEN Return(c) ELSE Wait(c, "clear")
    /\ UNCHANGED <<rows, issued, clocks, deleted, sweep>>

\* discardPendingShareUpdate after its delete: clears the update it read only.
ClearPending(c) ==
    LET s == calls[c].share
    IN /\ calls[c].pc = "clear"
       /\ rows' = IF Exists(rows[s]) /\ rows[s].pkey = calls[c].pkey
                  THEN [rows EXCEPT ![s] = Unstaged(@)] ELSE rows
       /\ Return(c)
       /\ UNCHANGED <<objects, issued, clocks, deleted, sweep>>

---------------------------------------------------------------------------
(* Public reads and share.list.  They change something only if the row they  *)
(* read is past its deadline.                                              *)

SharedArtifactRead(c, s) ==
    /\ Overdue(s, rows[s])
    /\ Start(c, [Idle EXCEPT !.pc = "read", !.share = s,
                             !.key = rows[s].key, !.pkey = rows[s].pkey])
    /\ UNCHANGED <<rows, objects, issued, clocks, deleted, sweep>>

\* The identity has been checked in D1, or the rows before this one are done.
ReadExpires(c) ==
    /\ calls[c].pc = "read"
    /\ ExpireRow(c)
    /\ UNCHANGED <<objects, issued, clocks, deleted, sweep>>

---------------------------------------------------------------------------
(* The alarm: runSweep, as far as it is about shares.                      *)

\* A sweep is three loops over what a SELECT found; a loop that finds nothing
\* does nothing, so each starts by itself when it has something to do.
VictimsOf(found) ==
    {[share |-> s, key |-> rows[s].key, pkey |-> rows[s].pkey] : s \in found}

SweepLoop(pc, found) ==
    /\ sweep.pc = "idle"
    /\ found # {}
    /\ sweep' = [pc |-> pc, todo |-> VictimsOf(found), gone |-> {}]
    /\ UNCHANGED <<rows, objects, issued, clocks, deleted, calls>>

\* The rows past their deadline.
SweepBegin == SweepLoop("expire", {s \in Share : Overdue(s, rows[s])})

\* The objects of one of them.
SweepObjects ==
    /\ sweep.pc = "expire" /\ sweep.gone = {}
    /\ \E v \in sweep.todo :
          /\ DeleteObjects(KeysOf(v.share, v))
          /\ sweep' = [sweep EXCEPT !.gone = {v}]
    /\ UNCHANGED <<rows, issued, clocks, deleted, calls>>

\* The loop goes on, or ends.
SweepOn == sweep' = LET left == sweep.todo \ sweep.gone
                    IN IF left = {} THEN NoSweep
                       ELSE [sweep EXCEPT !.todo = left, !.gone = {}]

\* The UPDATE that follows has no condition on the state.
SweepRow ==
    /\ sweep.pc = "expire"
    /\ \E v \in sweep.gone :
          rows' = IF Exists(rows[v.share])
                  THEN [rows EXCEPT ![v.share] = Unstaged([@ EXCEPT !.state = "expired"])]
                  ELSE rows
    /\ SweepOn
    /\ UNCHANGED <<objects, issued, clocks, deleted, calls>>

\* Mutant: updates are looked for among the reservations.
AbandonedReservations ==
    {s \in Share : /\ rows[s].state \in {"reserved", "uploaded"}
                   /\ rows[s].pkey # 0 /\ <<s, rows[s].pkey>> \in stale}

\* Updates whose upload window closed a whole window ago.
AbandonedUpdates ==
    {s \in Share : /\ Exists(rows[s])
                   /\ rows[s].pkey # 0 /\ <<s, rows[s].pkey>> \in stale}

SweepStale == SweepLoop("unstage", AbandonedUpdates)

SweepStaged ==
    /\ sweep.pc = "unstage" /\ sweep.gone = {}
    /\ \E v \in sweep.todo :
          /\ DeleteObjects({<<v.share, v.pkey>>})
          /\ sweep' = [sweep EXCEPT !.gone = {v}]
    /\ UNCHANGED <<rows, issued, clocks, deleted, calls>>

SweepUnstage ==
    /\ sweep.pc = "unstage"
    /\ \E v \in sweep.gone :
          rows' = IF Exists(rows[v.share]) /\ rows[v.share].pkey = v.pkey
                  THEN [rows EXCEPT ![v.share] = Unstaged(@)] ELSE rows
    /\ SweepOn
    /\ UNCHANGED <<objects, issued, clocks, deleted, calls>>

\* A terminal row past the audit retention is dropped.
SweepRetired(s) ==
    /\ sweep.pc = "idle"
    /\ rows[s].state \in {"revoked", "expired"}
    /\ DeleteRows({s})
    /\ UNCHANGED <<objects, issued, deleted, calls, sweep>>

---------------------------------------------------------------------------
(* Time and evictions.                                                     *)

\* The upload window of a reservation or of the staged update closes.
WindowCloses(k) ==
    /\ k \notin lapsed
    /\ IF k[2] = 0 THEN rows[k[1]].state \in {"reserved", "uploaded"}
                   ELSE rows[k[1]].pkey = k[2]
    /\ lapsed' = lapsed \cup {k}
    /\ UNCHANGED <<rows, objects, issued, stale, due, deleted, calls, sweep>>

\* Another window later.
WindowForgotten(k) ==
    /\ k \in lapsed \ stale
    /\ k[2] # 0 /\ rows[k[1]].pkey = k[2]
    /\ stale' = stale \cup {k}
    /\ UNCHANGED <<rows, objects, issued, lapsed, due, deleted, calls, sweep>>

ShareDue(s) ==
    /\ s \notin due
    /\ rows[s].state = "published"
    /\ due' = due \cup {s}
    /\ UNCHANGED <<rows, objects, issued, lapsed, stale, deleted, calls, sweep>>

\* The object is evicted or restarted: every call and the sweep are forgotten.
Evicted ==
    /\ calls # [c \in Call |-> Idle] \/ sweep # NoSweep
    /\ calls' = [c \in Call |-> Idle]
    /\ sweep' = NoSweep
    /\ UNCHANGED <<rows, objects, issued, clocks, deleted>>

CallStep(c) ==
    \/ \E s \in Share :
          \/ \E d \in Digest \cup {Corrupt} : ShareUpload(c, s, d)
          \/ ShareFinalize(c, s)
          \/ SharedArtifactRead(c, s)
    \/ PutLands(c) \/ UploadDone(c) \/ PutFails(c) \/ AbortUpload(c)
    \/ FinalizeChecks(c) \/ Verify(c) \/ DeleteMismatch(c) \/ DropRow(c)
    \/ Publish(c) \/ Swap(c) \/ DeleteReplaced(c) \/ DeleteStaged(c)
    \/ DeleteExpired(c) \/ ClearPending(c)
    \/ ReadExpires(c)

SweepStep ==
    \/ SweepBegin \/ SweepObjects \/ SweepRow
    \/ SweepStale \/ SweepStaged \/ SweepUnstage
    \/ \E s \in Share : SweepRetired(s)

Next ==
    \/ \E s \in Share :
          \/ \E d \in Digest : ShareCreate(s, d) \/ ShareUpdate(s, d)
          \/ ShareUpdateTooLate(s) \/ ShareRevoke(s) \/ ShareDue(s)
    \/ DeleteAccount
    \/ \E c \in Call : CallStep(c)
    \/ SweepStep
    \/ \E k \in Key : WindowCloses(k) \/ WindowForgotten(k)
    \/ Evicted

Spec == Init /\ [][Next]_vars

\* The alarm is durable and is set again by every sweep; the object is not
\* evicted in the middle of every one of them.
LiveSpec == Spec /\ WF_vars(SweepStep) /\ <>[][~Evicted]_vars

---------------------------------------------------------------------------
(* Properties.                                                             *)

\* Every variable has its type; an upload window that is long over is over.
ShareTypeOK ==
    /\ rows \in [Share -> Row]
    /\ objects \in [Key -> Digest \cup {Corrupt, NoDigest}]
    /\ issued \in [Share -> KeyNo]
    /\ stale \subseteq lapsed /\ lapsed \subseteq Key /\ due \subseteq Share
    /\ deleted \in BOOLEAN
    /\ calls \in [Call -> CallState]
    /\ sweep \in SweepState

\* A share is published, or its object replaced, only by a finalize that has read
\* back under the key that is now served the digest that is now declared: also
\* when another update is staged or swapped in between its check and its UPDATE.
PublishesWhatItVerified ==
    [][\A s \in Share :
          rows'[s].state = "published" /\ (rows[s].state # "published"
                                            \/ rows'[s].key # rows[s].key)
          => \E c \in Call : /\ calls[c].pc = "commit"
                             /\ Target(c) = <<s, rows'[s].key>>
                             /\ calls[c].sha = rows'[s].sha]_vars

\* The keys whose objects are needed: published, or reserved or staged with the
\* upload window still open.
InUse ==
    {k \in Key : LET r == rows[k[1]] IN
        \/ r.key = k[2] /\ r.state \in Live /\ ~Overdue(k[1], r)
        \/ r.pkey = k[2] /\ HasPending(r) /\ ~Overdue(k[1], r) /\ k \notin lapsed}

\* Deleting replaced, superseded, expired and abandoned objects, by keys that were
\* read before an await, never hits an object that is in use.  Only uploads to
\* the key itself and a finalize that found it wrong may touch it.
CleanupSparesInUse ==
    [][\A k \in {x \in Key : objects'[x] # objects[x]} :
          k \in InUse /\ k \in InUse'
          => \E c \in Call : /\ Target(c) = k
                             /\ calls[c].pc \in {"put", "abort", "mismatch"}
                             /\ calls'[c].pc # calls[c].pc]_vars

\* Finalize verifies before it publishes, and mismatched bytes are never published:
\* the object of a published share is the one the row declares.  An upload that was started before the
\* finalize may end after it, and writes or deletes the published object.
PublishedObjectIntact ==
    \A s \in Share :
        (rows[s].state = "published" /\ s \notin due)
        => objects[<<s, rows[s].key>>] = rows[s].sha

\* Published, reserved and staged bytes stay within the quota of the account,
\* through replacements and abandoned updates.
QuotaHeld == UsedBytes <= AccountBytes

\* A revoked, expired or deleted share never comes back, whatever finalize or
\* sweep was waiting when it ended.
EndedStaysEnded ==
    [][\A s \in Share : rows[s].state \in Terminal => rows'[s].state \in Terminal]_vars

\* A reservation whose upload window closed is given up by the alarm.
ReservationEnds ==
    \A s \in Share :
        (rows[s].state \in {"reserved", "uploaded"} /\ <<s, 0>> \in lapsed)
        ~> rows[s].state \in Terminal

\* So is a staged update, whose bytes count against the quota until then.
StagedUpdateEnds ==
    \A s \in Share, n \in 1 .. MaxUpdates :
        (rows[s].pkey = n /\ <<s, n>> \in stale) ~> rows[s].pkey # n

=============================================================================
