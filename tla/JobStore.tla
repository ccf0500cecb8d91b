-------------------------------- MODULE JobStore --------------------------------
(***************************************************************************)
(* The Mongo storage adapter of bullmq-lazy-scheduler: the document kept   *)
(* for one jobId and the atomic findOneAndUpdate transitions on it.        *)
(*                                                                         *)
(* Each transition maps the document to the document it leaves: itself     *)
(* when the filter matches nothing (the adapter then returns null).  Only  *)
(* markRunning's caller looks at that null, so only its filter has a name. *)
(*                                                                         *)
(* bullJobId is the version part of `ls-<jobId>-v-<version>`, 0 when the   *)
(* field is unset: the jobId part is always the document's own jobId.      *)
(* lockedAt is 0 when null, ttlMs 0 when unset.  name, backoff, createdBy, *)
(* metadata and the timestamps nothing reads back are abstracted away.     *)
(***************************************************************************)
EXTENDS Naturals

ACTIVE_STATUSES   == {"pending", "queued", "failed_retryable"}
TERMINAL_STATUSES == {"completed", "failed", "dead_letter", "cancelled", "expired"}
SchedulerJobStatus == ACTIVE_STATUSES \cup TERMINAL_STATUSES \cup {"running"}

NoPayload == "none"

\* No document has this jobId yet.
NoJob == [status |-> "absent", version |-> 0, payload |-> NoPayload, runAt |-> 0,
          ttlMs |-> 0, attempts |-> 0, attemptsMade |-> 0, bullJobId |-> 0, lockedAt |-> 0]

SchedulerJobRecord(Payload, Time) ==
  [status : SchedulerJobStatus \cup {"absent"}, version : Time,
   payload : Payload \cup {NoPayload}, runAt : Time, ttlMs : Nat, attempts : Nat,
   attemptsMade : Nat, bullJobId : Time, lockedAt : Time]

-----------------------------------------------------------------------------
\* Slip: the version only set on insert, so every reschedule keeps it.
UpsertScheduledJob_KeepsVersion(r, version, payload, input) ==
  [r EXCEPT !.status = "pending", !.version = IF r.status = "absent" THEN version ELSE @,
            !.payload = payload, !.runAt = input.runAt, !.ttlMs = input.ttlMs,
            !.attempts = input.attempts, !.attemptsMade = 0, !.lockedAt = 0]

\* Creates or overwrites the document.  Every field is reset except bullJobId,
\* which keeps pointing at the BullMQ job of the schedule it replaces.
UpsertScheduledJob(r, version, payload, input) ==
  [r EXCEPT !.status = "pending", !.version = version, !.payload = payload,
            !.runAt = input.runAt, !.ttlMs = input.ttlMs, !.attempts = input.attempts,
            !.attemptsMade = 0, !.lockedAt = 0]

\* { jobId, status: { $nin: TERMINAL_STATUSES } }: neither the version nor
\* "running" is looked at.
NotTerminal(r) == r.status # "absent" /\ r.status \notin TERMINAL_STATUSES

\* Slip: no filter on the status.
MarkQueued_Reopens(r, bullJobId) == [r EXCEPT !.status = "queued", !.bullJobId = bullJobId]

MarkQueued(r, bullJobId) ==
  IF NotTerminal(r) THEN [r EXCEPT !.status = "queued", !.bullJobId = bullJobId] ELSE r

\* Slip: a delivery that overtakes markQueued is refused.
CanMarkRunning_NotPending(r, version) ==
  r.version = version /\ r.status \in {"queued", "failed_retryable"} /\ r.attemptsMade < r.attempts

\* Slip: without the $expr that compares attemptsMade with attempts.
CanMarkRunning_NoLimit(r, version) == r.version = version /\ r.status \in ACTIVE_STATUSES

CanMarkRunning(r, version) ==
  r.version = version /\ r.status \in ACTIVE_STATUSES /\ r.attemptsMade < r.attempts

\* Slip: BullMQ's name of the state instead of the adapter's.
MarkRunning_Active(r, version, now) ==
  IF CanMarkRunning(r, version)
    THEN [r EXCEPT !.status = "active", !.lockedAt = now, !.attemptsMade = @ + 1]
    ELSE r

MarkRunning(r, version, now) ==
  IF CanMarkRunning(r, version)
    THEN [r EXCEPT !.status = "running", !.lockedAt = now, !.attemptsMade = @ + 1]
    ELSE r

\* Slip: the version is compared, the status is not.
MarkFinished_AnyStatus(r, version, status) ==
  IF r.version = version THEN [r EXCEPT !.status = status, !.lockedAt = 0] ELSE r

\* markCompleted, markFailed and markDeadLetter share filter and update; only
\* the status they write differs.
MarkFinished(r, version, status) ==
  IF r.version = version /\ r.status = "running"
    THEN [r EXCEPT !.status = status, !.lockedAt = 0]
    ELSE r

\* markCancelled and markExpired.
MarkClosed(r, status) ==
  IF NotTerminal(r) THEN [r EXCEPT !.status = status, !.lockedAt = 0] ELSE r

\* Slip: a schedule that never reached the queue is not looked for.
IsReconcileCandidate_NotPending(r, staleRunningAfterMs, now) ==
  \/ r.status \in {"queued", "failed_retryable"}
  \/ r.status = "running" /\ r.lockedAt + staleRunningAfterMs <= now

IsReconcileCandidate(r, staleRunningAfterMs, now) ==
  \/ r.status \in ACTIVE_STATUSES
  \/ r.status = "running" /\ r.lockedAt + staleRunningAfterMs <= now

IsExpired(r, now) == r.ttlMs > 0 /\ r.runAt + r.ttlMs < now
=============================================================================
