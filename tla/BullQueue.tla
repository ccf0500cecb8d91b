-------------------------------- MODULE BullQueue --------------------------------
(***************************************************************************)
(* One BullMQ job, and the queue wrapper bullmqQueue.ts puts around it.    *)
(* BullMQ itself is a library: its job states, its per-job lock, the       *)
(* attempt counter and the stalled-job check are modelled from how the     *)
(* wrapper and the worker use them.                                        *)
(*                                                                         *)
(* "waiting" covers BullMQ's delayed, waiting and prioritized states: a    *)
(* job may be delivered once its runAt has passed, at any later moment, so *)
(* a retry backoff is one of the delays the model already allows.          *)
(* owner is the worker slot that holds the job's lock.                     *)
(***************************************************************************)
EXTENDS Naturals

NoData  == "none"
NoOwner == "nobody"

MaxStalledCount == 1      \* BullMQ's default, which worker.ts does not change

NoBullJob == [state |-> "absent", payload |-> NoData, runAt |-> 0, attempts |-> 0,
              attemptsMade |-> 0, stalls |-> 0, owner |-> NoOwner]

BullJob(Payload, Time, Slot) ==
  [state : {"absent", "waiting", "active", "completed", "failed"},
   payload : Payload \cup {NoData}, runAt : Time, attempts : Nat,
   attemptsMade : Nat, stalls : Nat, owner : Slot \cup {NoOwner}]

-----------------------------------------------------------------------------
\* job.remove(): refused while a worker holds the job's lock; every caller
\* swallows the refusal.
Removed(b) == IF b.owner = NoOwner THEN NoBullJob ELSE b

\* queue.add(): BullMQ ignores an add whose id exists.
Added(b, payload, runAt, attempts) ==
  IF b.state = "absent"
    THEN [NoBullJob EXCEPT !.state = "waiting", !.payload = payload, !.runAt = runAt,
                           !.attempts = attempts]
    ELSE b

\* enqueue() awaits getJob, getState, remove and add one after the other, and
\* its caller then awaits markQueued: "mark".
ENQUEUE_STEPS == {"getJob", "getState", "purge", "add"}

\* The await that follows step, given the job b that step finds.  A job that
\* vanished since getJob has state "unknown", which counts as not finished.
EnqueueNext(step, b) ==
  CASE step = "getJob"   -> IF b.state = "absent" THEN "add" ELSE "getState"
    [] step = "getState" -> IF b.state \in {"completed", "failed"} THEN "purge" ELSE "mark"
    [] step = "purge"    -> "add"
    [] step = "add"      -> "mark"

\* getState() and remove() have their errors swallowed: the state is "unknown"
\* then, and add comes after a remove that may have removed nothing.
SWALLOWED == {"getState", "purge"}
AfterSwallowed(step) == IF step = "getState" THEN "mark" ELSE "add"

EnqueueEffect(step, b, payload, runAt, attempts) ==
  CASE step = "purge" -> Removed(b)
    [] step = "add"   -> Added(b, payload, runAt, attempts)
    [] OTHER          -> b

-----------------------------------------------------------------------------
Deliverable(b, now) == b.state = "waiting" /\ b.runAt <= now
Delivered(b, slot)  == [b EXCEPT !.state = "active", !.owner = slot]

\* The processor returned: BullMQ moves the job to completed, provided the
\* worker still holds its lock.
Completed(b, slot) ==
  IF b.owner = slot THEN [b EXCEPT !.state = "completed", !.owner = NoOwner] ELSE b

\* The processor threw: another attempt if any is left, else failed.
CanRetry(b) == b.attemptsMade + 1 < b.attempts
Failed(b, slot) ==
  IF b.owner = slot
    THEN [b EXCEPT !.state = IF CanRetry(b) THEN "waiting" ELSE "failed",
                   !.attemptsMade = @ + 1, !.owner = NoOwner]
    ELSE b

Unlocked(b) == [b EXCEPT !.owner = NoOwner]

\* The stalled-job check: an active job nobody holds goes back to waiting, or
\* to failed when it has already stalled MaxStalledCount times.
IsStalled(b) == b.state = "active" /\ b.owner = NoOwner
Recovered(b) ==
  [b EXCEPT !.state = IF b.stalls < MaxStalledCount THEN "waiting" ELSE "failed",
            !.stalls = @ + 1]

\* removeOnComplete and removeOnFail keep a bounded number of finished jobs.
Finished(b) == b.state \in {"completed", "failed"}
=============================================================================
