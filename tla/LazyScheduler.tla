------------------------------ MODULE LazyScheduler ------------------------------
(***************************************************************************)
(* bullmq-lazy-scheduler at work: schedule() and cancel() calls, the       *)
(* BullMQ workers and the startup reconciliation of several scheduler      *)
(* processes, over one Mongo collection (store) and one BullMQ queue       *)
(* (bull).  Every action is what happens between two awaits of the code,   *)
(* so everything the event loops and the processes can interleave is       *)
(* interleaved.                                                            *)
(*                                                                         *)
(* A node is one process; a slot is one unit of a node's worker            *)
(* concurrency; a call is one schedule() or cancel() invocation, made by   *)
(* an HTTP request or by a handler, and its identifier stands for the      *)
(* payload it schedules.  Time is in abstract ticks of Date.now(), shared  *)
(* by all processes.                                                       *)
(***************************************************************************)
EXTENDS JobStore, BullQueue, FiniteSets

CONSTANTS
  JobIds,                 \* logical job ids
  Calls,                  \* invocations of schedule() and cancel()
  Nodes, Slots, Home,     \* processes, their worker slots, the node of each slot
  Handles,                \* the job ids whose handler each node has registered
  Requests,               \* the arguments the calls may carry
  StaleAfter,             \* staleRunningAfterMs
  BatchSize,              \* reconcileBatchSize
  LocksEnabled,           \* locks.enabled
  DeadLetterOnExhausted,  \* deadLetterOnExhausted
  UniqueStamps,           \* no two upserts happen in the same tick
  Horizon, MaxTime,       \* bounds of the clock
  MaxCrashes, MaxFaults, MaxStalls   \* bounds of what may go wrong

Times == 0 .. MaxTime

Request == [kind : {"schedule", "cancel"}, job : JobIds, runAt : Times, ttlMs : Nat,
            attempts : Nat, replaceExisting : BOOLEAN]

ASSUME BoundsAssumption ==
  /\ {Horizon, MaxTime, StaleAfter, BatchSize, MaxCrashes, MaxFaults, MaxStalls} \subseteq Nat
  /\ 1 <= Horizon /\ Horizon <= MaxTime
ASSUME ConfigAssumption ==
  {LocksEnabled, DeadLetterOnExhausted, UniqueStamps} \subseteq BOOLEAN
ASSUME TopologyAssumption ==
  /\ Home \in [Slots -> Nodes]
  /\ Handles \in [Nodes -> SUBSET JobIds]
  /\ Requests \subseteq Request
  /\ Requests # {} /\ JobIds # {} /\ Nodes # {}
  /\ NoOwner \notin Slots /\ "free" \notin Nodes
  /\ NoPayload \notin Calls

VARIABLES
  now,      \* the clock
  store,    \* store[j]: the Mongo document of job id j
  bull,     \* bull[j][v]: the BullMQ job with id ls-<j>-v-<v>
  call,     \* call[c]: progress of invocation c
  slot,     \* slot[s]: the delivery worker slot s is processing
  recon,    \* recon[n]: process n, and its bootstrap's reconciliation
  lock,     \* holder of the Redis reconcile lock
  spent     \* how many crashes, faults and stalls have happened

vars == <<now, store, bull, call, slot, recon, lock, spent>>

-----------------------------------------------------------------------------
CallPcs  == {"idle", "remove", "upsert", "mark", "cancel", "done"} \cup ENQUEUE_STEPS
SlotPcs  == {"idle", "claim", "run", "caught", "ack", "nack"}
ReconPcs == {"down", "lock", "find", "loop", "mark", "release", "abort", "served"}
              \cup ENQUEUE_STEPS

Job0     == CHOOSE j \in JobIds : TRUE
Request0 == CHOOSE r \in Requests : TRUE
Node0    == CHOOSE n \in Nodes : TRUE

\* seen: the version in existing.bullJobId; version: the one upsert returned.
CallAt(pc) == [pc |-> pc, node |-> Node0, req |-> Request0, seen |-> 0, version |-> 0]
\* retryable: what job.attemptsMade and job.opts.attempts say at delivery.
IdleSlot   == [pc |-> "idle", job |-> Job0, version |-> 0, payload |-> NoData,
               retryable |-> FALSE]
\* todo: candidates not yet visited; job: the one being visited; snap: their
\* documents as find() returned them.
ReconAt(pc) == [pc |-> pc, todo |-> {}, job |-> Job0, snap |-> [j \in JobIds |-> NoJob]]

Call  == [pc : CallPcs, node : Nodes, req : Requests, seen : Times, version : Times]
Slot  == [pc : SlotPcs, job : JobIds, version : Times, payload : Calls \cup {NoData},
          retryable : BOOLEAN]
Recon == [pc : ReconPcs, todo : SUBSET JobIds, job : JobIds,
          snap : [JobIds -> SchedulerJobRecord(Calls, Times)]]
Spent == [crashes : 0 .. MaxCrashes, faults : 0 .. MaxFaults, stalls : 0 .. MaxStalls]

Up(n) == recon[n].pc # "down"
Working(s, j, v) == slot[s].pc # "idle" /\ slot[s].job = j /\ slot[s].version = v

Init ==
  /\ now = 1
  /\ store = [j \in JobIds |-> NoJob]
  /\ bull = [j \in JobIds |-> [v \in Times |-> NoBullJob]]
  /\ call = [c \in Calls |-> CallAt("idle")]
  /\ slot = [s \in Slots |-> IdleSlot]
  /\ recon = [n \in Nodes |-> ReconAt("down")]
  /\ lock = "free"
  /\ spent = [crashes |-> 0, faults |-> 0, stalls |-> 0]

\* One of the bounded failures of an awaited Mongo or Redis command.
Fault == /\ spent.faults < MaxFaults
         /\ spent' = [spent EXCEPT !.faults = @ + 1]

-----------------------------------------------------------------------------
(* schedule() and cancel()                                                 *)

\* The HTTP server listens once bootstrap is over; handlers call the scheduler
\* whenever they run.  A call need not be awaited by its handler.
CanCall(n) == \/ recon[n].pc = "served"
              \/ \E s \in Slots : Home[s] = n /\ slot[s].pc = "run"

\* Both begin by reading the document.  cancel(), and schedule() unless
\* replaceExisting is false, go on to remove the BullMQ job it points at.
\* schedule() throws UnknownJobError where the handler is not registered.
BeginSchedule(c) ==
  /\ call[c].pc = "idle"
  /\ \E n \in Nodes, r \in Requests :
       /\ CanCall(n) /\ r.kind = "schedule" /\ r.job \in Handles[n]
       /\ LET seen == IF r.replaceExisting THEN store[r.job].bullJobId ELSE 0 IN
          call' = [call EXCEPT ![c] =
                     [pc |-> IF seen = 0 THEN "upsert" ELSE "remove",
                      node |-> n, req |-> r, seen |-> seen, version |-> 0]]
  /\ UNCHANGED <<now, store, bull, slot, recon, lock, spent>>

BeginCancel(c) ==
  /\ call[c].pc = "idle"
  /\ \E n \in Nodes, r \in Requests :
       /\ CanCall(n) /\ r.kind = "cancel"
       /\ LET seen == store[r.job].bullJobId IN
          call' = [call EXCEPT ![c] =
                     [pc |-> IF seen = 0 THEN "cancel" ELSE "remove",
                      node |-> n, req |-> r, seen |-> seen, version |-> 0]]
  /\ UNCHANGED <<now, store, bull, slot, recon, lock, spent>>

\* A failing remove is caught (.catch(() => false)): it only removes nothing.
CallRemove(c) ==
  LET k == call[c] IN
  /\ k.pc = "remove"
  /\ call' = [call EXCEPT ![c].seen = 0,
                          ![c].pc = IF k.req.kind = "cancel" THEN "cancel" ELSE "upsert"]
  /\ \/ /\ bull' = [bull EXCEPT ![k.req.job][k.seen] = Removed(@)]
        /\ UNCHANGED spent
     \/ Fault /\ UNCHANGED bull
  /\ UNCHANGED <<now, store, slot, recon, lock>>

\* The version is Date.now().
CallUpsert(c) ==
  LET k == call[c] IN
  /\ k.pc = "upsert"
  /\ now < MaxTime
  /\ store' = [store EXCEPT ![k.req.job] = UpsertScheduledJob(@, now, c, k.req)]
  /\ call' = [call EXCEPT ![c].pc = "getJob", ![c].version = now]
  /\ now' = IF UniqueStamps THEN now + 1 ELSE now
  /\ UNCHANGED <<bull, slot, recon, lock, spent>>

CallEnqueue(c) ==
  LET k == call[c] IN
  /\ k.pc \in ENQUEUE_STEPS
  /\ bull' = [bull EXCEPT ![k.req.job][k.version] =
                EnqueueEffect(k.pc, @, c, k.req.runAt, k.req.attempts)]
  /\ call' = [call EXCEPT ![c].pc = EnqueueNext(k.pc, bull[k.req.job][k.version])]
  /\ UNCHANGED <<now, store, slot, recon, lock, spent>>

CallMarkQueued(c) ==
  LET k == call[c] IN
  /\ k.pc = "mark"
  /\ store' = [store EXCEPT ![k.req.job] = MarkQueued(@, k.version)]
  /\ call' = [call EXCEPT ![c] = CallAt("done")]
  /\ UNCHANGED <<now, bull, slot, recon, lock, spent>>

CallMarkCancelled(c) ==
  LET k == call[c] IN
  /\ k.pc = "cancel"
  /\ store' = [store EXCEPT ![k.req.job] = MarkClosed(@, "cancelled")]
  /\ call' = [call EXCEPT ![c] = CallAt("done")]
  /\ UNCHANGED <<now, bull, slot, recon, lock, spent>>

CallSwallows(c) ==
  /\ call[c].pc \in SWALLOWED
  /\ call' = [call EXCEPT ![c].pc = AfterSwallowed(@)]
  /\ Fault
  /\ UNCHANGED <<now, store, bull, slot, recon, lock>>

\* Any other failing command rejects the call.  A command that took effect
\* before its answer was lost is this error one step later.
CallError(c) ==
  /\ call[c].pc \in {"upsert", "mark", "cancel"} \cup (ENQUEUE_STEPS \ SWALLOWED)
  /\ call' = [call EXCEPT ![c] = CallAt("done")]
  /\ Fault
  /\ UNCHANGED <<now, store, bull, slot, recon, lock>>

CallStep(c) == CallRemove(c) \/ CallUpsert(c) \/ CallEnqueue(c) \/ CallMarkQueued(c)
                 \/ CallMarkCancelled(c)
-----------------------------------------------------------------------------
(* The worker                                                              *)

\* The job object the processor gets is a copy taken at delivery.
Deliver(s) ==
  /\ Up(Home[s]) /\ slot[s].pc = "idle"
  /\ \E j \in JobIds, v \in Times :
       LET b == bull[j][v] IN
       /\ Deliverable(b, now)
       /\ bull' = [bull EXCEPT ![j][v] = Delivered(@, s)]
       /\ slot' = [slot EXCEPT ![s] = [pc |-> "claim", job |-> j, version |-> v,
                                       payload |-> b.payload, retryable |-> CanRetry(b)]]
  /\ UNCHANGED <<now, store, call, recon, lock, spent>>

\* Slot s goes to pc and nothing but the store may change with it.
SlotTo(s, pc) ==
  /\ slot' = [slot EXCEPT ![s].pc = pc]
  /\ UNCHANGED <<now, bull, call, recon, lock>>

\* Slip: a job without a handler is skipped, not refused.
RejectUnknown_Skips(s) ==
  /\ slot[s].pc = "claim" /\ slot[s].job \notin Handles[Home[s]]
  /\ SlotTo(s, "ack")
  /\ UNCHANGED <<store, spent>>

RejectUnknown(s) ==
  /\ slot[s].pc = "claim" /\ slot[s].job \notin Handles[Home[s]]
  /\ SlotTo(s, "nack")
  /\ UNCHANGED <<store, spent>>

\* What a status update of slot s's job, which may fail, leaves in the store:
\* a command that fails may or may not have taken effect.
Claim(s) == /\ slot[s].pc = "claim" /\ slot[s].job \in Handles[Home[s]]
StoreClaim(s) ==
  store' = [store EXCEPT ![slot[s].job] = MarkRunning(@, slot[s].version, now)]
StoreFinish(s, status) ==
  store' = [store EXCEPT ![slot[s].job] = MarkFinished(@, slot[s].version, status)]

StartRun(s) ==
  /\ Claim(s) /\ CanMarkRunning(store[slot[s].job], slot[s].version)
  /\ StoreClaim(s)
  /\ SlotTo(s, "run")
  /\ UNCHANGED spent

\* { skipped: true, reason: 'stale_or_inactive' } completes the BullMQ job.
SkipStale(s) ==
  /\ Claim(s) /\ ~CanMarkRunning(store[slot[s].job], slot[s].version)
  /\ SlotTo(s, "ack")
  /\ UNCHANGED <<store, spent>>

ClaimError(s) ==
  /\ Claim(s)
  /\ StoreClaim(s) \/ UNCHANGED store
  /\ SlotTo(s, "nack")
  /\ Fault

CompleteRun(s) ==
  /\ slot[s].pc = "run"
  /\ StoreFinish(s, "completed")
  /\ SlotTo(s, "ack")
  /\ UNCHANGED spent

\* The handler throws; markCompleted is awaited inside the same try.
ThrowRun(s) ==
  /\ slot[s].pc = "run"
  /\ SlotTo(s, "caught")
  /\ UNCHANGED <<store, spent>>

CompleteError(s) ==
  /\ slot[s].pc = "run"
  /\ StoreFinish(s, "completed") \/ UNCHANGED store
  /\ SlotTo(s, "caught")
  /\ Fault

FailureStatus(s) ==
  IF slot[s].retryable THEN "failed_retryable"
  ELSE IF DeadLetterOnExhausted THEN "dead_letter" ELSE "failed"

RecordFailure(s) ==
  /\ slot[s].pc = "caught"
  /\ StoreFinish(s, FailureStatus(s))
  /\ SlotTo(s, "nack")
  /\ UNCHANGED spent

FailError(s) ==
  /\ slot[s].pc = "caught"
  /\ StoreFinish(s, FailureStatus(s)) \/ UNCHANGED store
  /\ SlotTo(s, "nack")
  /\ Fault

\* BullMQ records the processor's outcome, if the slot still holds the lock.
Settle(s) ==
  LET d == slot[s] IN
  /\ d.pc \in {"ack", "nack"}
  /\ bull' = [bull EXCEPT ![d.job][d.version] =
                IF d.pc = "ack" THEN Completed(@, s) ELSE Failed(@, s)]
  /\ slot' = [slot EXCEPT ![s] = IdleSlot]
  /\ UNCHANGED <<now, store, call, recon, lock, spent>>

SlotStep(s) == RejectUnknown(s) \/ StartRun(s) \/ SkipStale(s) \/ CompleteRun(s)
                 \/ ThrowRun(s) \/ RecordFailure(s) \/ Settle(s)
-----------------------------------------------------------------------------
(* BullMQ's own housekeeping                                               *)

\* The lock of a delivery that nobody works on any more runs out.
BullLockExpires ==
  /\ \E j \in JobIds, v \in Times :
       /\ bull[j][v].owner # NoOwner /\ ~Working(bull[j][v].owner, j, v)
       /\ bull' = [bull EXCEPT ![j][v] = Unlocked(@)]
  /\ UNCHANGED <<now, store, call, slot, recon, lock, spent>>

\* A blocked event loop or a Redis outage lets a live worker's lock run out.
LoseLock(s) ==
  LET d == slot[s] IN
  /\ d.pc # "idle" /\ bull[d.job][d.version].owner = s
  /\ spent.stalls < MaxStalls
  /\ bull' = [bull EXCEPT ![d.job][d.version] = Unlocked(@)]
  /\ spent' = [spent EXCEPT !.stalls = @ + 1]
  /\ UNCHANGED <<now, store, call, slot, recon, lock>>

StalledCheck ==
  /\ \E n \in Nodes : Up(n)
  /\ \E j \in JobIds, v \in Times :
       /\ IsStalled(bull[j][v])
       /\ bull' = [bull EXCEPT ![j][v] = Recovered(@)]
  /\ UNCHANGED <<now, store, call, slot, recon, lock, spent>>

Evict ==
  /\ \E j \in JobIds, v \in Times :
       /\ Finished(bull[j][v])
       /\ bull' = [bull EXCEPT ![j][v] = NoBullJob]
  /\ UNCHANGED <<now, store, call, slot, recon, lock, spent>>

-----------------------------------------------------------------------------
(* Startup reconciliation                                                  *)

ReconTo(n, pc) == recon' = [recon EXCEPT ![n].pc = pc]

\* The process starts: connectDB, loadAll, scheduler.start(), and then
\* scheduler.reconcile() with the worker already running.
Boot(n) ==
  /\ recon[n].pc = "down"
  /\ ReconTo(n, "lock")
  /\ UNCHANGED <<now, store, bull, call, slot, lock, spent>>

\* SET NX PX: a lock left behind by a dead process counts as taken.
AcquireLock(n) ==
  /\ recon[n].pc = "lock"
  /\ IF LocksEnabled THEN lock = "free" /\ lock' = n ELSE UNCHANGED lock
  /\ ReconTo(n, "find")
  /\ UNCHANGED <<now, store, bull, call, slot, spent>>

SkipReconcile(n) ==
  /\ recon[n].pc = "lock" /\ LocksEnabled /\ lock # "free"
  /\ ReconTo(n, "served")
  /\ UNCHANGED <<now, store, bull, call, slot, lock, spent>>

\* .sort({ runAt: 1 }).limit(batchSize)
IsBatch(batch, candidates) ==
  /\ Cardinality(batch) = IF Cardinality(candidates) < BatchSize
                            THEN Cardinality(candidates) ELSE BatchSize
  /\ \A j \in batch, k \in candidates \ batch : store[j].runAt <= store[k].runAt

FindCandidates(n) ==
  /\ recon[n].pc = "find"
  /\ LET candidates == {j \in JobIds : IsReconcileCandidate(store[j], StaleAfter, now)} IN
     \E batch \in SUBSET candidates :
       /\ IsBatch(batch, candidates)
       /\ recon' = [recon EXCEPT ![n] =
                      [pc |-> "loop", todo |-> batch, job |-> Job0,
                       snap |-> [j \in JobIds |-> IF j \in batch THEN store[j] ELSE NoJob]]]
  /\ UNCHANGED <<now, store, bull, call, slot, lock, spent>>

\* j is the next record of the batch, in runAt order.
IsNext(n, j) ==
  /\ recon[n].pc = "loop" /\ j \in recon[n].todo
  /\ \A k \in recon[n].todo : recon[n].snap[j].runAt <= recon[n].snap[k].runAt

\* Slip: overdue as soon as its time has come.
ExpireCandidate_Due(n) ==
  /\ \E j \in JobIds :
       /\ IsNext(n, j) /\ recon[n].snap[j].ttlMs > 0 /\ recon[n].snap[j].runAt < now
       /\ store' = [store EXCEPT ![j] = MarkClosed(@, "expired")]
       /\ recon' = [recon EXCEPT ![n].todo = @ \ {j}]
  /\ UNCHANGED <<now, bull, call, slot, lock, spent>>

ExpireCandidate(n) ==
  /\ \E j \in JobIds :
       /\ IsNext(n, j) /\ IsExpired(recon[n].snap[j], now)
       /\ store' = [store EXCEPT ![j] = MarkClosed(@, "expired")]
       /\ recon' = [recon EXCEPT ![n].todo = @ \ {j}]
  /\ UNCHANGED <<now, bull, call, slot, lock, spent>>

VisitCandidate(n) ==
  /\ \E j \in JobIds :
       /\ IsNext(n, j) /\ ~IsExpired(recon[n].snap[j], now)
       /\ recon' = [recon EXCEPT ![n].pc = "getJob", ![n].job = j, ![n].todo = @ \ {j}]
  /\ UNCHANGED <<now, store, bull, call, slot, lock, spent>>

\* Slip: the old record enqueued under the job id of the current version.
ReconEnqueue_CurrentVersion(n) ==
  LET p == recon[n]
      r == p.snap[p.job]
      v == store[p.job].version IN
  /\ p.pc \in ENQUEUE_STEPS
  /\ bull' = [bull EXCEPT ![p.job][v] = EnqueueEffect(p.pc, @, r.payload, r.runAt, r.attempts)]
  /\ ReconTo(n, EnqueueNext(p.pc, bull[p.job][v]))
  /\ UNCHANGED <<now, store, call, slot, lock, spent>>

ReconEnqueue(n) ==
  LET p == recon[n]
      r == p.snap[p.job] IN
  /\ p.pc \in ENQUEUE_STEPS
  /\ bull' = [bull EXCEPT ![p.job][r.version] =
                EnqueueEffect(p.pc, @, r.payload, r.runAt, r.attempts)]
  /\ ReconTo(n, EnqueueNext(p.pc, bull[p.job][r.version]))
  /\ UNCHANGED <<now, store, call, slot, lock, spent>>

ReconMarkQueued(n) ==
  LET p == recon[n] IN
  /\ p.pc = "mark"
  /\ store' = [store EXCEPT ![p.job] = MarkQueued(@, p.snap[p.job].version)]
  /\ ReconTo(n, "loop")
  /\ UNCHANGED <<now, bull, call, slot, lock, spent>>

EndLoop(n) ==
  /\ recon[n].pc = "loop" /\ recon[n].todo = {}
  /\ recon' = [recon EXCEPT ![n] = ReconAt("release")]
  /\ UNCHANGED <<now, store, bull, call, slot, lock, spent>>

\* The process is gone: its slots, its calls and its reconciliation with it.
\* Its BullMQ locks and its Redis lock stay until they run out.
ProcessExit(n) ==
  /\ recon' = [recon EXCEPT ![n] = ReconAt("down")]
  /\ slot' = [s \in Slots |-> IF Home[s] = n THEN IdleSlot ELSE slot[s]]
  /\ call' = [c \in Calls |-> IF call[c].pc # "idle" /\ call[c].node = n
                                THEN CallAt("done") ELSE call[c]]

\* The compare-and-delete of the lock.  A release that fails is only logged.
FreeLock(n) ==
  \/ /\ lock' = IF lock = n THEN "free" ELSE lock
     /\ UNCHANGED spent
  \/ Fault /\ UNCHANGED lock

ReleaseLock(n) ==
  /\ recon[n].pc = "release"
  /\ FreeLock(n)
  /\ recon' = [recon EXCEPT ![n] = ReconAt("served")]
  /\ UNCHANGED <<now, store, bull, call, slot>>

ReconSwallows(n) ==
  /\ recon[n].pc \in SWALLOWED
  /\ ReconTo(n, AfterSwallowed(recon[n].pc))
  /\ Fault
  /\ UNCHANGED <<now, store, bull, call, slot, lock>>

\* Any other failing command ends the loop; the finally block releases the lock
\* and bootstrap's catch then exits the process.
ReconcileError(n) ==
  /\ recon[n].pc \in {"find", "loop", "mark"} \cup (ENQUEUE_STEPS \ SWALLOWED)
  /\ recon' = [recon EXCEPT ![n] = ReconAt("abort")]
  /\ Fault
  /\ UNCHANGED <<now, store, bull, call, slot, lock>>

AbortBootstrap(n) ==
  /\ recon[n].pc = "abort"
  /\ FreeLock(n)
  /\ ProcessExit(n)
  /\ UNCHANGED <<now, store, bull>>

\* The answer to SET is an error: bootstrap exits, and may leave the lock it set.
AcquireError(n) ==
  /\ recon[n].pc = "lock" /\ LocksEnabled
  /\ Fault
  /\ UNCHANGED lock \/ (lock = "free" /\ lock' = n)
  /\ ProcessExit(n)
  /\ UNCHANGED <<now, store, bull>>

ReconStep(n) == AcquireLock(n) \/ SkipReconcile(n) \/ FindCandidates(n) \/ ExpireCandidate(n)
                  \/ VisitCandidate(n) \/ ReconEnqueue(n) \/ ReconMarkQueued(n) \/ EndLoop(n)
                  \/ ReleaseLock(n) \/ AbortBootstrap(n)

Crash(n) ==
  /\ Up(n) /\ spent.crashes < MaxCrashes
  /\ spent' = [spent EXCEPT !.crashes = @ + 1]
  /\ ProcessExit(n)
  /\ UNCHANGED <<now, store, bull, lock>>

LockExpire ==
  /\ lock # "free"
  /\ lock' = "free"
  /\ UNCHANGED <<now, store, bull, call, slot, recon, spent>>

-----------------------------------------------------------------------------
Tick ==
  /\ now < Horizon
  /\ now' = now + 1
  /\ UNCHANGED <<store, bull, call, slot, recon, lock, spent>>

\* Nothing is in progress and nothing is on its way.
Quiet ==
  /\ \A c \in Calls : call[c].pc \in {"idle", "done"}
  /\ \A s \in Slots : slot[s].pc = "idle"
  /\ \A n \in Nodes : recon[n].pc \in {"down", "served"}
  /\ \A j \in JobIds, v \in Times : bull[j][v].state # "active"

\* Every invocation was made and every process is serving: an idle system.
AllQuiet ==
  /\ Quiet
  /\ \A c \in Calls : call[c].pc = "done"
  /\ \A n \in Nodes : Up(n)
  /\ \A j \in JobIds, v \in Times : ~Deliverable(bull[j][v], now)
  /\ now >= Horizon
  /\ UNCHANGED vars

Next ==
  \/ \E c \in Calls : BeginSchedule(c) \/ BeginCancel(c) \/ CallStep(c) \/ CallError(c)
                        \/ CallSwallows(c)
  \/ \E s \in Slots : Deliver(s) \/ SlotStep(s) \/ ClaimError(s) \/ CompleteError(s)
                        \/ FailError(s) \/ LoseLock(s)
  \/ \E n \in Nodes : Boot(n) \/ ReconStep(n) \/ ReconcileError(n) \/ ReconSwallows(n)
                        \/ AcquireError(n) \/ Crash(n)
  \/ BullLockExpires \/ StalledCheck \/ Evict \/ LockExpire \/ Tick
  \/ AllQuiet

\* Awaited commands are answered, handlers return, an idle worker fetches a due
\* job, systemd restarts a process that died, Redis keys run out, time passes.
Fairness ==
  /\ \A c \in Calls : WF_vars(CallStep(c))
  /\ \A s \in Slots : WF_vars(SlotStep(s))
  /\ WF_vars(\E s \in Slots : Deliver(s))
  /\ \A n \in Nodes : WF_vars(Boot(n)) /\ WF_vars(ReconStep(n))
  /\ WF_vars(BullLockExpires) /\ WF_vars(StalledCheck) /\ WF_vars(LockExpire)
  /\ WF_vars(Tick)

Spec == Init /\ [][Next]_vars
FairSpec == Spec /\ Fairness
=============================================================================
