---------------------------- MODULE LazySchedulerProofs ----------------------------
(***************************************************************************)
(* Theorems about LazyScheduler, for every number of job ids, calls,       *)
(* nodes and slots, every request and every bound.                         *)
(***************************************************************************)
EXTENDS LazySchedulerProps, TLAPS

Doc == SchedulerJobRecord(Calls, Times)
BJob == BullJob(Calls, Times, Slots)

\* The bounds make the first ticks times, and times natural numbers.
LEMMA TimesFacts == 0 \in Times /\ 1 \in Times /\ Times \subseteq Nat
BY BoundsAssumption DEF Times

(* The store's transitions keep a document a document.                      *)
LEMMA StoreTransitionsType ==
  ASSUME NEW r \in Doc, NEW v \in Times, NEW t \in Times, NEW c \in Calls, NEW q \in Request,
         NEW st \in SchedulerJobStatus
  PROVE  /\ UpsertScheduledJob(r, v, c, q) \in Doc
         /\ MarkQueued(r, v) \in Doc
         /\ MarkRunning(r, v, t) \in Doc
         /\ MarkFinished(r, v, st) \in Doc
         /\ MarkClosed(r, st) \in Doc
<1> USE DEF Doc, SchedulerJobRecord, SchedulerJobStatus, ACTIVE_STATUSES, TERMINAL_STATUSES
<1>1. UpsertScheduledJob(r, v, c, q) \in Doc
  BY TimesFacts DEF UpsertScheduledJob, Request
<1>2. MarkQueued(r, v) \in Doc
  BY DEF MarkQueued
<1>3. MarkRunning(r, v, t) \in Doc
  <2>1. r.attemptsMade + 1 \in Nat
    BY SMT
  <2>2. [r EXCEPT !.status = "running", !.lockedAt = t, !.attemptsMade = r.attemptsMade + 1] \in Doc
    BY <2>1
  <2>3. QED
    BY <2>2 DEF MarkRunning
<1>4. MarkFinished(r, v, st) \in Doc
  BY TimesFacts DEF MarkFinished
<1>5. MarkClosed(r, st) \in Doc
  BY TimesFacts DEF MarkClosed
<1>6. QED
  BY <1>1, <1>2, <1>3, <1>4, <1>5

(* So do BullMQ's transitions of a delivered job, and of one nobody holds.  *)
LEMMA SettledType ==
  ASSUME NEW b \in BJob, NEW s \in Slots
  PROVE  /\ Delivered(b, s) \in BJob
         /\ Completed(b, s) \in BJob
         /\ Failed(b, s) \in BJob
<1> USE DEF BJob, BullJob
<1>1. Delivered(b, s) \in BJob /\ Completed(b, s) \in BJob
  BY DEF Delivered, Completed
<1>2. b.attemptsMade + 1 \in Nat
  BY SMT
<1>3. \A x \in {"waiting", "failed"} :
        [b EXCEPT !.state = x, !.attemptsMade = b.attemptsMade + 1, !.owner = NoOwner] \in BJob
  BY <1>2
<1>4. QED
  BY <1>1, <1>3 DEF Failed

\* A job that loses its lock, or is recovered from a stall, stays a BullMQ job.
LEMMA HousekeepingType ==
  ASSUME NEW b \in BJob
  PROVE  /\ NoBullJob \in BJob
         /\ Unlocked(b) \in BJob
         /\ Recovered(b) \in BJob
<1> USE DEF BJob, BullJob
<1>1. NoBullJob \in BJob /\ Unlocked(b) \in BJob
  BY TimesFacts DEF NoBullJob, Unlocked
<1>2. b.stalls + 1 \in Nat
  BY SMT
<1>3. \A x \in {"waiting", "failed"} : [b EXCEPT !.state = x, !.stalls = b.stalls + 1] \in BJob
  BY <1>2
<1>4. QED
  BY <1>1, <1>3 DEF Recovered

(* The enqueue steps move between known pcs and keep the BullMQ job one.    *)
LEMMA EnqueueType ==
  ASSUME NEW b \in BJob, NEW p \in Calls \cup {NoData}, NEW t \in Times, NEW a \in Nat,
         NEW step \in ENQUEUE_STEPS
  PROVE  /\ EnqueueNext(step, b) \in (ENQUEUE_STEPS \cup {"mark"}) \ {"getJob"}
         /\ EnqueueEffect(step, b, p, t, a) \in BJob
<1>1. EnqueueNext(step, b) \in (ENQUEUE_STEPS \cup {"mark"}) \ {"getJob"}
  BY DEF EnqueueNext, ENQUEUE_STEPS
<1>2. Removed(b) \in BJob /\ Added(b, p, t, a) \in BJob
  BY HousekeepingType DEF Removed, Added, NoBullJob, BJob, BullJob
<1>3. QED
  BY <1>1, <1>2 DEF EnqueueEffect

-----------------------------------------------------------------------------
(* Type correctness                                                        *)

\* The records of an actor at rest have the type of that actor.
LEMMA RestingTypes ==
  /\ \A pc \in CallPcs : CallAt(pc) \in Call
  /\ \A pc \in ReconPcs : ReconAt(pc) \in Recon
  /\ IdleSlot \in Slot
  /\ NoJob \in Doc
<1>1. Job0 \in JobIds /\ Request0 \in Requests /\ Node0 \in Nodes
  BY TopologyAssumption DEF Job0, Request0, Node0
<1>2. NoJob \in Doc
  BY TimesFacts DEF NoJob, Doc, SchedulerJobRecord
<1>3. QED
  BY <1>1, <1>2, TimesFacts DEF CallAt, Call, ReconAt, Recon, IdleSlot, Slot, SlotPcs, Doc

\* The initial state is well typed.
LEMMA InitType == Init => TypeOK
<1> SUFFICES ASSUME Init PROVE TypeOK
  OBVIOUS
<1>1. now \in Times
  BY TimesFacts DEF Init
<1>2. store \in [JobIds -> SchedulerJobRecord(Calls, Times)]
  BY RestingTypes DEF Init, Doc
<1>3. bull \in [JobIds -> [Times -> BullJob(Calls, Times, Slots)]]
  <2>1. NoBullJob \in BullJob(Calls, Times, Slots)
    BY TimesFacts DEF NoBullJob, BullJob
  <2>2. QED
    BY <2>1 DEF Init
<1>4. call \in [Calls -> Call] /\ slot \in [Slots -> Slot] /\ recon \in [Nodes -> Recon]
  BY RestingTypes DEF Init, CallPcs, ReconPcs
<1>5. lock \in Nodes \cup {"free"} /\ spent \in Spent
  BY BoundsAssumption DEF Init, Spent
<1>6. QED
  BY <1>1, <1>2, <1>3, <1>4, <1>5 DEF TypeOK

(* What the steps of the slots leave in their variables.                    *)
LEMMA SlotToType ==
  ASSUME TypeOK, NEW s \in Slots, NEW pc \in SlotPcs, SlotTo(s, pc)
  PROVE  slot' \in [Slots -> Slot]
BY DEF TypeOK, SlotTo, Slot

\* A fault that is still allowed keeps the fault counters within their bounds.
LEMMA FaultType ==
  ASSUME TypeOK, Fault
  PROVE  spent' \in Spent
BY BoundsAssumption DEF TypeOK, Fault, Spent

\* Replacing one document by a document keeps the store a store.
LEMMA StoreUpdateType ==
  ASSUME TypeOK, NEW j \in JobIds, NEW r \in Doc
  PROVE  [store EXCEPT ![j] = r] \in [JobIds -> SchedulerJobRecord(Calls, Times)]
BY DEF TypeOK, Doc

\* Replacing one BullMQ job by a BullMQ job keeps the queue a queue.
LEMMA BullUpdateType ==
  ASSUME TypeOK, NEW j \in JobIds, NEW v \in Times, NEW b \in BJob
  PROVE  [bull EXCEPT ![j][v] = b] \in [JobIds -> [Times -> BullJob(Calls, Times, Slots)]]
BY DEF TypeOK, BJob

(* A process that exits leaves well-typed variables.                        *)
LEMMA ProcessExitType ==
  ASSUME TypeOK, NEW n \in Nodes, ProcessExit(n)
  PROVE  /\ recon' \in [Nodes -> Recon]
         /\ slot' \in [Slots -> Slot]
         /\ call' \in [Calls -> Call]
<1>1. ReconAt("down") \in Recon /\ CallAt("done") \in Call /\ IdleSlot \in Slot
  BY RestingTypes DEF ReconPcs, CallPcs
<1>2. QED
  BY <1>1 DEF TypeOK, ProcessExit

\* The steps of schedule() and cancel() keep the variables well typed.
LEMMA CallsKeepType ==
  ASSUME TypeOK, NEW c \in Calls,
         BeginSchedule(c) \/ BeginCancel(c) \/ CallStep(c) \/ CallError(c) \/ CallSwallows(c)
  PROVE  TypeOK'
<1> DEFINE k == call[c]
<1>0. /\ k \in Call /\ k.req \in Request /\ store[k.req.job] \in Doc
      /\ CallAt("done") \in Call
  BY RestingTypes, TopologyAssumption DEF TypeOK, Call, CallPcs, Request, Doc
<1>1. ASSUME NEW n \in Nodes, NEW r \in Requests, NEW seen \in Times, NEW pc \in CallPcs,
             call' = [call EXCEPT ![c] = [pc |-> pc, node |-> n, req |-> r, seen |-> seen,
                                          version |-> 0]]
      PROVE  call' \in [Calls -> Call]
  BY <1>1, TimesFacts DEF TypeOK, Call
<1>2. CASE BeginSchedule(c)
  <2>1. PICK n \in Nodes, r \in Requests :
          LET seen == IF r.replaceExisting THEN store[r.job].bullJobId ELSE 0 IN
          call' = [call EXCEPT ![c] = [pc |-> IF seen = 0 THEN "upsert" ELSE "remove",
                                       node |-> n, req |-> r, seen |-> seen, version |-> 0]]
    BY <1>2 DEF BeginSchedule
  <2>2. store[r.job].bullJobId \in Times
    BY TopologyAssumption DEF TypeOK, SchedulerJobRecord, Request
  <2>3. call' \in [Calls -> Call]
    BY <1>1, <2>1, <2>2, TimesFacts DEF CallPcs
  <2>4. QED
    BY <1>2, <2>3 DEF BeginSchedule, TypeOK
<1>3. CASE BeginCancel(c)
  <2>1. PICK n \in Nodes, r \in Requests :
          LET seen == store[r.job].bullJobId IN
          call' = [call EXCEPT ![c] = [pc |-> IF seen = 0 THEN "cancel" ELSE "remove",
                                       node |-> n, req |-> r, seen |-> seen, version |-> 0]]
    BY <1>3 DEF BeginCancel
  <2>2. store[r.job].bullJobId \in Times
    BY TopologyAssumption DEF TypeOK, SchedulerJobRecord, Request
  <2>3. call' \in [Calls -> Call]
    BY <1>1, <2>1, <2>2, TimesFacts DEF CallPcs
  <2>4. QED
    BY <1>3, <2>3 DEF BeginCancel, TypeOK
<1>4. CASE CallRemove(c)
  <2>1. call' \in [Calls -> Call]
    BY <1>4, TimesFacts DEF CallRemove, TypeOK, Call, CallPcs
  <2>2. bull' \in [JobIds -> [Times -> BullJob(Calls, Times, Slots)]]
    <3>1. bull[k.req.job][k.seen] \in BJob
      BY <1>0 DEF TypeOK, BJob, Call, Request
    <3>2. Removed(bull[k.req.job][k.seen]) \in BJob
      BY <3>1, TimesFacts DEF Removed, NoBullJob, BJob, BullJob
    <3>3. k.req.job \in JobIds /\ k.seen \in Times
      BY <1>0 DEF Request, Call
    <3>4. [bull EXCEPT ![k.req.job][k.seen] = Removed(bull[k.req.job][k.seen])]
            \in [JobIds -> [Times -> BullJob(Calls, Times, Slots)]]
      BY <3>2, <3>3, BullUpdateType
    <3>5. QED
      BY <1>4, <3>4 DEF CallRemove, TypeOK
  <2>3. spent' \in Spent
    BY <1>4, FaultType DEF CallRemove, TypeOK
  <2>4. QED
    BY <1>4, <2>1, <2>2, <2>3 DEF CallRemove, TypeOK
<1>5. CASE CallUpsert(c)
  <2>1. now \in Times /\ now' \in Times
    BY <1>5, BoundsAssumption DEF CallUpsert, TypeOK, Times
  <2>2. UpsertScheduledJob(store[k.req.job], now, c, k.req) \in Doc
    BY <1>0, <2>1, StoreTransitionsType, "completed" \in SchedulerJobStatus
    DEF SchedulerJobStatus, TERMINAL_STATUSES
  <2>3. store' \in [JobIds -> SchedulerJobRecord(Calls, Times)]
    BY <1>0, <1>5, <2>2, StoreUpdateType DEF CallUpsert, Call, Request
  <2>4. call' \in [Calls -> Call]
    BY <1>5, <2>1 DEF CallUpsert, TypeOK, Call, CallPcs, ENQUEUE_STEPS
  <2>5. QED
    BY <1>5, <2>1, <2>3, <2>4 DEF CallUpsert, TypeOK
<1>6. CASE CallEnqueue(c)
  <2> DEFINE b == bull[k.req.job][k.version]
  <2>1. b \in BJob /\ k.pc \in ENQUEUE_STEPS
    BY <1>0, <1>6 DEF CallEnqueue, TypeOK, BJob, Call, Request
  <2>2. /\ EnqueueNext(k.pc, b) \in CallPcs
        /\ EnqueueEffect(k.pc, b, c, k.req.runAt, k.req.attempts) \in BJob
    BY <1>0, <2>1, EnqueueType DEF CallPcs, Request
  <2>3. bull' \in [JobIds -> [Times -> BullJob(Calls, Times, Slots)]]
    BY <1>0, <1>6, <2>2, BullUpdateType DEF CallEnqueue, TypeOK, Call, Request
  <2>4. call' \in [Calls -> Call]
    BY <1>6, <2>2 DEF CallEnqueue, TypeOK, Call
  <2>5. QED
    BY <1>6, <2>3, <2>4 DEF CallEnqueue, TypeOK
<1>7. CASE CallMarkQueued(c)
  <2>1. MarkQueued(store[k.req.job], k.version) \in Doc
    BY <1>0 DEF Doc, SchedulerJobRecord, SchedulerJobStatus, ACTIVE_STATUSES, MarkQueued, Call
  <2>2. store' \in [JobIds -> SchedulerJobRecord(Calls, Times)]
    BY <1>0, <1>7, <2>1, StoreUpdateType DEF CallMarkQueued, Call, Request
  <2>3. QED
    BY <1>0, <1>7, <2>2 DEF CallMarkQueued, TypeOK
<1>8. CASE CallMarkCancelled(c)
  <2>1. MarkClosed(store[k.req.job], "cancelled") \in Doc
    BY <1>0, TimesFacts
    DEF Doc, SchedulerJobRecord, SchedulerJobStatus, TERMINAL_STATUSES, MarkClosed
  <2>2. store' \in [JobIds -> SchedulerJobRecord(Calls, Times)]
    BY <1>0, <1>8, <2>1, StoreUpdateType DEF CallMarkCancelled, Call, Request
  <2>3. QED
    BY <1>0, <1>8, <2>2 DEF CallMarkCancelled, TypeOK
<1>9. CASE CallError(c)
  BY <1>0, <1>9, FaultType DEF CallError, TypeOK
<1>10. CASE CallSwallows(c)
  BY <1>0, <1>10, FaultType DEF CallSwallows, AfterSwallowed, TypeOK, Call, CallPcs, ENQUEUE_STEPS
<1>11. QED
  BY <1>2, <1>3, <1>4, <1>5, <1>6, <1>7, <1>8, <1>9, <1>10 DEF CallStep

\* So do the steps of the worker slots.
LEMMA SlotsKeepType ==
  ASSUME TypeOK, NEW s \in Slots,
         Deliver(s) \/ SlotStep(s) \/ ClaimError(s) \/ CompleteError(s) \/ FailError(s)
           \/ LoseLock(s)
  PROVE  TypeOK'
<1> DEFINE d == slot[s]
<1>1. d \in Slot /\ d.job \in JobIds /\ d.version \in Times /\ store[d.job] \in Doc
        /\ bull[d.job][d.version] \in BJob
  BY DEF TypeOK, Slot, Doc, BJob
<1>2. ASSUME StoreClaim(s)
      PROVE  store' \in [JobIds -> SchedulerJobRecord(Calls, Times)]
  <2>1. d.version \in Times /\ now \in Times
    BY <1>1 DEF TypeOK
  <2>2. MarkRunning(store[d.job], d.version, now) \in Doc
    <3>1. store[d.job].attemptsMade + 1 \in Nat
      BY <1>1 DEF Doc, SchedulerJobRecord
    <3>2. QED
      BY <1>1, <2>1, <3>1 DEF MarkRunning, Doc, SchedulerJobRecord, SchedulerJobStatus
  <2>3. QED
    BY <1>1, <1>2, <2>2, StoreUpdateType DEF StoreClaim
<1>3. ASSUME NEW st \in SchedulerJobStatus, StoreFinish(s, st)
      PROVE  store' \in [JobIds -> SchedulerJobRecord(Calls, Times)]
  <2>1. MarkFinished(store[d.job], d.version, st) \in Doc
    BY <1>1, TimesFacts DEF MarkFinished, Doc, SchedulerJobRecord
  <2>2. QED
    BY <1>1, <1>3, <2>1, StoreUpdateType DEF StoreFinish
<1>4. FailureStatus(s) \in SchedulerJobStatus /\ "completed" \in SchedulerJobStatus
  BY DEF FailureStatus, SchedulerJobStatus, ACTIVE_STATUSES, TERMINAL_STATUSES
<1>5. ASSUME NEW b \in BJob, bull' = [bull EXCEPT ![d.job][d.version] = b]
      PROVE  bull' \in [JobIds -> [Times -> BullJob(Calls, Times, Slots)]]
  BY <1>1, <1>5, BullUpdateType
<1>6. CASE Deliver(s)
  <2>1. PICK j \in JobIds, v \in Times :
          /\ bull' = [bull EXCEPT ![j][v] = Delivered(@, s)]
          /\ slot' = [slot EXCEPT ![s] =
                        [pc |-> "claim", job |-> j, version |-> v, payload |-> bull[j][v].payload,
                         retryable |-> CanRetry(bull[j][v])]]
    BY <1>6 DEF Deliver
  <2>2. bull[j][v] \in BJob
    BY DEF TypeOK, BJob
  <2>3. Delivered(bull[j][v], s) \in BJob
    BY <2>2 DEF Delivered, BJob, BullJob
  <2>4. bull' \in [JobIds -> [Times -> BullJob(Calls, Times, Slots)]]
    BY <2>1, <2>3, BullUpdateType
  <2>5. slot' \in [Slots -> Slot]
    BY <2>1, <2>2 DEF TypeOK, Slot, SlotPcs, CanRetry, BJob, BullJob
  <2>6. QED
    BY <1>6, <2>4, <2>5 DEF Deliver, TypeOK
<1>7. CASE RejectUnknown(s)
  BY <1>7, SlotToType DEF RejectUnknown, SlotTo, TypeOK, SlotPcs
<1>8. CASE StartRun(s)
  BY <1>2, <1>8, SlotToType DEF StartRun, SlotTo, TypeOK, SlotPcs
<1>9. CASE SkipStale(s)
  BY <1>9, SlotToType DEF SkipStale, SlotTo, TypeOK, SlotPcs
<1>10. CASE CompleteRun(s)
  BY <1>3, <1>4, <1>10, SlotToType DEF CompleteRun, SlotTo, TypeOK, SlotPcs
<1>11. CASE ThrowRun(s)
  BY <1>11, SlotToType DEF ThrowRun, SlotTo, TypeOK, SlotPcs
<1>12. CASE RecordFailure(s)
  BY <1>3, <1>4, <1>12, SlotToType DEF RecordFailure, SlotTo, TypeOK, SlotPcs
<1>13. CASE Settle(s)
  <2>1. Completed(bull[d.job][d.version], s) \in BJob /\ Failed(bull[d.job][d.version], s) \in BJob
    BY <1>1, SettledType
  <2>2. bull' \in [JobIds -> [Times -> BullJob(Calls, Times, Slots)]]
    BY <1>5, <1>13, <2>1 DEF Settle
  <2>3. slot' \in [Slots -> Slot]
    BY <1>13, RestingTypes DEF Settle, TypeOK
  <2>4. QED
    BY <1>13, <2>2, <2>3 DEF Settle, TypeOK
<1>14. CASE ClaimError(s)
  BY <1>2, <1>14, SlotToType, FaultType DEF ClaimError, SlotTo, TypeOK, SlotPcs
<1>15. CASE CompleteError(s)
  BY <1>3, <1>4, <1>15, SlotToType, FaultType DEF CompleteError, SlotTo, TypeOK, SlotPcs
<1>16. CASE FailError(s)
  BY <1>3, <1>4, <1>16, SlotToType, FaultType DEF FailError, SlotTo, TypeOK, SlotPcs
<1>17. CASE LoseLock(s)
  <2>1. Unlocked(bull[d.job][d.version]) \in BJob
    BY <1>1 DEF Unlocked, BJob, BullJob
  <2>2. bull' \in [JobIds -> [Times -> BullJob(Calls, Times, Slots)]]
    BY <1>5, <1>17, <2>1 DEF LoseLock
  <2>3. spent' \in Spent
    BY <1>17, BoundsAssumption DEF LoseLock, TypeOK, Spent
  <2>4. QED
    BY <1>17, <2>2, <2>3 DEF LoseLock, TypeOK
<1>18. QED
  BY <1>6, <1>7, <1>8, <1>9, <1>10, <1>11, <1>12, <1>13, <1>14, <1>15, <1>16, <1>17
  DEF SlotStep

\* So do BullMQ's housekeeping and the clock.
LEMMA HousekeepingKeepsType ==
  ASSUME TypeOK, BullLockExpires \/ StalledCheck \/ Evict \/ LockExpire \/ Tick
  PROVE  TypeOK'
<1>1. \A j \in JobIds, v \in Times : bull[j][v] \in BJob
  BY DEF TypeOK, BJob
<1>2. ASSUME NEW j \in JobIds, NEW v \in Times
      PROVE  Unlocked(bull[j][v]) \in BJob /\ Recovered(bull[j][v]) \in BJob /\ NoBullJob \in BJob
  BY <1>1, HousekeepingType
<1>3. CASE BullLockExpires
  BY <1>2, <1>3, BullUpdateType DEF BullLockExpires, TypeOK
<1>4. CASE StalledCheck
  BY <1>2, <1>4, BullUpdateType DEF StalledCheck, TypeOK
<1>5. CASE Evict
  BY <1>2, <1>5, BullUpdateType DEF Evict, TypeOK
<1>6. CASE LockExpire
  BY <1>6 DEF LockExpire, TypeOK
<1>7. CASE Tick
  BY <1>7, BoundsAssumption DEF Tick, TypeOK, Times
<1>8. QED
  BY <1>3, <1>4, <1>5, <1>6, <1>7

\* So do the starts, ends and reconciliations of the processes.
LEMMA NodesKeepType ==
  ASSUME TypeOK, NEW n \in Nodes,
         Boot(n) \/ ReconStep(n) \/ ReconcileError(n) \/ ReconSwallows(n)
         \/ AcquireError(n) \/ Crash(n)
  PROVE  TypeOK'
<1> DEFINE p == recon[n]
           r == p.snap[p.job]
<1>1. /\ p \in Recon /\ p.job \in JobIds /\ p.snap \in [JobIds -> Doc] /\ r \in Doc
      /\ NoJob \in Doc
  BY RestingTypes DEF TypeOK, Recon, Doc
<1>2. ASSUME NEW pc \in ReconPcs, ReconTo(n, pc)
      PROVE  recon' \in [Nodes -> Recon]
  BY <1>2 DEF ReconTo, TypeOK, Recon
<1>3. ASSUME NEW pc \in ReconPcs, recon' = [recon EXCEPT ![n] = ReconAt(pc)]
      PROVE  recon' \in [Nodes -> Recon]
  BY <1>3, RestingTypes DEF TypeOK
<1>4. ASSUME FreeLock(n)
      PROVE  lock' \in Nodes \cup {"free"} /\ spent' \in Spent
  BY <1>4, FaultType DEF FreeLock, TypeOK
<1>5. CASE Boot(n)
  BY <1>2, <1>5 DEF Boot, TypeOK, ReconPcs
<1>6. CASE AcquireLock(n)
  BY <1>2, <1>6 DEF AcquireLock, TypeOK, ReconPcs
<1>7. CASE SkipReconcile(n)
  BY <1>2, <1>7 DEF SkipReconcile, TypeOK, ReconPcs
<1>8. CASE FindCandidates(n)
  <2>1. PICK batch \in SUBSET JobIds :
          recon' = [recon EXCEPT ![n] =
                      [pc |-> "loop", todo |-> batch, job |-> Job0,
                       snap |-> [j \in JobIds |-> IF j \in batch THEN store[j] ELSE NoJob]]]
    BY <1>8 DEF FindCandidates
  <2>2. [j \in JobIds |-> IF j \in batch THEN store[j] ELSE NoJob] \in [JobIds -> Doc]
    BY <1>1 DEF TypeOK, Doc
  <2>3. Job0 \in JobIds
    BY TopologyAssumption DEF Job0
  <2>4. recon' \in [Nodes -> Recon]
    BY <2>1, <2>2, <2>3 DEF TypeOK, Recon, ReconPcs, Doc
  <2>5. QED
    BY <1>8, <2>4 DEF FindCandidates, TypeOK
<1>9. CASE ExpireCandidate(n)
  <2>1. PICK j \in JobIds :
          /\ store' = [store EXCEPT ![j] = MarkClosed(@, "expired")]
          /\ recon' = [recon EXCEPT ![n].todo = @ \ {j}]
    BY <1>9 DEF ExpireCandidate
  <2>2. MarkClosed(store[j], "expired") \in Doc
    BY TimesFacts DEF TypeOK, MarkClosed, Doc, SchedulerJobRecord, SchedulerJobStatus,
                      TERMINAL_STATUSES
  <2>3. store' \in [JobIds -> SchedulerJobRecord(Calls, Times)]
    BY <2>1, <2>2, StoreUpdateType
  <2>4. recon' \in [Nodes -> Recon]
    BY <1>1, <2>1 DEF TypeOK, Recon, Doc
  <2>5. QED
    BY <1>9, <2>3, <2>4 DEF ExpireCandidate, TypeOK
<1>10. CASE VisitCandidate(n)
  <2>1. PICK j \in JobIds :
          recon' = [recon EXCEPT ![n].pc = "getJob", ![n].job = j, ![n].todo = @ \ {j}]
    BY <1>10 DEF VisitCandidate
  <2>2. recon' \in [Nodes -> Recon]
    BY <1>1, <2>1 DEF TypeOK, Recon, ReconPcs, ENQUEUE_STEPS
  <2>3. QED
    BY <1>10, <2>2 DEF VisitCandidate, TypeOK
<1>11. CASE ReconEnqueue(n)
  <2> DEFINE b == bull[p.job][r.version]
  <2>1. b \in BJob /\ r.version \in Times /\ p.pc \in ENQUEUE_STEPS
    BY <1>1, <1>11 DEF ReconEnqueue, TypeOK, BJob, Doc, SchedulerJobRecord
  <2>2. r.payload \in Calls \cup {NoData} /\ r.runAt \in Times /\ r.attempts \in Nat
    BY <1>1 DEF Doc, SchedulerJobRecord, NoPayload, NoData
  <2>3. /\ EnqueueNext(p.pc, b) \in ReconPcs
        /\ EnqueueEffect(p.pc, b, r.payload, r.runAt, r.attempts) \in BJob
    BY <2>1, <2>2, EnqueueType DEF ReconPcs
  <2>4. bull' \in [JobIds -> [Times -> BullJob(Calls, Times, Slots)]]
    BY <1>1, <1>11, <2>1, <2>3, BullUpdateType DEF ReconEnqueue
  <2>5. recon' \in [Nodes -> Recon]
    BY <1>2, <1>11, <2>3 DEF ReconEnqueue
  <2>6. QED
    BY <1>11, <2>4, <2>5 DEF ReconEnqueue, TypeOK
<1>12. CASE ReconMarkQueued(n)
  <2>1. store[p.job] \in Doc /\ r.version \in Times
    BY <1>1 DEF TypeOK, Doc, SchedulerJobRecord
  <2>2. MarkQueued(store[p.job], r.version) \in Doc
    BY <2>1 DEF Doc, SchedulerJobRecord, SchedulerJobStatus, ACTIVE_STATUSES, MarkQueued
  <2>3. store' \in [JobIds -> SchedulerJobRecord(Calls, Times)]
    BY <1>1, <1>12, <2>2, StoreUpdateType DEF ReconMarkQueued
  <2>4. recon' \in [Nodes -> Recon]
    BY <1>2, <1>12 DEF ReconMarkQueued, ReconPcs
  <2>5. QED
    BY <1>12, <2>3, <2>4 DEF ReconMarkQueued, TypeOK
<1>13. CASE EndLoop(n)
  BY <1>3, <1>13 DEF EndLoop, TypeOK, ReconPcs
<1>14. CASE ReleaseLock(n)
  BY <1>3, <1>4, <1>14 DEF ReleaseLock, TypeOK, ReconPcs
<1>15. CASE AbortBootstrap(n)
  BY <1>4, <1>15, ProcessExitType DEF AbortBootstrap, TypeOK
<1>16. CASE ReconcileError(n)
  BY <1>3, <1>16, FaultType DEF ReconcileError, TypeOK, ReconPcs
<1>17. CASE AcquireError(n)
  BY <1>17, FaultType, ProcessExitType DEF AcquireError, TypeOK
<1>18. CASE Crash(n)
  <2>1. spent' \in Spent
    BY <1>18, BoundsAssumption DEF Crash, TypeOK, Spent
  <2>2. QED
    BY <1>18, <2>1, ProcessExitType DEF Crash, TypeOK
<1>19. CASE ReconSwallows(n)
  <2>1. AfterSwallowed(recon[n].pc) \in ReconPcs
    BY DEF AfterSwallowed, ReconPcs, ENQUEUE_STEPS
  <2>2. QED
    BY <1>2, <1>19, <2>1, FaultType DEF ReconSwallows, TypeOK
<1>20. QED
  BY <1>5, <1>6, <1>7, <1>8, <1>9, <1>10, <1>11, <1>12, <1>13, <1>14, <1>15, <1>16, <1>17, <1>18,
     <1>19
  DEF ReconStep

\* Every step keeps the variables well typed.
LEMMA StepKeepsType == TypeOK /\ [Next]_vars => TypeOK'
<1> SUFFICES ASSUME TypeOK, [Next]_vars PROVE TypeOK'
  OBVIOUS
<1>1. CASE UNCHANGED vars
  BY <1>1 DEF vars, TypeOK
<1>2. CASE AllQuiet
  BY <1>2 DEF AllQuiet, vars, TypeOK
<1>3. QED
  BY <1>1, <1>2, CallsKeepType, SlotsKeepType, NodesKeepType, HousekeepingKeepsType DEF Next

(* Every reachable state is well typed, and the clock and the faults stay   *)
(* within their bounds.                                                     *)
THEOREM TypeCorrect == Spec => []TypeOK
BY InitType, StepKeepsType, PTL DEF Spec

-----------------------------------------------------------------------------
(* A version identifies one schedule                                       *)
(*                                                                         *)
(* VersionIdentifiesSchedule is not inductive: a holder of an old version  *)
(* is harmless only as long as no later upsert can reuse that version.     *)
(* With UniqueStamps an upsert stamps the current time and time moves on,  *)
(* so the strengthening says that every version anybody holds lies before  *)
(* now.                                                                    *)

\* What holds of a version v of job j in anybody's hands.
Sound(j, v, payload, runAt, attempts) ==
  v < now /\ (v = store[j].version => SameSchedule(store[j], payload, runAt, attempts))

StoreSound == \A j \in JobIds : store[j].version < now
BullSound ==
  \A j \in JobIds, v \in Times :
    LET b == bull[j][v] IN
    /\ b.owner # NoOwner => b.state = "active"
    /\ b.state # "absent" => Sound(j, v, b.payload, b.runAt, b.attempts)
CallsSound ==
  \A c \in Calls :
    Enqueuing(c) =>
      LET k == call[c] IN Sound(k.req.job, k.version, c, k.req.runAt, k.req.attempts)
ReconsSound ==
  \A n \in Nodes : \A j \in Pending(n) :
    LET r == recon[n].snap[j] IN Sound(j, r.version, r.payload, r.runAt, r.attempts)
SlotsSound ==
  \A s \in Slots :
    LET d == slot[s] IN
    d.pc # "idle" =>
      d.version < now /\ (d.version = store[d.job].version => d.payload = store[d.job].payload)

VersionInv == StoreSound /\ BullSound /\ CallsSound /\ ReconsSound /\ SlotsSound

\* The inductive invariant implies that a version identifies one schedule.
LEMMA VersionInvSuffices == TypeOK /\ VersionInv => VersionIdentifiesSchedule
<1> SUFFICES ASSUME TypeOK, VersionInv, NEW j \in JobIds
             PROVE  LET r == store[j] IN
    /\ bull[j][r.version].state # "absent" =>
         LET b == bull[j][r.version] IN SameSchedule(r, b.payload, b.runAt, b.attempts)
    /\ \A c \in Calls :
         Enqueuing(c) /\ call[c].req.job = j /\ call[c].version = r.version =>
           SameSchedule(r, c, call[c].req.runAt, call[c].req.attempts)
    /\ \A n \in Nodes :
         j \in Pending(n) /\ recon[n].snap[j].version = r.version =>
           LET p == recon[n].snap[j] IN SameSchedule(r, p.payload, p.runAt, p.attempts)
    /\ \A s \in Slots : Working(s, j, r.version) => slot[s].payload = r.payload
  BY DEF VersionIdentifiesSchedule
<1>1. store[j].version \in Times
  BY DEF TypeOK, SchedulerJobRecord
<1>2. QED
  BY <1>1 DEF VersionInv, BullSound, CallsSound, ReconsSound, SlotsSound, Sound, Working

(* Initially nobody holds a version.                                        *)
LEMMA InitVersions == Init => VersionInv
BY DEF Init, VersionInv, StoreSound, BullSound, CallsSound, ReconsSound, SlotsSound, Sound,
       Enqueuing, ENQUEUE_STEPS, Pending, NoJob, NoBullJob, CallAt, ReconAt, IdleSlot

-----------------------------------------------------------------------------
(* The store's other transitions leave alone what a version stands for.     *)
SameDocument(r, r2) ==
  /\ r2.version = r.version
  /\ SameSchedule(r2, r.payload, r.runAt, r.attempts)

\* No transition but upsertScheduledJob changes the schedule a document holds.
LEMMA TransitionsKeepSchedule ==
  ASSUME NEW r \in Doc, NEW v, NEW t, NEW st
  PROVE  /\ SameDocument(r, MarkQueued(r, v))
         /\ SameDocument(r, MarkRunning(r, v, t))
         /\ SameDocument(r, MarkFinished(r, v, st))
         /\ SameDocument(r, MarkClosed(r, st))
BY DEF SameDocument, SameSchedule, Doc, SchedulerJobRecord, MarkQueued, MarkRunning,
       MarkFinished, MarkClosed

StoreKept == \A j \in JobIds : SameDocument(store[j], store'[j])

\* Whatever is sound stays sound.
SoundKept ==
  \A j \in JobIds, v \in Times : \A payload, runAt, attempts :
    Sound(j, v, payload, runAt, attempts) => Sound(j, v, payload, runAt, attempts)'

\* A schedule that is sound stays so while no document changes its schedule.
LEMMA KeptStoreKeepsSound ==
  ASSUME TypeOK, TypeOK', StoreSound, StoreKept, now' >= now
  PROVE  SoundKept /\ StoreSound'
<1>1. now \in Nat /\ now' \in Nat /\ \A j \in JobIds : store[j].version \in Nat
  BY TimesFacts DEF TypeOK, SchedulerJobRecord
<1>2. StoreSound'
  BY <1>1 DEF StoreSound, StoreKept, SameDocument
<1>3. SoundKept
  BY <1>1, TimesFacts DEF SoundKept, Sound, StoreKept, SameDocument, SameSchedule
<1>4. QED
  BY <1>2, <1>3

\* An upsert takes a version that nobody holds yet.
LEMMA UpsertKeepsSound ==
  ASSUME UniqueStamps, TypeOK, TypeOK', StoreSound, NEW c \in Calls, CallUpsert(c)
  PROVE  SoundKept /\ StoreSound'
<1> DEFINE k == call[c]
<1>1. /\ now \in Nat /\ now' = now + 1 /\ k.req.job \in JobIds
      /\ \A j \in JobIds : store[j].version \in Nat
  BY TimesFacts, TopologyAssumption DEF CallUpsert, TypeOK, SchedulerJobRecord, Call, Request
<1>2. \A j \in JobIds : store'[j].version = IF j = k.req.job THEN now ELSE store[j].version
  BY <1>1 DEF CallUpsert, UpsertScheduledJob, TypeOK, SchedulerJobRecord
<1>3. \A j \in JobIds : j # k.req.job => store'[j] = store[j]
  BY <1>1 DEF CallUpsert, TypeOK
<1>4. StoreSound'
  BY <1>1, <1>2 DEF StoreSound
<1>5. SoundKept
  <2> SUFFICES ASSUME NEW j \in JobIds, NEW v \in Times, NEW payload, NEW runAt, NEW attempts,
                      Sound(j, v, payload, runAt, attempts)
               PROVE  Sound(j, v, payload, runAt, attempts)'
    BY DEF SoundKept
  <2>1. v \in Nat /\ v < now'
    BY <1>1, TimesFacts DEF Sound
  <2>2. CASE j = k.req.job
    BY <1>1, <1>2, <2>1, <2>2 DEF Sound
  <2>3. CASE j # k.req.job
    BY <1>3, <2>1, <2>3 DEF Sound
  <2>4. QED
    BY <2>2, <2>3
<1>6. QED
  BY <1>4, <1>5

-----------------------------------------------------------------------------
(* Holders that come from sound holders are sound.                          *)

\* The BullMQ job b2 may stand where sound jobs stand.
SoundJob(j, v, b2) ==
  /\ b2.owner # NoOwner => b2.state = "active"
  /\ b2.state # "absent" => Sound(j, v, b2.payload, b2.runAt, b2.attempts)

\* The queue stays sound when one of its jobs is replaced by a sound one.
LEMMA BullUpdateSound ==
  ASSUME TypeOK, SoundKept, BullSound, NEW j \in JobIds, NEW v \in Times, NEW b2,
         SoundJob(j, v, b2), bull' = [bull EXCEPT ![j][v] = b2]
  PROVE  BullSound'
<1> SUFFICES ASSUME NEW i \in JobIds, NEW u \in Times
             PROVE  SoundJob(i, u, bull[i][u])'
  BY DEF BullSound, SoundJob
<1>1. bull'[i][u] = IF i = j /\ u = v THEN b2 ELSE bull[i][u]
  BY DEF TypeOK
<1>2. SoundJob(i, u, bull'[i][u])
  BY <1>1 DEF BullSound, SoundJob
<1>3. \A b : SoundJob(i, u, b) =>
        /\ b.owner # NoOwner => b.state = "active"
        /\ b.state # "absent" => Sound(i, u, b.payload, b.runAt, b.attempts)'
  BY DEF SoundJob, SoundKept
<1>4. QED
  BY <1>2, <1>3 DEF SoundJob

\* The queue stays sound when neither it nor the schedules of the store change.
LEMMA BullSame ==
  ASSUME SoundKept, BullSound, UNCHANGED bull
  PROVE  BullSound'
BY DEF SoundKept, BullSound

\* What may happen to one BullMQ job without its schedule changing.
LEMMA JobsStaySound ==
  ASSUME BullSound, NEW j \in JobIds, NEW v \in Times, NEW s \in Slots, bull[j][v] \in BJob
  PROVE  LET b == bull[j][v] IN
         /\ SoundJob(j, v, b)
         /\ SoundJob(j, v, NoBullJob)
         /\ SoundJob(j, v, Removed(b))
         /\ b.state = "waiting" => SoundJob(j, v, Delivered(b, s))
         /\ SoundJob(j, v, Completed(b, s))
         /\ SoundJob(j, v, Failed(b, s))
<1>1. SoundJob(j, v, bull[j][v]) /\ SoundJob(j, v, NoBullJob)
  BY DEF BullSound, SoundJob, NoBullJob
<1>2. NoOwner \notin Slots
  BY TopologyAssumption
<1>3. QED
  BY <1>1, <1>2 DEF SoundJob, Removed, Delivered, Completed, Failed, BJob, BullJob

\* Removing a job or its lock leaves a sound job.
LEMMA UnownedStaySound ==
  ASSUME BullSound, NEW j \in JobIds, NEW v \in Times, bull[j][v] \in BJob
  PROVE  LET b == bull[j][v] IN
         /\ SoundJob(j, v, NoBullJob)
         /\ b.owner # NoOwner => SoundJob(j, v, Unlocked(b))
         /\ IsStalled(b) => SoundJob(j, v, Recovered(b))
<1>1. SoundJob(j, v, bull[j][v]) /\ SoundJob(j, v, NoBullJob)
  BY DEF BullSound, SoundJob, NoBullJob
<1>2. QED
  BY <1>1 DEF SoundJob, Unlocked, Recovered, IsStalled, BJob, BullJob

\* A sound holder enqueues a sound job.
LEMMA EnqueueStaysSound ==
  ASSUME BullSound, NEW j \in JobIds, NEW v \in Times, bull[j][v] \in BJob,
         NEW payload, NEW runAt, NEW attempts, Sound(j, v, payload, runAt, attempts),
         NEW step
  PROVE  SoundJob(j, v, EnqueueEffect(step, bull[j][v], payload, runAt, attempts))
<1>1. SoundJob(j, v, bull[j][v]) /\ SoundJob(j, v, NoBullJob)
  BY DEF BullSound, SoundJob, NoBullJob
<1>2. SoundJob(j, v, Added(bull[j][v], payload, runAt, attempts))
  BY <1>1 DEF SoundJob, Added, NoBullJob
<1>3. QED
  BY <1>1, <1>2 DEF EnqueueEffect, Removed

\* Calls that do not move stay sound in a store that keeps its schedules.
LEMMA CallsFrame ==
  ASSUME TypeOK, SoundKept, CallsSound,
         \A c \in Calls : Enqueuing(c)' =>
           Enqueuing(c) /\ call'[c].req = call[c].req /\ call'[c].version = call[c].version
  PROVE  CallsSound'
<1>1. \A c \in Calls : call[c].req.job \in JobIds /\ call[c].version \in Times
  BY TopologyAssumption DEF TypeOK, Call, Request
<1>2. QED
  BY <1>1 DEF CallsSound, SoundKept

\* Reconciliations that do not move stay sound in such a store.
LEMMA ReconsFrame ==
  ASSUME TypeOK, SoundKept, ReconsSound,
         \A n \in Nodes : \A j \in Pending(n)' :
           j \in Pending(n) /\ recon'[n].snap[j] = recon[n].snap[j]
  PROVE  ReconsSound'
<1>1. \A n \in Nodes : \A j \in Pending(n) : j \in JobIds /\ recon[n].snap[j].version \in Times
  BY DEF TypeOK, Recon, Pending, SchedulerJobRecord
<1>2. QED
  BY <1>1 DEF ReconsSound, SoundKept

\* Slots that do not move stay sound in such a store.
LEMMA SlotsFrame ==
  ASSUME TypeOK, SoundKept, SlotsSound,
         \A s \in Slots : slot'[s].pc # "idle" =>
           /\ slot[s].pc # "idle" /\ slot'[s].job = slot[s].job
           /\ slot'[s].version = slot[s].version /\ slot'[s].payload = slot[s].payload
  PROVE  SlotsSound'
<1> SUFFICES ASSUME NEW s \in Slots, slot'[s].pc # "idle"
             PROVE  /\ slot'[s].version < now'
                    /\ slot'[s].version = store'[slot'[s].job].version =>
                         slot'[s].payload = store'[slot'[s].job].payload
  BY DEF SlotsSound
<1> DEFINE d == slot[s]
<1>1. d.job \in JobIds /\ d.version \in Times
  BY DEF TypeOK, Slot
<1>2. Sound(d.job, d.version, d.payload, store[d.job].runAt, store[d.job].attempts)
  BY DEF SlotsSound, Sound, SameSchedule
<1>3. PICK j, v, payload, runAt, attempts :
        /\ j \in JobIds /\ v \in Times
        /\ j = d.job /\ v = d.version /\ payload = d.payload
        /\ Sound(j, v, payload, runAt, attempts)
  BY <1>1, <1>2
<1>4. Sound(j, v, payload, runAt, attempts)'
  BY <1>3 DEF SoundKept
<1>5. QED
  BY <1>3, <1>4 DEF Sound, SameSchedule

-----------------------------------------------------------------------------
(* The step of the induction, one part of VersionInv at a time.             *)

\* A schedule that is sound before a step is sound after it.
LEMMA StepKeepsSound ==
  ASSUME UniqueStamps, TypeOK, TypeOK', StoreSound, Next
  PROVE  SoundKept /\ StoreSound'
<1>0. /\ now \in Nat
      /\ \A j \in JobIds : store[j] \in Doc
      /\ \A c \in Calls : call[c].req.job \in JobIds
      /\ \A s \in Slots : slot[s].job \in JobIds
      /\ \A n \in Nodes : recon[n].job \in JobIds
  BY TimesFacts, TopologyAssumption DEF TypeOK, Call, Request, Slot, Recon, Doc
<1>1. ASSUME UNCHANGED store PROVE StoreKept
  BY <1>1 DEF StoreKept, SameDocument, SameSchedule
<1>2. ASSUME NEW j \in JobIds, NEW r2, store' = [store EXCEPT ![j] = r2], SameDocument(store[j], r2)
      PROVE  StoreKept
  BY <1>2 DEF StoreKept, SameDocument, SameSchedule, TypeOK
<1>3. ASSUME NEW c \in Calls, CallUpsert(c) PROVE SoundKept /\ StoreSound'
  BY <1>3, UpsertKeepsSound
<1>4. ASSUME NEW c \in Calls, CallMarkQueued(c) \/ CallMarkCancelled(c)
      PROVE  StoreKept /\ UNCHANGED now
  <2> DEFINE r == store[call[c].req.job]
  <2>1. SameDocument(r, MarkQueued(r, call[c].version)) /\ SameDocument(r, MarkClosed(r, "cancelled"))
    BY <1>0, TransitionsKeepSchedule
  <2>2. QED
    BY <1>0, <1>2, <1>4, <2>1 DEF CallMarkQueued, CallMarkCancelled
<1>5. ASSUME NEW s \in Slots, StartRun(s) \/ ClaimError(s) \/ CompleteRun(s) \/ CompleteError(s)
                                \/ RecordFailure(s) \/ FailError(s)
      PROVE  StoreKept /\ UNCHANGED now
  <2>1. ASSUME StoreClaim(s) PROVE StoreKept
    BY <1>0, <1>2, <2>1, TransitionsKeepSchedule DEF StoreClaim
  <2>2. ASSUME NEW st, StoreFinish(s, st) PROVE StoreKept
    BY <1>0, <1>2, <2>2, TransitionsKeepSchedule DEF StoreFinish
  <2>3. QED
    BY <1>1, <1>5, <2>1, <2>2
    DEF StartRun, ClaimError, CompleteRun, CompleteError, RecordFailure, FailError, SlotTo
<1>6. ASSUME NEW n \in Nodes, ExpireCandidate(n) \/ ReconMarkQueued(n)
      PROVE  StoreKept /\ UNCHANGED now
  <2>1. \A j \in JobIds : SameDocument(store[j], MarkClosed(store[j], "expired"))
    BY <1>0, TransitionsKeepSchedule
  <2>2. LET p == recon[n] IN
        SameDocument(store[p.job], MarkQueued(store[p.job], p.snap[p.job].version))
    BY <1>0, TransitionsKeepSchedule
  <2>3. QED
    BY <1>0, <1>2, <1>6, <2>1, <2>2 DEF ExpireCandidate, ReconMarkQueued
<1>7. ASSUME UNCHANGED store, now' >= now PROVE StoreKept
  BY <1>1, <1>7
<1>8. ASSUME StoreKept, now' >= now PROVE SoundKept /\ StoreSound'
  BY <1>8, KeptStoreKeepsSound
<1>9. now >= now /\ now + 1 >= now
  BY <1>0
<1>10. \/ SoundKept /\ StoreSound'
       \/ StoreKept /\ UNCHANGED now
       \/ UNCHANGED store /\ now' >= now
  <2>1. CASE \E c \in Calls : BeginSchedule(c) \/ BeginCancel(c) \/ CallStep(c) \/ CallError(c)
                              \/ CallSwallows(c)
    BY <1>3, <1>4, <1>9, <2>1
    DEF BeginSchedule, BeginCancel, CallStep, CallError, CallSwallows, CallRemove, CallEnqueue
  <2>2. CASE \E s \in Slots : Deliver(s) \/ SlotStep(s) \/ ClaimError(s) \/ CompleteError(s)
                                \/ FailError(s) \/ LoseLock(s)
    BY <1>5, <1>9, <2>2
    DEF Deliver, SlotStep, RejectUnknown, SkipStale, ThrowRun, Settle, LoseLock, SlotTo
  <2>3. CASE \E n \in Nodes : Boot(n) \/ ReconStep(n) \/ ReconcileError(n) \/ ReconSwallows(n)
                              \/ AcquireError(n) \/ Crash(n)
    BY <1>6, <1>9, <2>3
    DEF Boot, ReconStep, ReconcileError, ReconSwallows, AcquireError, Crash, AcquireLock,
        SkipReconcile, FindCandidates, VisitCandidate, ReconEnqueue, EndLoop, ReleaseLock,
        AbortBootstrap
  <2>4. CASE BullLockExpires \/ StalledCheck \/ Evict \/ LockExpire \/ Tick \/ AllQuiet
    BY <1>9, <2>4 DEF BullLockExpires, StalledCheck, Evict, LockExpire, Tick, AllQuiet, vars
  <2>5. QED
    BY <2>1, <2>2, <2>3, <2>4 DEF Next
<1>11. QED
  BY <1>7, <1>8, <1>9, <1>10

\* Every step keeps the jobs in the queue sound.
LEMMA StepKeepsBullSound ==
  ASSUME TypeOK, SoundKept, BullSound, CallsSound, ReconsSound, Next
  PROVE  BullSound'
<1>0. \A j \in JobIds, v \in Times : bull[j][v] \in BJob
  BY DEF TypeOK, BJob
<1>1. ASSUME NEW c \in Calls, CallRemove(c) PROVE BullSound'
  <2>1. call[c].req.job \in JobIds /\ call[c].seen \in Times
    BY TopologyAssumption DEF TypeOK, Call, Request
  <2>2. SoundJob(call[c].req.job, call[c].seen, Removed(bull[call[c].req.job][call[c].seen]))
    <3>1. SoundJob(call[c].req.job, call[c].seen, bull[call[c].req.job][call[c].seen])
      BY <2>1 DEF BullSound, SoundJob
    <3>2. QED
      BY <3>1 DEF SoundJob, Removed, NoBullJob
  <2>3. QED
    BY <1>1, <2>1, <2>2, BullUpdateSound, BullSame DEF CallRemove
<1>2. ASSUME NEW c \in Calls, CallEnqueue(c) PROVE BullSound'
  <2> DEFINE k == call[c]
  <2>1. k.req.job \in JobIds /\ k.version \in Times
    BY TopologyAssumption DEF TypeOK, Call, Request
  <2>2. Sound(k.req.job, k.version, c, k.req.runAt, k.req.attempts)
    BY <1>2 DEF CallsSound, Enqueuing, CallEnqueue
  <2>3. SoundJob(k.req.job, k.version,
                 EnqueueEffect(k.pc, bull[k.req.job][k.version], c, k.req.runAt, k.req.attempts))
    BY <1>0, <2>1, <2>2, EnqueueStaysSound
  <2>4. QED
    BY <1>2, <2>1, <2>3, BullUpdateSound DEF CallEnqueue
<1>3. ASSUME NEW n \in Nodes, ReconEnqueue(n) PROVE BullSound'
  <2> DEFINE p == recon[n]
             r == p.snap[p.job]
  <2>1. p.job \in JobIds /\ r.version \in Times
    BY DEF TypeOK, Recon, SchedulerJobRecord
  <2>2. Sound(p.job, r.version, r.payload, r.runAt, r.attempts)
    BY <1>3 DEF ReconsSound, Pending, ReconEnqueue
  <2>3. SoundJob(p.job, r.version,
                 EnqueueEffect(p.pc, bull[p.job][r.version], r.payload, r.runAt, r.attempts))
    BY <1>0, <2>1, <2>2, EnqueueStaysSound
  <2>4. QED
    BY <1>3, <2>1, <2>3, BullUpdateSound DEF ReconEnqueue
<1>4. ASSUME NEW s \in Slots, Deliver(s) PROVE BullSound'
  <2>1. PICK j \in JobIds, v \in Times :
          /\ bull[j][v].state = "waiting"
          /\ bull' = [bull EXCEPT ![j][v] = Delivered(bull[j][v], s)]
    BY <1>4 DEF Deliver, Deliverable
  <2>2. SoundJob(j, v, Delivered(bull[j][v], s))
    BY <1>0, <2>1, JobsStaySound
  <2>3. QED
    BY <2>1, <2>2, BullUpdateSound
<1>5. ASSUME NEW s \in Slots, Settle(s) PROVE BullSound'
  <2> DEFINE b == bull[slot[s].job][slot[s].version]
  <2>1. slot[s].job \in JobIds /\ slot[s].version \in Times
    BY DEF TypeOK, Slot
  <2>2. /\ SoundJob(slot[s].job, slot[s].version, Completed(b, s))
        /\ SoundJob(slot[s].job, slot[s].version, Failed(b, s))
    BY <1>0, <2>1, JobsStaySound
  <2>3. QED
    BY <1>5, <2>1, <2>2, BullUpdateSound DEF Settle
<1>6. ASSUME NEW s \in Slots, LoseLock(s) PROVE BullSound'
  <2>1. slot[s].job \in JobIds /\ slot[s].version \in Times /\ NoOwner # s
    BY TopologyAssumption DEF TypeOK, Slot
  <2>2. SoundJob(slot[s].job, slot[s].version, Unlocked(bull[slot[s].job][slot[s].version]))
    BY <1>0, <1>6, <2>1, UnownedStaySound DEF LoseLock
  <2>3. QED
    BY <1>6, <2>1, <2>2, BullUpdateSound DEF LoseLock
<1>7. CASE BullLockExpires
  <2>1. PICK j \in JobIds, v \in Times :
          bull[j][v].owner # NoOwner /\ bull' = [bull EXCEPT ![j][v] = Unlocked(bull[j][v])]
    BY <1>7 DEF BullLockExpires
  <2>2. SoundJob(j, v, Unlocked(bull[j][v]))
    BY <1>0, <2>1, UnownedStaySound
  <2>3. QED
    BY <2>1, <2>2, BullUpdateSound
<1>8. CASE StalledCheck
  <2>1. PICK j \in JobIds, v \in Times :
          IsStalled(bull[j][v]) /\ bull' = [bull EXCEPT ![j][v] = Recovered(bull[j][v])]
    BY <1>8 DEF StalledCheck
  <2>2. SoundJob(j, v, Recovered(bull[j][v]))
    BY <1>0, <2>1, UnownedStaySound
  <2>3. QED
    BY <2>1, <2>2, BullUpdateSound
<1>9. CASE Evict
  BY <1>0, <1>9, UnownedStaySound, BullUpdateSound DEF Evict
<1>10. CASE UNCHANGED bull
  BY <1>10, BullSame
<1>11. QED
  <2>1. CASE \E c \in Calls : BeginSchedule(c) \/ BeginCancel(c) \/ CallStep(c) \/ CallError(c)
                              \/ CallSwallows(c)
    BY <1>1, <1>2, <1>10, <2>1 DEF BeginSchedule, BeginCancel, CallStep, CallError, CallSwallows,
                                   CallUpsert, CallMarkQueued, CallMarkCancelled
  <2>2. CASE \E s \in Slots : Deliver(s) \/ SlotStep(s) \/ ClaimError(s) \/ CompleteError(s)
                                \/ FailError(s) \/ LoseLock(s)
    BY <1>4, <1>5, <1>6, <1>10, <2>2
    DEF SlotStep, RejectUnknown, StartRun, SkipStale, CompleteRun, ThrowRun, RecordFailure,
        ClaimError, CompleteError, FailError, SlotTo
  <2>3. CASE \E n \in Nodes : Boot(n) \/ ReconStep(n) \/ ReconcileError(n) \/ ReconSwallows(n)
                              \/ AcquireError(n) \/ Crash(n)
    BY <1>3, <1>10, <2>3
    DEF Boot, ReconStep, ReconcileError, ReconSwallows, AcquireError, Crash, AcquireLock,
        SkipReconcile, FindCandidates, ExpireCandidate, VisitCandidate, ReconMarkQueued, EndLoop,
        ReleaseLock, AbortBootstrap
  <2>4. CASE LockExpire \/ Tick \/ AllQuiet
    BY <1>10, <2>4 DEF LockExpire, Tick, AllQuiet, vars
  <2>5. QED
    BY <1>7, <1>8, <1>9, <2>1, <2>2, <2>3, <2>4 DEF Next

\* Every step keeps what the calls hold sound.
LEMMA StepKeepsCallsSound ==
  ASSUME UniqueStamps, TypeOK, TypeOK', SoundKept, StoreSound, CallsSound, Next
  PROVE  CallsSound'
<1>1. ASSUME NEW c \in Calls, CallUpsert(c) PROVE CallsSound'
  <2> DEFINE k == call[c]
  <2>1. /\ now \in Nat /\ now' = now + 1 /\ k.req.job \in JobIds
        /\ store[k.req.job] \in SchedulerJobRecord(Calls, Times)
    BY <1>1, TimesFacts, TopologyAssumption DEF CallUpsert, TypeOK, Call, Request
  <2>2. /\ call'[c].req = k.req /\ call'[c].version = now
        /\ \A i \in Calls : i # c => call'[i] = call[i]
    BY <1>1 DEF CallUpsert, TypeOK, Call
  <2>3. SameSchedule(store'[k.req.job], c, k.req.runAt, k.req.attempts)
    BY <1>1, <2>1
    DEF CallUpsert, UpsertScheduledJob, SameSchedule, TypeOK, SchedulerJobRecord
  <2>4. ASSUME NEW i \in Calls, Enqueuing(i)'
        PROVE  Sound(call[i].req.job, call[i].version, i, call[i].req.runAt, call[i].req.attempts)'
    <3>1. CASE i = c
      BY <2>1, <2>2, <2>3, <3>1 DEF Sound
    <3>2. CASE i # c
      <4>1. PICK j, v, runAt, attempts :
              /\ j \in JobIds /\ v \in Times
              /\ j = call[i].req.job /\ v = call[i].version
              /\ runAt = call[i].req.runAt /\ attempts = call[i].req.attempts
        BY TopologyAssumption DEF TypeOK, Call, Request
      <4>2. Enqueuing(i)
        BY <2>2, <2>4, <3>2 DEF Enqueuing
      <4>3. Sound(j, v, i, runAt, attempts)
        BY <4>1, <4>2 DEF CallsSound
      <4>4. Sound(j, v, i, runAt, attempts)'
        BY <4>1, <4>3 DEF SoundKept
      <4>5. QED
        BY <2>2, <3>2, <4>1, <4>4 DEF Sound
    <3>3. QED
      BY <3>1, <3>2
  <2>5. QED
    BY <2>4 DEF CallsSound
<1>2. ASSUME \A c \in Calls : Enqueuing(c)' =>
               Enqueuing(c) /\ call'[c].req = call[c].req /\ call'[c].version = call[c].version
      PROVE  CallsSound'
  BY <1>2, CallsFrame
<1>3. ASSUME NEW c \in Calls, NEW k2, call' = [call EXCEPT ![c] = k2],
             k2.pc \in ENQUEUE_STEPS \cup {"mark"} =>
               Enqueuing(c) /\ k2.req = call[c].req /\ k2.version = call[c].version
      PROVE  CallsSound'
  BY <1>2, <1>3 DEF Enqueuing, TypeOK
<1>4. ASSUME NEW c \in Calls,
             BeginSchedule(c) \/ BeginCancel(c) \/ CallMarkQueued(c) \/ CallMarkCancelled(c)
               \/ CallError(c)
      PROVE  CallsSound'
  BY <1>3, <1>4 DEF BeginSchedule, BeginCancel, CallMarkQueued, CallMarkCancelled, CallError,
                    CallAt, ENQUEUE_STEPS
<1>5. ASSUME NEW c \in Calls, CallRemove(c) PROVE CallsSound'
  BY <1>2, <1>5 DEF CallRemove, Enqueuing, ENQUEUE_STEPS, TypeOK, Call
<1>6. ASSUME NEW c \in Calls, CallEnqueue(c) PROVE CallsSound'
  BY <1>2, <1>6 DEF CallEnqueue, Enqueuing, TypeOK, Call
<1>7. ASSUME NEW n \in Nodes, ProcessExit(n) PROVE CallsSound'
  BY <1>2, <1>7 DEF ProcessExit, Enqueuing, CallAt, ENQUEUE_STEPS
<1>8. CASE UNCHANGED call
  BY <1>2, <1>8 DEF Enqueuing
<1>9. ASSUME NEW c \in Calls, CallSwallows(c) PROVE CallsSound'
  BY <1>2, <1>9 DEF CallSwallows, SWALLOWED, Enqueuing, ENQUEUE_STEPS, TypeOK, Call
<1>10. QED
  <2>1. CASE \E c \in Calls : BeginSchedule(c) \/ BeginCancel(c) \/ CallStep(c) \/ CallError(c)
                              \/ CallSwallows(c)
    BY <1>1, <1>4, <1>5, <1>6, <1>9, <2>1 DEF CallStep
  <2>2. CASE \E s \in Slots : Deliver(s) \/ SlotStep(s) \/ ClaimError(s) \/ CompleteError(s)
                                \/ FailError(s) \/ LoseLock(s)
    BY <1>8, <2>2
    DEF Deliver, SlotStep, RejectUnknown, StartRun, SkipStale, CompleteRun, ThrowRun,
        RecordFailure, Settle, ClaimError, CompleteError, FailError, LoseLock, SlotTo
  <2>3. CASE \E n \in Nodes : Boot(n) \/ ReconStep(n) \/ ReconcileError(n) \/ ReconSwallows(n)
                              \/ AcquireError(n) \/ Crash(n)
    BY <1>7, <1>8, <2>3
    DEF Boot, ReconStep, ReconcileError, ReconSwallows, AcquireError, Crash, AcquireLock,
        SkipReconcile, FindCandidates, ExpireCandidate, VisitCandidate, ReconEnqueue,
        ReconMarkQueued, EndLoop, ReleaseLock, AbortBootstrap
  <2>4. CASE BullLockExpires \/ StalledCheck \/ Evict \/ LockExpire \/ Tick \/ AllQuiet
    BY <1>8, <2>4 DEF BullLockExpires, StalledCheck, Evict, LockExpire, Tick, AllQuiet, vars
  <2>5. QED
    BY <2>1, <2>2, <2>3, <2>4 DEF Next

\* Every step keeps the records under reconciliation sound.
LEMMA StepKeepsReconsSound ==
  ASSUME TypeOK, SoundKept, StoreSound, ReconsSound, Next
  PROVE  ReconsSound'
<1> DEFINE Kept(n) == \A j \in Pending(n)' : j \in Pending(n) /\ recon'[n].snap[j] = recon[n].snap[j]
<1>0. \A n \in Nodes : recon[n] \in Recon
  BY DEF TypeOK
<1>1. ASSUME \A n \in Nodes : Kept(n) PROVE ReconsSound'
  BY <1>1, ReconsFrame
<1>2. ASSUME NEW n \in Nodes, NEW p2, recon' = [recon EXCEPT ![n] = p2],
             \A j \in p2.todo \cup (IF p2.pc \in ENQUEUE_STEPS \cup {"mark"} THEN {p2.job} ELSE {}) :
               j \in Pending(n) /\ p2.snap[j] = recon[n].snap[j]
      PROVE  ReconsSound'
  BY <1>1, <1>2 DEF Pending, TypeOK
<1>3. ASSUME NEW n \in Nodes, NEW pc \in ReconPcs \ (ENQUEUE_STEPS \cup {"mark"}), ReconTo(n, pc)
      PROVE  ReconsSound'
  BY <1>0, <1>2, <1>3 DEF ReconTo, Pending, Recon
<1>4. ASSUME NEW n \in Nodes, NEW pc \in ReconPcs \ (ENQUEUE_STEPS \cup {"mark"}),
             recon' = [recon EXCEPT ![n] = ReconAt(pc)]
      PROVE  ReconsSound'
  BY <1>2, <1>4 DEF ReconAt
<1>5. ASSUME NEW n \in Nodes, FindCandidates(n) PROVE ReconsSound'
  <2>1. PICK batch \in SUBSET JobIds :
          recon' = [recon EXCEPT ![n] =
                      [pc |-> "loop", todo |-> batch, job |-> Job0,
                       snap |-> [j \in JobIds |-> IF j \in batch THEN store[j] ELSE NoJob]]]
    BY <1>5 DEF FindCandidates
  <2>2. UNCHANGED <<store, now>>
    BY <1>5 DEF FindCandidates
  <2> DEFINE SoundRecord(m, j) ==
               LET r == recon[m].snap[j] IN Sound(j, r.version, r.payload, r.runAt, r.attempts)
  <2>3. ASSUME NEW m \in Nodes, NEW j \in Pending(m)'
        PROVE  SoundRecord(m, j)'
    <3>1. CASE m = n
      <4>1. j \in batch /\ recon'[m].snap[j] = store[j]
        BY <2>1, <2>3, <3>1 DEF Pending, TypeOK, ENQUEUE_STEPS
      <4>2. QED
        BY <2>2, <4>1 DEF StoreSound, Sound, SameSchedule
    <3>2. CASE m # n
      <4>1. recon'[m] = recon[m] /\ j \in Pending(m)
        BY <2>1, <2>3, <3>2 DEF Pending, TypeOK
      <4>2. QED
        BY <2>2, <4>1 DEF ReconsSound, Sound
    <3>3. QED
      BY <3>1, <3>2
  <2>4. QED
    BY <2>3 DEF ReconsSound
<1>6. ASSUME NEW n \in Nodes, ExpireCandidate(n) PROVE ReconsSound'
  <2>1. PICK j \in JobIds : recon' = [recon EXCEPT ![n].todo = @ \ {j}]
    BY <1>6 DEF ExpireCandidate
  <2>2. recon[n].pc = "loop"
    BY <1>6 DEF ExpireCandidate, IsNext
  <2>3. \A m \in Nodes : Kept(m)
    BY <1>0, <2>1, <2>2 DEF Pending, TypeOK, Recon, ENQUEUE_STEPS
  <2>4. QED
    BY <1>1, <2>3
<1>7. ASSUME NEW n \in Nodes, VisitCandidate(n) PROVE ReconsSound'
  <2>1. PICK j \in JobIds :
          /\ j \in recon[n].todo
          /\ recon' = [recon EXCEPT ![n].pc = "getJob", ![n].job = j, ![n].todo = @ \ {j}]
    BY <1>7 DEF VisitCandidate, IsNext
  <2>2. \A m \in Nodes : Kept(m)
    BY <1>0, <2>1 DEF Pending, TypeOK, Recon
  <2>3. QED
    BY <1>1, <2>2
<1>8. ASSUME NEW n \in Nodes, ReconEnqueue(n) \/ ReconSwallows(n) PROVE ReconsSound'
  <2>1. PICK pc : ReconTo(n, pc) /\ recon[n].pc \in ENQUEUE_STEPS
    BY <1>8 DEF ReconEnqueue, ReconSwallows, SWALLOWED, ENQUEUE_STEPS
  <2>2. \A m \in Nodes : Kept(m)
    BY <1>0, <2>1 DEF ReconTo, Pending, TypeOK, Recon
  <2>3. QED
    BY <1>1, <2>2
<1>9. ASSUME NEW n \in Nodes, ReconMarkQueued(n) PROVE ReconsSound'
  BY <1>3, <1>9 DEF ReconMarkQueued, ReconPcs, ENQUEUE_STEPS
<1>10. ASSUME NEW n \in Nodes, ProcessExit(n) PROVE ReconsSound'
  BY <1>4, <1>10 DEF ProcessExit, ReconPcs, ENQUEUE_STEPS
<1>11. CASE UNCHANGED recon
  BY <1>1, <1>11 DEF Pending
<1>12. QED
  <2>1. CASE \E c \in Calls : BeginSchedule(c) \/ BeginCancel(c) \/ CallStep(c) \/ CallError(c)
                              \/ CallSwallows(c)
    BY <1>11, <2>1 DEF BeginSchedule, BeginCancel, CallStep, CallError, CallSwallows, CallRemove,
                       CallUpsert, CallEnqueue, CallMarkQueued, CallMarkCancelled
  <2>2. CASE \E s \in Slots : Deliver(s) \/ SlotStep(s) \/ ClaimError(s) \/ CompleteError(s)
                                \/ FailError(s) \/ LoseLock(s)
    BY <1>11, <2>2
    DEF Deliver, SlotStep, RejectUnknown, StartRun, SkipStale, CompleteRun, ThrowRun,
        RecordFailure, Settle, ClaimError, CompleteError, FailError, LoseLock, SlotTo
  <2>3. CASE \E n \in Nodes : Boot(n) \/ ReconStep(n) \/ ReconcileError(n) \/ ReconSwallows(n)
                              \/ AcquireError(n) \/ Crash(n)
    <3>1. {"lock", "find", "release", "served", "abort"}
            \subseteq ReconPcs \ (ENQUEUE_STEPS \cup {"mark"})
      BY DEF ReconPcs, ENQUEUE_STEPS
    <3>2. QED
      BY <1>3, <1>4, <1>5, <1>6, <1>7, <1>8, <1>9, <1>10, <2>3, <3>1
      DEF Boot, ReconStep, ReconcileError, AcquireError, Crash, AcquireLock,
          SkipReconcile, EndLoop, ReleaseLock, AbortBootstrap
  <2>4. CASE BullLockExpires \/ StalledCheck \/ Evict \/ LockExpire \/ Tick \/ AllQuiet
    BY <1>11, <2>4 DEF BullLockExpires, StalledCheck, Evict, LockExpire, Tick, AllQuiet, vars
  <2>5. QED
    BY <2>1, <2>2, <2>3, <2>4 DEF Next

\* Every step keeps the deliveries in the slots sound.
LEMMA StepKeepsSlotsSound ==
  ASSUME TypeOK, SoundKept, BullSound, SlotsSound, Next
  PROVE  SlotsSound'
<1>0. \A s \in Slots : slot[s] \in Slot
  BY DEF TypeOK
<1>1. ASSUME \A s \in Slots : slot'[s].pc # "idle" =>
               /\ slot[s].pc # "idle" /\ slot'[s].job = slot[s].job
               /\ slot'[s].version = slot[s].version /\ slot'[s].payload = slot[s].payload
      PROVE  SlotsSound'
  BY <1>1, SlotsFrame
<1>2. ASSUME NEW s \in Slots, NEW pc, SlotTo(s, pc), slot[s].pc # "idle" PROVE SlotsSound'
  BY <1>0, <1>1, <1>2 DEF SlotTo, Slot, TypeOK
<1>3. ASSUME NEW s \in Slots, Settle(s) PROVE SlotsSound'
  BY <1>1, <1>3 DEF Settle, IdleSlot, TypeOK
<1>4. ASSUME NEW n \in Nodes, ProcessExit(n) PROVE SlotsSound'
  BY <1>1, <1>4 DEF ProcessExit, IdleSlot, TypeOK
<1>5. ASSUME NEW s \in Slots, Deliver(s) PROVE SlotsSound'
  <2>1. PICK j \in JobIds, v \in Times :
          /\ bull[j][v].state = "waiting"
          /\ slot' = [slot EXCEPT ![s] =
                        [pc |-> "claim", job |-> j, version |-> v, payload |-> bull[j][v].payload,
                         retryable |-> CanRetry(bull[j][v])]]
          /\ UNCHANGED <<store, now>>
    BY <1>5 DEF Deliver, Deliverable
  <2>2. Sound(j, v, bull[j][v].payload, bull[j][v].runAt, bull[j][v].attempts)
    BY <2>1 DEF BullSound
  <2>3. ASSUME NEW i \in Slots, slot'[i].pc # "idle"
        PROVE  /\ slot'[i].version < now
               /\ slot'[i].version = store[slot'[i].job].version =>
                    slot'[i].payload = store[slot'[i].job].payload
    <3>1. CASE i = s
      BY <2>1, <2>2, <3>1 DEF TypeOK, Sound, SameSchedule
    <3>2. CASE i # s
      BY <2>1, <2>3, <3>2 DEF TypeOK, SlotsSound
    <3>3. QED
      BY <3>1, <3>2
  <2>4. QED
    BY <2>1, <2>3 DEF SlotsSound
<1>6. CASE UNCHANGED slot
  BY <1>1, <1>6
<1>7. QED
  <2>1. CASE \E c \in Calls : BeginSchedule(c) \/ BeginCancel(c) \/ CallStep(c) \/ CallError(c)
                              \/ CallSwallows(c)
    BY <1>6, <2>1 DEF BeginSchedule, BeginCancel, CallStep, CallError, CallSwallows, CallRemove,
                      CallUpsert, CallEnqueue, CallMarkQueued, CallMarkCancelled
  <2>2. CASE \E s \in Slots : Deliver(s) \/ SlotStep(s) \/ ClaimError(s) \/ CompleteError(s)
                                \/ FailError(s) \/ LoseLock(s)
    BY <1>2, <1>3, <1>5, <1>6, <2>2
    DEF SlotStep, RejectUnknown, StartRun, SkipStale, Claim, CompleteRun, ThrowRun,
        RecordFailure, ClaimError, CompleteError, FailError, LoseLock
  <2>3. CASE \E n \in Nodes : Boot(n) \/ ReconStep(n) \/ ReconcileError(n) \/ ReconSwallows(n)
                              \/ AcquireError(n) \/ Crash(n)
    BY <1>4, <1>6, <2>3
    DEF Boot, ReconStep, ReconcileError, ReconSwallows, AcquireError, Crash, AcquireLock,
        SkipReconcile, FindCandidates, ExpireCandidate, VisitCandidate, ReconEnqueue,
        ReconMarkQueued, EndLoop, ReleaseLock, AbortBootstrap
  <2>4. CASE BullLockExpires \/ StalledCheck \/ Evict \/ LockExpire \/ Tick \/ AllQuiet
    BY <1>6, <2>4 DEF BullLockExpires, StalledCheck, Evict, LockExpire, Tick, AllQuiet, vars
  <2>5. QED
    BY <2>1, <2>2, <2>3, <2>4 DEF Next

\* Every step keeps the inductive invariant.
LEMMA StepKeepsVersionInv ==
  ASSUME UniqueStamps, TypeOK, TypeOK', VersionInv, [Next]_vars
  PROVE  VersionInv'
<1>1. CASE UNCHANGED vars
  BY <1>1 DEF vars, VersionInv, StoreSound, BullSound, CallsSound, ReconsSound, SlotsSound, Sound,
              Enqueuing, Pending
<1>2. CASE Next
  <2>1. StoreSound' /\ SoundKept
    BY <1>2, StepKeepsSound DEF VersionInv
  <2>2. BullSound'
    BY <1>2, <2>1, StepKeepsBullSound DEF VersionInv
  <2>3. CallsSound'
    BY <1>2, <2>1, StepKeepsCallsSound DEF VersionInv
  <2>4. ReconsSound'
    BY <1>2, <2>1, StepKeepsReconsSound DEF VersionInv
  <2>5. SlotsSound'
    BY <1>2, <2>1, StepKeepsSlotsSound DEF VersionInv
  <2>6. QED
    BY <2>1, <2>2, <2>3, <2>4, <2>5 DEF VersionInv
<1>3. QED
  BY <1>1, <1>2

(* As long as no two upserts share a tick of the clock, whoever holds the   *)
(* current version of a job - BullMQ, a call, the reconciliation, a worker  *)
(* - means the schedule the store has under that version.                   *)
THEOREM VersionsIdentifySchedules ==
  ASSUME UniqueStamps
  PROVE  Spec => []VersionIdentifiesSchedule
<1>1. Init => VersionInv
  BY InitVersions
<1>2. VersionInv /\ TypeOK /\ TypeOK' /\ [Next]_vars => VersionInv'
  BY StepKeepsVersionInv
<1>3. VersionInv /\ TypeOK => VersionIdentifiesSchedule
  BY VersionInvSuffices
<1>4. QED
  BY <1>1, <1>2, <1>3, TypeCorrect, PTL DEF Spec
=============================================================================
