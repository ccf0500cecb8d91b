-------------------------- MODULE SchedulerArmingProofs --------------------------
(***************************************************************************)
(* Without crashes and failing commands no interleaving of schedule(),     *)
(* cancel(), deliveries and startup reconciliation disarms the current     *)
(* schedule: QuiescentJobIsArmed, for every number of job ids, calls,      *)
(* nodes and slots, with any lost locks and stalls.                        *)
(***************************************************************************)
EXTENDS LazySchedulerProofs

\* What the theorem assumes: nothing crashes or fails, every process has every
\* handler, no schedule has zero attempts, no two upserts share a tick.
Undisturbed ==
  /\ UniqueStamps
  /\ MaxCrashes = 0 /\ MaxFaults = 0
  /\ \A n \in Nodes : Handles[n] = JobIds
  /\ \A r \in Requests : r.kind = "schedule" => r.attempts > 0

\* A document with an active schedule that nobody has tried.
Untried(r) == r.status \in ACTIVE_STATUSES /\ r.attemptsMade = 0

\* Version v is the current one of j, and untried.
Current(j, v) == Untried(store[j]) /\ store[j].version = v

\* A slot is about to claim it; a call is about to replace or close whatever j
\* has; a call or a reconciliation is about to add it to the queue.
Claimed(j, v) == \E s \in Slots : slot[s].pc = "claim" /\ slot[s].job = j /\ slot[s].version = v
Replacing(j)  == \E c \in Calls : call[c].pc \in {"remove", "upsert", "cancel"} /\ call[c].req.job = j
ADDING == {"getJob", "purge", "add"}
Adding(j, v) ==
  \/ \E c \in Calls : call[c].pc \in ADDING /\ call[c].req.job = j /\ call[c].version = v
  \/ \E n \in Nodes : recon[n].pc \in ADDING /\ recon[n].job = j /\ recon[n].snap[j].version = v

\* The states of a BullMQ job that has been delivered.
HELD == {"active", "completed", "failed"}

\* The pcs of a slot that is past its claim.
TRIED == {"run", "caught", "ack", "nack"}

\* Version v of j will be tried or replaced.
Armed(j, v) ==
  /\ bull[j][v].state = "waiting" \/ Claimed(j, v) \/ Replacing(j) \/ Adding(j, v)
  /\ bull[j][v].state \in HELD => Claimed(j, v)

\* A run uses up an attempt, and an untried schedule has one.
Countable(r) == /\ r.status = "running" => r.attemptsMade > 0
                /\ Untried(r) => r.attempts > 0

AllArmed     == \A j \in JobIds, v \in Times : Current(j, v) => Armed(j, v)
AllCountable == \A j \in JobIds : Countable(store[j])
SlotsTried   == \A s \in Slots : slot[s].pc \in TRIED => ~Current(slot[s].job, slot[s].version)
OnlySchedulesUpsert == \A c \in Calls : call[c].pc = "upsert" => call[c].req.kind = "schedule"
NobodyAborts == \A n \in Nodes : recon[n].pc # "abort"

ArmedInv == AllArmed /\ AllCountable /\ SlotsTried /\ OnlySchedulesUpsert /\ NobodyAborts

\* When all is quiet the queue is all that is left.
LEMMA ArmedInvSuffices ==
  ASSUME TypeOK, ArmedInv
  PROVE  QuiescentJobIsArmed
<1> SUFFICES ASSUME Quiet, NEW j \in JobIds, Untried(store[j])
             PROVE  bull[j][store[j].version].state = "waiting"
  BY DEF QuiescentJobIsArmed, Untried
<1>1. PICK v \in Times : v = store[j].version
  BY DEF TypeOK, SchedulerJobRecord
<1>2. Armed(j, v)
  BY <1>1 DEF ArmedInv, AllArmed, Current
<1>3. ~Claimed(j, v) /\ ~Replacing(j) /\ ~Adding(j, v)
  BY DEF Quiet, Claimed, Replacing, Adding, ADDING
<1>4. QED
  BY <1>1, <1>2, <1>3 DEF Armed

\* Initially there is nothing to arm.
LEMMA InitArmed == Init => ArmedInv
BY DEF Init, TRIED, ArmedInv, AllArmed, AllCountable, SlotsTried, OnlySchedulesUpsert, NobodyAborts,
       Current, Untried, Countable, NoJob, ACTIVE_STATUSES, IdleSlot, CallAt, ReconAt

\* Nothing that is excluded happens.
LEMMA NothingFails ==
  ASSUME Undisturbed, TypeOK
  PROVE  /\ ~Fault
         /\ \A n \in Nodes : ~Crash(n)
BY BoundsAssumption DEF Undisturbed, TypeOK, Spent, Fault, Crash

-----------------------------------------------------------------------------
(* The store                                                               *)

\* Document r2 is r after a transition that takes no new schedule.
NoNewer(r, r2) == Countable(r2) /\ (Untried(r2) => Untried(r)) /\ r2.version = r.version

\* No transition but an upsert makes a schedule untried: not markQueued,
LEMMA QueuedTries ==
  ASSUME NEW r \in Doc, Countable(r), NEW v
  PROVE  NoNewer(r, MarkQueued(r, v))
BY DEF NoNewer, Countable, Untried, ACTIVE_STATUSES, TERMINAL_STATUSES, NotTerminal, Doc,
       SchedulerJobRecord, SchedulerJobStatus, MarkQueued

\* nor markRunning, which tries it,
LEMMA RunningTries ==
  ASSUME NEW r \in Doc, Countable(r), NEW v, NEW t
  PROVE  /\ NoNewer(r, MarkRunning(r, v, t))
         /\ CanMarkRunning(r, v) => ~Untried(MarkRunning(r, v, t))
BY DEF NoNewer, Countable, Untried, ACTIVE_STATUSES, Doc, SchedulerJobRecord, MarkRunning,
       CanMarkRunning

\* nor the end of a run,
LEMMA FinishedTries ==
  ASSUME NEW r \in Doc, Countable(r), NEW v,
         NEW st \in {"completed", "failed", "dead_letter", "failed_retryable"}
  PROVE  NoNewer(r, MarkFinished(r, v, st))
BY DEF NoNewer, Countable, Untried, ACTIVE_STATUSES, Doc, SchedulerJobRecord, MarkFinished

\* nor markCancelled and markExpired.
LEMMA ClosedTries ==
  ASSUME NEW r \in Doc, Countable(r), NEW st \in {"cancelled", "expired"}
  PROVE  NoNewer(r, MarkClosed(r, st)) /\ ~Untried(MarkClosed(r, st))
BY DEF NoNewer, Countable, Untried, ACTIVE_STATUSES, TERMINAL_STATUSES, NotTerminal, Doc,
       SchedulerJobRecord, SchedulerJobStatus, MarkClosed

\* What is current and untried was so before.
CurrentStays == \A j \in JobIds, v \in Times : Current(j, v)' => Current(j, v)
Tries == CurrentStays /\ AllCountable'

\* A step on one document that takes no new schedule.
LEMMA OneDocument ==
  ASSUME TypeOK, AllCountable, NEW j \in JobIds, NEW r2, store' = [store EXCEPT ![j] = r2],
         NoNewer(store[j], r2)
  PROVE  Tries
BY DEF NoNewer, Tries, CurrentStays, Current, AllCountable, TypeOK

\* Nor does a step that leaves the store alone.
LEMMA SameDocuments ==
  ASSUME AllCountable, UNCHANGED store
  PROVE  Tries
BY DEF Tries, CurrentStays, Current, AllCountable

\* Every step but an upsert leaves no schedule untried that was not.
LEMMA StepsTry ==
  ASSUME Undisturbed, TypeOK, AllCountable, Next, \A c \in Calls : ~CallUpsert(c)
  PROVE  Tries
<1>0. /\ \A j \in JobIds : store[j] \in Doc /\ Countable(store[j])
      /\ \A c \in Calls : call[c].req.job \in JobIds
      /\ \A s \in Slots : slot[s].job \in JobIds
      /\ \A n \in Nodes : recon[n].job \in JobIds
  BY TopologyAssumption DEF TypeOK, Call, Request, Slot, Recon, Doc, AllCountable
<1>1. ASSUME UNCHANGED store PROVE Tries
  BY <1>1, SameDocuments
<1>2. ASSUME NEW j \in JobIds, NEW v, store' = [store EXCEPT ![j] = MarkQueued(store[j], v)]
      PROVE  Tries
  <2>1. NoNewer(store[j], MarkQueued(store[j], v))
    BY <1>0, QueuedTries
  <2>2. QED
    BY <1>2, <2>1, OneDocument
<1>3. ASSUME NEW j \in JobIds, NEW st \in {"cancelled", "expired"},
             store' = [store EXCEPT ![j] = MarkClosed(store[j], st)]
      PROVE  Tries
  <2>1. NoNewer(store[j], MarkClosed(store[j], st))
    BY <1>0, ClosedTries
  <2>2. QED
    BY <1>3, <2>1, OneDocument
<1>4. ASSUME NEW s \in Slots, StoreClaim(s) PROVE Tries
  <2> DEFINE r  == store[slot[s].job]
             r2 == MarkRunning(r, slot[s].version, now)
  <2>1. NoNewer(r, r2)
    BY <1>0, RunningTries
  <2>2. store' = [store EXCEPT ![slot[s].job] = r2]
    BY <1>4 DEF StoreClaim
  <2> HIDE DEF r2
  <2>3. QED
    BY <1>0, <2>1, <2>2, OneDocument
<1>5. ASSUME NEW s \in Slots, NEW st \in {"completed", "failed", "dead_letter", "failed_retryable"},
             StoreFinish(s, st)
      PROVE  Tries
  <2> DEFINE r  == store[slot[s].job]
             r2 == MarkFinished(r, slot[s].version, st)
  <2>1. NoNewer(r, r2)
    BY <1>0, FinishedTries
  <2>2. store' = [store EXCEPT ![slot[s].job] = r2]
    BY <1>5 DEF StoreFinish
  <2> HIDE DEF r2
  <2>3. QED
    BY <1>0, <2>1, <2>2, OneDocument
<1>6. \A s \in Slots : FailureStatus(s) \in {"completed", "failed", "dead_letter", "failed_retryable"}
  BY DEF FailureStatus
<1>7. CASE \E c \in Calls : BeginSchedule(c) \/ BeginCancel(c) \/ CallStep(c) \/ CallError(c)
                            \/ CallSwallows(c)
  BY <1>0, <1>1, <1>2, <1>3, <1>7
  DEF BeginSchedule, BeginCancel, CallStep, CallError, CallSwallows, CallRemove, CallEnqueue,
      CallMarkQueued, CallMarkCancelled
<1>8. CASE \E s \in Slots : Deliver(s) \/ SlotStep(s) \/ ClaimError(s) \/ CompleteError(s)
                              \/ FailError(s) \/ LoseLock(s)
  BY <1>1, <1>4, <1>5, <1>6, <1>8
  DEF Deliver, SlotStep, RejectUnknown, StartRun, SkipStale, CompleteRun, ThrowRun, RecordFailure,
      Settle, ClaimError, CompleteError, FailError, LoseLock
<1>9. CASE \E n \in Nodes : Boot(n) \/ ReconStep(n) \/ ReconcileError(n) \/ ReconSwallows(n)
                            \/ AcquireError(n) \/ Crash(n)
  BY <1>0, <1>1, <1>2, <1>3, <1>9
  DEF Boot, ReconStep, ReconcileError, ReconSwallows, AcquireError, Crash, AcquireLock,
      SkipReconcile, FindCandidates, ExpireCandidate, VisitCandidate, ReconEnqueue,
      ReconMarkQueued, EndLoop, ReleaseLock, AbortBootstrap
<1>10. CASE BullLockExpires \/ StalledCheck \/ Evict \/ LockExpire \/ Tick \/ AllQuiet
  BY <1>1, <1>10 DEF BullLockExpires, StalledCheck, Evict, LockExpire, Tick, AllQuiet, vars
<1>11. QED
  BY <1>7, <1>8, <1>9, <1>10 DEF Next

-----------------------------------------------------------------------------
(* Who is still to act                                                     *)

\* A version is as armed as before if its BullMQ job and its actors are.
LEMMA ArmedFrame ==
  ASSUME NEW j, NEW v, Armed(j, v),
         bull'[j][v].state \in HELD => bull[j][v].state \in HELD,
         bull[j][v].state = "waiting" => bull'[j][v].state = "waiting",
         Claimed(j, v) => Claimed(j, v)', Replacing(j) => Replacing(j)', Adding(j, v) => Adding(j, v)'
  PROVE  Armed(j, v)'
BY DEF Armed

\* One call moves on, and was not about to replace or add.
LEMMA CallMoves ==
  ASSUME NEW c \in Calls, \A i \in Calls : i # c => call'[i] = call[i], UNCHANGED <<slot, recon>>,
         NEW j, NEW v,
         call[c].pc \in {"remove", "upsert", "cancel"} /\ call[c].req.job = j =>
           call'[c].pc \in {"remove", "upsert", "cancel"} /\ call'[c].req.job = j,
         call[c].pc \in ADDING /\ call[c].req.job = j /\ call[c].version = v =>
           call'[c].pc \in ADDING /\ call'[c].req.job = j /\ call'[c].version = v
  PROVE  /\ Claimed(j, v) => Claimed(j, v)'
         /\ Replacing(j) => Replacing(j)'
         /\ Adding(j, v) => Adding(j, v)'
BY DEF Claimed, Replacing, Adding

\* One process moves on.
LEMMA ReconMoves ==
  ASSUME TypeOK, NEW n \in Nodes, NEW p2, recon' = [recon EXCEPT ![n] = p2], UNCHANGED <<slot, call>>,
         NEW j, NEW v,
         recon[n].pc \in ADDING /\ recon[n].job = j /\ recon[n].snap[j].version = v =>
           p2.pc \in ADDING /\ p2.job = j /\ p2.snap[j].version = v
  PROVE  /\ Claimed(j, v) => Claimed(j, v)'
         /\ Replacing(j) => Replacing(j)'
         /\ Adding(j, v) => Adding(j, v)'
<1>1. recon'[n] = p2 /\ \A i \in Nodes : i # n => recon'[i] = recon[i]
  BY DEF TypeOK
<1>2. QED
  BY <1>1 DEF Claimed, Replacing, Adding

\* One slot moves on.
LEMMA SlotMoves ==
  ASSUME TypeOK, NEW s \in Slots, NEW d2, slot' = [slot EXCEPT ![s] = d2], UNCHANGED <<call, recon>>,
         NEW j, NEW v,
         ~(slot[s].pc = "claim" /\ slot[s].job = j /\ slot[s].version = v)
  PROVE  /\ Claimed(j, v) => Claimed(j, v)'
         /\ Replacing(j) => Replacing(j)'
         /\ Adding(j, v) => Adding(j, v)'
<1>1. \A i \in Slots : i # s => slot'[i] = slot[i]
  BY DEF TypeOK
<1>2. QED
  BY <1>1 DEF Claimed, Replacing, Adding

\* What an enqueue step does to the BullMQ job, and who is to add it after that.
LEMMA EnqueueArms ==
  ASSUME NEW b \in BJob, NEW step \in ENQUEUE_STEPS, NEW payload, NEW runAt, NEW attempts
  PROVE  LET b2 == EnqueueEffect(step, b, payload, runAt, attempts) IN
         /\ b2.state \in HELD => b.state \in HELD
         /\ \/ EnqueueNext(step, b) \in ADDING
            \/ b2.state = "waiting"
            \/ b2.state \in HELD
            \/ step = "getState" /\ b2 = b
BY DEF EnqueueEffect, EnqueueNext, ENQUEUE_STEPS, ADDING, HELD, Removed, Added, NoBullJob, BJob,
       BullJob

-----------------------------------------------------------------------------
(* Every step keeps the current schedules armed                            *)

StaysArmed == \A j \in JobIds, v \in Times :
                Current(j, v) /\ Armed(j, v) /\ Current(j, v)' => Armed(j, v)'

\* A step that leaves queue, slots, calls and processes alone.
LEMMA OutsideArmed ==
  ASSUME UNCHANGED <<bull, slot, call, recon>>
  PROVE  StaysArmed
BY DEF StaysArmed, Armed, Claimed, Replacing, Adding

\* A step of a call that is not about to replace or add.
LEMMA CallOutside ==
  ASSUME NEW c \in Calls, \A i \in Calls : i # c => call'[i] = call[i],
         UNCHANGED <<bull, slot, recon>>, call[c].pc \notin {"remove", "upsert", "cancel"} \cup ADDING
  PROVE  StaysArmed
<1>1. ASSUME NEW j \in JobIds, NEW v \in Times, Armed(j, v)
      PROVE  Armed(j, v)'
  BY <1>1, CallMoves, ArmedFrame
<1>2. QED
  BY <1>1 DEF StaysArmed

\* The job that a call removes is one the call is about to replace.
LEMMA RemoveStaysArmed ==
  ASSUME Undisturbed, TypeOK, NEW c \in Calls, CallRemove(c)
  PROVE  StaysArmed
<1> DEFINE k == call[c]
<1>1. /\ k \in Call /\ k.req.job \in JobIds /\ k.seen \in Times /\ k.pc = "remove"
      /\ UNCHANGED <<slot, recon>>
      /\ bull' = [bull EXCEPT ![k.req.job][k.seen] = Removed(@)]
  BY NothingFails, TopologyAssumption DEF CallRemove, TypeOK, Call, Request
<1>2. /\ call'[c].pc \in {"cancel", "upsert"} /\ call'[c].req = k.req
      /\ \A i \in Calls : i # c => call'[i] = call[i]
  BY DEF CallRemove, TypeOK, Call
<1>3. ASSUME NEW j \in JobIds, NEW v \in Times, Armed(j, v)
      PROVE  Armed(j, v)'
  <2>1. Claimed(j, v) => Claimed(j, v)'
    BY <1>1 DEF Claimed
  <2>2. CASE j = k.req.job
    <3>1. Replacing(j)'
      BY <1>2, <2>2 DEF Replacing
    <3>2. bull'[j][v].state \in HELD => bull[j][v].state \in HELD
      BY <1>1 DEF TypeOK, Removed, NoBullJob, HELD
    <3>3. QED
      BY <1>3, <2>1, <3>1, <3>2 DEF Armed
  <2>3. CASE j # k.req.job
    <3>1. bull'[j][v] = bull[j][v]
      BY <1>1, <2>3 DEF TypeOK
    <3>2. QED
      BY <1>1, <1>2, <1>3, <2>3, <3>1, CallMoves, ArmedFrame DEF ADDING
  <2>4. QED
    BY <2>2, <2>3
<1>4. QED
  BY <1>3 DEF StaysArmed

\* An enqueue step of version u of job i, and who it leaves as they were.
EnqueueStep(i, u, step, payload, runAt, attempts) ==
  bull' = [bull EXCEPT ![i][u] = EnqueueEffect(step, @, payload, runAt, attempts)]
ReplacersStay == \A j : Replacing(j) => Replacing(j)'
AddersStay(i, u, step) ==
  \A j, v : (j # i \/ v # u \/ step = "getState") /\ Adding(j, v) => Adding(j, v)'
GoesOn(i, u, step) == EnqueueNext(step, bull[i][u]) \in ADDING => Adding(i, u)'

\* An enqueue step of a version leaves it in the queue, claimed, or to be added.
LEMMA EnqueueStaysArmed ==
  ASSUME TypeOK, NEW i \in JobIds, NEW u \in Times, NEW step \in ENQUEUE_STEPS,
         NEW payload, NEW runAt, NEW attempts, EnqueueStep(i, u, step, payload, runAt, attempts),
         UNCHANGED slot, ReplacersStay, GoesOn(i, u, step), AddersStay(i, u, step)
  PROVE  StaysArmed
<1> DEFINE b  == bull[i][u]
           b2 == EnqueueEffect(step, b, payload, runAt, attempts)
<1>0. bull' = [bull EXCEPT ![i][u] = b2]
  BY DEF EnqueueStep
<1> SUFFICES ASSUME NEW j \in JobIds, NEW v \in Times, Armed(j, v)
             PROVE  Armed(j, v)'
  BY DEF StaysArmed
<1>1. Claimed(j, v) => Claimed(j, v)'
  BY DEF Claimed
<1>2. CASE j # i \/ v # u
  <2>1. bull'[j][v] = bull[j][v]
    BY <1>0, <1>2 DEF TypeOK
  <2>2. QED
    BY <1>1, <1>2, <2>1, ArmedFrame DEF ReplacersStay, AddersStay
<1>3. CASE j = i /\ v = u
  <2>1. bull'[j][v] = b2 /\ b \in BJob
    BY <1>0, <1>3 DEF TypeOK, BJob
  <2>2. /\ b2.state \in HELD => b.state \in HELD
        /\ \/ EnqueueNext(step, b) \in ADDING \/ b2.state = "waiting" \/ b2.state \in HELD
           \/ step = "getState" /\ b2 = b
    BY <2>1, EnqueueArms
  <2> HIDE DEF b, b2
  <2>3. b2.state \in HELD => Claimed(j, v)'
    BY <1>1, <1>3, <2>2 DEF Armed, b
  <2>4. b2.state = "waiting" \/ Claimed(j, v)' \/ Replacing(j)' \/ Adding(j, v)'
    BY <1>1, <1>3, <2>2, <2>3 DEF Armed, b, ReplacersStay, AddersStay, GoesOn
  <2>5. QED
    BY <2>1, <2>3, <2>4 DEF Armed
<1>4. QED
  BY <1>2, <1>3

\* The enqueue steps of a call.
LEMMA CallEnqueueStaysArmed ==
  ASSUME TypeOK, NEW c \in Calls, CallEnqueue(c)
  PROVE  StaysArmed
<1> DEFINE k == call[c]
           pc2 == EnqueueNext(k.pc, bull[k.req.job][k.version])
<1>1. /\ k \in Call /\ k.req.job \in JobIds /\ k.version \in Times /\ k.pc \in ENQUEUE_STEPS
      /\ call' = [call EXCEPT ![c].pc = pc2] /\ UNCHANGED <<slot, recon>>
      /\ EnqueueStep(k.req.job, k.version, k.pc, c, k.req.runAt, k.req.attempts)
  BY TopologyAssumption DEF CallEnqueue, TypeOK, Call, Request, EnqueueStep
<1>2. /\ call'[c].req = k.req /\ call'[c].version = k.version /\ call'[c].pc = pc2
      /\ \A i \in Calls : i # c => call'[i] = call[i]
  BY <1>1 DEF TypeOK, Call
<1> HIDE DEF pc2
<1>3. ReplacersStay
  BY <1>1, <1>2 DEF Replacing, ENQUEUE_STEPS, ReplacersStay
<1>4. pc2 \in ADDING => Adding(k.req.job, k.version)'
  BY <1>1, <1>2 DEF Adding
<1>5. AddersStay(k.req.job, k.version, k.pc)
  BY <1>1, <1>2 DEF Adding, ADDING, AddersStay
<1>6. GoesOn(k.req.job, k.version, k.pc)
  BY <1>4 DEF pc2, GoesOn
<1> HIDE DEF k
<1>7. QED
  BY <1>1, <1>3, <1>5, <1>6, EnqueueStaysArmed

\* The enqueue steps of a reconciliation.
LEMMA ReconEnqueueStaysArmed ==
  ASSUME TypeOK, NEW n \in Nodes, ReconEnqueue(n)
  PROVE  StaysArmed
<1> DEFINE p == recon[n]
           r == p.snap[p.job]
           pc2 == EnqueueNext(p.pc, bull[p.job][r.version])
<1>1. /\ p \in Recon /\ p.job \in JobIds /\ r.version \in Times /\ p.pc \in ENQUEUE_STEPS
      /\ recon' = [recon EXCEPT ![n].pc = pc2] /\ UNCHANGED <<slot, call>>
      /\ EnqueueStep(p.job, r.version, p.pc, r.payload, r.runAt, r.attempts)
  BY DEF ReconEnqueue, ReconTo, TypeOK, Recon, SchedulerJobRecord, EnqueueStep
<1>2. /\ recon'[n].job = p.job /\ recon'[n].snap = p.snap /\ recon'[n].pc = pc2
      /\ \A i \in Nodes : i # n => recon'[i] = recon[i]
  BY <1>1 DEF TypeOK, Recon
<1> HIDE DEF pc2
<1>3. ReplacersStay
  BY <1>1 DEF Replacing, ReplacersStay
<1>4. pc2 \in ADDING => Adding(p.job, r.version)'
  BY <1>1, <1>2 DEF Adding
<1>5. AddersStay(p.job, r.version, p.pc)
  BY <1>1, <1>2 DEF Adding, ADDING, AddersStay
<1>6. GoesOn(p.job, r.version, p.pc)
  BY <1>4 DEF pc2, GoesOn
<1> HIDE DEF p, r
<1>7. QED
  BY <1>1, <1>3, <1>5, <1>6, EnqueueStaysArmed

\* The document a call closes has no current schedule left.
LEMMA CancelStaysArmed ==
  ASSUME TypeOK, AllCountable, NEW c \in Calls, CallMarkCancelled(c)
  PROVE  StaysArmed
<1> DEFINE k == call[c]
           r2 == MarkClosed(store[k.req.job], "cancelled")
<1>1. /\ k.req.job \in JobIds /\ k.pc = "cancel" /\ UNCHANGED <<bull, slot, recon>>
      /\ store' = [store EXCEPT ![k.req.job] = r2]
      /\ \A i \in Calls : i # c => call'[i] = call[i]
  BY TopologyAssumption DEF CallMarkCancelled, TypeOK, Call, Request
<1>2. ~Untried(r2)
  BY <1>1, ClosedTries DEF AllCountable, TypeOK, Doc
<1>3. ASSUME NEW j \in JobIds, NEW v \in Times, Armed(j, v), Current(j, v)'
      PROVE  Armed(j, v)'
  <2>1. j # k.req.job
    BY <1>1, <1>2, <1>3 DEF Current, TypeOK
  <2>2. QED
    BY <1>1, <1>3, <2>1, CallMoves, ArmedFrame DEF ADDING
<1>4. QED
  BY <1>3 DEF StaysArmed

\* A slot that gives up a claim gives up no current schedule.
LEMMA SlotStaysArmed ==
  ASSUME TypeOK, NEW s \in Slots, NEW d2, slot' = [slot EXCEPT ![s] = d2],
         UNCHANGED <<bull, call, recon>>,
         \A j \in JobIds, v \in Times :
           slot[s].pc = "claim" /\ slot[s].job = j /\ slot[s].version = v => ~Current(j, v)'
  PROVE  StaysArmed
<1>1. ASSUME NEW j \in JobIds, NEW v \in Times, Armed(j, v), Current(j, v)'
      PROVE  Armed(j, v)'
  <2>1. ~(slot[s].pc = "claim" /\ slot[s].job = j /\ slot[s].version = v)
    BY <1>1
  <2>2. QED
    BY <1>1, <2>1, SlotMoves, ArmedFrame
<1>2. QED
  BY <1>1 DEF StaysArmed

\* A delivery is claimed by the slot that gets it.
LEMMA DeliverStaysArmed ==
  ASSUME TypeOK, NEW s \in Slots, Deliver(s)
  PROVE  StaysArmed
<1>1. PICK i \in JobIds, u \in Times :
        /\ bull' = [bull EXCEPT ![i][u] = Delivered(bull[i][u], s)]
        /\ slot' = [slot EXCEPT ![s] = [pc |-> "claim", job |-> i, version |-> u,
                       payload |-> bull[i][u].payload, retryable |-> CanRetry(bull[i][u])]]
  BY DEF Deliver
<1>2. slot[s].pc = "idle" /\ UNCHANGED <<call, recon>>
  BY DEF Deliver
<1>3. Claimed(i, u)'
  BY <1>1 DEF Claimed, TypeOK
<1>4. ASSUME NEW j \in JobIds, NEW v \in Times, Armed(j, v)
      PROVE  Armed(j, v)'
  <2>1. CASE j = i /\ v = u
    BY <1>3, <2>1 DEF Armed
  <2>2. CASE j # i \/ v # u
    <3>1. bull'[j][v] = bull[j][v]
      BY <1>1, <2>2 DEF TypeOK
    <3> DEFINE d2 == [pc |-> "claim", job |-> i, version |-> u, payload |-> bull[i][u].payload,
                      retryable |-> CanRetry(bull[i][u])]
    <3>2. slot' = [slot EXCEPT ![s] = d2]
      BY <1>1
    <3> HIDE DEF d2
    <3>3. QED
      BY <1>2, <1>4, <3>1, <3>2, SlotMoves, ArmedFrame
  <2>3. QED
    BY <2>1, <2>2
<1>5. QED
  BY <1>4 DEF StaysArmed

\* What a slot settles is no current schedule.
LEMMA SettleStaysArmed ==
  ASSUME TypeOK, SlotsTried, NEW s \in Slots, Settle(s)
  PROVE  StaysArmed
<1> DEFINE d  == slot[s]
           b2 == IF d.pc = "ack" THEN Completed(bull[d.job][d.version], s)
                                 ELSE Failed(bull[d.job][d.version], s)
<1>1. /\ d.pc \in {"ack", "nack"} /\ ~Current(d.job, d.version) /\ UNCHANGED <<call, recon>>
      /\ bull' = [bull EXCEPT ![d.job][d.version] = b2] /\ slot' = [slot EXCEPT ![s] = IdleSlot]
  BY DEF Settle, SlotsTried, TRIED
<1> HIDE DEF b2
<1>2. ASSUME NEW j \in JobIds, NEW v \in Times, Current(j, v), Armed(j, v)
      PROVE  Armed(j, v)'
  <2>1. j # d.job \/ v # d.version
    BY <1>1, <1>2
  <2>2. bull'[j][v] = bull[j][v]
    BY <1>1, <2>1 DEF TypeOK
  <2>3. QED
    BY <1>1, <1>2, <2>2, SlotMoves, ArmedFrame
<1>3. QED
  BY <1>2 DEF StaysArmed

\* BullMQ's housekeeping changes the state of nothing but delivered jobs, and
\* a delivered job of a current schedule is claimed.
LEMMA HousekeepingStaysArmed ==
  ASSUME TypeOK, NEW i \in JobIds, NEW u \in Times, NEW b2, bull' = [bull EXCEPT ![i][u] = b2],
         UNCHANGED <<slot, call, recon>>, b2.state = bull[i][u].state \/ bull[i][u].state \in HELD
  PROVE  StaysArmed
<1>1. ASSUME NEW j \in JobIds, NEW v \in Times, Armed(j, v)
      PROVE  Armed(j, v)'
  <2>1. /\ Claimed(j, v)' <=> Claimed(j, v)
        /\ Replacing(j)' <=> Replacing(j)
        /\ Adding(j, v)' <=> Adding(j, v)
    BY DEF Claimed, Replacing, Adding
  <2>2. bull'[j][v] = IF j = i /\ v = u THEN b2 ELSE bull[j][v]
    BY DEF TypeOK
  <2>3. QED
    BY <1>1, <2>1, <2>2 DEF Armed
<1>2. QED
  BY <1>1 DEF StaysArmed

\* A step of a reconciliation that is not about to add.
LEMMA ReconOutside ==
  ASSUME TypeOK, NEW n \in Nodes, NEW p2, recon' = [recon EXCEPT ![n] = p2],
         UNCHANGED <<bull, slot, call>>, recon[n].pc \notin ADDING
  PROVE  StaysArmed
<1>1. ASSUME NEW j \in JobIds, NEW v \in Times, Armed(j, v)
      PROVE  Armed(j, v)'
  BY <1>1, ReconMoves, ArmedFrame
<1>2. QED
  BY <1>1 DEF StaysArmed

-----------------------------------------------------------------------------
(* An upsert: the call that stores a new schedule is about to add it       *)

\* The new schedule is armed by its call, the others as before.
LEMMA UpsertArms ==
  ASSUME Undisturbed, TypeOK, StoreSound, BullSound, AllArmed, NEW c \in Calls, CallUpsert(c)
  PROVE  AllArmed'
<1> DEFINE k == call[c]
<1>1. /\ k.req.job \in JobIds /\ k.pc = "upsert" /\ UNCHANGED <<bull, slot, recon>>
      /\ now \in Times /\ now \in Nat
      /\ store' = [store EXCEPT ![k.req.job] = UpsertScheduledJob(@, now, c, k.req)]
  BY TimesFacts, TopologyAssumption DEF CallUpsert, TypeOK, Call, Request
<1>2. /\ call'[c].pc = "getJob" /\ call'[c].req = k.req /\ call'[c].version = now
      /\ \A i \in Calls : i # c => call'[i] = call[i]
  BY DEF CallUpsert, TypeOK, Call
<1>3. ASSUME NEW j \in JobIds, NEW v \in Times, Current(j, v)', j = k.req.job
      PROVE  Armed(j, v)'
  <2>1. v = now
    BY <1>1, <1>3 DEF Current, UpsertScheduledJob, TypeOK, SchedulerJobRecord
  <2>2. bull[j][v].state = "absent"
    BY <1>1, <2>1 DEF BullSound, Sound
  <2>3. Adding(j, v)'
    BY <1>2, <1>3, <2>1 DEF Adding, ADDING
  <2>4. QED
    BY <1>1, <2>2, <2>3 DEF Armed, HELD
<1>4. ASSUME NEW j \in JobIds, NEW v \in Times, Current(j, v)', j # k.req.job
      PROVE  Armed(j, v)'
  <2>1. Current(j, v)
    BY <1>1, <1>4 DEF Current, TypeOK
  <2>2. Armed(j, v)
    BY <2>1 DEF AllArmed
  <2>3. QED
    BY <1>1, <1>2, <1>4, <2>2, CallMoves, ArmedFrame DEF ADDING
<1>5. QED
  BY <1>3, <1>4 DEF AllArmed

\* It has an attempt, and no slot has tried it.
LEMMA UpsertIsUntried ==
  ASSUME Undisturbed, TypeOK, SlotsSound, AllCountable, SlotsTried, OnlySchedulesUpsert,
         NEW c \in Calls, CallUpsert(c)
  PROVE  AllCountable' /\ SlotsTried'
<1> DEFINE k  == call[c]
           r2 == UpsertScheduledJob(store[k.req.job], now, c, k.req)
<1>1. /\ k.req.job \in JobIds /\ k.req.attempts > 0 /\ now \in Nat /\ UNCHANGED slot
      /\ store' = [store EXCEPT ![k.req.job] = r2]
  BY TimesFacts, TopologyAssumption
  DEF CallUpsert, TypeOK, Call, Request, OnlySchedulesUpsert, Undisturbed
<1>2. Countable(r2) /\ r2.version = now
  BY <1>1 DEF Countable, UpsertScheduledJob, TypeOK, SchedulerJobRecord
<1> HIDE DEF r2
<1>3. AllCountable'
  BY <1>1, <1>2 DEF AllCountable, TypeOK
<1>4. ASSUME NEW s \in Slots, slot[s].pc # "idle", Current(slot[s].job, slot[s].version)'
      PROVE  Current(slot[s].job, slot[s].version)
  <2>1. slot[s].version < now /\ slot[s].job \in JobIds
    BY <1>4 DEF SlotsSound, TypeOK, Slot
  <2>2. slot[s].job # k.req.job
    BY <1>1, <1>2, <1>4, <2>1 DEF Current, TypeOK
  <2>3. QED
    BY <1>1, <1>4, <2>1, <2>2 DEF Current, TypeOK
<1>5. SlotsTried'
  BY <1>1, <1>4 DEF SlotsTried, TRIED
<1>6. QED
  BY <1>3, <1>5

-----------------------------------------------------------------------------
(* The invariant, one part at a time                                       *)

\* A claim that succeeds tries the schedule; one that is refused finds none.
LEMMA ClaimTries ==
  ASSUME TypeOK, AllCountable, NEW s \in Slots, StartRun(s) \/ SkipStale(s)
  PROVE  /\ slot[s].job \in JobIds /\ slot[s].version \in Times
         /\ \A j \in JobIds, v \in Times : slot[s].job = j /\ slot[s].version = v => ~Current(j, v)'
<1> DEFINE d == slot[s]
           r == store[d.job]
<1>1. d.job \in JobIds /\ d.version \in Times /\ r \in Doc /\ Countable(r)
  BY DEF TypeOK, Slot, Doc, AllCountable
<1>2. CASE StartRun(s)
  <2>1. store' = [store EXCEPT ![d.job] = MarkRunning(r, d.version, now)]
        /\ CanMarkRunning(r, d.version)
    BY <1>2 DEF StartRun, StoreClaim
  <2>2. ~Untried(MarkRunning(r, d.version, now))
    BY <1>1, <2>1, RunningTries
  <2>3. QED
    BY <1>1, <2>1, <2>2 DEF Current, TypeOK
<1>3. CASE SkipStale(s)
  <2>1. ~(Untried(r) /\ r.version = d.version)
    BY <1>1, <1>3 DEF SkipStale, CanMarkRunning, Countable, Untried, Doc, SchedulerJobRecord
  <2>2. QED
    BY <1>1, <1>3, <2>1 DEF SkipStale, SlotTo, Current
<1>4. QED
  BY <1>2, <1>3

\* A step of a slot keeps the current schedules armed.
LEMMA SlotStepsStayArmed ==
  ASSUME Undisturbed, TypeOK, AllCountable, SlotsTried, NEW s \in Slots, SlotStep(s)
  PROVE  StaysArmed
<1>0. \A pc : SlotTo(s, pc) =>
        /\ slot' = [slot EXCEPT ![s] = [slot[s] EXCEPT !.pc = pc]]
        /\ UNCHANGED <<bull, call, recon>>
  BY DEF SlotTo
<1>1. CASE RejectUnknown(s)
  BY <1>1, TopologyAssumption DEF RejectUnknown, Undisturbed, TypeOK, Slot
<1>2. CASE StartRun(s)
  <2>1. SlotTo(s, "run")
    BY <1>2 DEF StartRun
  <2>2. QED
    BY <1>0, <1>2, <2>1, ClaimTries, SlotStaysArmed
<1>3. CASE SkipStale(s)
  <2>1. SlotTo(s, "ack")
    BY <1>3 DEF SkipStale
  <2>2. QED
    BY <1>0, <1>3, <2>1, ClaimTries, SlotStaysArmed
<1>4. CASE CompleteRun(s) \/ ThrowRun(s) \/ RecordFailure(s)
  <2>1. slot[s].pc # "claim" /\ \E pc : SlotTo(s, pc)
    BY <1>4 DEF CompleteRun, ThrowRun, RecordFailure
  <2>2. QED
    BY <1>0, <2>1, SlotStaysArmed
<1>5. CASE Settle(s)
  BY <1>5, SettleStaysArmed
<1>6. QED
  BY <1>1, <1>2, <1>3, <1>4, <1>5 DEF SlotStep

\* So does a step of a call, but for an upsert.
LEMMA CallStepsStayArmed ==
  ASSUME Undisturbed, TypeOK, AllCountable, NEW c \in Calls,
         BeginSchedule(c) \/ BeginCancel(c) \/ CallStep(c) \/ CallError(c)
         \/ CallSwallows(c), ~CallUpsert(c)
  PROVE  StaysArmed
<1>1. CASE BeginSchedule(c)
  <2>1. \A i \in Calls : i # c => call'[i] = call[i]
    BY <1>1 DEF BeginSchedule, TypeOK
  <2>2. QED
    BY <1>1, <2>1, CallOutside DEF BeginSchedule, ADDING
<1>2. CASE BeginCancel(c)
  <2>1. \A i \in Calls : i # c => call'[i] = call[i]
    BY <1>2 DEF BeginCancel, TypeOK
  <2>2. QED
    BY <1>2, <2>1, CallOutside DEF BeginCancel, ADDING
<1>3. CASE CallMarkQueued(c)
  <2>1. \A i \in Calls : i # c => call'[i] = call[i]
    BY <1>3 DEF CallMarkQueued, TypeOK
  <2>2. QED
    BY <1>3, <2>1, CallOutside DEF CallMarkQueued, ADDING
<1>4. CASE CallError(c) \/ CallSwallows(c)
  BY <1>4, NothingFails DEF CallError, CallSwallows
<1>5. CASE CallRemove(c) \/ CallEnqueue(c) \/ CallMarkCancelled(c)
  BY <1>5, RemoveStaysArmed, CallEnqueueStaysArmed, CancelStaysArmed
<1>6. QED
  BY <1>1, <1>2, <1>3, <1>4, <1>5 DEF CallStep

\* So does a step of a process.
LEMMA NodeStepsStayArmed ==
  ASSUME Undisturbed, TypeOK, NobodyAborts, NEW n \in Nodes,
         Boot(n) \/ ReconStep(n) \/ ReconcileError(n) \/ ReconSwallows(n)
         \/ AcquireError(n) \/ Crash(n)
  PROVE  StaysArmed
<1>1. \A pc : ReconTo(n, pc) => \E p2 : recon' = [recon EXCEPT ![n] = p2]
  BY DEF ReconTo
<1>2. ASSUME UNCHANGED <<bull, slot, call>>, recon[n].pc \notin ADDING,
             \E p2 : recon' = [recon EXCEPT ![n] = p2]
      PROVE  StaysArmed
  BY <1>2, ReconOutside
<1>3. CASE Boot(n) \/ AcquireLock(n) \/ SkipReconcile(n) \/ ReconMarkQueued(n)
  BY <1>1, <1>2, <1>3 DEF Boot, AcquireLock, SkipReconcile, ReconMarkQueued, ADDING
<1>4. CASE EndLoop(n) \/ ReleaseLock(n) \/ FindCandidates(n)
  <2>1. \E p2 : recon' = [recon EXCEPT ![n] = p2]
    BY <1>4 DEF EndLoop, ReleaseLock, FindCandidates
  <2>2. UNCHANGED <<bull, slot, call>> /\ recon[n].pc \notin ADDING
    BY <1>4 DEF EndLoop, ReleaseLock, FindCandidates, ADDING
  <2>3. QED
    BY <1>2, <2>1, <2>2
<1>5. CASE ExpireCandidate(n) \/ VisitCandidate(n)
  <2>1. \E p2 : recon' = [recon EXCEPT ![n] = p2]
    BY <1>5 DEF ExpireCandidate, VisitCandidate
  <2>2. UNCHANGED <<bull, slot, call>> /\ recon[n].pc \notin ADDING
    BY <1>5 DEF ExpireCandidate, VisitCandidate, IsNext, ADDING
  <2>3. QED
    BY <1>2, <2>1, <2>2
<1>6. CASE ReconEnqueue(n)
  BY <1>6, ReconEnqueueStaysArmed
<1>7. CASE AbortBootstrap(n)
  BY <1>7 DEF AbortBootstrap, NobodyAborts
<1>8. CASE ReconcileError(n) \/ ReconSwallows(n) \/ AcquireError(n) \/ Crash(n)
  BY <1>8, NothingFails DEF ReconcileError, ReconSwallows, AcquireError
<1>9. QED
  BY <1>3, <1>4, <1>5, <1>6, <1>7, <1>8 DEF ReconStep

\* So does every step that is no upsert.
LEMMA StepsStayArmed ==
  ASSUME Undisturbed, TypeOK, ArmedInv, Next, \A c \in Calls : ~CallUpsert(c)
  PROVE  StaysArmed
<1> USE DEF ArmedInv
<1>1. CASE \E c \in Calls : BeginSchedule(c) \/ BeginCancel(c) \/ CallStep(c) \/ CallError(c)
                            \/ CallSwallows(c)
  BY <1>1, CallStepsStayArmed
<1>2. ASSUME NEW s \in Slots, LoseLock(s) PROVE StaysArmed
  <2>1. /\ slot[s].job \in JobIds /\ slot[s].version \in Times /\ UNCHANGED <<slot, call, recon>>
        /\ bull' = [bull EXCEPT ![slot[s].job][slot[s].version] =
                      Unlocked(bull[slot[s].job][slot[s].version])]
    BY <1>2 DEF LoseLock, TypeOK, Slot
  <2>2. bull[slot[s].job][slot[s].version] \in BJob
    BY <2>1 DEF TypeOK, BJob
  <2>3. Unlocked(bull[slot[s].job][slot[s].version]).state = bull[slot[s].job][slot[s].version].state
    BY <2>2 DEF Unlocked, BJob, BullJob
  <2>4. QED
    BY <2>1, <2>3, HousekeepingStaysArmed
<1>3. CASE \E s \in Slots : Deliver(s) \/ SlotStep(s) \/ ClaimError(s) \/ CompleteError(s)
                              \/ FailError(s)
  BY <1>3, DeliverStaysArmed, SlotStepsStayArmed, NothingFails
  DEF ClaimError, CompleteError, FailError
<1>4. CASE \E n \in Nodes : Boot(n) \/ ReconStep(n) \/ ReconcileError(n) \/ ReconSwallows(n)
                            \/ AcquireError(n) \/ Crash(n)
  BY <1>4, NodeStepsStayArmed
<1>5. CASE BullLockExpires
  <2>1. PICK j \in JobIds, v \in Times : bull' = [bull EXCEPT ![j][v] = Unlocked(bull[j][v])]
    BY <1>5 DEF BullLockExpires
  <2>2. bull[j][v] \in BJob
    BY DEF TypeOK, BJob
  <2>3. Unlocked(bull[j][v]).state = bull[j][v].state
    BY <2>2 DEF Unlocked, BJob, BullJob
  <2>4. QED
    BY <1>5, <2>1, <2>3, HousekeepingStaysArmed DEF BullLockExpires
<1>6. CASE StalledCheck
  <2>1. PICK j \in JobIds, v \in Times :
          IsStalled(bull[j][v]) /\ bull' = [bull EXCEPT ![j][v] = Recovered(bull[j][v])]
    BY <1>6 DEF StalledCheck
  <2>2. bull[j][v].state \in HELD
    BY <2>1 DEF IsStalled, HELD
  <2>3. QED
    BY <1>6, <2>1, <2>2, HousekeepingStaysArmed DEF StalledCheck
<1>7. CASE Evict
  <2>1. PICK j \in JobIds, v \in Times :
          Finished(bull[j][v]) /\ bull' = [bull EXCEPT ![j][v] = NoBullJob]
    BY <1>7 DEF Evict
  <2>2. bull[j][v].state \in HELD
    BY <2>1 DEF Finished, HELD
  <2>3. QED
    BY <1>7, <2>1, <2>2, HousekeepingStaysArmed DEF Evict
<1>8. CASE LockExpire \/ Tick \/ AllQuiet
  BY <1>8, OutsideArmed DEF LockExpire, Tick, AllQuiet, vars
<1>9. QED
  BY <1>1, <1>2, <1>3, <1>4, <1>5, <1>6, <1>7, <1>8 DEF Next

\* A slot goes past its claim by trying it, or by finding that it is stale.
LEMMA SlotsGetPastClaims ==
  ASSUME Undisturbed, TypeOK, NobodyAborts, Next, NEW s \in Slots, slot'[s].pc \in TRIED
  PROVE  /\ slot'[s].job = slot[s].job /\ slot'[s].version = slot[s].version
         /\ slot[s].pc \in TRIED \/ StartRun(s) \/ SkipStale(s)
<1>1. CASE slot'[s] = slot[s]
  BY <1>1
<1>2. CASE slot'[s] # slot[s]
  <2>1. PICK i \in Slots : Deliver(i) \/ SlotStep(i)
    <3>1. ~\E c \in Calls : BeginSchedule(c) \/ BeginCancel(c) \/ CallStep(c) \/ CallError(c)
                            \/ CallSwallows(c)
      BY <1>2 DEF BeginSchedule, BeginCancel, CallStep, CallError, CallSwallows, CallRemove,
                  CallUpsert, CallEnqueue, CallMarkQueued, CallMarkCancelled
    <3>2. ~\E n \in Nodes : Boot(n) \/ ReconStep(n) \/ ReconcileError(n) \/ ReconSwallows(n)
                            \/ AcquireError(n) \/ Crash(n)
      BY <1>2, NothingFails
      DEF Boot, ReconStep, ReconcileError, ReconSwallows, AcquireError, AcquireLock, SkipReconcile,
          FindCandidates, ExpireCandidate, VisitCandidate, ReconEnqueue, ReconMarkQueued, EndLoop,
          ReleaseLock, AbortBootstrap, NobodyAborts
    <3>3. ~(BullLockExpires \/ StalledCheck \/ Evict \/ LockExpire \/ Tick \/ AllQuiet)
      BY <1>2 DEF BullLockExpires, StalledCheck, Evict, LockExpire, Tick, AllQuiet, vars
    <3>4. \A i \in Slots : ~(ClaimError(i) \/ CompleteError(i) \/ FailError(i) \/ LoseLock(i))
      BY <1>2, NothingFails DEF ClaimError, CompleteError, FailError, LoseLock
    <3>5. QED
      BY <3>1, <3>2, <3>3, <3>4 DEF Next
  <2>2. CASE Deliver(i) \/ Settle(i)
    BY <1>2, <2>2 DEF Deliver, Settle, TypeOK, TRIED, IdleSlot
  <2>3. ASSUME SlotTo(i, "run") \/ SlotTo(i, "caught") \/ SlotTo(i, "ack") \/ SlotTo(i, "nack")
        PROVE  i = s /\ slot'[s].job = slot[s].job /\ slot'[s].version = slot[s].version
    BY <1>2, <2>3 DEF SlotTo, TypeOK, Slot
  <2>4. CASE RejectUnknown(i)
    BY <2>4, TopologyAssumption DEF RejectUnknown, Undisturbed, TypeOK, Slot
  <2>5. CASE StartRun(i) \/ SkipStale(i)
    BY <2>3, <2>5 DEF StartRun, SkipStale
  <2>6. CASE CompleteRun(i) \/ ThrowRun(i) \/ RecordFailure(i)
    BY <2>3, <2>6 DEF CompleteRun, ThrowRun, RecordFailure, TRIED
  <2>7. QED
    BY <2>1, <2>2, <2>4, <2>5, <2>6 DEF SlotStep
<1>3. QED
  BY <1>1, <1>2

\* So slots past their claims hold no current schedule.
LEMMA SlotsStayTried ==
  ASSUME Undisturbed, TypeOK, ArmedInv, Next, Tries
  PROVE  SlotsTried'
<1> SUFFICES ASSUME NEW s \in Slots, slot'[s].pc \in TRIED
             PROVE  ~Current(slot[s].job, slot[s].version)'
  BY DEF SlotsTried
<1>1. /\ slot[s].job \in JobIds /\ slot[s].version \in Times
      /\ slot'[s].job = slot[s].job /\ slot'[s].version = slot[s].version
      /\ slot[s].pc \in TRIED \/ StartRun(s) \/ SkipStale(s)
  BY SlotsGetPastClaims DEF ArmedInv, TypeOK, Slot
<1>2. ASSUME NEW j \in JobIds, NEW v \in Times, slot[s].job = j, slot[s].version = v
      PROVE  ~Current(j, v)'
  <2>1. CASE slot[s].pc \in TRIED
    BY <1>2, <2>1 DEF ArmedInv, SlotsTried, Tries, CurrentStays
  <2>2. CASE StartRun(s) \/ SkipStale(s)
    BY <1>2, <2>2, ClaimTries DEF ArmedInv
  <2>3. QED
    BY <1>1, <2>1, <2>2
<1>3. QED
  BY <1>1, <1>2 DEF Current

\* cancel() never gets to an upsert, and no reconciliation to an abort.
LEMMA ControlStays ==
  ASSUME Undisturbed, TypeOK, ArmedInv, Next
  PROVE  OnlySchedulesUpsert' /\ NobodyAborts'
<1> USE DEF ArmedInv
<1>1. CASE \E c \in Calls : BeginSchedule(c) \/ BeginCancel(c) \/ CallStep(c) \/ CallError(c)
                            \/ CallSwallows(c)
  <2>1. PICK c \in Calls : BeginSchedule(c) \/ BeginCancel(c) \/ CallStep(c) \/ CallError(c)
                           \/ CallSwallows(c)
    BY <1>1
  <2>2. ASSUME \A i \in Calls : i # c => call'[i] = call[i],
               call'[c].pc = "upsert" => call'[c].req.kind = "schedule"
        PROVE  OnlySchedulesUpsert'
    BY <2>2 DEF OnlySchedulesUpsert
  <2>3. CASE BeginSchedule(c) \/ BeginCancel(c)
    <3>1. \A i \in Calls : i # c => call'[i] = call[i]
      BY <2>3 DEF BeginSchedule, BeginCancel, TypeOK
    <3>2. call'[c].pc = "upsert" => call'[c].req.kind = "schedule"
      BY <2>3 DEF BeginSchedule, BeginCancel, TypeOK
    <3>3. QED
      BY <2>2, <2>3, <3>1, <3>2 DEF BeginSchedule, BeginCancel, NobodyAborts
  <2>4. CASE CallRemove(c)
    BY <2>2, <2>4 DEF CallRemove, TypeOK, Call, Request, NobodyAborts
  <2>5. CASE CallEnqueue(c)
    BY <2>2, <2>5 DEF CallEnqueue, TypeOK, Call, NobodyAborts, EnqueueNext, ENQUEUE_STEPS
  <2>6. CASE CallUpsert(c) \/ CallMarkQueued(c) \/ CallMarkCancelled(c)
    BY <2>2, <2>6 DEF CallUpsert, CallMarkQueued, CallMarkCancelled, TypeOK, Call, CallAt,
                      NobodyAborts
  <2>7. CASE CallError(c) \/ CallSwallows(c)
    BY <2>7, NothingFails DEF CallError, CallSwallows
  <2>8. QED
    BY <2>1, <2>3, <2>4, <2>5, <2>6, <2>7 DEF CallStep
<1>2. CASE \E s \in Slots : Deliver(s) \/ SlotStep(s) \/ ClaimError(s) \/ CompleteError(s)
                              \/ FailError(s) \/ LoseLock(s)
  BY <1>2 DEF Deliver, SlotStep, RejectUnknown, StartRun, SkipStale, CompleteRun, ThrowRun,
              RecordFailure, Settle, ClaimError, CompleteError, FailError, LoseLock, SlotTo,
              OnlySchedulesUpsert, NobodyAborts
<1>3. CASE \E n \in Nodes : Boot(n) \/ ReconStep(n) \/ ReconcileError(n) \/ ReconSwallows(n)
                            \/ AcquireError(n) \/ Crash(n)
  <2>1. PICK n \in Nodes : Boot(n) \/ ReconStep(n) \/ ReconcileError(n) \/ ReconSwallows(n)
                           \/ AcquireError(n) \/ Crash(n)
    BY <1>3
  <2>2. ASSUME NEW p2, recon' = [recon EXCEPT ![n] = p2], p2.pc # "abort", UNCHANGED call
        PROVE  OnlySchedulesUpsert' /\ NobodyAborts'
    BY <2>2 DEF OnlySchedulesUpsert, NobodyAborts, TypeOK
  <2>3. ASSUME NEW pc, ReconTo(n, pc), pc # "abort", UNCHANGED call
        PROVE  OnlySchedulesUpsert' /\ NobodyAborts'
    <3>1. recon' = [recon EXCEPT ![n] = [recon[n] EXCEPT !.pc = pc]]
      BY <2>3 DEF ReconTo
    <3>2. [recon[n] EXCEPT !.pc = pc].pc = pc
      BY DEF TypeOK, Recon
    <3>3. QED
      BY <2>2, <2>3, <3>1, <3>2
  <2>4. CASE Boot(n) \/ AcquireLock(n) \/ SkipReconcile(n) \/ ReconMarkQueued(n)
    BY <2>3, <2>4 DEF Boot, AcquireLock, SkipReconcile, ReconMarkQueued
  <2>5. CASE FindCandidates(n) \/ EndLoop(n) \/ ReleaseLock(n)
    BY <2>2, <2>5 DEF FindCandidates, EndLoop, ReleaseLock, ReconAt
  <2>6. CASE ExpireCandidate(n)
    <3>1. PICK j : recon' = [recon EXCEPT ![n] = [recon[n] EXCEPT !.todo = recon[n].todo \ {j}]]
      BY <2>6 DEF ExpireCandidate
    <3>2. [recon[n] EXCEPT !.todo = recon[n].todo \ {j}].pc # "abort"
      BY DEF TypeOK, Recon, NobodyAborts
    <3>3. QED
      BY <2>2, <2>6, <3>1, <3>2 DEF ExpireCandidate
  <2>7. CASE VisitCandidate(n)
    <3>1. PICK j : recon' = [recon EXCEPT ![n] = [recon[n] EXCEPT !.pc = "getJob", !.job = j,
                                                       !.todo = recon[n].todo \ {j}]]
      BY <2>7 DEF VisitCandidate
    <3>2. [recon[n] EXCEPT !.pc = "getJob", !.job = j, !.todo = recon[n].todo \ {j}].pc # "abort"
      BY DEF TypeOK, Recon
    <3>3. QED
      BY <2>2, <2>7, <3>1, <3>2 DEF VisitCandidate
  <2>8. CASE ReconEnqueue(n)
    BY <2>3, <2>8 DEF ReconEnqueue, EnqueueNext, ENQUEUE_STEPS
  <2>9. CASE AbortBootstrap(n) \/ ReconcileError(n) \/ ReconSwallows(n)
\/ AcquireError(n) \/ Crash(n)
    BY <2>9, NothingFails DEF AbortBootstrap, ReconcileError, ReconSwallows, AcquireError,
                              NobodyAborts
  <2>10. QED
    BY <2>1, <2>4, <2>5, <2>6, <2>7, <2>8, <2>9 DEF ReconStep
<1>4. CASE BullLockExpires \/ StalledCheck \/ Evict \/ LockExpire \/ Tick \/ AllQuiet
  BY <1>4 DEF BullLockExpires, StalledCheck, Evict, LockExpire, Tick, AllQuiet, vars,
              OnlySchedulesUpsert, NobodyAborts
<1>5. QED
  BY <1>1, <1>2, <1>3, <1>4 DEF Next

\* The step of the induction.
LEMMA StepKeepsArmed ==
  ASSUME Undisturbed, TypeOK, VersionInv, ArmedInv, [Next]_vars
  PROVE  ArmedInv'
<1>1. CASE UNCHANGED vars
  BY <1>1 DEF vars, ArmedInv, AllArmed, AllCountable, SlotsTried, OnlySchedulesUpsert, NobodyAborts,
              Armed, Current, Claimed, Replacing, Adding
<1>2. CASE Next /\ \E c \in Calls : CallUpsert(c)
  <2>1. AllArmed' /\ AllCountable' /\ SlotsTried'
    BY <1>2, UpsertArms, UpsertIsUntried DEF ArmedInv, VersionInv
  <2>2. QED
    BY <1>2, <2>1, ControlStays DEF ArmedInv
<1>3. CASE Next /\ \A c \in Calls : ~CallUpsert(c)
  <2>1. Tries /\ StaysArmed
    BY <1>3, StepsTry, StepsStayArmed DEF ArmedInv
  <2>2. AllArmed'
    BY <2>1 DEF Tries, CurrentStays, StaysArmed, AllArmed, ArmedInv
  <2>3. SlotsTried' /\ OnlySchedulesUpsert' /\ NobodyAborts'
    BY <1>3, <2>1, SlotsStayTried, ControlStays
  <2>4. QED
    BY <2>1, <2>2, <2>3 DEF Tries, ArmedInv
<1>4. QED
  BY <1>1, <1>2, <1>3

(* Where nothing crashes or fails, an idle system has every active schedule *)
(* that was never tried in the queue.                                       *)
THEOREM QuiescentJobsAreArmed ==
  ASSUME Undisturbed
  PROVE  Spec => []QuiescentJobIsArmed
<1>1. Init => VersionInv /\ ArmedInv
  BY InitVersions, InitArmed
<1>2. TypeOK /\ TypeOK' /\ VersionInv /\ ArmedInv /\ [Next]_vars => VersionInv' /\ ArmedInv'
  BY StepKeepsVersionInv, StepKeepsArmed DEF Undisturbed
<1>3. TypeOK /\ ArmedInv => QuiescentJobIsArmed
  BY ArmedInvSuffices
<1>4. QED
  BY <1>1, <1>2, <1>3, TypeCorrect, PTL DEF Spec
=============================================================================
