--------------------------- MODULE SchedulerLossProofs ---------------------------
(***************************************************************************)
(* What crashes, failing commands, lost locks and missing handlers can do  *)
(* to a schedule: AbandonedOnlyByLoss, OnlyOldSnapshotExpires and          *)
(* NoStaleCompletion, for every number of job ids, calls, nodes and slots, *)
(* with any crashes, faults and stalls, as long as no two upserts share a  *)
(* tick of the clock.                                                      *)
(***************************************************************************)
EXTENDS LazySchedulerProofs

\* Version v of j is the current one, and waits for its first attempt.
Awaits(j, v) == Untouched(store[j]) /\ store[j].version = v

\* Call c, and the reconciliation of n, are about to do something for version v
\* of j: to put it into the queue, or to replace or close what j has.
CallFor(c, j, v) ==
  /\ call[c].req.job = j
  /\ \/ call[c].pc \in {"remove", "upsert", "cancel"}
     \/ PutsIn(call[c].pc, bull[j][v]) /\ call[c].version = v
ReconFor(n, j, v) ==
  PutsIn(recon[n].pc, bull[j][v]) /\ recon[n].job = j /\ recon[n].snap[j].version = v

\* The states of a BullMQ job that is going to be delivered or recovered.
ALIVE == {"waiting", "active"}
InHand(j, v) ==
  \/ bull[j][v].state \in ALIVE
  \/ \E c \in Calls : CallFor(c, j, v)
  \/ \E n \in Nodes : ReconFor(n, j, v)

\* The pcs of a slot that found the schedule tried or gone, or tried it.
CLAIMED == {"run", "caught", "ack"}

\* A run uses up an attempt; a slot past its claim has no schedule that waits.
AllCounted == \A j \in JobIds : store[j].status = "running" => store[j].attemptsMade > 0
ClaimsTry  == \A s \in Slots : slot[s].pc \in CLAIMED => ~Awaits(slot[s].job, slot[s].version)
TriedInv   == AllCounted /\ ClaimsTry

\* Initially there is nothing to try.
LEMMA InitTried == Init => TriedInv
BY DEF Init, TriedInv, AllCounted, ClaimsTry, CLAIMED, NoJob, IdleSlot

\* Abandoned, by these names.
LEMMA AbandonedIs ==
  ASSUME NEW j \in JobIds
  PROVE  Abandoned(j) <=> Awaits(j, store[j].version) /\ ~InHand(j, store[j].version)
BY DEF Abandoned, Awaits, InHand, ALIVE, CallFor, ReconFor, Queueing, Overtaking

-----------------------------------------------------------------------------
(* The store                                                               *)

\* Document r2 is r after a transition that takes no new schedule.
Older(r, r2) ==
  /\ r2.status = "running" => r2.attemptsMade > 0
  /\ Untouched(r2) => Untouched(r)
  /\ r2.version = r.version

Counted(r) == r \in Doc /\ (r.status = "running" => r.attemptsMade > 0)

\* No transition but an upsert makes a schedule wait for its first attempt.
LEMMA TransitionsTry ==
  ASSUME NEW r, Counted(r), NEW v, NEW t
  PROVE  /\ Older(r, MarkQueued(r, v))
         /\ Older(r, MarkRunning(r, v, t))
         /\ \A st \in {"completed", "failed", "dead_letter", "failed_retryable"} :
              Older(r, MarkFinished(r, v, st))
         /\ \A st \in {"cancelled", "expired"} :
              Older(r, MarkClosed(r, st)) /\ ~Untouched(MarkClosed(r, st))
<1> USE DEF Older, Untouched, CanMarkRunning, ACTIVE_STATUSES, Counted, Doc, SchedulerJobRecord
<1>1. Older(r, MarkQueued(r, v))
  BY DEF MarkQueued, NotTerminal, TERMINAL_STATUSES, SchedulerJobStatus
<1>2. Older(r, MarkRunning(r, v, t))
  BY DEF MarkRunning
<1>3. \A st \in {"completed", "failed", "dead_letter", "failed_retryable"} :
        Older(r, MarkFinished(r, v, st))
  BY DEF MarkFinished
<1>4. \A st \in {"cancelled", "expired"} :
        Older(r, MarkClosed(r, st)) /\ ~Untouched(MarkClosed(r, st))
  BY DEF MarkClosed, NotTerminal, TERMINAL_STATUSES, SchedulerJobStatus
<1>5. QED
  BY <1>1, <1>2, <1>3, <1>4

\* A claim that succeeds is a first attempt for nobody any more.
LEMMA RunningTries ==
  ASSUME NEW r, Counted(r), NEW v, NEW t, CanMarkRunning(r, v)
  PROVE  ~Untouched(MarkRunning(r, v, t))
BY DEF Counted, Untouched, CanMarkRunning, MarkRunning, ACTIVE_STATUSES, Doc, SchedulerJobRecord

\* What waits for its first attempt did so before.
Tries == AllCounted' /\ \A j \in JobIds, v \in Times : Awaits(j, v)' => Awaits(j, v)

\* A step on one document that takes no new schedule.
LEMMA OneDocument ==
  ASSUME TypeOK, AllCounted, NEW j \in JobIds, NEW r2, store' = [store EXCEPT ![j] = r2],
         Older(store[j], r2)
  PROVE  Tries
<1>1. \A i \in JobIds : store'[i] = IF i = j THEN r2 ELSE store[i]
  BY DEF TypeOK
<1>2. QED
  BY <1>1 DEF Older, Tries, Awaits, AllCounted

\* A step that leaves the store alone.
LEMMA SameDocuments ==
  ASSUME AllCounted, UNCHANGED store
  PROVE  Tries
BY DEF Tries, Awaits, AllCounted, Untouched

\* Every step but an upsert leaves no schedule waiting that was not.
LEMMA StepsTry ==
  ASSUME TypeOK, AllCounted, Next, \A c \in Calls : ~CallUpsert(c)
  PROVE  Tries
<1>0. /\ \A j \in JobIds : Counted(store[j])
      /\ \A c \in Calls : call[c].req.job \in JobIds
      /\ \A s \in Slots : slot[s].job \in JobIds
      /\ \A n \in Nodes : recon[n].job \in JobIds
  BY TopologyAssumption DEF TypeOK, Call, Request, Slot, Recon, Counted, Doc, AllCounted
<1>1. ASSUME UNCHANGED store PROVE Tries
  BY <1>1, SameDocuments
<1>2. ASSUME NEW j \in JobIds, NEW v, store' = [store EXCEPT ![j] = MarkQueued(store[j], v)]
      PROVE  Tries
  <2>1. Older(store[j], MarkQueued(store[j], v))
    BY <1>0, TransitionsTry
  <2>2. QED
    BY <1>2, <2>1, OneDocument
<1>3. ASSUME NEW j \in JobIds, NEW st \in {"cancelled", "expired"},
             store' = [store EXCEPT ![j] = MarkClosed(store[j], st)]
      PROVE  Tries
  <2>1. Older(store[j], MarkClosed(store[j], st))
    BY <1>0, TransitionsTry
  <2>2. QED
    BY <1>3, <2>1, OneDocument
<1>4. ASSUME NEW s \in Slots, StoreClaim(s) PROVE Tries
  <2> DEFINE r  == store[slot[s].job]
             r2 == MarkRunning(r, slot[s].version, now)
  <2>1. Older(r, r2)
    BY <1>0, TransitionsTry
  <2>2. store' = [store EXCEPT ![slot[s].job] = r2]
    BY <1>4 DEF StoreClaim
  <2> HIDE DEF r2
  <2>3. QED
    BY <1>0, <2>1, <2>2, OneDocument
<1>5. ASSUME NEW s \in Slots, NEW st \in {"completed", "failed", "dead_letter", "failed_retryable"},
             StoreFinish(s, st)
      PROVE  Tries
  <2> DEFINE r  == store[slot[s].job]
             r2 == MarkFinished(r, slot[s].version, st)
  <2>1. Older(r, r2)
    BY <1>0, TransitionsTry
  <2>2. store' = [store EXCEPT ![slot[s].job] = r2]
    BY <1>5 DEF StoreFinish
  <2> HIDE DEF r2
  <2>3. QED
    BY <1>0, <2>1, <2>2, OneDocument
<1>6. \A s \in Slots : FailureStatus(s) \in {"completed", "failed", "dead_letter", "failed_retryable"}
  BY DEF FailureStatus
<1>7. CASE \E c \in Calls : BeginSchedule(c) \/ BeginCancel(c) \/ CallStep(c) \/ CallError(c)
                            \/ CallSwallows(c)
  BY <1>0, <1>1, <1>2, <1>3, <1>7
  DEF BeginSchedule, BeginCancel, CallStep, CallError, CallSwallows, CallRemove, CallEnqueue,
      CallMarkQueued, CallMarkCancelled
<1>8. CASE \E s \in Slots : Deliver(s) \/ SlotStep(s) \/ ClaimError(s) \/ CompleteError(s)
                              \/ FailError(s) \/ LoseLock(s)
  BY <1>1, <1>4, <1>5, <1>6, <1>8
  DEF Deliver, SlotStep, RejectUnknown, StartRun, SkipStale, CompleteRun, ThrowRun, RecordFailure,
      Settle, ClaimError, CompleteError, FailError, LoseLock
<1>9. CASE \E n \in Nodes : Boot(n) \/ ReconStep(n) \/ ReconcileError(n) \/ ReconSwallows(n)
                            \/ AcquireError(n) \/ Crash(n)
  BY <1>0, <1>1, <1>2, <1>3, <1>9
  DEF Boot, ReconStep, ReconcileError, ReconSwallows, AcquireError, Crash, AcquireLock,
      SkipReconcile, FindCandidates, ExpireCandidate, VisitCandidate, ReconEnqueue,
      ReconMarkQueued, EndLoop, ReleaseLock, AbortBootstrap
<1>10. CASE BullLockExpires \/ StalledCheck \/ Evict \/ LockExpire \/ Tick \/ AllQuiet
  BY <1>1, <1>10 DEF BullLockExpires, StalledCheck, Evict, LockExpire, Tick, AllQuiet, vars
<1>11. QED
  BY <1>7, <1>8, <1>9, <1>10 DEF Next

-----------------------------------------------------------------------------
(* Whose hands a schedule is in                                            *)

\* A step loses no version of a schedule but to a loss.
Loss(j) == CutShort(j) \/ GivenUp(j) \/ NotPurged(j)
StaysInHand(j, v) == InHand(j, v) => InHand(j, v)' \/ Loss(j)
NoneIsLost ==
  \A j \in JobIds, v \in Times : Awaits(j, v) /\ Awaits(j, v)' => StaysInHand(j, v)

\* The calls and the reconciliations that have something to do for v of j go on.
CallsGoOn(j, v)  == \A c \in Calls : CallFor(c, j, v) => InHand(j, v)' \/ Loss(j)
ReconsGoOn(j, v) == \A n \in Nodes : ReconFor(n, j, v) => InHand(j, v)' \/ Loss(j)

\* A version stays in hand if its BullMQ job and its actors do.
LEMMA StaysInHandFrame ==
  ASSUME NEW j, NEW v, bull[j][v].state \in ALIVE => bull'[j][v].state \in ALIVE \/ Loss(j),
         CallsGoOn(j, v), ReconsGoOn(j, v)
  PROVE  StaysInHand(j, v)
BY DEF StaysInHand, InHand, CallsGoOn, ReconsGoOn

\* A call that does not move goes on, as long as an absent BullMQ job stays absent.
LEMMA CallGoesOn ==
  ASSUME NEW c \in Calls, NEW j, NEW v, CallFor(c, j, v), UNCHANGED call[c],
         bull[j][v].state = "absent" => bull'[j][v].state = "absent"
  PROVE  InHand(j, v)'
BY DEF InHand, CallFor, PutsIn

\* So does a reconciliation.
LEMMA ReconGoesOn ==
  ASSUME NEW n \in Nodes, NEW j, NEW v, ReconFor(n, j, v), UNCHANGED recon[n],
         bull[j][v].state = "absent" => bull'[j][v].state = "absent"
  PROVE  InHand(j, v)'
BY DEF InHand, ReconFor, PutsIn

\* A step that moves no actor, and leaves what is absent absent.
LEMMA ActorsRest ==
  ASSUME UNCHANGED <<call, recon>>, NEW j, NEW v,
         bull[j][v].state = "absent" => bull'[j][v].state = "absent",
         bull[j][v].state \in ALIVE => bull'[j][v].state \in ALIVE \/ Loss(j)
  PROVE  StaysInHand(j, v)
BY CallGoesOn, ReconGoesOn, StaysInHandFrame DEF CallsGoOn, ReconsGoOn

\* One call moves, and is the only one to worry about.
LEMMA CallMoves ==
  ASSUME NEW c \in Calls, \A i \in Calls : i # c => call'[i] = call[i], UNCHANGED recon,
         NEW j, NEW v, UNCHANGED bull[j][v], CallFor(c, j, v) => InHand(j, v)' \/ Loss(j)
  PROVE  StaysInHand(j, v)
BY CallGoesOn, ReconGoesOn, StaysInHandFrame DEF CallsGoOn, ReconsGoOn

\* One reconciliation moves, and is the only one to worry about.
LEMMA ReconMoves ==
  ASSUME TypeOK, NEW n \in Nodes, NEW p2, recon' = [recon EXCEPT ![n] = p2], UNCHANGED call,
         NEW j, NEW v, UNCHANGED bull[j][v], ReconFor(n, j, v) => InHand(j, v)' \/ Loss(j)
  PROVE  StaysInHand(j, v)
<1>1. \A i \in Nodes : i # n => recon'[i] = recon[i]
  BY DEF TypeOK
<1>2. QED
  BY <1>1, CallGoesOn, ReconGoesOn, StaysInHandFrame DEF CallsGoOn, ReconsGoOn

\* An enqueue step leaves the job alive, or goes on to put it in, or was not
\* about to and leaves the job alone.
LEMMA EnqueuePutsIn ==
  ASSUME NEW b \in BJob, b.owner # NoOwner => b.state = "active",
         NEW step \in ENQUEUE_STEPS, NEW payload, NEW runAt, NEW attempts
  PROVE  LET b2 == EnqueueEffect(step, b, payload, runAt, attempts) IN
         \/ b2.state \in ALIVE
         \/ PutsIn(EnqueueNext(step, b), b2)
         \/ b2 = b /\ ~PutsIn(step, b)
BY DEF EnqueueEffect, EnqueueNext, ENQUEUE_STEPS, PutsIn, ALIVE, Removed, Added, NoBullJob, BJob,
       BullJob

-----------------------------------------------------------------------------
(* schedule() and cancel()                                                 *)

\* Calls other than c do not move.
OnlyCall(c) == UNCHANGED recon /\ \A i \in Calls : i # c => call'[i] = call[i]

\* A step of a call that had nothing to do for any schedule.
LEMMA CallOutside ==
  ASSUME NEW c \in Calls, OnlyCall(c), UNCHANGED bull,
         call[c].pc \notin {"remove", "upsert", "cancel"} \cup ENQUEUE_STEPS
  PROVE  NoneIsLost
<1>1. ASSUME NEW j \in JobIds, NEW v \in Times
      PROVE  StaysInHand(j, v)
  <2>1. ~CallFor(c, j, v)
    BY DEF CallFor, PutsIn, ENQUEUE_STEPS
  <2>2. QED
    BY <2>1, CallMoves DEF OnlyCall
<1>2. QED
  BY <1>1 DEF NoneIsLost

\* The job that a call removes is one the call is about to replace.
LEMMA RemoveLosesNone ==
  ASSUME TypeOK, NEW c \in Calls, CallRemove(c)
  PROVE  NoneIsLost
<1> DEFINE k == call[c]
<1>1. /\ k \in Call /\ k.req.job \in JobIds /\ k.seen \in Times /\ k.pc = "remove"
      /\ \A j \in JobIds, v \in Times : j # k.req.job => bull'[j][v] = bull[j][v]
  BY TopologyAssumption DEF CallRemove, TypeOK, Call, Request
<1>2. /\ call'[c].pc \in {"cancel", "upsert"} /\ call'[c].req = k.req
      /\ OnlyCall(c)
  BY DEF CallRemove, TypeOK, Call, OnlyCall
<1>3. ASSUME NEW j \in JobIds, NEW v \in Times
      PROVE  StaysInHand(j, v)
  <2>1. CASE j = k.req.job
    <3>1. CallFor(c, j, v)'
      BY <1>2, <2>1 DEF CallFor
    <3>2. QED
      BY <3>1 DEF StaysInHand, InHand
  <2>2. CASE j # k.req.job
    BY <1>1, <1>2, <2>2, CallMoves DEF CallFor, OnlyCall
  <2>3. QED
    BY <2>1, <2>2
<1>4. QED
  BY <1>3 DEF NoneIsLost

\* What an enqueue step takes out of the queue its actor is about to put in.
LEMMA CallEnqueueLosesNone ==
  ASSUME TypeOK, BullSound, NEW c \in Calls, CallEnqueue(c)
  PROVE  NoneIsLost
<1> DEFINE k   == call[c]
           b   == bull[k.req.job][k.version]
           b2  == EnqueueEffect(k.pc, b, c, k.req.runAt, k.req.attempts)
           pc2 == EnqueueNext(k.pc, b)
<1>1. /\ k.req.job \in JobIds /\ k.version \in Times /\ k.pc \in ENQUEUE_STEPS /\ b \in BJob
      /\ bull' = [bull EXCEPT ![k.req.job][k.version] = b2]
  BY TopologyAssumption DEF CallEnqueue, TypeOK, Call, Request, BJob
<1>2. /\ call'[c].req = k.req /\ call'[c].version = k.version /\ call'[c].pc = pc2
      /\ OnlyCall(c)
  BY DEF CallEnqueue, TypeOK, Call, OnlyCall
<1>3. b2.state \in ALIVE \/ PutsIn(pc2, b2) \/ (b2 = b /\ ~PutsIn(k.pc, b))
  BY <1>1, EnqueuePutsIn DEF BullSound
<1> HIDE DEF b2, pc2
<1>4. ASSUME NEW j \in JobIds, NEW v \in Times
      PROVE  StaysInHand(j, v)
  <2>1. CASE j # k.req.job \/ v # k.version
    <3>1. bull'[j][v] = bull[j][v]
      BY <1>1, <2>1 DEF TypeOK
    <3>2. ~CallFor(c, j, v)
      BY <1>1, <2>1 DEF CallFor, ENQUEUE_STEPS
    <3>3. QED
      BY <1>2, <3>1, <3>2, CallMoves DEF OnlyCall
  <2>2. CASE j = k.req.job /\ v = k.version
    <3>1. bull'[j][v] = b2
      BY <1>1, <2>2 DEF TypeOK
    <3>2. CASE b2.state \in ALIVE
      BY <3>1, <3>2 DEF StaysInHand, InHand
    <3>3. CASE PutsIn(pc2, b2)
      <4>1. CallFor(c, j, v)'
        BY <1>2, <2>2, <3>1, <3>3 DEF CallFor
      <4>2. QED
        BY <4>1 DEF StaysInHand, InHand
    <3>4. CASE b2 = b /\ ~PutsIn(k.pc, b)
      <4>1. ~CallFor(c, j, v)
        BY <1>1, <2>2, <3>4 DEF CallFor, ENQUEUE_STEPS
      <4>2. QED
        BY <1>2, <2>2, <3>1, <3>4, <4>1, CallMoves DEF OnlyCall
    <3>5. QED
      BY <1>3, <3>2, <3>3, <3>4
  <2>3. QED
    BY <2>1, <2>2
<1>5. QED
  BY <1>4 DEF NoneIsLost

\* The document a call closes no longer waits for its first attempt.
LEMMA CancelLosesNone ==
  ASSUME TypeOK, AllCounted, NEW c \in Calls, CallMarkCancelled(c)
  PROVE  NoneIsLost
<1> DEFINE k  == call[c]
           r2 == MarkClosed(store[k.req.job], "cancelled")
<1>1. /\ k.req.job \in JobIds /\ k.pc = "cancel" /\ UNCHANGED bull /\ OnlyCall(c)
      /\ store' = [store EXCEPT ![k.req.job] = r2]
  BY TopologyAssumption DEF CallMarkCancelled, TypeOK, Call, Request, OnlyCall
<1>2. ~Untouched(r2)
  BY <1>1, TransitionsTry DEF AllCounted, Counted, TypeOK, Doc
<1>3. ASSUME NEW j \in JobIds, NEW v \in Times, Awaits(j, v)'
      PROVE  StaysInHand(j, v)
  <2>1. j # k.req.job
    BY <1>1, <1>2, <1>3 DEF Awaits, TypeOK
  <2>2. QED
    BY <1>1, <2>1, CallMoves DEF CallFor, OnlyCall
<1>4. QED
  BY <1>3 DEF NoneIsLost

\* A call that fails with something still to do is cut short.
LEMMA ErrorLosesByCut ==
  ASSUME TypeOK, NEW c \in Calls, CallError(c)
  PROVE  NoneIsLost
<1>1. OnlyCall(c) /\ UNCHANGED bull
  BY DEF CallError, TypeOK, OnlyCall
<1>2. ASSUME NEW j \in JobIds, NEW v \in Times, CallFor(c, j, v)
      PROVE  Loss(j)
  BY <1>2 DEF Loss, CutShort, CallFor, PutsIn, ENQUEUE_STEPS
<1>3. QED
  BY <1>1, <1>2, CallMoves DEF NoneIsLost, OnlyCall

\* An error that a call swallows costs what it was to make room for.
LEMMA SwallowLosesNotPurged ==
  ASSUME TypeOK, NEW c \in Calls, CallSwallows(c)
  PROVE  NoneIsLost
<1>1. OnlyCall(c) /\ UNCHANGED bull
  BY DEF CallSwallows, TypeOK, OnlyCall
<1>2. ASSUME NEW j \in JobIds, NEW v \in Times, CallFor(c, j, v)
      PROVE  Loss(j)
  BY <1>2 DEF Loss, NotPurged, CallSwallows, CallFor, PutsIn, SWALLOWED
<1>3. QED
  BY <1>1, <1>2, CallMoves DEF NoneIsLost, OnlyCall

\* Every step of a call but an upsert loses no schedule but to a loss.
LEMMA CallStepsLoseNone ==
  ASSUME TypeOK, BullSound, AllCounted, NEW c \in Calls,
         BeginSchedule(c) \/ BeginCancel(c) \/ CallStep(c) \/ CallError(c)
         \/ CallSwallows(c), ~CallUpsert(c)
  PROVE  NoneIsLost
<1>1. ASSUME BeginSchedule(c) \/ BeginCancel(c) \/ CallMarkQueued(c)
      PROVE  NoneIsLost
  <2>1. OnlyCall(c)
    BY <1>1 DEF BeginSchedule, BeginCancel, CallMarkQueued, TypeOK, OnlyCall
  <2>2. UNCHANGED bull /\ call[c].pc \notin {"remove", "upsert", "cancel"} \cup ENQUEUE_STEPS
    BY <1>1 DEF BeginSchedule, BeginCancel, CallMarkQueued, ENQUEUE_STEPS
  <2>3. QED
    BY <2>1, <2>2, CallOutside
<1>2. QED
  BY <1>1, RemoveLosesNone, CallEnqueueLosesNone, CancelLosesNone, ErrorLosesByCut,
     SwallowLosesNotPurged DEF CallStep

-----------------------------------------------------------------------------
(* The worker                                                              *)

\* A delivery makes a waiting job active.
LEMMA DeliverLosesNone ==
  ASSUME TypeOK, NEW s \in Slots, Deliver(s)
  PROVE  NoneIsLost
<1>1. PICK i \in JobIds, u \in Times :
        /\ bull[i][u].state = "waiting"
        /\ bull' = [bull EXCEPT ![i][u] = Delivered(bull[i][u], s)]
  BY DEF Deliver, Deliverable
<1>2. Delivered(bull[i][u], s).state = "active"
  BY DEF Delivered, TypeOK, BullJob
<1>3. ASSUME NEW j \in JobIds, NEW v \in Times
      PROVE  StaysInHand(j, v)
  <2>1. bull'[j][v] = IF j = i /\ v = u THEN Delivered(bull[i][u], s) ELSE bull[j][v]
    BY <1>1 DEF TypeOK
  <2>2. UNCHANGED <<call, recon>>
    BY DEF Deliver
  <2>3. QED
    BY <1>1, <1>2, <2>1, <2>2, ActorsRest DEF ALIVE
<1>4. QED
  BY <1>3 DEF NoneIsLost

\* A step of a slot that leaves the queue alone.
LEMMA SlotToLosesNone ==
  ASSUME NEW s \in Slots, NEW pc, SlotTo(s, pc)
  PROVE  NoneIsLost
BY ActorsRest DEF SlotTo, NoneIsLost

\* The outcome a slot reports completes only what it claimed; a delivery that
\* nobody claimed is delivered again, or given up.
LEMMA SettleLosesByGivingUp ==
  ASSUME TypeOK, BullSound, ClaimsTry, NEW s \in Slots, Settle(s)
  PROVE  NoneIsLost
<1> DEFINE d  == slot[s]
           b  == bull[d.job][d.version]
           b2 == IF d.pc = "ack" THEN Completed(b, s) ELSE Failed(b, s)
<1>1. /\ d.job \in JobIds /\ d.version \in Times /\ b \in BJob /\ d.pc \in {"ack", "nack"}
      /\ bull' = [bull EXCEPT ![d.job][d.version] = b2] /\ UNCHANGED <<call, recon>>
  BY DEF Settle, TypeOK, Slot, BJob
<1>2. /\ d.pc = "ack" => ~Awaits(d.job, d.version)
      /\ b.owner = s => b.state = "active"
  BY <1>1, TopologyAssumption DEF ClaimsTry, CLAIMED, BullSound
<1>3. d.pc = "nack" => \/ b2 = b
                       \/ b.state = "active" /\ b2.state \in {"waiting", "failed"}
  BY <1>1, <1>2 DEF Failed, BJob, BullJob
<1> HIDE DEF b2
<1>4. ASSUME NEW j \in JobIds, NEW v \in Times, Awaits(j, v)
      PROVE  StaysInHand(j, v)
  <2>1. bull'[j][v] = IF j = d.job /\ v = d.version THEN b2 ELSE bull[j][v]
    BY <1>1 DEF TypeOK
  <2>2. CASE j # d.job \/ v # d.version \/ b2 = b
    BY <1>1, <2>1, <2>2, ActorsRest
  <2>3. CASE j = d.job /\ v = d.version /\ b2 # b
    <3>1. b.state = "active" /\ b2.state \in {"waiting", "failed"} /\ store[j].version = v
      BY <1>1, <1>2, <1>3, <1>4, <2>3 DEF Awaits
    <3>2. b2.state = "failed" => GivenUp(j)
      BY <2>1, <2>3, <3>1 DEF GivenUp
    <3>3. QED
      BY <1>1, <2>1, <2>3, <3>1, <3>2, ActorsRest DEF ALIVE, Loss
  <2>4. QED
    BY <2>2, <2>3
<1>5. QED
  BY <1>4 DEF NoneIsLost

\* BullMQ's housekeeping forgets finished jobs, recovers or gives up active ones.
LEMMA HousekeepingLosesByGivingUp ==
  ASSUME TypeOK, NEW i \in JobIds, NEW u \in Times, NEW b2, bull' = [bull EXCEPT ![i][u] = b2],
         UNCHANGED <<call, recon>>,
         \/ b2.state = bull[i][u].state
         \/ bull[i][u].state = "active" /\ b2.state \in {"waiting", "failed"}
         \/ bull[i][u].state \in {"completed", "failed"} /\ b2.state = "absent"
  PROVE  NoneIsLost
<1>1. ASSUME NEW j \in JobIds, NEW v \in Times, Awaits(j, v)
      PROVE  StaysInHand(j, v)
  <2>1. bull'[j][v] = IF j = i /\ v = u THEN b2 ELSE bull[j][v]
    BY DEF TypeOK
  <2>2. j = i /\ v = u /\ bull[i][u].state = "active" /\ b2.state = "failed" => GivenUp(j)
    BY <1>1, <2>1 DEF GivenUp, Awaits
  <2>3. QED
    BY <2>1, <2>2, ActorsRest DEF ALIVE, Loss
<1>2. QED
  BY <1>1 DEF NoneIsLost

\* Every step of a slot loses no schedule but to a loss.
LEMMA SlotStepsLoseNone ==
  ASSUME TypeOK, BullSound, ClaimsTry, NEW s \in Slots,
         Deliver(s) \/ SlotStep(s) \/ ClaimError(s) \/ CompleteError(s) \/ FailError(s)
           \/ LoseLock(s)
  PROVE  NoneIsLost
<1>1. CASE LoseLock(s)
  <2>1. /\ slot[s].job \in JobIds /\ slot[s].version \in Times /\ UNCHANGED <<call, recon>>
        /\ bull' = [bull EXCEPT ![slot[s].job][slot[s].version] =
                      Unlocked(bull[slot[s].job][slot[s].version])]
    BY <1>1 DEF LoseLock, TypeOK, Slot
  <2>2. bull[slot[s].job][slot[s].version] \in BJob
    BY <2>1 DEF TypeOK, BJob
  <2>3. Unlocked(bull[slot[s].job][slot[s].version]).state = bull[slot[s].job][slot[s].version].state
    BY <2>2 DEF Unlocked, BJob, BullJob
  <2>4. QED
    BY <2>1, <2>3, HousekeepingLosesByGivingUp
<1>2. CASE \E pc : SlotTo(s, pc)
  BY <1>2, SlotToLosesNone
<1>3. QED
  BY <1>1, <1>2, DeliverLosesNone, SettleLosesByGivingUp
  DEF SlotStep, RejectUnknown, StartRun, SkipStale, CompleteRun, ThrowRun, RecordFailure,
      ClaimError, CompleteError, FailError

-----------------------------------------------------------------------------
(* Startup reconciliation                                                  *)

\* A step of a reconciliation that had nothing to put into the queue.
LEMMA ReconOutside ==
  ASSUME TypeOK, NEW n \in Nodes, NEW p2, recon' = [recon EXCEPT ![n] = p2],
         UNCHANGED <<bull, call>>, recon[n].pc \notin ENQUEUE_STEPS
  PROVE  NoneIsLost
<1>1. ASSUME NEW j \in JobIds, NEW v \in Times
      PROVE  StaysInHand(j, v)
  <2>1. ~ReconFor(n, j, v)
    BY DEF ReconFor, PutsIn, ENQUEUE_STEPS
  <2>2. QED
    BY <2>1, ReconMoves
<1>2. QED
  BY <1>1 DEF NoneIsLost

\* What an enqueue step takes out of the queue its actor is about to put in.
LEMMA ReconEnqueueLosesNone ==
  ASSUME TypeOK, BullSound, NEW n \in Nodes, ReconEnqueue(n)
  PROVE  NoneIsLost
<1> DEFINE p   == recon[n]
           r   == p.snap[p.job]
           b   == bull[p.job][r.version]
           b2  == EnqueueEffect(p.pc, b, r.payload, r.runAt, r.attempts)
           pc2 == EnqueueNext(p.pc, b)
           p2  == [p EXCEPT !.pc = pc2]
<1>1. /\ p \in Recon /\ p.job \in JobIds /\ r.version \in Times /\ p.pc \in ENQUEUE_STEPS
      /\ b \in BJob
      /\ bull' = [bull EXCEPT ![p.job][r.version] = b2]
      /\ recon' = [recon EXCEPT ![n] = p2] /\ UNCHANGED call
  BY DEF ReconEnqueue, ReconTo, TypeOK, Recon, SchedulerJobRecord, BJob
<1>2. recon'[n].job = p.job /\ recon'[n].snap = p.snap /\ recon'[n].pc = pc2
  BY <1>1 DEF TypeOK, Recon
<1>3. b2.state \in ALIVE \/ PutsIn(pc2, b2) \/ (b2 = b /\ ~PutsIn(p.pc, b))
  BY <1>1, EnqueuePutsIn DEF BullSound
<1> HIDE DEF b2, pc2, p2
<1>4. ASSUME NEW j \in JobIds, NEW v \in Times
      PROVE  StaysInHand(j, v)
  <2>1. CASE j # p.job \/ v # r.version
    <3>1. bull'[j][v] = bull[j][v]
      BY <1>1, <2>1 DEF TypeOK
    <3>2. ~ReconFor(n, j, v)
      BY <2>1 DEF ReconFor
    <3>3. QED
      BY <1>1, <3>1, <3>2, ReconMoves
  <2>2. CASE j = p.job /\ v = r.version
    <3>1. bull'[j][v] = b2
      BY <1>1, <2>2 DEF TypeOK
    <3>2. CASE b2.state \in ALIVE
      BY <3>1, <3>2 DEF StaysInHand, InHand
    <3>3. CASE PutsIn(pc2, b2)
      <4>1. ReconFor(n, j, v)'
        BY <1>2, <2>2, <3>1, <3>3 DEF ReconFor
      <4>2. QED
        BY <4>1 DEF StaysInHand, InHand
    <3>4. CASE b2 = b /\ ~PutsIn(p.pc, b)
      <4>1. ~ReconFor(n, j, v)
        BY <2>2, <3>4 DEF ReconFor
      <4>2. QED
        BY <1>1, <2>2, <3>1, <3>4, <4>1, ReconMoves
    <3>5. QED
      BY <1>3, <3>2, <3>3, <3>4
  <2>3. QED
    BY <2>1, <2>2
<1>5. QED
  BY <1>4 DEF NoneIsLost

\* A reconciliation that fails at a job is cut short.
LEMMA ReconErrorLosesByCut ==
  ASSUME TypeOK, NEW n \in Nodes, ReconcileError(n)
  PROVE  NoneIsLost
<1>1. recon' = [recon EXCEPT ![n] = ReconAt("abort")] /\ UNCHANGED <<bull, call>>
  BY DEF ReconcileError
<1>2. ASSUME NEW j \in JobIds, NEW v \in Times, ReconFor(n, j, v)
      PROVE  Loss(j)
  BY <1>2 DEF Loss, CutShort, ReconFor, PutsIn, ENQUEUE_STEPS
<1>3. QED
  BY <1>1, <1>2, ReconMoves DEF NoneIsLost

\* An error that it swallows costs what it was to make room for.
LEMMA ReconSwallowLosesNotPurged ==
  ASSUME TypeOK, NEW n \in Nodes, ReconSwallows(n)
  PROVE  NoneIsLost
<1>1. /\ recon' = [recon EXCEPT ![n] = [recon[n] EXCEPT !.pc = AfterSwallowed(recon[n].pc)]]
      /\ UNCHANGED <<bull, call>>
  BY DEF ReconSwallows, ReconTo
<1>2. ASSUME NEW j \in JobIds, NEW v \in Times, ReconFor(n, j, v)
      PROVE  Loss(j)
  BY <1>2 DEF Loss, NotPurged, ReconSwallows, ReconFor, PutsIn, SWALLOWED
<1>3. QED
  BY <1>1, <1>2, ReconMoves DEF NoneIsLost

\* A process that exits cuts short what its calls and its reconciliation were at.
LEMMA ExitLosesByCut ==
  ASSUME TypeOK, NEW n \in Nodes, ProcessExit(n), UNCHANGED bull
  PROVE  NoneIsLost
<1>1. ASSUME NEW j \in JobIds, NEW v \in Times
      PROVE  StaysInHand(j, v)
  <2>1. CallsGoOn(j, v)
    <3> SUFFICES ASSUME NEW c \in Calls, CallFor(c, j, v)
                 PROVE  InHand(j, v)' \/ Loss(j)
      BY DEF CallsGoOn
    <3>1. CASE call[c].node = n
      BY <3>1 DEF Loss, CutShort, CallFor, PutsIn, ENQUEUE_STEPS
    <3>2. CASE call[c].node # n
      <4>1. call'[c] = call[c]
        BY <3>2 DEF ProcessExit
      <4>2. QED
        BY <4>1, CallGoesOn
    <3>3. QED
      BY <3>1, <3>2
  <2>2. ReconsGoOn(j, v)
    <3> SUFFICES ASSUME NEW m \in Nodes, ReconFor(m, j, v)
                 PROVE  InHand(j, v)' \/ Loss(j)
      BY DEF ReconsGoOn
    <3>1. CASE m = n
      BY <3>1 DEF Loss, CutShort, ReconFor, PutsIn, ENQUEUE_STEPS
    <3>2. CASE m # n
      <4>1. recon'[m] = recon[m]
        BY <3>2 DEF ProcessExit, TypeOK
      <4>2. QED
        BY <4>1, ReconGoesOn
    <3>3. QED
      BY <3>1, <3>2
  <2>3. QED
    BY <2>1, <2>2, StaysInHandFrame
<1>2. QED
  BY <1>1 DEF NoneIsLost

\* Every step of a process loses no schedule but to a loss.
LEMMA NodeStepsLoseNone ==
  ASSUME TypeOK, BullSound, NEW n \in Nodes,
         Boot(n) \/ ReconStep(n) \/ ReconcileError(n) \/ ReconSwallows(n)
         \/ AcquireError(n) \/ Crash(n)
  PROVE  NoneIsLost
<1>1. \A pc : ReconTo(n, pc) => \E p2 : recon' = [recon EXCEPT ![n] = p2]
  BY DEF ReconTo
<1>2. ASSUME UNCHANGED <<bull, call>>, recon[n].pc \notin ENQUEUE_STEPS,
             \E p2 : recon' = [recon EXCEPT ![n] = p2]
      PROVE  NoneIsLost
  BY <1>2, ReconOutside
<1>3. CASE Boot(n) \/ AcquireLock(n) \/ SkipReconcile(n) \/ ReconMarkQueued(n)
  BY <1>1, <1>2, <1>3 DEF Boot, AcquireLock, SkipReconcile, ReconMarkQueued, ENQUEUE_STEPS
<1>4. CASE EndLoop(n) \/ ReleaseLock(n) \/ FindCandidates(n)
  <2>1. \E p2 : recon' = [recon EXCEPT ![n] = p2]
    BY <1>4 DEF EndLoop, ReleaseLock, FindCandidates
  <2>2. UNCHANGED <<bull, call>> /\ recon[n].pc \notin ENQUEUE_STEPS
    BY <1>4 DEF EndLoop, ReleaseLock, FindCandidates, ENQUEUE_STEPS
  <2>3. QED
    BY <1>2, <2>1, <2>2
<1>5. CASE ExpireCandidate(n) \/ VisitCandidate(n)
  <2>1. \E p2 : recon' = [recon EXCEPT ![n] = p2]
    BY <1>5 DEF ExpireCandidate, VisitCandidate
  <2>2. UNCHANGED <<bull, call>> /\ recon[n].pc \notin ENQUEUE_STEPS
    BY <1>5 DEF ExpireCandidate, VisitCandidate, IsNext, ENQUEUE_STEPS
  <2>3. QED
    BY <1>2, <2>1, <2>2
<1>6. CASE ReconEnqueue(n)
  BY <1>6, ReconEnqueueLosesNone
<1>7. CASE AbortBootstrap(n) \/ AcquireError(n) \/ Crash(n)
  BY <1>7, ExitLosesByCut DEF AbortBootstrap, AcquireError, Crash
<1>8. CASE ReconcileError(n) \/ ReconSwallows(n)
  BY <1>8, ReconErrorLosesByCut, ReconSwallowLosesNotPurged
<1>9. QED
  BY <1>3, <1>4, <1>5, <1>6, <1>7, <1>8 DEF ReconStep

-----------------------------------------------------------------------------
(* Every step                                                              *)

\* A call that stored a new schedule is about to put it into the queue.
LEMMA UpsertAbandonsNone ==
  ASSUME TypeOK, StoreSound, BullSound, NEW c \in Calls, CallUpsert(c)
  PROVE  \A j \in JobIds :
           Abandoned(j)' => Abandoned(j) /\ store'[j].version = store[j].version
<1> DEFINE k == call[c]
<1>1. /\ k.req.job \in JobIds /\ k.pc = "upsert" /\ UNCHANGED <<bull, recon>>
      /\ now \in Times /\ now \in Nat
      /\ store' = [store EXCEPT ![k.req.job] = UpsertScheduledJob(@, now, c, k.req)]
  BY TimesFacts, TopologyAssumption DEF CallUpsert, TypeOK, Call, Request
<1>2. /\ call'[c].pc = "getJob" /\ call'[c].req = k.req /\ call'[c].version = now
      /\ OnlyCall(c)
  BY DEF CallUpsert, TypeOK, Call, OnlyCall
<1>3. ASSUME NEW j \in JobIds, j = k.req.job
      PROVE  ~Abandoned(j)'
  <2>1. store'[j].version = now
    BY <1>1, <1>3 DEF UpsertScheduledJob, TypeOK, SchedulerJobRecord
  <2>2. bull'[j][now].state = "absent"
    BY <1>1 DEF BullSound, Sound
  <2>3. Queueing(j, store[j].version)'
    BY <1>2, <1>3, <2>1, <2>2 DEF Queueing, PutsIn
  <2>4. QED
    BY <2>3 DEF Abandoned
<1>4. ASSUME NEW j \in JobIds, j # k.req.job, Abandoned(j)'
      PROVE  Abandoned(j) /\ store'[j].version = store[j].version
  <2>1. store'[j] = store[j]
    BY <1>1, <1>4 DEF TypeOK
  <2>2. ~Queueing(j, store[j].version) /\ ~Overtaking(j)
    BY <1>1, <1>2, <1>4, <2>1 DEF Abandoned, Queueing, Overtaking, OnlyCall, PutsIn
  <2>3. QED
    BY <1>1, <1>4, <2>1, <2>2 DEF Abandoned, Untouched
<1>5. QED
  BY <1>3, <1>4

\* Every step but an upsert abandons only what is lost.
LEMMA StepsAbandonTheLost ==
  ASSUME TypeOK, TypeOK', BullSound, TriedInv, Next, \A c \in Calls : ~CallUpsert(c)
  PROVE  /\ Tries
         /\ \A j \in JobIds :
              Abandoned(j)' => \/ Abandoned(j) /\ store'[j].version = store[j].version
                               \/ CutShort(j) \/ GivenUp(j) \/ NotPurged(j)
<1> USE DEF TriedInv
<1>1. NoneIsLost
  <2>1. CASE \E c \in Calls : BeginSchedule(c) \/ BeginCancel(c) \/ CallStep(c) \/ CallError(c)
                              \/ CallSwallows(c)
    BY <2>1, CallStepsLoseNone
  <2>2. CASE \E s \in Slots : Deliver(s) \/ SlotStep(s) \/ ClaimError(s) \/ CompleteError(s)
                                \/ FailError(s) \/ LoseLock(s)
    BY <2>2, SlotStepsLoseNone
  <2>3. CASE \E n \in Nodes : Boot(n) \/ ReconStep(n) \/ ReconcileError(n) \/ ReconSwallows(n)
                              \/ AcquireError(n) \/ Crash(n)
    BY <2>3, NodeStepsLoseNone
  <2>4. CASE BullLockExpires \/ StalledCheck \/ Evict
    <3>1. \A j \in JobIds, v \in Times : LET b == bull[j][v] IN
            /\ Unlocked(b).state = b.state
            /\ IsStalled(b) => b.state = "active" /\ Recovered(b).state \in {"waiting", "failed"}
            /\ Finished(b) => b.state \in {"completed", "failed"} /\ NoBullJob.state = "absent"
      BY DEF Unlocked, IsStalled, Recovered, Finished, NoBullJob, TypeOK, BullJob
    <3>2. CASE BullLockExpires
      <4>1. PICK j \in JobIds, v \in Times : bull' = [bull EXCEPT ![j][v] = Unlocked(bull[j][v])]
        BY <3>2 DEF BullLockExpires
      <4>2. UNCHANGED <<call, recon>>
        BY <3>2 DEF BullLockExpires
      <4>3. QED
        BY <3>1, <4>1, <4>2, HousekeepingLosesByGivingUp
    <3>3. CASE StalledCheck
      <4>1. PICK j \in JobIds, v \in Times :
              IsStalled(bull[j][v]) /\ bull' = [bull EXCEPT ![j][v] = Recovered(bull[j][v])]
        BY <3>3 DEF StalledCheck
      <4>2. UNCHANGED <<call, recon>>
        BY <3>3 DEF StalledCheck
      <4>3. QED
        BY <3>1, <4>1, <4>2, HousekeepingLosesByGivingUp
    <3>4. CASE Evict
      <4>1. PICK j \in JobIds, v \in Times : Finished(bull[j][v]) /\ bull' = [bull EXCEPT ![j][v] = NoBullJob]
        BY <3>4 DEF Evict
      <4>2. UNCHANGED <<call, recon>>
        BY <3>4 DEF Evict
      <4>3. QED
        BY <3>1, <4>1, <4>2, HousekeepingLosesByGivingUp
    <3>5. QED
      BY <2>4, <3>2, <3>3, <3>4
  <2>5. CASE LockExpire \/ Tick \/ AllQuiet
    <3>1. UNCHANGED <<bull, call, recon>>
      BY <2>5 DEF LockExpire, Tick, AllQuiet, vars
    <3>2. QED
      BY <3>1, ActorsRest DEF NoneIsLost
  <2>6. QED
    BY <2>1, <2>2, <2>3, <2>4, <2>5 DEF Next
<1>2. Tries
  BY StepsTry
<1>3. ASSUME NEW j \in JobIds, Abandoned(j)'
      PROVE  \/ Abandoned(j) /\ store'[j].version = store[j].version
             \/ CutShort(j) \/ GivenUp(j) \/ NotPurged(j)
  <2>1. PICK v \in Times : v = store'[j].version
    BY DEF TypeOK, SchedulerJobRecord
  <2>2. Awaits(j, v)' /\ ~InHand(j, v)'
    BY <1>3, <2>1
    DEF Abandoned, Awaits, InHand, ALIVE, CallFor, ReconFor, Queueing, Overtaking
  <2>3. Awaits(j, v)
    BY <1>2, <2>2 DEF Tries
  <2>4. InHand(j, v) => Loss(j)
    BY <1>1, <2>2, <2>3 DEF NoneIsLost, StaysInHand
  <2>5. QED
    BY <2>1, <2>3, <2>4, AbandonedIs DEF Awaits, Loss
<1>4. QED
  BY <1>2, <1>3

\* Who is past a claim after a step claimed in it or before.
LEMMA SlotsGetPastClaims ==
  ASSUME TypeOK, Next, NEW s \in Slots, slot'[s].pc \in CLAIMED
  PROVE  /\ slot'[s].job = slot[s].job /\ slot'[s].version = slot[s].version
         /\ slot[s].pc \in CLAIMED \/ StartRun(s) \/ SkipStale(s)
<1>1. CASE slot'[s] = slot[s]
  BY <1>1
<1>2. CASE slot'[s] # slot[s]
  <2>1. ASSUME NEW n \in Nodes, ProcessExit(n) PROVE FALSE
    BY <1>2, <2>1 DEF ProcessExit, IdleSlot, CLAIMED
  <2>2. PICK i \in Slots : Deliver(i) \/ SlotStep(i) \/ ClaimError(i) \/ CompleteError(i)
                             \/ FailError(i)
    <3>1. ~\E c \in Calls : BeginSchedule(c) \/ BeginCancel(c) \/ CallStep(c) \/ CallError(c)
                            \/ CallSwallows(c)
      BY <1>2 DEF BeginSchedule, BeginCancel, CallStep, CallError, CallSwallows, CallRemove,
                  CallUpsert, CallEnqueue, CallMarkQueued, CallMarkCancelled
    <3>2. ~\E n \in Nodes : Boot(n) \/ ReconStep(n) \/ ReconcileError(n) \/ ReconSwallows(n)
                            \/ AcquireError(n) \/ Crash(n)
      BY <1>2, <2>1
      DEF Boot, ReconStep, ReconcileError, ReconSwallows, AcquireError, Crash, AcquireLock,
          SkipReconcile, FindCandidates, ExpireCandidate, VisitCandidate, ReconEnqueue,
          ReconMarkQueued, EndLoop, ReleaseLock, AbortBootstrap
    <3>3. ~(BullLockExpires \/ StalledCheck \/ Evict \/ LockExpire \/ Tick \/ AllQuiet)
      BY <1>2 DEF BullLockExpires, StalledCheck, Evict, LockExpire, Tick, AllQuiet, vars
    <3>4. \A i \in Slots : ~LoseLock(i)
      BY <1>2 DEF LoseLock
    <3>5. QED
      BY <3>1, <3>2, <3>3, <3>4 DEF Next
  <2>3. CASE Deliver(i) \/ Settle(i)
    BY <1>2, <2>3 DEF Deliver, Settle, TypeOK, CLAIMED, IdleSlot
  <2>4. ASSUME NEW pc, SlotTo(i, pc)
        PROVE  /\ i = s /\ slot'[s].job = slot[s].job /\ slot'[s].version = slot[s].version
               /\ slot'[s].pc = pc
    BY <1>2, <2>4 DEF SlotTo, TypeOK, Slot
  <2>5. CASE StartRun(i) \/ SkipStale(i)
    BY <2>4, <2>5 DEF StartRun, SkipStale
  <2>6. CASE RejectUnknown(i) \/ ClaimError(i) \/ RecordFailure(i) \/ FailError(i)
    BY <2>4, <2>6 DEF RejectUnknown, ClaimError, RecordFailure, FailError, CLAIMED
  <2>7. CASE CompleteRun(i) \/ ThrowRun(i) \/ CompleteError(i)
    BY <2>4, <2>7 DEF CompleteRun, ThrowRun, CompleteError, CLAIMED
  <2>8. QED
    BY <2>2, <2>3, <2>5, <2>6, <2>7 DEF SlotStep
<1>3. QED
  BY <1>1, <1>2

\* A claim that succeeds tries the schedule; one that is refused finds none.
LEMMA ClaimTries ==
  ASSUME TypeOK, AllCounted, NEW s \in Slots, StartRun(s) \/ SkipStale(s)
  PROVE  \A j \in JobIds, v \in Times : slot[s].job = j /\ slot[s].version = v => ~Awaits(j, v)'
<1> DEFINE d == slot[s]
           r == store[d.job]
<1>1. d.job \in JobIds /\ d.version \in Times /\ Counted(r)
  BY DEF TypeOK, Slot, Doc, AllCounted, Counted
<1>2. CASE StartRun(s)
  <2>1. store' = [store EXCEPT ![d.job] = MarkRunning(r, d.version, now)]
        /\ CanMarkRunning(r, d.version)
    BY <1>2 DEF StartRun, StoreClaim
  <2>2. ~Untouched(MarkRunning(r, d.version, now))
    BY <1>1, <2>1, RunningTries
  <2>3. QED
    BY <1>1, <2>1, <2>2 DEF Awaits, TypeOK
<1>3. CASE SkipStale(s)
  <2>1. ~Awaits(d.job, d.version)
    BY <1>3 DEF SkipStale, CanMarkRunning, Untouched, Awaits
  <2>2. QED
    BY <1>3, <2>1 DEF SkipStale, SlotTo, Awaits, Untouched
<1>4. QED
  BY <1>2, <1>3

\* An upsert stores a version that no slot holds.
LEMMA UpsertIsUnclaimed ==
  ASSUME TypeOK, SlotsSound, TriedInv, NEW c \in Calls, CallUpsert(c)
  PROVE  TriedInv'
<1> DEFINE k  == call[c]
           r2 == UpsertScheduledJob(store[k.req.job], now, c, k.req)
<1>1. /\ k.req.job \in JobIds /\ now \in Nat /\ UNCHANGED slot
      /\ store' = [store EXCEPT ![k.req.job] = r2]
  BY TimesFacts, TopologyAssumption DEF CallUpsert, TypeOK, Call, Request
<1>2. r2.status = "pending" /\ r2.version = now
  BY <1>1 DEF UpsertScheduledJob, TypeOK, SchedulerJobRecord
<1> HIDE DEF r2
<1>3. AllCounted'
  BY <1>1, <1>2 DEF TriedInv, AllCounted, TypeOK
<1>4. ASSUME NEW s \in Slots, slot[s].pc \in CLAIMED
      PROVE  ~Awaits(slot[s].job, slot[s].version)'
  <2>1. slot[s].version < now /\ slot[s].job \in JobIds /\ slot[s].version \in Nat
    BY <1>4, TimesFacts DEF SlotsSound, TypeOK, Slot, CLAIMED
  <2>2. CASE slot[s].job = k.req.job
    BY <1>1, <1>2, <2>1, <2>2 DEF Awaits, TypeOK
  <2>3. CASE slot[s].job # k.req.job
    <3>1. store'[slot[s].job] = store[slot[s].job]
      BY <1>1, <2>1, <2>3 DEF TypeOK
    <3>2. QED
      BY <1>1, <1>4, <3>1 DEF TriedInv, ClaimsTry, Awaits, Untouched
  <2>4. QED
    BY <2>2, <2>3
<1>5. ClaimsTry'
  BY <1>1, <1>4 DEF ClaimsTry
<1>6. QED
  BY <1>3, <1>5 DEF TriedInv

\* Every other step keeps runs counted and what was claimed tried.
LEMMA StepsKeepTried ==
  ASSUME TypeOK, TriedInv, Next, Tries
  PROVE  TriedInv'
<1>1. ASSUME NEW s \in Slots, slot'[s].pc \in CLAIMED
      PROVE  ~Awaits(slot[s].job, slot[s].version)'
  <2>1. /\ slot[s].job \in JobIds /\ slot[s].version \in Times
        /\ slot'[s].job = slot[s].job /\ slot'[s].version = slot[s].version
        /\ slot[s].pc \in CLAIMED \/ StartRun(s) \/ SkipStale(s)
    BY <1>1, SlotsGetPastClaims DEF TypeOK, Slot
  <2>2. ASSUME NEW j \in JobIds, NEW v \in Times, slot[s].job = j, slot[s].version = v
        PROVE  ~Awaits(j, v)'
    <3>1. CASE slot[s].pc \in CLAIMED
      BY <2>2, <3>1 DEF TriedInv, ClaimsTry, Tries
    <3>2. CASE StartRun(s) \/ SkipStale(s)
      BY <2>2, <3>2, ClaimTries DEF TriedInv
    <3>3. QED
      BY <2>1, <3>1, <3>2
  <2>3. QED
    BY <2>1, <2>2 DEF Awaits
<1>2. QED
  BY <1>1 DEF TriedInv, ClaimsTry, Tries

\* The step of the induction, and what it abandons.
LEMMA StepAbandonsTheLost ==
  ASSUME TypeOK, TypeOK', VersionInv, TriedInv, [Next]_vars
  PROVE  /\ TriedInv'
         /\ \A j \in JobIds :
              Abandoned(j)' => \/ Abandoned(j) /\ store'[j].version = store[j].version
                               \/ CutShort(j) \/ GivenUp(j) \/ NotPurged(j)
<1>1. CASE UNCHANGED vars
  BY <1>1 DEF vars, TriedInv, AllCounted, ClaimsTry, Awaits, Untouched, Abandoned, Queueing,
              Overtaking
<1>2. CASE Next /\ \E c \in Calls : CallUpsert(c)
  BY <1>2, UpsertIsUnclaimed, UpsertAbandonsNone DEF VersionInv
<1>3. CASE Next /\ \A c \in Calls : ~CallUpsert(c)
  BY <1>3, StepsAbandonTheLost, StepsKeepTried DEF VersionInv
<1>4. QED
  BY <1>1, <1>2, <1>3

(* Whatever crashes, fails, stalls or lacks its handler: an untried         *)
(* schedule drops out of the queue only because a call or a reconciliation  *)
(* at it is cut short, because BullMQ gives it up, or because enqueue()     *)
(* swallowed that the finished job in its way was not removed; schedule(),  *)
(* cancel(), reconcile() and the workers lose none between them.            *)
THEOREM AbandonedOnlyByLossHolds ==
  ASSUME UniqueStamps
  PROVE  Spec => AbandonedOnlyByLoss
<1>1. Init => VersionInv /\ TriedInv
  BY InitVersions, InitTried
<1>2. TypeOK /\ TypeOK' /\ VersionInv /\ TriedInv /\ [Next]_vars => VersionInv' /\ TriedInv'
  BY StepKeepsVersionInv, StepAbandonsTheLost
<1>3. TypeOK /\ TypeOK' /\ VersionInv /\ TriedInv /\ [Next]_vars =>
        [\A j \in JobIds :
           Abandoned(j)' => \/ Abandoned(j) /\ store'[j].version = store[j].version
                            \/ CutShort(j) \/ GivenUp(j) \/ NotPurged(j)]_vars
  BY StepAbandonsTheLost
<1>4. QED
  BY <1>1, <1>2, <1>3, TypeCorrect, PTL DEF Spec, AbandonedOnlyByLoss

-----------------------------------------------------------------------------
(* What a reconciliation marks expired                                     *)

\* What the time to live of r2, read later than r, is to that of r.
SameDeadline(r, r2) == r2.version = r.version /\ r2.runAt = r.runAt /\ r2.ttlMs = r.ttlMs
Newer(r, r2) == r2.version > r.version \/ SameDeadline(r, r2)

\* The records of a batch are what the store had, if it has moved on since.
SnapsOld ==
  \A n \in Nodes : \A j \in recon[n].todo : Newer(recon[n].snap[j], store[j])

\* Initially no batch is read.
LEMMA InitSnaps == Init => SnapsOld
BY DEF Init, SnapsOld, ReconAt

\* No transition but an upsert changes the version or the deadline.
LEMMA TransitionsKeepDeadline ==
  ASSUME NEW r \in Doc, NEW v, NEW t, NEW st
  PROVE  /\ SameDeadline(r, MarkQueued(r, v))
         /\ SameDeadline(r, MarkRunning(r, v, t))
         /\ SameDeadline(r, MarkFinished(r, v, st))
         /\ SameDeadline(r, MarkClosed(r, st))
BY DEF SameDeadline, Doc, SchedulerJobRecord, MarkQueued, MarkRunning, MarkFinished, MarkClosed

\* The status "expired" is markExpired's, and nobody else writes it.
LEMMA OnlyCloseExpires ==
  ASSUME NEW r \in Doc, r.status # "expired", NEW v, NEW t
  PROVE  /\ MarkQueued(r, v).status # "expired"
         /\ MarkRunning(r, v, t).status # "expired"
         /\ \A st \in {"completed", "failed", "dead_letter", "failed_retryable"} :
              MarkFinished(r, v, st).status # "expired"
         /\ MarkClosed(r, "cancelled").status # "expired"
BY DEF Doc, SchedulerJobRecord, MarkQueued, MarkRunning, MarkFinished, MarkClosed

\* The records of a batch are on their way, or just read.
BatchesStay ==
  \A n \in Nodes : \A j \in recon'[n].todo :
    \/ j \in recon[n].todo /\ recon'[n].snap[j] = recon[n].snap[j]
    \/ recon'[n].snap[j] = store'[j]

\* A document moves on, or keeps its deadline and is not marked expired.
StoreMovesOn ==
  \A j \in JobIds :
    /\ Newer(store[j], store'[j])
    /\ store[j].status # "expired" /\ store'[j].status = "expired" =>
         \E n \in Nodes : IsNext(n, j) /\ IsExpired(recon[n].snap[j], now)

\* A step on one document.
LEMMA OneMovesOn ==
  ASSUME TypeOK, NEW i \in JobIds, NEW r2, store' = [store EXCEPT ![i] = r2],
         Newer(store[i], r2),
         store[i].status # "expired" /\ r2.status = "expired" =>
           \E n \in Nodes : IsNext(n, i) /\ IsExpired(recon[n].snap[i], now)
  PROVE  StoreMovesOn
<1>1. ASSUME NEW j \in JobIds
      PROVE  /\ Newer(store[j], store'[j])
             /\ store[j].status # "expired" /\ store'[j].status = "expired" =>
                  \E n \in Nodes : IsNext(n, j) /\ IsExpired(recon[n].snap[j], now)
  <2>1. store'[j] = IF j = i THEN r2 ELSE store[j]
    BY DEF TypeOK
  <2>2. QED
    BY <2>1 DEF Newer, SameDeadline
<1>2. QED
  BY <1>1 DEF StoreMovesOn

\* Every step moves documents on.
LEMMA StepsMoveOn ==
  ASSUME TypeOK, StoreSound, Next
  PROVE  StoreMovesOn
<1>0. /\ \A j \in JobIds : store[j] \in Doc
      /\ \A c \in Calls : call[c].req.job \in JobIds
      /\ \A s \in Slots : slot[s].job \in JobIds
      /\ \A n \in Nodes : recon[n].job \in JobIds
  BY TopologyAssumption DEF TypeOK, Call, Request, Slot, Recon, Doc
<1>1. ASSUME UNCHANGED store PROVE StoreMovesOn
  BY <1>1 DEF StoreMovesOn, Newer, SameDeadline
<1>2. ASSUME NEW c \in Calls, CallUpsert(c) PROVE StoreMovesOn
  <2> DEFINE k  == call[c]
             r  == store[k.req.job]
             r2 == UpsertScheduledJob(r, now, c, k.req)
  <2>1. store' = [store EXCEPT ![k.req.job] = r2]
    BY <1>2 DEF CallUpsert
  <2>2. r2.version = now /\ r2.status = "pending"
    BY <1>0 DEF UpsertScheduledJob, Doc, SchedulerJobRecord
  <2>3. r.version < now /\ r.version \in Nat /\ now \in Nat
    BY <1>0, TimesFacts DEF StoreSound, TypeOK, SchedulerJobRecord
  <2> HIDE DEF r2
  <2>4. QED
    BY <1>0, <2>1, <2>2, <2>3, OneMovesOn DEF Newer
<1>3. ASSUME NEW j \in JobIds, NEW v, store' = [store EXCEPT ![j] = MarkQueued(store[j], v)]
      PROVE  StoreMovesOn
  <2>1. /\ SameDeadline(store[j], MarkQueued(store[j], v))
        /\ store[j].status # "expired" => MarkQueued(store[j], v).status # "expired"
    BY <1>0, TransitionsKeepDeadline, OnlyCloseExpires
  <2>2. QED
    BY <1>3, <2>1, OneMovesOn DEF Newer
<1>4. ASSUME NEW j \in JobIds, store' = [store EXCEPT ![j] = MarkClosed(store[j], "cancelled")]
      PROVE  StoreMovesOn
  <2>1. /\ SameDeadline(store[j], MarkClosed(store[j], "cancelled"))
        /\ store[j].status # "expired" => MarkClosed(store[j], "cancelled").status # "expired"
    BY <1>0, TransitionsKeepDeadline, OnlyCloseExpires
  <2>2. QED
    BY <1>4, <2>1, OneMovesOn DEF Newer
<1>5. ASSUME NEW n \in Nodes, ExpireCandidate(n) PROVE StoreMovesOn
  <2>1. PICK j \in JobIds : /\ IsNext(n, j) /\ IsExpired(recon[n].snap[j], now)
                            /\ store' = [store EXCEPT ![j] = MarkClosed(store[j], "expired")]
    BY <1>5 DEF ExpireCandidate
  <2>2. SameDeadline(store[j], MarkClosed(store[j], "expired"))
    BY <1>0, TransitionsKeepDeadline
  <2>3. QED
    BY <2>1, <2>2, OneMovesOn DEF Newer
<1>6. ASSUME NEW s \in Slots, StoreClaim(s) PROVE StoreMovesOn
  <2> DEFINE r  == store[slot[s].job]
             r2 == MarkRunning(r, slot[s].version, now)
  <2>1. SameDeadline(r, r2) /\ (r.status # "expired" => r2.status # "expired")
    BY <1>0, TransitionsKeepDeadline, OnlyCloseExpires
  <2>2. store' = [store EXCEPT ![slot[s].job] = r2]
    BY <1>6 DEF StoreClaim
  <2> HIDE DEF r2
  <2>3. QED
    BY <1>0, <2>1, <2>2, OneMovesOn DEF Newer
<1>7. ASSUME NEW s \in Slots, NEW st \in {"completed", "failed", "dead_letter", "failed_retryable"},
             StoreFinish(s, st)
      PROVE  StoreMovesOn
  <2> DEFINE r  == store[slot[s].job]
             r2 == MarkFinished(r, slot[s].version, st)
  <2>1. SameDeadline(r, r2) /\ (r.status # "expired" => r2.status # "expired")
    BY <1>0, TransitionsKeepDeadline, OnlyCloseExpires
  <2>2. store' = [store EXCEPT ![slot[s].job] = r2]
    BY <1>7 DEF StoreFinish
  <2> HIDE DEF r2
  <2>3. QED
    BY <1>0, <2>1, <2>2, OneMovesOn DEF Newer
<1>8. \A s \in Slots : FailureStatus(s) \in {"completed", "failed", "dead_letter", "failed_retryable"}
  BY DEF FailureStatus
<1>9. CASE \E c \in Calls : BeginSchedule(c) \/ BeginCancel(c) \/ CallStep(c) \/ CallError(c)
                            \/ CallSwallows(c)
  BY <1>0, <1>1, <1>2, <1>3, <1>4, <1>9
  DEF BeginSchedule, BeginCancel, CallStep, CallError, CallSwallows, CallRemove, CallEnqueue,
      CallMarkQueued, CallMarkCancelled
<1>10. CASE \E s \in Slots : Deliver(s) \/ SlotStep(s) \/ ClaimError(s) \/ CompleteError(s)
                               \/ FailError(s) \/ LoseLock(s)
  BY <1>1, <1>6, <1>7, <1>8, <1>10
  DEF Deliver, SlotStep, RejectUnknown, StartRun, SkipStale, CompleteRun, ThrowRun, RecordFailure,
      Settle, ClaimError, CompleteError, FailError, LoseLock
<1>11. CASE \E n \in Nodes : Boot(n) \/ ReconStep(n) \/ ReconcileError(n) \/ ReconSwallows(n)
                             \/ AcquireError(n) \/ Crash(n)
  BY <1>0, <1>1, <1>3, <1>5, <1>11
  DEF Boot, ReconStep, ReconcileError, ReconSwallows, AcquireError, Crash, AcquireLock,
      SkipReconcile, FindCandidates, VisitCandidate, ReconEnqueue, ReconMarkQueued, EndLoop,
      ReleaseLock, AbortBootstrap
<1>12. CASE BullLockExpires \/ StalledCheck \/ Evict \/ LockExpire \/ Tick \/ AllQuiet
  BY <1>1, <1>12 DEF BullLockExpires, StalledCheck, Evict, LockExpire, Tick, AllQuiet, vars
<1>13. QED
  BY <1>9, <1>10, <1>11, <1>12 DEF Next

\* Every step only works batches off, or reads one.
LEMMA StepsKeepBatches ==
  ASSUME TypeOK, Next
  PROVE  BatchesStay
<1>1. ASSUME UNCHANGED recon PROVE BatchesStay
  BY <1>1 DEF BatchesStay
<1>2. ASSUME NEW n \in Nodes, NEW p2, recon' = [recon EXCEPT ![n] = p2],
             \A j \in p2.todo : \/ j \in recon[n].todo /\ p2.snap[j] = recon[n].snap[j]
                                \/ p2.snap[j] = store'[j]
      PROVE  BatchesStay
  BY <1>2 DEF BatchesStay, TypeOK
<1>3. ASSUME NEW n \in Nodes, NEW pc, ReconTo(n, pc) PROVE BatchesStay
  <2>1. recon' = [recon EXCEPT ![n] = [recon[n] EXCEPT !.pc = pc]]
    BY <1>3 DEF ReconTo
  <2>2. LET p2 == [recon[n] EXCEPT !.pc = pc] IN p2.todo = recon[n].todo /\ p2.snap = recon[n].snap
    BY DEF TypeOK, Recon
  <2>3. QED
    BY <1>2, <2>1, <2>2
<1>4. ASSUME NEW n \in Nodes, NEW pc, recon' = [recon EXCEPT ![n] = ReconAt(pc)] PROVE BatchesStay
  <2>1. ReconAt(pc).todo = {}
    BY DEF ReconAt
  <2>2. QED
    BY <1>2, <1>4, <2>1
<1>5. ASSUME NEW n \in Nodes, FindCandidates(n) PROVE BatchesStay
  <2>1. PICK batch \in SUBSET JobIds :
          recon' = [recon EXCEPT ![n] =
                      [pc |-> "loop", todo |-> batch, job |-> Job0,
                       snap |-> [j \in JobIds |-> IF j \in batch THEN store[j] ELSE NoJob]]]
    BY <1>5 DEF FindCandidates
  <2>2. UNCHANGED store
    BY <1>5 DEF FindCandidates
  <2>3. QED
    BY <1>2, <2>1, <2>2
<1>6. ASSUME NEW n \in Nodes, NEW j, recon' = [recon EXCEPT ![n].todo = @ \ {j}] PROVE BatchesStay
  <2> DEFINE p2 == [recon[n] EXCEPT !.todo = recon[n].todo \ {j}]
  <2>1. recon' = [recon EXCEPT ![n] = p2]
    BY <1>6
  <2>2. p2.todo \subseteq recon[n].todo /\ p2.snap = recon[n].snap
    BY DEF TypeOK, Recon
  <2> HIDE DEF p2
  <2>3. QED
    BY <1>2, <2>1, <2>2
<1>7. ASSUME NEW n \in Nodes, VisitCandidate(n) PROVE BatchesStay
  <2>1. PICK j \in JobIds :
          recon' = [recon EXCEPT ![n].pc = "getJob", ![n].job = j, ![n].todo = @ \ {j}]
    BY <1>7 DEF VisitCandidate
  <2> DEFINE p2 == [recon[n] EXCEPT !.pc = "getJob", !.job = j, !.todo = recon[n].todo \ {j}]
  <2>2. recon' = [recon EXCEPT ![n] = p2]
    BY <2>1
  <2>3. p2.todo \subseteq recon[n].todo /\ p2.snap = recon[n].snap
    BY DEF TypeOK, Recon
  <2> HIDE DEF p2
  <2>4. QED
    BY <1>2, <2>2, <2>3
<1>8. CASE \E c \in Calls : BeginSchedule(c) \/ BeginCancel(c) \/ CallStep(c) \/ CallError(c)
                            \/ CallSwallows(c)
  BY <1>1, <1>8 DEF BeginSchedule, BeginCancel, CallStep, CallError, CallSwallows, CallRemove,
                    CallUpsert, CallEnqueue, CallMarkQueued, CallMarkCancelled
<1>9. CASE \E s \in Slots : Deliver(s) \/ SlotStep(s) \/ ClaimError(s) \/ CompleteError(s)
                              \/ FailError(s) \/ LoseLock(s)
  BY <1>1, <1>9
  DEF Deliver, SlotStep, RejectUnknown, StartRun, SkipStale, CompleteRun, ThrowRun, RecordFailure,
      Settle, ClaimError, CompleteError, FailError, LoseLock, SlotTo
<1>10. CASE \E n \in Nodes : Boot(n) \/ ReconStep(n) \/ ReconcileError(n) \/ ReconSwallows(n)
                             \/ AcquireError(n) \/ Crash(n)
  BY <1>3, <1>4, <1>5, <1>6, <1>7, <1>10
  DEF Boot, ReconStep, ReconcileError, ReconSwallows, AcquireError, Crash, AcquireLock,
      SkipReconcile, ExpireCandidate, ReconEnqueue, ReconMarkQueued, EndLoop, ReleaseLock,
      AbortBootstrap, ProcessExit
<1>11. CASE BullLockExpires \/ StalledCheck \/ Evict \/ LockExpire \/ Tick \/ AllQuiet
  BY <1>1, <1>11 DEF BullLockExpires, StalledCheck, Evict, LockExpire, Tick, AllQuiet, vars
<1>12. QED
  BY <1>8, <1>9, <1>10, <1>11 DEF Next

\* The step of the induction, and what it marks expired.
LEMMA StepExpiresOverdue ==
  ASSUME TypeOK, TypeOK', StoreSound, SnapsOld, [Next]_vars
  PROVE  /\ SnapsOld'
         /\ \A j \in JobIds :
              store[j].status # "expired" /\ store'[j].status = "expired"
                /\ ~IsExpired(store[j], now) =>
                \E n \in Nodes : IsNext(n, j) /\ recon[n].snap[j].version < store[j].version
<1>1. CASE UNCHANGED vars
  BY <1>1 DEF vars, SnapsOld, Newer, SameDeadline
<1>2. CASE Next
  <2>1. StoreMovesOn /\ BatchesStay
    BY <1>2, StepsMoveOn, StepsKeepBatches
  <2>2. \A n \in Nodes : \A j \in recon[n].todo :
          /\ j \in JobIds
          /\ recon[n].snap[j].version \in Nat /\ store[j].version \in Nat
    <3>1. \A r \in SchedulerJobRecord(Calls, Times) : r.version \in Nat
      BY TimesFacts DEF SchedulerJobRecord
    <3>2. ASSUME NEW n \in Nodes, NEW j \in recon[n].todo
          PROVE  /\ j \in JobIds /\ store[j] \in SchedulerJobRecord(Calls, Times)
                 /\ recon[n].snap[j] \in SchedulerJobRecord(Calls, Times)
      <4>1. recon[n] \in Recon
        BY DEF TypeOK
      <4>2. j \in JobIds
        BY <4>1 DEF Recon
      <4>3. QED
        BY <4>1, <4>2 DEF TypeOK, Recon
    <3>3. QED
      BY <3>1, <3>2
  <2>3. \A n \in Nodes : \A j \in recon'[n].todo : j \in JobIds /\ store'[j].version \in Nat
    BY TimesFacts DEF TypeOK, Recon, SchedulerJobRecord
  <2>4. SnapsOld'
    BY <2>1, <2>2, <2>3 DEF SnapsOld, StoreMovesOn, BatchesStay, Newer, SameDeadline
  <2>5. ASSUME NEW j \in JobIds, store[j].status # "expired", store'[j].status = "expired",
               ~IsExpired(store[j], now)
        PROVE  \E n \in Nodes : IsNext(n, j) /\ recon[n].snap[j].version < store[j].version
    <3>1. PICK n \in Nodes : IsNext(n, j) /\ IsExpired(recon[n].snap[j], now)
      BY <2>1, <2>5 DEF StoreMovesOn
    <3>2. j \in recon[n].todo
      BY <3>1 DEF IsNext
    <3>3. ~SameDeadline(recon[n].snap[j], store[j])
      BY <2>5, <3>1 DEF SameDeadline, IsExpired
    <3>4. QED
      BY <2>2, <3>1, <3>2, <3>3 DEF SnapsOld, Newer
  <2>6. QED
    BY <2>4, <2>5
<1>3. QED
  BY <1>1, <1>2

(* A schedule whose time is not over is marked expired only by a            *)
(* reconciliation that read the schedule it has replaced since: the         *)
(* deadline reconcile() judges by belongs to the version it read.           *)
THEOREM OnlyOldSnapshotExpiresHolds ==
  ASSUME UniqueStamps
  PROVE  Spec => OnlyOldSnapshotExpires
<1>1. Init => VersionInv /\ SnapsOld
  BY InitVersions, InitSnaps
<1>2. TypeOK /\ TypeOK' /\ VersionInv /\ SnapsOld /\ [Next]_vars => VersionInv' /\ SnapsOld'
  BY StepKeepsVersionInv, StepExpiresOverdue DEF VersionInv
<1>3. TypeOK /\ TypeOK' /\ VersionInv /\ SnapsOld /\ [Next]_vars =>
        [\A j \in JobIds :
           store[j].status # "expired" /\ store'[j].status = "expired"
             /\ ~IsExpired(store[j], now) =>
             \E n \in Nodes : IsNext(n, j) /\ recon[n].snap[j].version < store[j].version]_vars
  BY StepExpiresOverdue DEF VersionInv
<1>4. QED
  BY <1>1, <1>2, <1>3, TypeCorrect, PTL DEF Spec, OnlyOldSnapshotExpires

-----------------------------------------------------------------------------
(* What a run completes                                                    *)

(* While no two upserts share a tick, the end of a run completes only the   *)
(* schedule the run was delivered for.                                      *)
THEOREM NoStaleCompletionHolds ==
  ASSUME UniqueStamps
  PROVE  Spec => NoStaleCompletion
<1>1. Init => VersionInv
  BY InitVersions
<1>2. TypeOK /\ TypeOK' /\ VersionInv /\ [Next]_vars => VersionInv'
  BY StepKeepsVersionInv
<1>3. TypeOK /\ VersionInv /\ [Next]_vars =>
        [\A s \in Slots : CompleteRun(s) /\ store' # store =>
           slot[s].payload = store[slot[s].job].payload]_vars
  <2> SUFFICES ASSUME TypeOK, VersionInv, NEW s \in Slots, CompleteRun(s), store' # store
               PROVE  slot[s].payload = store[slot[s].job].payload
    OBVIOUS
  <2>1. store[slot[s].job].version = slot[s].version
    BY DEF CompleteRun, StoreFinish, MarkFinished, TypeOK, Slot
  <2>2. QED
    BY <2>1 DEF VersionInv, SlotsSound, CompleteRun
<1>4. QED
  BY <1>1, <1>2, <1>3, TypeCorrect, PTL DEF Spec, NoStaleCompletion
=============================================================================
