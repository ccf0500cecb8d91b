------------------------ MODULE SchedulerRefinementProofs ------------------------
(***************************************************************************)
(* LazyScheduler implements DurableSchedule, for every number of job ids,  *)
(* calls, nodes and slots, whatever crashes, fails or stalls, as long as   *)
(* no two upserts share a tick of the clock.                               *)
(***************************************************************************)
EXTENDS LazySchedulerProofs

-----------------------------------------------------------------------------
(* The mapping, one document and one slot at a time.                        *)

Mapped(r) == [id |-> r.version, payload |-> r.payload, runAt |-> r.runAt,
              attempts |-> r.attempts, made |-> r.attemptsMade,
              phase |-> IF r.status = "absent" THEN "none"
                        ELSE IF NotTerminal(r) THEN "open" ELSE r.status]

Busy(d) == IF d.pc \in {"run", "caught"}
             THEN [job |-> d.job, id |-> d.version, payload |-> d.payload] ELSE NoRun

\* The mapping maps documents and slots one by one.
LEMMA MappingIsPointwise ==
  /\ sched = [j \in JobIds |-> Mapped(store[j])]
  /\ runs = [s \in Slots |-> Busy(slot[s])]
  /\ sched' = [j \in JobIds |-> Mapped(store'[j])]
  /\ runs' = [s \in Slots |-> Busy(slot'[s])]
BY DEF sched, runs, Mapped, Busy

\* A step on one document is a step on one schedule.
LEMMA OneSchedule ==
  ASSUME TypeOK, NEW j \in JobIds, NEW r2, store' = [store EXCEPT ![j] = r2]
  PROVE  sched' = [sched EXCEPT ![j] = Mapped(r2)]
<1>1. \A i \in JobIds : store'[i] = IF i = j THEN r2 ELSE store[i]
  BY DEF TypeOK
<1>2. QED
  BY <1>1, MappingIsPointwise

\* A step of one slot is a step of one worker.
LEMMA OneRun ==
  ASSUME TypeOK, NEW s \in Slots, NEW d2, slot' = [slot EXCEPT ![s] = d2]
  PROVE  runs' = [runs EXCEPT ![s] = Busy(d2)]
<1>1. \A i \in Slots : slot'[i] = IF i = s THEN d2 ELSE slot[i]
  BY DEF TypeOK
<1>2. QED
  BY <1>1, MappingIsPointwise

\* An update that changes nothing the mapping shows changes no schedule.
LEMMA SameSched ==
  ASSUME TypeOK, NEW j \in JobIds, NEW r2, store' = [store EXCEPT ![j] = r2],
         Mapped(r2) = Mapped(store[j])
  PROVE  UNCHANGED sched
BY OneSchedule, MappingIsPointwise

\* Without a step of a slot that begins or ends a run, the runs are the same.
LEMMA SameRuns ==
  ASSUME TypeOK, NEW s \in Slots, NEW d2, slot' = [slot EXCEPT ![s] = d2],
         Busy(d2) = Busy(slot[s])
  PROVE  UNCHANGED runs
BY OneRun, MappingIsPointwise

-----------------------------------------------------------------------------
(* The store's transitions, as the mapping shows them.                      *)

\* To mark a document queued is no step.
LEMMA QueuedShows ==
  ASSUME NEW r \in Doc, NEW v
  PROVE  Mapped(MarkQueued(r, v)) = Mapped(r)
BY DEF Mapped, MarkQueued, NotTerminal, TERMINAL_STATUSES, Doc, SchedulerJobRecord

\* To close a document withdraws an open schedule.
LEMMA ClosedShows ==
  ASSUME NEW r \in Doc, NEW st \in {"cancelled", "expired"}
  PROVE  \/ Mapped(MarkClosed(r, st)) = Mapped(r)
         \/ Mapped(r).phase = "open" /\ Mapped(MarkClosed(r, st)) = [Mapped(r) EXCEPT !.phase = st]
BY DEF Mapped, MarkClosed, NotTerminal, TERMINAL_STATUSES, Doc, SchedulerJobRecord

\* To mark it running uses up an attempt.
LEMMA RunningShows ==
  ASSUME NEW r \in Doc, NEW v, NEW t
  PROVE  /\ CanMarkRunning(r, v) =>
              /\ r.version = v /\ Mapped(r).phase = "open" /\ Mapped(r).made < Mapped(r).attempts
              /\ Mapped(MarkRunning(r, v, t)) = [Mapped(r) EXCEPT !.made = @ + 1]
         /\ ~CanMarkRunning(r, v) => MarkRunning(r, v, t) = r
BY DEF Mapped, MarkRunning, CanMarkRunning, NotTerminal, TERMINAL_STATUSES, ACTIVE_STATUSES, Doc,
       SchedulerJobRecord

\* To finish it settles the schedule, unless it is to be retried.
LEMMA FinishedShows ==
  ASSUME NEW r \in Doc, NEW v, NEW st \in {"completed", "failed", "dead_letter", "failed_retryable"}
  PROVE  \/ Mapped(MarkFinished(r, v, st)) = Mapped(r)
         \/ /\ st # "failed_retryable" /\ r.version = v /\ Mapped(r).phase = "open"
            /\ Mapped(MarkFinished(r, v, st)) = [Mapped(r) EXCEPT !.phase = st]
<1>1. CASE ~(r.version = v /\ r.status = "running")
  BY <1>1 DEF MarkFinished
<1>2. CASE r.version = v /\ r.status = "running"
  BY <1>2 DEF Mapped, MarkFinished, NotTerminal, TERMINAL_STATUSES, Doc, SchedulerJobRecord
<1>3. QED
  BY <1>1, <1>2

-----------------------------------------------------------------------------
(* A delivery of the current version is not early                          *)

\* Slot s got its job when the schedule of that version was due.
Due(s) ==
  LET d == slot[s] IN
  d.pc # "idle" =>
    \E runAt \in Times, attempts \in Nat :
      runAt <= now /\ Sound(d.job, d.version, d.payload, runAt, attempts)

DeliveriesDue == \A s \in Slots : Due(s)

\* The clock does not go back.
LEMMA ClockAdvances == TypeOK /\ Next => now' >= now
<1> SUFFICES ASSUME TypeOK, Next PROVE now' >= now
  OBVIOUS
<1>1. now \in Nat
  BY TimesFacts DEF TypeOK
<1>2. UNCHANGED now \/ now' = now + 1
  <2>1. CASE \E c \in Calls : BeginSchedule(c) \/ BeginCancel(c) \/ CallStep(c) \/ CallError(c)
                              \/ CallSwallows(c)
    BY <2>1 DEF BeginSchedule, BeginCancel, CallStep, CallError, CallSwallows, CallRemove,
                CallUpsert, CallEnqueue, CallMarkQueued, CallMarkCancelled
  <2>2. CASE \E s \in Slots : Deliver(s) \/ SlotStep(s) \/ ClaimError(s) \/ CompleteError(s)
                                \/ FailError(s) \/ LoseLock(s)
    BY <2>2
    DEF Deliver, SlotStep, RejectUnknown, StartRun, SkipStale, CompleteRun, ThrowRun,
        RecordFailure, Settle, ClaimError, CompleteError, FailError, LoseLock, SlotTo
  <2>3. CASE \E n \in Nodes : Boot(n) \/ ReconStep(n) \/ ReconcileError(n) \/ ReconSwallows(n)
                              \/ AcquireError(n) \/ Crash(n)
    BY <2>3
    DEF Boot, ReconStep, ReconcileError, ReconSwallows, AcquireError, Crash, AcquireLock,
        SkipReconcile, FindCandidates, ExpireCandidate, VisitCandidate, ReconEnqueue,
        ReconMarkQueued, EndLoop, ReleaseLock, AbortBootstrap
  <2>4. CASE BullLockExpires \/ StalledCheck \/ Evict \/ LockExpire \/ Tick \/ AllQuiet
    BY <2>4 DEF BullLockExpires, StalledCheck, Evict, LockExpire, Tick, AllQuiet, vars
  <2>5. QED
    BY <2>1, <2>2, <2>3, <2>4 DEF Next
<1>3. QED
  BY <1>1, <1>2

\* What a slot does after a delivery, it does with the same job.
SlotKept(s) ==
  slot'[s].pc # "idle" =>
    /\ slot[s].pc # "idle" /\ slot'[s].job = slot[s].job
    /\ slot'[s].version = slot[s].version /\ slot'[s].payload = slot[s].payload

\* Steps other than a delivery keep what the slots work on.
LEMMA SlotsAreKept ==
  ASSUME TypeOK, Next
  PROVE  (\A s \in Slots : SlotKept(s)) \/ (\E s \in Slots : Deliver(s))
<1>0. \A s \in Slots : slot[s] \in Slot
  BY DEF TypeOK
<1>1. ASSUME UNCHANGED slot PROVE \A s \in Slots : SlotKept(s)
  BY <1>1 DEF SlotKept
<1>2. ASSUME NEW s \in Slots, NEW pc, SlotTo(s, pc), slot[s].pc # "idle"
      PROVE  \A i \in Slots : SlotKept(i)
  BY <1>0, <1>2 DEF SlotTo, Slot, TypeOK, SlotKept
<1>3. ASSUME NEW s \in Slots, Settle(s) PROVE \A i \in Slots : SlotKept(i)
  BY <1>3 DEF Settle, IdleSlot, TypeOK, SlotKept
<1>4. ASSUME NEW n \in Nodes, ProcessExit(n) PROVE \A i \in Slots : SlotKept(i)
  BY <1>4 DEF ProcessExit, IdleSlot, TypeOK, SlotKept
<1>5. QED
  <2>1. CASE \E c \in Calls : BeginSchedule(c) \/ BeginCancel(c) \/ CallStep(c) \/ CallError(c)
                              \/ CallSwallows(c)
    BY <1>1, <2>1 DEF BeginSchedule, BeginCancel, CallStep, CallError, CallSwallows, CallRemove,
                      CallUpsert, CallEnqueue, CallMarkQueued, CallMarkCancelled
  <2>2. CASE \E s \in Slots : Deliver(s) \/ SlotStep(s) \/ ClaimError(s) \/ CompleteError(s)
                                \/ FailError(s) \/ LoseLock(s)
    BY <1>1, <1>2, <1>3, <2>2
    DEF SlotStep, RejectUnknown, StartRun, SkipStale, Claim, CompleteRun, ThrowRun,
        RecordFailure, ClaimError, CompleteError, FailError, LoseLock
  <2>3. CASE \E n \in Nodes : Boot(n) \/ ReconStep(n) \/ ReconcileError(n) \/ ReconSwallows(n)
                              \/ AcquireError(n) \/ Crash(n)
    BY <1>1, <1>4, <2>3
    DEF Boot, ReconStep, ReconcileError, ReconSwallows, AcquireError, Crash, AcquireLock,
        SkipReconcile, FindCandidates, ExpireCandidate, VisitCandidate, ReconEnqueue,
        ReconMarkQueued, EndLoop, ReleaseLock, AbortBootstrap
  <2>4. CASE BullLockExpires \/ StalledCheck \/ Evict \/ LockExpire \/ Tick \/ AllQuiet
    BY <1>1, <2>4 DEF BullLockExpires, StalledCheck, Evict, LockExpire, Tick, AllQuiet, vars
  <2>5. QED
    BY <2>1, <2>2, <2>3, <2>4 DEF Next

\* Every step keeps the deliveries due.
LEMMA StepKeepsDue ==
  ASSUME TypeOK, TypeOK', SoundKept, BullSound, DeliveriesDue, Next
  PROVE  DeliveriesDue'
<1>0. now \in Nat /\ now' \in Nat /\ now' >= now /\ Times \subseteq Nat
  BY ClockAdvances, TimesFacts DEF TypeOK
<1>1. ASSUME NEW s \in Slots, SlotKept(s) PROVE Due(s)'
  <2> SUFFICES ASSUME slot'[s].pc # "idle"
               PROVE  Due(s)'
    BY DEF Due
  <2>1. PICK runAt \in Times, attempts \in Nat :
          runAt <= now /\ Sound(slot[s].job, slot[s].version, slot[s].payload, runAt, attempts)
    BY <1>1 DEF SlotKept, DeliveriesDue, Due
  <2>2. PICK j \in JobIds, v \in Times, payload \in Calls \cup {NoData} :
          j = slot[s].job /\ v = slot[s].version /\ payload = slot[s].payload
    BY DEF TypeOK, Slot
  <2>3. Sound(j, v, payload, runAt, attempts)'
    BY <2>1, <2>2 DEF SoundKept
  <2>4. j = slot'[s].job /\ v = slot'[s].version /\ payload = slot'[s].payload
    BY <1>1, <2>2 DEF SlotKept
  <2>5. runAt <= now'
    BY <1>0, <2>1
  <2>6. QED
    BY <2>3, <2>4, <2>5 DEF Due, Sound
<1>2. ASSUME NEW s \in Slots, Deliver(s) PROVE \A i \in Slots : Due(i)'
  <2>1. PICK j \in JobIds, v \in Times :
          /\ bull[j][v].state = "waiting" /\ bull[j][v].runAt <= now
          /\ slot' = [slot EXCEPT ![s] =
                        [pc |-> "claim", job |-> j, version |-> v, payload |-> bull[j][v].payload,
                         retryable |-> CanRetry(bull[j][v])]]
          /\ UNCHANGED <<store, now>>
    BY <1>2 DEF Deliver, Deliverable
  <2>2. /\ bull[j][v].runAt \in Times /\ bull[j][v].attempts \in Nat
        /\ Sound(j, v, bull[j][v].payload, bull[j][v].runAt, bull[j][v].attempts)
    BY <2>1 DEF BullSound, TypeOK, BullJob
  <2>3. Due(s)'
    BY <2>1, <2>2 DEF Due, Sound, TypeOK
  <2>4. \A i \in Slots : i # s => SlotKept(i)
    BY <2>1 DEF SlotKept, TypeOK
  <2>5. QED
    BY <1>1, <2>3, <2>4
<1>3. QED
  BY <1>1, <1>2, SlotsAreKept DEF DeliveriesDue

-----------------------------------------------------------------------------
(* Every step is a step of DurableSchedule, or a stutter                   *)

Stutters == UNCHANGED <<now, sched, runs>>
Promised == Durable!Next \/ Stutters

\* A step that leaves clock, documents and slots alone is a stutter.
LEMMA OutsideStutters ==
  ASSUME UNCHANGED <<now, store, slot>>
  PROVE  Stutters
BY MappingIsPointwise DEF Stutters

\* An upsert is a new schedule.
LEMMA UpsertSchedules ==
  ASSUME UniqueStamps, TypeOK, StoreSound, NEW c \in Calls, CallUpsert(c)
  PROVE  Promised
<1> DEFINE k == call[c]
           j == k.req.job
           r2 == UpsertScheduledJob(store[j], now, c, k.req)
<1>1. j \in JobIds /\ store[j] \in Doc /\ now \in Nat /\ k.req \in Request
  BY TimesFacts, TopologyAssumption DEF TypeOK, Call, Request, Doc
<1>2. store' = [store EXCEPT ![j] = r2] /\ now' = now + 1 /\ UNCHANGED slot
  BY DEF CallUpsert
<1>3. r2.version = now /\ r2.attemptsMade = 0 /\ r2.status = "pending"
  BY <1>1 DEF UpsertScheduledJob, Doc, SchedulerJobRecord
<1>4. Mapped(r2).id = now /\ Mapped(r2).made = 0 /\ Mapped(r2).phase = "open"
  BY <1>3 DEF Mapped, NotTerminal, TERMINAL_STATUSES
<1> HIDE DEF r2
<1>5. sched' = [sched EXCEPT ![j] = Mapped(r2)] /\ UNCHANGED runs
  BY <1>1, <1>2, OneSchedule, MappingIsPointwise
<1>6. sched'[j] = Mapped(r2) /\ sched[j].id < now
  BY <1>1, <1>5, MappingIsPointwise DEF StoreSound, Mapped
<1>7. Mapped(r2).id > sched[j].id /\ now' >= now
  <2>1. sched[j].id \in Nat
    BY <1>1, MappingIsPointwise, TimesFacts DEF Mapped, Doc, SchedulerJobRecord
  <2>2. QED
    BY <1>1, <1>2, <1>4, <1>6, <2>1
<1>8. Durable!Schedule(j)
  BY <1>4, <1>5, <1>6, <1>7 DEF Durable!Schedule
<1>9. QED
  BY <1>1, <1>8 DEF Promised, Durable!Next

\* To mark a document queued, cancelled or expired withdraws a schedule or shows nothing.
LEMMA MarkingWithdraws ==
  ASSUME TypeOK, NEW j \in JobIds, NEW v, NEW st \in {"cancelled", "expired"},
         UNCHANGED <<now, slot>>,
         \/ store' = [store EXCEPT ![j] = MarkQueued(store[j], v)]
         \/ store' = [store EXCEPT ![j] = MarkClosed(store[j], st)]
  PROVE  Promised
<1>1. store[j] \in Doc /\ UNCHANGED <<now, runs>>
  BY MappingIsPointwise DEF TypeOK, Doc
<1>2. CASE store' = [store EXCEPT ![j] = MarkQueued(store[j], v)]
  BY <1>1, <1>2, QueuedShows, SameSched DEF Promised, Stutters
<1>3. CASE store' = [store EXCEPT ![j] = MarkClosed(store[j], st)]
  <2> DEFINE r2 == MarkClosed(store[j], st)
  <2>1. sched' = [sched EXCEPT ![j] = Mapped(r2)] /\ sched[j] = Mapped(store[j])
    BY <1>3, OneSchedule, MappingIsPointwise
  <2>2. CASE Mapped(r2) = Mapped(store[j])
    BY <1>1, <1>3, <2>2, SameSched DEF Promised, Stutters
  <2>3. CASE Mapped(store[j]).phase = "open" /\ Mapped(r2) = [Mapped(store[j]) EXCEPT !.phase = st]
    <3> HIDE DEF r2
    <3>1. sched' = [sched EXCEPT ![j].phase = st] /\ sched[j].phase = "open"
      BY <2>1, <2>3
    <3>2. Durable!Withdraw(j)
      BY <1>1, <3>1 DEF Durable!Withdraw, Durable!Withdrawals
    <3>3. QED
      BY <3>2 DEF Promised, Durable!Next
  <2>4. QED
    BY <1>1, <2>2, <2>3, ClosedShows
<1>4. QED
  BY <1>2, <1>3

\* Runs of the current version are the ones DurableSchedule expects.
LEMMA RunsAreCurrent ==
  ASSUME TypeOK, SlotsSound, NEW s \in Slots, slot[s].pc \in {"run", "caught"},
         slot[s].version = store[slot[s].job].version
  PROVE  runs[s] = Durable!RunOf(slot[s].job)
<1>1. slot[s].job \in JobIds /\ slot[s].payload = store[slot[s].job].payload
  BY DEF TypeOK, Slot, SlotsSound
<1>2. QED
  BY <1>1, MappingIsPointwise DEF Busy, Mapped, Durable!RunOf

\* markRunning begins a run, or uses up an attempt that the worker does not learn of.
LEMMA ClaimStarts ==
  ASSUME TypeOK, SlotsSound, DeliveriesDue, NEW s \in Slots, Claim(s), NEW pc \in {"run", "nack"},
         StoreClaim(s), SlotTo(s, pc), pc = "run" => CanMarkRunning(store[slot[s].job], slot[s].version)
  PROVE  Promised
<1> DEFINE d == slot[s]
           j == d.job
           r == store[j]
           r2 == MarkRunning(r, d.version, now)
           d2 == [d EXCEPT !.pc = pc]
<1>1. /\ j \in JobIds /\ r \in Doc /\ d \in Slot /\ d.pc = "claim" /\ now' = now
      /\ sched[j] = Mapped(r)
  BY MappingIsPointwise DEF TypeOK, Slot, Doc, Claim, SlotTo
<1>2. runs' = [runs EXCEPT ![s] = Busy(d2)] /\ runs[s] = NoRun
  BY <1>1, OneRun, MappingIsPointwise DEF SlotTo, Busy
<1>3. Busy(d2) = IF pc = "run" THEN [job |-> j, id |-> d.version, payload |-> d.payload] ELSE NoRun
  BY <1>1 DEF Busy, Slot
<1>4. CASE CanMarkRunning(r, d.version)
  <2>1. /\ r.version = d.version /\ Mapped(r).phase = "open" /\ Mapped(r).made < Mapped(r).attempts
        /\ Mapped(r2) = [Mapped(r) EXCEPT !.made = @ + 1]
    <3> HIDE DEF d, r
    <3>1. QED
      BY <1>1, <1>4, RunningShows
  <2>2. r.runAt <= now /\ r.payload = d.payload
    BY <1>1, <2>1 DEF DeliveriesDue, Due, Sound, SameSchedule, SlotsSound
  <2>3. sched' = [sched EXCEPT ![j] = Mapped(r2)]
    BY <1>1, OneSchedule DEF StoreClaim
  <2> HIDE DEF r2
  <2>4. sched' = [sched EXCEPT ![j].made = @ + 1]
    BY <1>1, <2>1, <2>3
  <2>5. sched[j].runAt <= now
    BY <1>1, <2>2 DEF Mapped
  <2>6. Durable!SpendAttempt(j)
    BY <1>1, <2>1, <2>4, <2>5 DEF Durable!SpendAttempt
  <2>7. CASE pc = "run"
    <3>1. Busy(d2) = Durable!RunOf(j)
      BY <1>1, <1>3, <2>1, <2>2, <2>7 DEF Durable!RunOf, Mapped
    <3>2. Durable!StartRun(s, j)
      BY <1>2, <2>6, <3>1 DEF Durable!StartRun
    <3>3. QED
      BY <1>1, <3>2 DEF Promised, Durable!Next
  <2>8. CASE pc = "nack"
    <3>1. UNCHANGED runs
      BY <1>2, <1>3, <2>8, MappingIsPointwise
    <3>2. Durable!LoseAttempt(j)
      BY <2>6, <3>1 DEF Durable!LoseAttempt
    <3>3. QED
      BY <1>1, <3>2 DEF Promised, Durable!Next
  <2>9. QED
    BY <2>7, <2>8
<1>5. CASE ~CanMarkRunning(r, d.version)
  <2>1. UNCHANGED <<sched, runs>>
    BY <1>1, <1>2, <1>3, <1>5, RunningShows, SameSched, MappingIsPointwise DEF StoreClaim
  <2>2. QED
    BY <1>1, <2>1 DEF Promised, Stutters
<1>6. QED
  BY <1>4, <1>5

\* Runs may end at any time.
LEMMA RunsEnd ==
  ASSUME UNCHANGED <<now, sched>>, NEW ended \in SUBSET Slots,
         runs' = [w \in Slots |-> IF w \in ended THEN NoRun ELSE runs[w]]
  PROVE  Promised
BY DEF Promised, Durable!Next, Durable!EndRuns

\* The status update after a run settles the schedule or only ends the run.
LEMMA FinishSettles ==
  ASSUME TypeOK, SlotsSound, NEW s \in Slots, slot[s].pc \in {"run", "caught"},
         NEW pc \in {"ack", "nack", "caught"}, SlotTo(s, pc),
         NEW st \in {"completed", "failed", "dead_letter", "failed_retryable"},
         StoreFinish(s, st) \/ UNCHANGED store
  PROVE  Promised
<1> DEFINE d == slot[s]
           j == d.job
           r == store[j]
           r2 == MarkFinished(r, d.version, st)
           d2 == [d EXCEPT !.pc = pc]
<1>1. /\ j \in JobIds /\ r \in Doc /\ d \in Slot /\ now' = now /\ sched[j] = Mapped(r)
  BY MappingIsPointwise DEF TypeOK, Slot, Doc, SlotTo
<1>2. runs' = [runs EXCEPT ![s] = Busy(d2)] /\ runs[s] = Busy(d)
  BY <1>1, OneRun, MappingIsPointwise DEF SlotTo
<1>3. Busy(d2) = NoRun \/ Busy(d2) = Busy(d)
  BY <1>1 DEF Busy, Slot
<1>4. runs' \in {runs, [runs EXCEPT ![s] = NoRun]}
  BY <1>2, <1>3, MappingIsPointwise
<1>5. CASE UNCHANGED sched
  <2>1. CASE UNCHANGED runs
    BY <1>1, <1>5, <2>1 DEF Promised, Stutters
  <2>2. CASE runs' = [runs EXCEPT ![s] = NoRun]
    <3>1. runs' = [w \in Slots |-> IF w \in {s} THEN NoRun ELSE runs[w]]
      BY <2>2, MappingIsPointwise
    <3>2. QED
      BY <1>1, <1>5, <3>1, RunsEnd
  <2>3. QED
    BY <1>4, <2>1, <2>2
<1>6. CASE UNCHANGED store
  BY <1>5, <1>6, MappingIsPointwise
<1>7. CASE StoreFinish(s, st)
  <2>1. CASE Mapped(r2) = Mapped(r)
    BY <1>1, <1>5, <1>7, <2>1, SameSched DEF StoreFinish
  <2>2. CASE /\ st # "failed_retryable" /\ r.version = d.version /\ Mapped(r).phase = "open"
             /\ Mapped(r2) = [Mapped(r) EXCEPT !.phase = st]
    <3>1. sched' = [sched EXCEPT ![j] = Mapped(r2)]
      BY <1>1, <1>7, OneSchedule DEF StoreFinish
    <3>2. runs[s] = Durable!RunOf(j)
      BY <2>2, RunsAreCurrent
    <3> HIDE DEF r2, r, j
    <3>3. sched' = [sched EXCEPT ![j].phase = st] /\ sched[j].phase = "open"
      BY <1>1, <2>2, <3>1
    <3>4. Durable!SettleRun(s, j)
      BY <1>1, <1>4, <2>2, <3>2, <3>3 DEF Durable!SettleRun, Durable!Outcomes
    <3>5. QED
      BY <1>1, <3>4 DEF Promised, Durable!Next
  <2>3. Mapped(r2) = Mapped(r)
          \/ /\ st # "failed_retryable" /\ r.version = d.version /\ Mapped(r).phase = "open"
             /\ Mapped(r2) = [Mapped(r) EXCEPT !.phase = st]
    <3> HIDE DEF d, r
    <3>1. QED
      BY <1>1, FinishedShows
  <2>4. QED
    BY <2>1, <2>2, <2>3
<1>8. QED
  BY <1>6, <1>7

\* A slot that moves outside of a run shows nothing.
LEMMA MovesStutter ==
  ASSUME TypeOK, NEW s \in Slots, NEW d2, slot' = [slot EXCEPT ![s] = d2], UNCHANGED <<now, store>>,
         Busy(d2) = Busy(slot[s])
  PROVE  Promised
BY SameRuns, MappingIsPointwise DEF Promised, Stutters

\* A process that is gone ends its runs.
LEMMA ExitEndsRuns ==
  ASSUME TypeOK, NEW n \in Nodes, ProcessExit(n), UNCHANGED <<now, store>>
  PROVE  Promised
<1>1. \A s \in Slots : slot'[s] = IF Home[s] = n THEN IdleSlot ELSE slot[s]
  BY DEF ProcessExit
<1>2. Busy(IdleSlot) = NoRun
  BY DEF Busy, IdleSlot
<1>3. runs' = [w \in Slots |-> IF w \in {s \in Slots : Home[s] = n} THEN NoRun ELSE runs[w]]
  BY <1>1, <1>2, MappingIsPointwise
<1>4. UNCHANGED sched
  BY MappingIsPointwise
<1>5. QED
  BY <1>3, <1>4, RunsEnd

\* The steps of schedule() and cancel().
LEMMA CallsKeepPromise ==
  ASSUME UniqueStamps, TypeOK, StoreSound, NEW c \in Calls,
         BeginSchedule(c) \/ BeginCancel(c) \/ CallStep(c) \/ CallError(c) \/ CallSwallows(c)
  PROVE  Promised
<1>0. call[c].req.job \in JobIds
  BY TopologyAssumption DEF TypeOK, Call, Request
<1>1. CASE BeginSchedule(c) \/ BeginCancel(c) \/ CallRemove(c) \/ CallEnqueue(c) \/ CallError(c)
           \/ CallSwallows(c)
  BY <1>1, OutsideStutters
  DEF BeginSchedule, BeginCancel, CallRemove, CallEnqueue, CallError, CallSwallows, Promised
<1>2. CASE CallUpsert(c)
  BY <1>2, UpsertSchedules
<1>3. CASE CallMarkQueued(c)
  BY <1>0, <1>3, MarkingWithdraws DEF CallMarkQueued
<1>4. CASE CallMarkCancelled(c)
  BY <1>0, <1>4, MarkingWithdraws DEF CallMarkCancelled
<1>5. QED
  BY <1>1, <1>2, <1>3, <1>4 DEF CallStep

\* The steps of the worker.
LEMMA SlotsKeepPromise ==
  ASSUME TypeOK, SlotsSound, DeliveriesDue, NEW s \in Slots,
         Deliver(s) \/ SlotStep(s) \/ ClaimError(s) \/ CompleteError(s) \/ FailError(s)
           \/ LoseLock(s)
  PROVE  Promised
<1>0. slot[s] \in Slot
  BY DEF TypeOK
<1>1. CASE Deliver(s)
  <2>1. PICK j \in JobIds, v \in Times :
          slot' = [slot EXCEPT ![s] =
                     [pc |-> "claim", job |-> j, version |-> v, payload |-> bull[j][v].payload,
                      retryable |-> CanRetry(bull[j][v])]]
    BY <1>1 DEF Deliver
  <2> DEFINE d2 == [pc |-> "claim", job |-> j, version |-> v, payload |-> bull[j][v].payload,
                    retryable |-> CanRetry(bull[j][v])]
  <2>2. Busy(d2) = Busy(slot[s]) /\ UNCHANGED <<now, store>>
    BY <1>1 DEF Deliver, Busy
  <2>3. QED
    BY <2>1, <2>2, MovesStutter
<1>2. CASE RejectUnknown(s) \/ SkipStale(s) \/ ThrowRun(s)
  <2>1. PICK pc : /\ SlotTo(s, pc) /\ UNCHANGED store
                  /\ \/ pc \in {"nack", "ack"} /\ slot[s].pc = "claim"
                     \/ pc = "caught" /\ slot[s].pc = "run"
    BY <1>2 DEF RejectUnknown, SkipStale, ThrowRun, Claim
  <2>2. Busy([slot[s] EXCEPT !.pc = pc]) = Busy(slot[s])
    BY <1>0, <2>1 DEF Busy, Slot
  <2>3. QED
    BY <2>1, <2>2, MovesStutter DEF SlotTo
<1>3. CASE Settle(s)
  BY <1>3, MovesStutter DEF Settle, Busy, IdleSlot
<1>4. CASE StartRun(s)
  BY <1>4, ClaimStarts DEF StartRun
<1>5. CASE ClaimError(s)
  <2>1. CASE StoreClaim(s)
    BY <1>5, <2>1, ClaimStarts DEF ClaimError
  <2>2. CASE UNCHANGED store
    <3>1. Busy([slot[s] EXCEPT !.pc = "nack"]) = Busy(slot[s])
      BY <1>0, <1>5 DEF Busy, Slot, ClaimError, Claim
    <3>2. QED
      BY <1>5, <2>2, <3>1, MovesStutter DEF ClaimError, SlotTo
  <2>3. QED
    BY <1>5, <2>1, <2>2 DEF ClaimError
<1>6. CASE CompleteRun(s) \/ CompleteError(s)
  BY <1>6, FinishSettles DEF CompleteRun, CompleteError
<1>7. CASE RecordFailure(s) \/ FailError(s)
  <2>1. FailureStatus(s) \in {"completed", "failed", "dead_letter", "failed_retryable"}
    BY DEF FailureStatus
  <2>2. QED
    BY <1>7, <2>1, FinishSettles DEF RecordFailure, FailError
<1>8. CASE LoseLock(s)
  BY <1>8, OutsideStutters DEF LoseLock, Promised
<1>9. QED
  BY <1>1, <1>2, <1>3, <1>4, <1>5, <1>6, <1>7, <1>8 DEF SlotStep

\* The steps of processes and their reconciliation.
LEMMA NodesKeepPromise ==
  ASSUME TypeOK, NEW n \in Nodes,
         Boot(n) \/ ReconStep(n) \/ ReconcileError(n) \/ ReconSwallows(n)
         \/ AcquireError(n) \/ Crash(n)
  PROVE  Promised
<1>1. CASE AbortBootstrap(n) \/ AcquireError(n) \/ Crash(n)
  BY <1>1, ExitEndsRuns DEF AbortBootstrap, AcquireError, Crash
<1>2. CASE ExpireCandidate(n)
  BY <1>2, MarkingWithdraws DEF ExpireCandidate
<1>3. CASE ReconMarkQueued(n)
  <2>1. recon[n].job \in JobIds
    BY DEF TypeOK, Recon
  <2>2. QED
    BY <1>3, <2>1, MarkingWithdraws DEF ReconMarkQueued
<1>4. CASE \/ Boot(n) \/ AcquireLock(n) \/ SkipReconcile(n) \/ FindCandidates(n) \/ VisitCandidate(n)
           \/ ReconEnqueue(n) \/ EndLoop(n) \/ ReleaseLock(n) \/ ReconcileError(n)
           \/ ReconSwallows(n)
  BY <1>4, OutsideStutters
  DEF Boot, AcquireLock, SkipReconcile, FindCandidates, VisitCandidate, ReconEnqueue, EndLoop,
      ReleaseLock, ReconcileError, ReconSwallows, ReconTo, Promised
<1>5. QED
  BY <1>1, <1>2, <1>3, <1>4 DEF ReconStep

\* Every step.
LEMMA StepKeepsPromise ==
  ASSUME UniqueStamps, TypeOK, VersionInv, DeliveriesDue, [Next]_vars
  PROVE  Promised
<1>1. ASSUME NEW c \in Calls, BeginSchedule(c) \/ BeginCancel(c) \/ CallStep(c) \/ CallError(c)
                              \/ CallSwallows(c)
      PROVE  Promised
  BY <1>1, CallsKeepPromise DEF VersionInv
<1>2. ASSUME NEW s \in Slots, Deliver(s) \/ SlotStep(s) \/ ClaimError(s) \/ CompleteError(s)
                                \/ FailError(s) \/ LoseLock(s)
      PROVE  Promised
  BY <1>2, SlotsKeepPromise DEF VersionInv
<1>3. ASSUME NEW n \in Nodes, Boot(n) \/ ReconStep(n) \/ ReconcileError(n) \/ ReconSwallows(n)
                              \/ AcquireError(n) \/ Crash(n)
      PROVE  Promised
  BY <1>3, NodesKeepPromise
<1>4. CASE BullLockExpires \/ StalledCheck \/ Evict \/ LockExpire \/ AllQuiet \/ UNCHANGED vars
  BY <1>4, OutsideStutters
  DEF BullLockExpires, StalledCheck, Evict, LockExpire, AllQuiet, vars, Promised
<1>5. CASE Tick
  <2>1. now' > now /\ UNCHANGED <<sched, runs>>
    BY <1>5, TimesFacts, MappingIsPointwise DEF Tick, TypeOK
  <2>2. QED
    BY <2>1 DEF Promised, Durable!Next, Durable!Tick
<1>6. QED
  BY <1>1, <1>2, <1>3, <1>4, <1>5 DEF Next

(* As long as no two upserts share a tick, whatever the scheduler, its      *)
(* workers and its reconciliation do, crash in, or fail in, is what         *)
(* DurableSchedule allows: a schedule is open until its own run settles it, *)
(* it is withdrawn or replaced, and it is not run early, too often or with  *)
(* the payload of another.                                                  *)
THEOREM SchedulerImplementsDurable ==
  ASSUME UniqueStamps
  PROVE  Spec => ImplementsDurableSchedule
<1>1. Init => Durable!Init
  <2>1. SUFFICES ASSUME Init PROVE Durable!Init
    OBVIOUS
  <2>2. now \in Nat /\ (\A j \in JobIds : store[j] = NoJob) /\ (\A s \in Slots : slot[s] = IdleSlot)
    BY <2>1 DEF Init
  <2>3. Mapped(NoJob).id = 0 /\ Mapped(NoJob).phase = "none" /\ Busy(IdleSlot) = NoRun
    BY DEF Mapped, Busy, NoJob, IdleSlot
  <2>4. QED
    BY <2>2, <2>3, MappingIsPointwise DEF Durable!Init
<1>2. Init => VersionInv /\ DeliveriesDue
  BY InitVersions DEF Init, DeliveriesDue, Due, IdleSlot
<1>3. /\ TypeOK /\ TypeOK' /\ VersionInv /\ DeliveriesDue /\ [Next]_vars
      => VersionInv' /\ DeliveriesDue'
  <2>1. SUFFICES ASSUME TypeOK, TypeOK', VersionInv, DeliveriesDue, [Next]_vars
                 PROVE  VersionInv' /\ DeliveriesDue'
    OBVIOUS
  <2>2. CASE Next
    BY <2>1, <2>2, StepKeepsVersionInv, StepKeepsSound, StepKeepsDue DEF VersionInv
  <2>3. CASE UNCHANGED vars
    BY <2>1, <2>3, StepKeepsVersionInv DEF vars, DeliveriesDue, Due, Sound
  <2>4. QED
    BY <2>1, <2>2, <2>3
<1>4. TypeOK /\ VersionInv /\ DeliveriesDue /\ [Next]_vars => [Durable!Next]_(Durable!vars)
  BY StepKeepsPromise DEF Promised, Stutters, Durable!vars
<1>5. QED
  BY <1>1, <1>2, <1>3, <1>4, TypeCorrect, PTL DEF Spec, ImplementsDurableSchedule, Durable!Spec
=============================================================================
