# Verification of egl-scheduler-server

The repository is a job-scheduling service in two layers:

* `package/src`: **bullmq-lazy-scheduler**, a library that keeps one Mongo
  document per logical job id (the truth) and one BullMQ job per version of it
  (the timer), and reconciles the two at startup;
* `src`: the **server** built on it: an HTTP API, four job handlers, the
  automation of stage and tournament statuses, cache invalidation and recurring jobs.

`package/dist` is the compiled form of `package/src`.  There are no tests.

## Inventory

| Component | State it keeps | Operations | What is hard | What makes it correct |
|---|---|---|---|---|
| Mongo adapter `store/mongoStore.ts` | one document per job id: status, version, runAt, attempts, attemptsMade, bullJobId, lockedAt | upsert, markQueued/Running/Completed/Failed/DeadLetter/Cancelled/Expired, findReconcileCandidates | atomic updates whose filters do not all look at the version or at `running` | a closed schedule stays closed; attempts are bounded; versions identify schedules |
| Queue wrapper `queue/bullmqQueue.ts` | BullMQ jobs `ls-<job>-v-<version>` | enqueue, remove | four awaits per enqueue, errors swallowed | the current version is in the queue after an enqueue |
| `scheduler/schedule.ts`, `cancel.ts` | none; three to six awaits per call | schedule, cancel | overlapping calls, crashes between awaits | no interleaving disarms the current schedule |
| Worker `worker/worker.ts` | deliveries in progress | processJob, start, stop | redelivery, lost BullMQ locks, failing status updates | only the current schedule runs, at most `attempts` times |
| Reconciliation `reconcile/reconcile.ts` | a snapshot of up to 1000 documents | reconcile, once per process start | works on a stale snapshot beside running workers and other processes | repairs what a crash left, changes nothing else |
| Redis lock `utils/redisLock.ts` | one key with a TTL | acquire, release | a TTL shorter than the work, a holder that died | at most one holder per token |
| Recurring jobs `scheduler/recurring.ts`, `createScheduler.ts:59-90`, `src/scheduler.js:89-119` | the pattern, inside the payload | scheduleRecurring, chaining after a run, setup at boot | the next occurrence is stored only by a successful run | the chain of occurrences does not break |
| Stage automation `src/domain/status-automation.domain.js` | Stage and StageRegistration documents of the main application | status check, side effects, chaining | read, decide, write with administrators writing beside it; retries that find the work half done | the status follows the calendar |
| Tournament automation, same file | Tournament documents | status check, trigger after each change of a stage | as above; the trigger's error is swallowed | the tournament follows its stages; what is over stays so |
| Cache invalidation `src/utils/cache-invalidation.utils.js` | retry queue, timer, draining flag | delete and publish, retry, drain, shutdown | callbacks between awaits, a bounded queue | an invalidation that failed is retried |
| v1 jobs service `src/modules/v1-jobs` | none | schedule per stage/tournament, bulk sync, cancel, get | check-then-schedule; many calls of which one may fail | everything a sync lists gets a check |
| Entry point `src/index.js` | process lifecycle | bootstrap, graceful shutdown | worker runs before reconciliation, signals during bootstrap | no exit breaks a chain for good |

### Who talks to whom

* `schedule()` and `cancel()` read the document, remove the BullMQ job it points
  at, write the document, add the new BullMQ job and mark the document queued:
  up to six awaits over two databases, without a transaction.
* The worker gets a BullMQ job and asks the store, by job id and version, whether
  it may run. The store decides; BullMQ only delivers.
* The reconciliation runs once per process start, beside the worker that already
  runs and beside the other processes.
* Handlers call `schedule()` themselves: the wrapper of a recurring job after a
  successful run (not awaited), a stage check for its own job id while it runs,
  and for the check of its tournament.
* The admin backend shares the `stages` and `tournaments` collections, asks for
  checks through the HTTP API, and takes no lock.
* Cache invalidation is called by the stage checks; its timer, the `ready` event of
  its Redis client and its callers meet over one Map.

## Modules

| Module | Models |
|---|---|
| `JobStore` | `mongoStore.ts`: the document and each `findOneAndUpdate`, as operators on one record |
| `BullQueue` | `bullmqQueue.ts`, and the states of a BullMQ job as the wrapper and the worker use them |
| `LazyScheduler` | schedule, cancel, worker, reconciliation, the Redis lock, crashes and restarts, composed over one store and one queue |
| `LazySchedulerProps` | its properties and the refinement mapping |
| `DurableSchedule` | the abstract specification: what the library promises about schedules and runs |
| `LazySchedulerProofs` | theorems about `LazyScheduler`: its types and its versions |
| `SchedulerRefinementProofs` | the proof that `LazyScheduler` implements `DurableSchedule` |
| `SchedulerArmingProofs` | the proof that an idle system has its untried schedules in the queue |
| `SchedulerLossProofs` | what crashes, failing commands and stale snapshots can do to a schedule, proved |
| `CacheInvalidation` | `cache-invalidation.utils.js`, with its properties |
| `CacheInvalidationProofs` | theorems about it |
| `RecurringJobs` | `register()`'s wrapper, `scheduleRecurring`, `ensureRecurringSchedules`, startup and graceful shutdown, with their properties |
| `RecurringJobsProofs` | theorems about it |
| `StageAutomation` | `handleStageStatusCheck`, its derivation and its chain, `scheduleStageStatus`, with their properties |
| `StageAutomationProofs` | theorems about it |
| `TournamentAutomation` | `handleTournamentStatusCheck`, the trigger in the side effects of a stage check, `scheduleTournamentStatus` and `scheduleBulkStatusSync`, composed with `StageAutomation` over the same worker slots, with their properties |
| `TournamentAutomationProofs` | theorems about it |
| `MCLazyScheduler`, `MCRecurringJobs`, `MCStageAutomation`, `MCTournamentAutomation` | instances for TLC; `CacheInvalidation` needs none |

A definition named `X_Something` with the comment `Slip:` is a variant of `X` with a
mistake somebody could make in that code. It is used by no specification; each
property fails when its variant takes the place of `X`, and `PROJECT.json` says
which belongs to which.

### The library: `LazyScheduler`

| Variable | Code |
|---|---|
| `store[j]` | the Mongo document of job id `j` |
| `bull[j][v]` | the BullMQ job with id `ls-<j>-v-<v>` |
| `call[c]` | a `schedule()` or `cancel()` invocation and its local variables: `seen` is the version in `existing.bullJobId`, `version` the one the upsert returned |
| `slot[s]` | a delivery inside `processJob`, with the copy of the BullMQ job it was given |
| `recon[n]` | process `n`: down, in the reconciliation (with the documents `find()` returned), or serving |
| `lock` | the Redis key of the reconcile lock |
| `now` | `Date.now()`, one clock for all processes |
| `spent` | how many crashes, failing commands and lost BullMQ locks have happened |

One action is the code from one `await` to the next. `schedule()` is
`BeginSchedule` (the check of the registry, `getByJobId`), `CallRemove`,
`CallUpsert`, `CallEnqueue` four times at most (`getJob`, `getState`, `remove`,
`add`) and `CallMarkQueued`; `cancel()` is `BeginCancel`, `CallRemove` and
`CallMarkCancelled`. `processJob` is `Deliver` (BullMQ), `StartRun`, `SkipStale` or
`RejectUnknown`, then `CompleteRun` or `ThrowRun` and `RecordFailure`, then `Settle`
(BullMQ). `reconcile()` is `Boot` to `ReleaseLock`. Every awaited command may fail
(`CallError`, `ClaimError`, `CompleteError`, `FailError`, `AcquireError`, `ReconcileError`, and the
failing branches of `CallRemove` and `FreeLock`), and a process may die anywhere
(`Crash`). Two errors inside `enqueue()` reject nothing, as `bullmqQueue.ts:23,28` swallow
them and go on (`CallSwallows`, `ReconSwallows`): after a failing `getState()` the BullMQ
job counts as there, after a failing `remove()` the `add` is made and may be ignored. A command that took effect before its answer was lost is, for the calls, the
error one step later, and for the worker's status updates an explicit choice, as the
worker goes on after it.

BullMQ is a library and is modelled from how it is used: its lock per job, the
attempt counter, the stalled-job check with its default of one recovery, the
refusal to remove a locked job, `add` that ignores an id it has, and the
eviction of finished jobs (`removeOnComplete`, `removeOnFail`).

Abstracted: names, backoff settings, metadata, `createdBy` and timestamps that
nothing reads back. A payload is the identity of the call that scheduled it.
Delays and backoffs are the freedom of a delivery to come at any moment after its
time.

`DurableSchedule` says the same without queue, deliveries, processes and
reconciliation: a job id has at most one schedule; it is open until a run of it
settles it or it is withdrawn, and then stays closed until a newer one replaces it;
a run begins only for the open current schedule, with its payload, not before its
time and `attempts` times at most. `LazySchedulerProps` maps the one to the other: the
statuses pending, queued, failed_retryable and running are the phase "open", a worker
slot between `markRunning` and its last status update is a run.

`RecurringJobs` and `StageAutomation` are built on that promise, not on the library's
steps: their `job` variable is one schedule per job id that a new one replaces even
while its job runs, and only a run of the current schedule settles it. What
`DurableSchedule` leaves open, whether a schedule is delivered, they say by its state:

| State | Document and BullMQ |
|---|---|
| `armed` | open, and BullMQ will deliver it |
| `running` | running, by the slot named in `by` |
| `queued` | the same run, but a `markQueued` that came late has put the document back to queued: `markCompleted`, `markFailed` and `markDeadLetter` will match nothing |
| `stranded` | open, with attempts left, and nothing to deliver it: what a rejected `schedule()`, a failed status update, a missed `markCompleted` or a crash leaves; the reconciliation of a startup (`Repair`, `Reconcile`) arms it again |
| `dead` (`dead_letter`) | closed by a failure, or without attempts: no reconciliation runs it again |

`attempts` are those the document counts, `failures` those BullMQ does: the worker
decides about a retry by the second, `markRunning` refuses by the first, and a new BullMQ job
starts with none. `RecurringJobs` has one process, whose startup reconciles once, so a
crash leaves its documents running until then; in `StageAutomation` a startup of this or
another server may come at any time (`Repair`), so a crash leaves them stranded.

### The server

`CacheInvalidation`: `queue` and `entry` are the Map `_retryQueue` (its order and its
values), `timer` is `_retryTimer`, `drain` is the `drainRetryQueue` in progress with
its snapshot of due entries, `caller[c]` an invocation from a caller, `client` the ioredis
client, and `stale[o]` the caches that may still hold what `o` was meant to
remove. `EnqueueRetry`, `Armed` and `Visit` are `enqueueRetry`, `scheduleDrain` and the
loop of `drainRetryQueue`; the loop iterates over the entries of a Map that others
change, so an entry that was due but is gone is passed over and a value set
meanwhile is due no more.

`RecurringJobs`: `process` is how far `bootstrap` has come, `stopping` says that
`gracefulShutdown` runs beside it, `todo` what `ensureRecurringSchedules` has still to schedule,
`job[r]` the schedule of a recurring job, `slot[w]` a run of the wrapped handler, `chain`
the `schedule()` calls the wrapper started and does not await, `gaveUp` the jobs whose
last `schedule()` was rejected and logged. A signal may come at any moment: `bootstrap`
does not hear of it and goes on, over a closed queue or a scheduler that `instance()`
makes anew and that knows no job, so while `stopping` a `schedule()` may be rejected
(`Rejects`) and the process may end in the middle (`Crash`).

`StageAutomation`: `stage[s]` is the document the admin backend owns, with its six dates;
`check[w]` a `handleStageStatusCheck` between two awaits (`FindStage`, `UpdateStage`,
`RefreshStage`, `RunStageSideEffects`, `RejectPending`) up to the worker's `markCompleted`
(`CompleteCheck`), `request[r]` a `scheduleStageStatus`, `job[s]` the schedule of
`stage-status-<s>`. Every command may fail: the handler's (`CheckFails`, `ChainFails`,
`CancelFails`), the worker's (`ClaimFails`, `AfterError`), a request's (`FindFails`, `RequestFails`). `Crash` is the
death of the server: every check and request in it ends, and each `schedule()` or
`cancel()` that was under way leaves what it had done so far (`LeftByCrash`). A date
may be missing (`Off`: no comparison with it holds) or stored as null (`Epoch`: long past). `Edit` is the admin
backend: teams register and withdraw, a stage is postponed, deleted or moved.
`chain`, in a job, remembers for which document the check was scheduled; the program
has no such field and no action reads it, only `ChainSkipsNothing` does. Team counts are
abstracted to `full`, registrations to `pending`.

`TournamentAutomation` EXTENDS `StageAutomation` and adds `tournament[t]`, `tjob[t]` (the
schedule of `tournament-status-<t>`), `tcheck[w]` (a `handleTournamentStatusCheck`),
`trequest[r]` (a `scheduleTournamentStatus`) and `sync` (the two lists of a bulk sync, whose
calls are the invocations `SyncTournament[t]` and `SyncStage[s]`). The actions of
the stages are taken over with `UNCHANGED tvars`, but for two: the side effects of a
stage check are split into the trigger (`TriggerTournament`, `TriggerFails`) and what
follows it (`AfterTrigger`), with `triggered` the slots in between; and a slot may
run a check of either kind (`Deliver`). `ServerDies` is `Crash` with the slots of both
kinds, the requests and the bulk sync: what the sync had listed and not asked for yet is never
asked for. `lost` holds the tournaments whose trigger a fault or a
crash has cost; no action reads it, only `TournamentFollowsStages` does.

## Runs

| Run | Question | Answer |
|---|---|---|
| `contended` | Can overlapping `schedule()` and `cancel()` calls of one job, two workers and two startup reconciliations disarm the current schedule, or confuse two versions? | No: `VersionIdentifiesSchedule`, `QuiescentJobIsArmed`, `ImplementsDurableSchedule` |
| `stalls` | And when a command fails at any await, the reconcile lock's included, a worker loses its BullMQ lock while it runs, a node lacks the handler? | The store still implements the promise: `TypeOK`, `ImplementsDurableSchedule`; and a schedule drops out of the queue only where a call or a reconciliation is cut short, BullMQ gives it up, or a used-up BullMQ job could not be removed: `AbandonedOnlyByLoss` |
| `recovered` | And when a process dies at any point, with retries, a cancellation and schedules that expire? Is every stored schedule tried in the end? | Versions stay sound, the store still implements `DurableSchedule`, a schedule is lost only to what the crash cut short (`AbandonedOnlyByLoss`) and expires early only to an older snapshot (`OnlyOldSnapshotExpires`); and every schedule is tried, cancelled, expired or replaced, with the reconcile lock disabled and a batch that holds every job: `ScheduleIsTried` |
| `retried` | Does the retry queue forget, starve or strand an invalidation? Does it stay within its limit? | No, but for the three ways that `ForgottenOnlyByLimits` names: `RetriesAreScheduled`, `QueueDrains`; it exceeds its limit by its own retries only: `OverfullOnlyByRetry` |
| `chained` | Does the chain of a recurring job break, wherever a signal or a crash finds the process? Does it ever become two? Does one that was ended come back? | Not while the process is up: `ChainHasNoGap`; and it goes on across exits: `ChainGoesOn`; in three ways only: `ForkedOnlyByRepetition`; not before the next startup: `EndedUntilStartup` |
| `checks` | Does the chain of stage checks skip a boundary, or lose a check where checks and requests overlap? Is a stage that is over completed? Does one that was taken out of the tournament stay so? | The chained check is soon enough: `ChainSkipsNothing`; only faults and cancellations cost one: `ScheduledCheckIsMade`; it is: `EndedStageCompletes`; it does, once nothing from before is under way and no schedule of it is left to deliver or to reconcile: `RetiredForGood` |
| `automation` | Does a tournament follow its stages? Does a bulk sync reach what it listed when a call fails? Can something that is over be opened again? | It does, unless a fault cost the trigger: `TournamentFollowsStages`; it does, while its process lives: `SyncReachesEverything`; only by a check that overlaps the one that ended it: `OnlyOverlapReopens`; and no overlap costs a tournament the check scheduled for it: `TriggeredCheckIsMade` |

Five runs show where the code does other than its documentation says. Each
checks one property and TLC answers with a behaviour of the code that breaks it.

| Run | The documentation | The behaviour TLC finds |
|---|---|---|
| `same_ms` | "stale BullMQ deliveries cannot complete a newer schedule" (`package/README.md:19`) | Two `schedule()` calls in one millisecond get the same version (`Date.now()`) and so the same BullMQ job id; the second finds the BullMQ job of the first and leaves it, whose delivery runs the first payload and completes the second schedule |
| `late_mark` | "storage adapter marks running/completed/failed" (`package/README.md:75`) | A job that is due at once is delivered before `schedule()` gets to `markQueued`, which takes the running document back to queued; `markCompleted` then matches nothing and the success is lost |
| `interrupted` | "BullMQ execution is at-least-once" (`package/README.md:18`) | A process dies in a handler; BullMQ delivers again, `markRunning` refuses a document that is running, the delivery is completed as skipped, and the document stays running: the reconciliation at startup came before `staleRunningAfterMs` had passed, and no other follows |
| `stale_snapshot` | "`version` must identify the current logical schedule" (`package/README.md:177`) | The reconciliation expires by job id what its snapshot said was overdue, and with it a schedule made since |
| `filled` | "keep it FILLED until actual stage start" (`status-automation.domain.js:63`) | A check on the last instant of registration finds a FILLED stage unchanged and schedules no other check: the stage is FILLED after its start, until somebody asks for a check |

### Bounds, and why they are enough

* **One job id in the library's runs.** Documents and BullMQ jobs of different ids
  share nothing but the reconciliation's batch and the worker slots. The batch is
  unbounded for the one job; with a batch too small for all candidates
  `ScheduleIsTried` does not hold (see Limits).
* **Two calls, two slots, two nodes.** The races of the library are between two
  calls, a call and a delivery, or one of them and a reconciliation; `contended` has
  all of these at once. Calls are interchangeable and reduced by symmetry in safety
  runs (`Requests` do not name them). A third call would only be a second
  replacement.
* **Time.** `Horizon` is how far the clock ticks by itself, `MaxTime` bounds it with
  the ticks of upserts: each upsert needs a fresh millisecond, so `MaxTime` is at least
  `Horizon` plus the number of calls. All deadlines of a run (`runAt`, `ttlMs`,
  `StaleAfter`) lie within.
* **`UniqueStamps`** says that no two upserts of the system happen in one
  millisecond. Only `same_ms` is without it, and shows what follows.
* **One crash, one fault, one stall.** Each may come at any point of any operation;
  `recovered` has crashes, `stalls` faults and lost locks, with the reconcile lock in use. Two crashes let
  `ScheduleIsTried` fail for a reason of its own (see Limits).
* **The requests of `recovered`** (`Perilous`) are a schedule with two attempts that expires, one
  with a single attempt that does not, and a cancellation: the second may replace the first
  after a reconciliation has read it and before it judges it, which is what
  `OnlyOldSnapshotExpires` is about.
* **`retried`**: `RETRY_MAX_QUEUE` is 1 with two operations, so that the queue is full as
  soon as it holds one and the eviction happens in every phase of a drain; delays of 2 and 3 ticks are
  the interval and its bound, so a first retry is earlier than a second. Three callers
  are a first failure, the newer one during its retry, and one that evicts it.
* **`chained`**: one worker slot and two jobs of the environment, whose setups and runs
  get into each other's way; a period of two seconds, so an occurrence may come due
  within the second that `getNextCronRunAt` skips; two attempts.
* **`checks` and `filled`**: ticks of half a second, the window of
  `getNextStageRunAt`. In `checks` pre-registration and the stage itself last one instant,
  registration starts half a second after the one and ends a second before the
  other, so a boundary falls into every position relative to a check: before, on, in the
  half second after. Two slots, for a chained check that starts before the last one
  has ended. `MaxUpsets` bounds edits and faults together: `checks` has one of each, in either
  order. Free slots are alike, and so are invocations that have not begun, so `Next`
  takes one of them (`AnyOf`); the proofs take any. One timetable: that a stage is moved
  to other dates is a step of `Edit` that these runs do not take, so the "moved" escape of
  `EndedStageCompletes` is not exercised.
* **`automation`**: one stage and its tournament, which begin and end together, in
  the same ticks: registration at 0, start at 1, end at 2. The last instant stands for all
  later ones (`Due`), so that a trigger armed for after it is delivered too. One
  change by the administrator, one fault or crash, a retry, two slots for
  checks that overlap, of one kind or of both. The calls of the bulk sync belong to it where one is awaited;
  where none ever comes (`sync.state = "never"`) they are anybody's requests. Free
  slots are alike, so `Deliver` takes one of them. `MaxUpsets` is 1: an edit or a fault,
  and not both, which five minutes do not suffice for; a second upset is in `checks`. One
  draft of the tournament: it is deleted, and not moved.
* **Deadlock** is checked in every run: `AllQuiet`, `Idle` and `AllIdle` are the states in which
  nothing is left to do, as guarded stuttering steps.

### Fairness, and why the code justifies it

All fairness is weak. Per call, slot, checker and process: an awaited command is
answered, by its result or by an error (ioredis sends again what a lost connection
left unanswered, `config/redis.config.js:13`), and a handler returns or throws: the two
recalculation handlers abort their request after a timeout
(`admin-backend.client.js:49`), the two status checks await commands only. An idle worker
fetches a due job (BullMQ's own loop). `Boot` and `BootStep`: systemd restarts the
server (`Restart=always`, `scripts/ec2-deploy-systemd.sh`). Redis keys with a time
to live run out, timers fire, time passes. A bulk sync goes on (`SyncStep`) while its process lives; its
death ends it for good. The stalled-job check runs while some worker does. Errors,
crashes, late `markQueued` calls, the repairs of a startup (`Repair`), cancellations, evictions, requests and the admin backend's edits have no fairness:
they need not happen. No strong fairness is used.

## Proofs

Every theorem holds for all values of the constants that satisfy the named
assumptions of the modules (`BoundsAssumption`, `TopologyAssumption`,
`CacheAssumption`, ...), which TLC evaluates in the runs. The bounds of the runs are
constants too: any clock, any number of crashes and faults.

| Theorem | States | Rests on |
|---|---|---|
| `TypeCorrect` | `Spec => []TypeOK` | is inductive; one lemma per kind of transition, then one per kind of actor |
| `VersionsIdentifySchedules` | `UniqueStamps => (Spec => []VersionIdentifiesSchedule)` | `VersionInv` |
| `SchedulerImplementsDurable` | `UniqueStamps => (Spec => ImplementsDurableSchedule)` | `VersionInv`, `DeliveriesDue` |
| `QuiescentJobsAreArmed` | `Undisturbed => (Spec => []QuiescentJobIsArmed)` | `VersionInv`, `ArmedInv` |
| `AbandonedOnlyByLossHolds` | `UniqueStamps => (Spec => AbandonedOnlyByLoss)` | `VersionInv`, `TriedInv` |
| `OnlyOldSnapshotExpiresHolds` | `UniqueStamps => (Spec => OnlyOldSnapshotExpires)` | `VersionInv`, `SnapsOld` |
| `NoStaleCompletionHolds` | `UniqueStamps => (Spec => NoStaleCompletion)` | `VersionInv` |
| `CacheTypeCorrect` | `Spec => []CacheTypeOK` | facts about `Put`, `Deleted`, `Visit`, `EnqueueRetry` |
| `RetriesStayScheduled` | `Spec => []RetriesAreScheduled` | is inductive with the types |
| `ForgottenOnlyByLimitsHolds` | `Spec => ForgottenOnlyByLimits` | `UnlinkedStaysFresh` |
| `OverfullOnlyByRetryHolds` | `Spec => OverfullOnlyByRetry` | what `EnqueueRetry` does to the length of the queue |
| `RecurringTypeCorrect` | `Spec => []RecurringTypeOK` | `ArmedHasAttempts` |
| `ChainHasNoGapHolds` | `Spec => []ChainHasNoGap` | `GapInv` |
| `ForkedOnlyByRepetitionHolds` | `Spec => ForkedOnlyByRepetition` | `GapInv` |
| `EndedUntilStartupHolds` | `Spec => EndedUntilStartup` | `GapInv` |
| `StageTypeCorrect` | `Spec => []StageTypeOK` | `TypeInv`, which gives each step of a check the record it has |
| `ChainSkipsNothingHolds` | `Spec => []ChainSkipsNothing` | `ChainInv` and `NextIsSoonEnough` |
| `ScheduledCheckIsMadeHolds` | `Spec => ScheduledCheckIsMade` | `ArmedFree` |
| `RetiredForGoodHolds` | `Spec => RetiredForGood` | `TypeInv`: a check touches its own stage only (`OwnStage`) |
| `AutomationTypeCorrect` | `AutomationSpec => []AutomationTypeOK` | `AutomationInv`, on top of `TypeInv` |
| `OnlyOverlapReopensHolds` | `AutomationSpec => OnlyOverlapReopens` | `AutomationInv` |
| `TriggeredCheckIsMadeHolds` | `AutomationSpec => TriggeredCheckIsMade` | `AutomationInv`, `TriggeredFree` |
| `StagesKeepTheirPromises` | `AutomationSpec => ScheduledCheckIsMade /\ RetiredForGood` | `AutomationInv`, `ArmedFree` |

* `VersionIdentifiesSchedule` only speaks of holders of the current version and is
  not inductive: a holder of an old version would become one, if an upsert could
  reuse it. `VersionInv` says of everybody who holds a version (the document, a
  BullMQ job, a call on its way to the queue, a record in a reconciliation's batch, a
  delivery) that it lies before `now`, and that it means the stored schedule if it is
  the current one. An upsert stamps `now` and, with `UniqueStamps`, moves it, so every
  version anybody holds becomes an old one. It is proved part by part (`StoreSound`, `BullSound`,
  `CallsSound`, `ReconsSound`, `SlotsSound`).
* The refinement maps each document and each slot's run by itself, so a step of the
  scheduler that touches one document is compared with `DurableSchedule` at that
  document only (`Mapped`). A claim is the abstract start of a run; that it is not early needs
  `DeliveriesDue` (a delivery of the current version came after its `runAt`), and that it has the
  stored payload needs `VersionInv`. Every status update whose filter does not match, and
  every step of a call or a reconciliation but the upsert and the closing, is a stutter.
* `QuiescentJobIsArmed` speaks of the idle system only. `ArmedInv` says for every state who
  will act on an untried current schedule: its BullMQ job waits, a slot is about to claim
  it, a call is about to replace or close it, or a call or a reconciliation is about to add it;
  and if its BullMQ job was delivered, a slot is about to claim it. Each actor's step
  hands that duty on: an enqueue that finds the BullMQ job there leaves it to the queue, a
  stalled job goes back to waiting or stays with the slot that lost it, and a slot that is past its
  claim has tried the schedule or has found it stale (`SlotsTried`). `Undisturbed` leaves out what
  breaks it: a crash or a failing command between upsert and add, a node without the
  handler, a schedule with no attempt at all. Lost locks and stalls are in.
* `AbandonedOnlyByLoss` is `QuiescentJobIsArmed` without `Undisturbed`: any crashes, failing
  commands, lost locks and missing handlers, with an exception for each way a schedule is
  lost. It is about steps, so it names nobody's duty: a step that leaves an untried current schedule with
  nobody to deliver it found it so, or is one of the exceptions. What it needs of the state
  is `TriedInv`: a document that is running has used up an attempt (`AllCounted`), and a slot past
  its claim has no schedule that still waits for its first (`ClaimsTry`), so that the end of a delivery, and
  the eviction or removal of a finished BullMQ job, lose nothing. Of the swallowed errors only a failing
  `remove()` is an exception (`NotPurged`): after a failing `getState()` the BullMQ job that was found
  stays where it is. `UniqueStamps` is its only
  assumption.
* `OnlyOldSnapshotExpires` needs `SnapsOld`: a record in a reconciliation's batch whose
  version is the current one has the `ttlMs` and the `runAt` of the stored schedule, and no
  record is newer than the store. `VersionInv` says the first for the payload, `SnapsOld` the rest.
  Together with `NoStaleCompletionHolds` it is the positive side of two findings: what
  `stale_snapshot` shows happens to a newer schedule only, and what `same_ms` shows in one
  millisecond only.
* `ForgottenOnlyByLimits` is about steps. Its difficult case is the success of a drain's
  publish, which deletes the entry: the shared cache might have become stale since the
  drain's UNLINK. `UnlinkedStaysFresh` says that then a caller is still about to
  remove it, or the operation is not among what the drain has in hand any more.
* A recurring job's type needs `ArmedHasAttempts`: the delivery of an armed job counts an
  attempt, so it must have one left. `ChainHasNoGap` needs that a run which is about to be
  completed has started its chain or lost its schedule (`SuccessIsChained`), and that a
  slot with a run belongs to a process that is there (`RunnersRun`).
* `ForkedOnlyByRepetition` counts the places where the chain of a recurring job goes on: a
  schedule nobody runs, a handler, a `schedule()` under way. A delivery moves the first to the second
  and a success the second to the third; each moves it on because of `RunnersRun`, by which a
  running schedule names its slot. The three exceptions are needed: the setup arms the job beside a
  handler that has begun, a failed `markCompleted` arms it again beside the `schedule()` of its
  first run, and one that misses, because the reconciliation's or a slow `schedule()`'s
  `markQueued` came after the claim, leaves it open beside that `schedule()`.
* `ChainSkipsNothing` speaks of the present. `ChainInv` says it of every time from now
  until the chained check is due, and of each check that its new status is what
  its time and the stage it read give. Its arithmetic is in `NextIsSoonEnough`: between the time of a
  check that missed nothing and the boundary `getNextStageRunAt` picks, every date of
  the stage keeps its side, and by `DeriveAgain` a status that was derived and
  written (a FILLED one included) is then derived again.
* `ScheduledCheckIsMade` rests on what the library's versions are for: a check that
  ends must not end the schedule that replaced its own. In the model a running schedule names its
  slot, and `ArmedFree` says that a waiting one names none, for which slots must not be
  called `Nobody` (`NobodyAssumption`). It and its counterpart for tournaments are what is
  safe in `EndedStageCompletes` and `TournamentFollowsStages`: that a check is not lost; that it comes is
  fairness.
* `RetiredForGood` speaks of a stage with no schedule left (`none`, or `dead`). It needs that
  a check writes its own stage and schedule (`OwnStage`), that a delivery needs an armed schedule and a
  repair a stranded one, that a request or a sync which finds the stage out of the tournament
  cancels, and that no fault makes a schedule out of none: what a rejected `schedule()` or a crash
  leaves is the schedule there was or one somebody was about to make (`CrashSpares`).
* The proofs are about `AnyStep`, in which any slot or invocation may be the next and any slots
  may die at their last call. `Next` is a case of it (`NextIsAny`), and so is what the
  composition does to the stages: `ServerDies` is a crash in which only the slots that have
  made their trigger are at the stage's schedule. What schedules are is stated for any set of times (`Jobs(D)`),
  so that the lemmas hold of the stages' and of the tournaments'.
* A step of the composition is a step of the stages, of a tournament's check or
  request, or of both when a bulk sync asks for a stage (`StagesSteps`), so `TypeInv`
  is kept by the lemmas about `StageAutomation`. `AutomationInv` adds that no slot runs two
  checks (`SlotsInv`), that a bulk sync's time lies within the clock (`SyncInv`), and
  that a check which goes on to write has read a document that was not over
  (`LiveDoc`, `PreviousLive`). `OnlyOverlapReopens` follows from the last: the
  document it writes over is not the one it read. By `StagesSteps` also, what is proved of
  the stages alone holds in the composition (`StagesKeepTheirPromises`).

Only model-checked: liveness (`ScheduleIsTried`, `QueueDrains`, `ChainGoesOn`,
`EndedStageCompletes`, `TournamentFollowsStages`, `SyncReachesEverything`), which is
beyond the prover. Every other property of the passing runs is a theorem.

## Limits: what does not hold, and is not claimed

Met while the bounds were chosen:

* A process that dies inside its reconciliation leaves the reconcile lock; the process
  that systemd starts five seconds later finds it taken and skips its only
  reconciliation. So `ScheduleIsTried` needs the lock disabled, or a lock that has run
  out.
* `reconcileBatchSize` counts healthy documents too: with more open jobs than
  places, a job that a crash left undelivered may wait for a startup that finds it
  among the earliest.
* On a node without the handler BullMQ uses up the attempts, and the store does not learn
  of it: such a schedule is open and undelivered until the next startup (`GivenUp` in
  `AbandonedOnlyByLoss`).
* A `remove()` that fails inside `enqueue()` is swallowed; if the BullMQ job was used up without a
  claim, `add` ignores the new one and the schedule stays undelivered, while the caller or the
  reconciliation goes on to `markQueued` (`NotPurged` there).
* A `schedule()` that fails between the upsert and the enqueue is reported to its caller and leaves
  a pending document that nothing delivers until the next startup (`CutShort` there).
* A dead letter ends the chain of a recurring job until the next startup
  (`EndedUntilStartup`), and so does a cancellation; but a run that was under way when it was
  cancelled still schedules the next occurrence.
* A recurring job may get two chains, whose handlers may run at once: where the setup at startup
  replaces an occurrence that the worker has begun, where `markCompleted` fails after a
  run, and where it matches nothing because a `markQueued`, of the reconciliation or of a slow
  `schedule()`, has put the running occurrence back to queued (`ForkedOnlyByRepetition` says that
  nothing else does it).
* A status check on the instant of a boundary that closes a window finds it still open,
  and schedules no other check when that means no change (`filled`).
* `ChainSkipsNothing` leaves out the boundaries that `getNextStageRunAt` cannot
  see: those that pass while a check runs, and those in the half second after it.
* A check that fails after it has changed the stage is retried, finds nothing to change
  and is done: its tournament's check, its next check and the rejection of pending
  registrations are lost. `TournamentFollowsStages` leaves out the tournaments in
  `lost`.
* A tournament check chains none of its own, so a tournament that ends later than its
  last stage stays open until somebody asks for a check.
* A check that read a tournament or a stage before another completed it writes the
  status it derived, and so opens it again (`OnlyOverlapReopens` says that nothing else
  does). No later check is scheduled for that.
* A request or a bulk sync replaces a stage's chained check by one at its own time;
  when that finds nothing to change, the chain is over.
* A postponed stage whose check is still armed, or was left undelivered and is armed again by the
  reconciliation of a later startup, gets its calendar's status back; without a schedule, and
  without a check or request that is under way, it stays postponed (`RetiredForGood`).
* A bulk sync dies with its server: what it had not asked for by then gets no check, and
  nobody asks again (`SyncReachesEverything` leaves it out).
* `ChainHasNoGap` and `ChainGoesOn` leave out a job whose last `schedule()` was rejected: it is
  logged, and nothing tries again before the next startup.

Simplified in the modules of the server, beside the library's own which has them:

* In `StageAutomation` and `TournamentAutomation` BullMQ delivers a job to one slot at a time
  and a reconciliation repairs only what nobody runs: a lost BullMQ lock with a second delivery, and a
  "stale running" repair beside a run that takes longer than `staleRunningAfterMs`, are
  left to `stalls` and `contended`. The checks await a handful of commands; the limit is ten minutes.
* A crash ends the one server that runs the checks and answers the requests.
* The retry queue of cache invalidation may exceed `RETRY_MAX_QUEUE` by one for each retry
  that fails after its entry was evicted, and does not shrink back by eviction.

## Not modelled

* The other functions of the v1 jobs service: one `schedule()`, `cancel()` or `get()`
  each, after a check of their arguments.
* HTTP layer, middleware, the admin backend client, the recalculation handlers, the
  queries `get` and `list`, configuration and deployment: no state of their own. A
  recalculation handler is, for the scheduler, a handler that returns or throws.
* Types, adapters' validation, logging.

## Plan

Every part of the code with state of its own is modelled, every property of the passing
runs that is not about liveness is proved. What could follow:

1. A refinement between `DurableSchedule` and the jobs of `RecurringJobs` and
   `StageAutomation`, which use what it promises in a form of their own: a schedule's version in
   place of the slot that runs it.
2. `QuiescentJobIsArmed` as a consequence of `AbandonedOnlyByLoss` and a history of what was
   cut short, in place of its own invariant.
3. A second timetable and a second tournament draft, for stages and tournaments that are moved,
   where the time for a run allows it.
4. When the reconciliation's lock or `reconcileBatchSize` change in the code, a liveness
   run over two startups and more open jobs than places.
