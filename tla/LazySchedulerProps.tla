---------------------------- MODULE LazySchedulerProps ----------------------------
(***************************************************************************)
(* The properties of LazyScheduler, and the refinement mapping to the      *)
(* abstract DurableSchedule.                                               *)
(***************************************************************************)
EXTENDS LazyScheduler

\* The types of the variables, with the bounds on the clock and the faults.
TypeOK ==
  /\ now \in Times
  /\ store \in [JobIds -> SchedulerJobRecord(Calls, Times)]
  /\ bull \in [JobIds -> [Times -> BullJob(Calls, Times, Slots)]]
  /\ call \in [Calls -> Call]
  /\ slot \in [Slots -> Slot]
  /\ recon \in [Nodes -> Recon]
  /\ lock \in Nodes \cup {"free"}
  /\ spent \in Spent

-----------------------------------------------------------------------------
\* What a holder of a version remembers of the schedule it names.
SameSchedule(r, payload, runAt, attempts) ==
  r.payload = payload /\ r.runAt = runAt /\ r.attempts = attempts

\* Calls between upsert and markQueued.
Enqueuing(c) == call[c].pc \in ENQUEUE_STEPS \cup {"mark"}

\* Records the reconciliation of node n still has to visit or is visiting.
Pending(n) ==
  recon[n].todo \cup (IF recon[n].pc \in ENQUEUE_STEPS \cup {"mark"} THEN {recon[n].job} ELSE {})

(* A version identifies one schedule: whoever holds the version that is     *)
(* current in the store - a BullMQ job, a schedule() call on its way to the *)
(* queue, a record in reconcile()'s batch, a worker with a delivery - means *)
(* the schedule the store has.  Otherwise a stale delivery passes the       *)
(* version filter of markRunning and markCompleted.                         *)
VersionIdentifiesSchedule ==
  \A j \in JobIds :
    LET r == store[j] IN
    /\ bull[j][r.version].state # "absent" =>
         LET b == bull[j][r.version] IN SameSchedule(r, b.payload, b.runAt, b.attempts)
    /\ \A c \in Calls :
         Enqueuing(c) /\ call[c].req.job = j /\ call[c].version = r.version =>
           SameSchedule(r, c, call[c].req.runAt, call[c].req.attempts)
    /\ \A n \in Nodes :
         j \in Pending(n) /\ recon[n].snap[j].version = r.version =>
           LET p == recon[n].snap[j] IN SameSchedule(r, p.payload, p.runAt, p.attempts)
    /\ \A s \in Slots : Working(s, j, r.version) => slot[s].payload = r.payload

(* Without crashes and faults, whenever nothing is in progress an active    *)
(* schedule that has not been tried is in the queue: no interleaving of     *)
(* schedule(), cancel(), deliveries and reconciliation removes the BullMQ   *)
(* job of the current version for good.                                     *)
QuiescentJobIsArmed ==
  Quiet => \A j \in JobIds :
             store[j].status \in ACTIVE_STATUSES /\ store[j].attemptsMade = 0 =>
               bull[j][store[j].version].state = "waiting"

\* An active schedule that nobody has tried, with an attempt to make.
Untouched(r) == r.attemptsMade = 0 /\ CanMarkRunning(r, r.version)

\* A call or a reconciliation is about to put version v of j into the queue; a
\* call is about to replace or close what j has.
PutsIn(pc, b) == pc = "purge" \/ (pc \in {"getJob", "add"} /\ b.state = "absent")
Queueing(j, v) ==
  \/ \E c \in Calls : /\ PutsIn(call[c].pc, bull[j][v])
                      /\ call[c].req.job = j /\ call[c].version = v
  \/ \E n \in Nodes : /\ PutsIn(recon[n].pc, bull[j][v])
                      /\ recon[n].job = j /\ recon[n].snap[j].version = v
Overtaking(j) == \E c \in Calls : call[c].pc \in {"remove", "upsert", "cancel"} /\ call[c].req.job = j

\* The current schedule of j waits for its first attempt, and neither BullMQ nor
\* anybody else is about to do something for it.
Abandoned(j) ==
  LET v == store[j].version IN
  /\ Untouched(store[j])
  /\ bull[j][v].state \notin {"waiting", "active"} /\ ~Queueing(j, v) /\ ~Overtaking(j)

\* A call for j, or a reconciliation at j, ends before its time: a command fails
\* or the process exits.
CutShort(j) ==
  \/ \E c \in Calls : /\ CallError(c) \/ ProcessExit(call[c].node)
                      /\ call[c].pc \in {"remove", "upsert", "cancel"} \cup ENQUEUE_STEPS
                      /\ call[c].req.job = j
  \/ \E n \in Nodes : /\ ReconcileError(n) \/ ProcessExit(n)
                      /\ recon[n].pc \in ENQUEUE_STEPS /\ recon[n].job = j

\* BullMQ stops delivering the current schedule of j: its attempts are used up,
\* or it stalled too often.
GivenUp(j) ==
  LET v == store[j].version IN bull[j][v].state = "active" /\ bull'[j][v].state = "failed"

\* The finished BullMQ job of j is not removed, and nobody hears of it: the add
\* that is to replace it will be ignored.
NotPurged(j) ==
  \/ \E c \in Calls : CallSwallows(c) /\ call[c].pc = "purge" /\ call[c].req.job = j
  \/ \E n \in Nodes : ReconSwallows(n) /\ recon[n].pc = "purge" /\ recon[n].job = j

(* Wherever processes die and commands fail, an untried schedule drops out  *)
(* of the queue in three ways only: a call or a reconciliation that was to  *)
(* put it there, or to replace it, is cut short; BullMQ gives it up because *)
(* no node claimed it; or the error of the remove() that was to make room   *)
(* for it is swallowed.  No interleaving loses one.                         *)
AbandonedOnlyByLoss ==
  [][\A j \in JobIds :
       Abandoned(j)' => \/ Abandoned(j) /\ store'[j].version = store[j].version
                        \/ CutShort(j) \/ GivenUp(j) \/ NotPurged(j)]_vars

(* A schedule that is not overdue is marked expired only by a               *)
(* reconciliation that read a schedule it has replaced since.               *)
OnlyOldSnapshotExpires ==
  [][\A j \in JobIds :
       store[j].status # "expired" /\ store'[j].status = "expired" /\ ~IsExpired(store[j], now) =>
         \E n \in Nodes : IsNext(n, j) /\ recon[n].snap[j].version < store[j].version]_vars

(* A schedule that was stored is eventually tried, unless it is cancelled,  *)
(* expires or is replaced first.                                            *)
ScheduleIsTried ==
  \A j \in JobIds, c \in Calls :
    store[j].payload = c /\ store[j].status \in ACTIVE_STATUSES
      ~> store[j].payload # c \/ store[j].attemptsMade > 0
           \/ store[j].status \in TERMINAL_STATUSES

-----------------------------------------------------------------------------
(* What the documentation says and the code does not keep.                  *)

(* A delivery completes only the schedule it was made for.                  *)
NoStaleCompletion ==
  [][\A s \in Slots : CompleteRun(s) /\ store' # store =>
       slot[s].payload = store[slot[s].job].payload]_vars

(* The end of a successful run of the current schedule is recorded: no      *)
(* other step of schedule() or reconcile() makes the update miss.           *)
SuccessIsRecorded ==
  [][\A s \in Slots : CompleteRun(s) /\ store[slot[s].job].version = slot[s].version =>
       store'[slot[s].job].status \in TERMINAL_STATUSES]_vars

(* A run that a crash interrupts does not stay "running" for good.          *)
InterruptedRunIsRetried ==
  \A j \in JobIds : store[j].status = "running" ~> store[j].status # "running"

(* Only a schedule whose own time to live is over is marked expired.        *)
OnlyOverdueExpires ==
  [][\A j \in JobIds : store[j].status # "expired" /\ store'[j].status = "expired" =>
       IsExpired(store[j], now)]_vars

-----------------------------------------------------------------------------
(* The refinement mapping: the status is folded into phases, a worker slot  *)
(* between markRunning and its last status update is a run.                 *)
sched == [j \in JobIds |->
            LET r == store[j] IN
            [id |-> r.version, payload |-> r.payload, runAt |-> r.runAt,
             attempts |-> r.attempts, made |-> r.attemptsMade,
             phase |-> IF r.status = "absent" THEN "none"
                       ELSE IF NotTerminal(r) THEN "open" ELSE r.status]]

NoRun == [job |-> Job0, id |-> 0, payload |-> NoData]
runs == [s \in Slots |->
           IF slot[s].pc \in {"run", "caught"}
             THEN [job |-> slot[s].job, id |-> slot[s].version, payload |-> slot[s].payload]
             ELSE NoRun]

Durable == INSTANCE DurableSchedule WITH Workers <- Slots

(* The scheduler implements DurableSchedule.                                *)
ImplementsDurableSchedule == Durable!Spec
=============================================================================
