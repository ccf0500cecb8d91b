------------------------------ MODULE RecurringJobs ------------------------------
(***************************************************************************)
(* The recurring jobs of one server: ensureRecurringSchedules, which at    *)
(* every startup schedules the next occurrence of each configured job, and *)
(* the handler wrapper of register(), which schedules the one after when   *)
(* the handler has succeeded, without waiting for that schedule.           *)
(*                                                                         *)
(* The scheduler is what DurableSchedule promises of it: a job id has at   *)
(* most one schedule, a new one replaces it even while its job runs, and   *)
(* only a run of the current schedule settles it, if its document still    *)
(* says that it runs.  Time is in seconds, and the cron pattern is every   *)
(* Period of them.                                                         *)
(***************************************************************************)
EXTENDS Integers, Sequences

CONSTANTS
  Configured,     \* the job ids of the environment, in the order of their setup
  Slots,          \* worker slots of the process
  Period,
  Attempts,
  MaxTime, MaxExits, MaxFaults, MaxCancels   \* bounds

ASSUME RecurringAssumption ==
  /\ {MaxTime, MaxExits, MaxFaults, MaxCancels} \subseteq Nat
  /\ {Period, Attempts} \subseteq Nat \ {0}

JobIds == {Configured[i] : i \in DOMAIN Configured}
Nobody == "nobody"

ASSUME ConfiguredAssumption ==
  /\ Configured \in Seq(JobIds)
  /\ \A i, k \in DOMAIN Configured : Configured[i] = Configured[k] => i = k
  /\ Nobody \notin Slots

VARIABLES
  now,
  process,   \* the lifecycle of the server
  stopping,  \* a signal has told it to stop
  todo,      \* the jobs ensureRecurringSchedules has still to schedule
  job,       \* job[r]: the document of r and the delivery of its current schedule
  slot,      \* slot[w]: the run that worker slot w is busy with
  chain,     \* the schedule() calls of wrapped handlers that are under way
  gaveUp,    \* jobs whose last schedule() was rejected, and logged
  spent      \* exits, faults and cancellations so far

vars == <<now, process, stopping, todo, job, slot, chain, gaveUp, spent>>

Spend(what, most) == spent[what] < most /\ spent' = [spent EXCEPT ![what] = @ + 1]
Fault == Spend("faults", MaxFaults)

\* A schedule() call may be rejected, and is when the queue is closed or, in a
\* scheduler that the startup makes after the shutdown, its job is unknown.
Rejects == Fault \/ (stopping /\ UNCHANGED spent)

-----------------------------------------------------------------------------
(* Occurrences and schedules                                               *)

\* The first occurrence more than a second from t.
NextRunAt(t) == ((t + 1) \div Period + 1) * Period

\* attempts are those the document counts, failures those BullMQ does.
NoJob == [state |-> "none", runAt |-> 0, attempts |-> 0, failures |-> 0, by |-> Nobody]
Armed(runAt) == [NoJob EXCEPT !.state = "armed", !.runAt = runAt]

\* A document that is not closed and has no delivery left to settle it.
Stranded(j) == [j EXCEPT !.state = "stranded", !.failures = 0, !.by = Nobody]

\* "queued": a slot runs the job, and a late markQueued has hidden that.
OPEN == {"armed", "running", "queued", "stranded"}

\* Slip: one attempt too many.
AfterFailure_OneMore(j) ==
  IF j.failures < Attempts
    THEN [j EXCEPT !.state = "armed", !.failures = @ + 1, !.by = Nobody]
    ELSE [j EXCEPT !.state = "dead_letter", !.failures = 0, !.by = Nobody]

\* The schedule of a run whose handler, or markCompleted, threw.  BullMQ tries
\* again while it counts attempts left, and is refused if the document has none;
\* markDeadLetter and markFailed match a document that says running.
AfterFailure(j) ==
  IF j.failures + 1 < Attempts /\ j.attempts < Attempts
    THEN [j EXCEPT !.state = "armed", !.failures = @ + 1, !.by = Nobody]
    ELSE IF j.failures + 1 < Attempts \/ j.state = "queued" THEN Stranded(j)
    ELSE [j EXCEPT !.state = "dead_letter", !.failures = 0, !.by = Nobody]

\* markCompleted, too.
AfterSuccess(j) ==
  IF j.state = "queued" THEN Stranded(j) ELSE [j EXCEPT !.state = "completed", !.by = Nobody]

\* What a schedule() call of r that is rejected leaves: the old schedule, without
\* its BullMQ job perhaps, or the new one, which nothing delivers unless only
\* markQueued failed.
Rejected(j, runAt) ==
  {j, Armed(runAt), Stranded(Armed(runAt))} \cup IF j.state = "armed" THEN {Stranded(j)} ELSE {}

\* Slot w ends with job j, unless its schedule was replaced or cancelled.
Settle(w, j) ==
  /\ job' = [job EXCEPT ![slot[w].job] = IF @.by = w THEN j ELSE @]
  /\ slot' = [slot EXCEPT ![w].pc = "idle"]

-----------------------------------------------------------------------------
Init ==
  /\ now = 0
  /\ process = "down"
  /\ stopping = FALSE
  /\ todo = <<>>
  /\ job = [r \in JobIds |-> NoJob]
  /\ slot \in [Slots -> [pc : {"idle"}, job : JobIds]]
  /\ chain = {}
  /\ gaveUp = {}
  /\ spent = [exits |-> 0, faults |-> 0, cancels |-> 0]

(* Startup                                                                 *)

Start ==
  /\ process = "down"
  /\ process' = "starting"
  /\ UNCHANGED <<now, stopping, todo, job, slot, chain, gaveUp, spent>>

\* The document of an attempt that nobody is making any more, or of a delivery
\* that was lost; without attempts left it is not run again.
Repairable(j) == /\ j.state \in {"running", "stranded"} /\ j.by = Nobody
                 /\ j.attempts < Attempts

\* A new BullMQ job has no failures; the one of an attempt that was cut off may
\* still be there, and is kept.
Repaired(j) == {[j EXCEPT !.state = "armed", !.failures = 0]}
                 \cup IF j.state = "running" THEN {[j EXCEPT !.state = "armed"]} ELSE {}

\* What the reconciliation may make of a document.  One that is running is not
\* stale perhaps; and the worker, which runs already, may have claimed one since
\* the snapshot, which markQueued puts back.
Reconciled(j) ==
  {j} \cup (IF Repairable(j) THEN Repaired(j) ELSE {})
      \cup (IF j.state = "running" /\ j.by # Nobody THEN {[j EXCEPT !.state = "queued"]} ELSE {})

Reconcile ==
  /\ process = "starting"
  /\ process' = "setup"
  /\ todo' = Configured
  /\ job' \in {f \in [JobIds -> UNION {Reconciled(job[r]) : r \in JobIds}] :
                 \A r \in JobIds : f[r] \in Reconciled(job[r])}
  /\ UNCHANGED <<now, stopping, slot, chain, gaveUp, spent>>

\* Slip: a job that has a document is left alone.
SetUp_Once ==
  /\ process = "setup" /\ todo # <<>>
  /\ LET r == Head(todo) IN
     /\ job' = IF job[r].state = "none" THEN [job EXCEPT ![r] = Armed(NextRunAt(now))] ELSE job
     /\ gaveUp' = gaveUp \ {r}
  /\ todo' = Tail(todo)
  /\ UNCHANGED <<now, process, stopping, slot, chain, spent>>

\* An occurrence that is due, or runs, is replaced like any other.
SetUp ==
  /\ process = "setup" /\ todo # <<>>
  /\ LET r == Head(todo) IN
     /\ job' = [job EXCEPT ![r] = Armed(NextRunAt(now))]
     /\ gaveUp' = gaveUp \ {r}
  /\ todo' = Tail(todo)
  /\ UNCHANGED <<now, process, stopping, slot, chain, spent>>

\* The error ends the setup, and bootstrap goes on.
SetUpFails ==
  /\ process = "setup" /\ todo # <<>>
  /\ Rejects
  /\ \E j \in Rejected(job[Head(todo)], NextRunAt(now)) : job' = [job EXCEPT ![Head(todo)] = j]
  /\ gaveUp' = gaveUp \cup {todo[i] : i \in DOMAIN todo}
  /\ todo' = <<>>
  /\ UNCHANGED <<now, process, stopping, slot, chain>>

Listen ==
  /\ process = "setup" /\ todo = <<>>
  /\ process' = "up"
  /\ UNCHANGED <<now, stopping, todo, job, slot, chain, gaveUp, spent>>

-----------------------------------------------------------------------------
(* The worker                                                              *)

WorkerRuns == process \in {"starting", "setup", "up"} /\ ~stopping

\* Slip: the next occurrence is scheduled before the handler is called, too.
Deliver_ChainsFirst(w) ==
  /\ WorkerRuns /\ slot[w].pc = "idle"
  /\ \E r \in JobIds :
       /\ job[r].state = "armed" /\ job[r].runAt <= now
       /\ job' = [job EXCEPT ![r].state = "running", ![r].by = w, ![r].attempts = @ + 1]
       /\ slot' = [slot EXCEPT ![w] = [pc |-> "handler", job |-> r]]
       /\ chain' = chain \cup {[job |-> r, runAt |-> NextRunAt(now)]}
  /\ UNCHANGED <<now, process, stopping, todo, gaveUp, spent>>

\* Slip: markRunning takes a cancelled document, too.
Deliver_Cancelled(w) ==
  /\ WorkerRuns /\ slot[w].pc = "idle"
  /\ \E r \in JobIds :
       /\ job[r].state \in {"armed", "cancelled"} /\ job[r].runAt <= now
       /\ job[r].attempts < Attempts
       /\ job' = [job EXCEPT ![r].state = "running", ![r].by = w, ![r].attempts = @ + 1]
       /\ slot' = [slot EXCEPT ![w] = [pc |-> "handler", job |-> r]]
  /\ UNCHANGED <<now, process, stopping, todo, chain, gaveUp, spent>>

\* markRunning matches and counts the attempt.
Deliver(w) ==
  /\ WorkerRuns /\ slot[w].pc = "idle"
  /\ \E r \in JobIds :
       /\ job[r].state = "armed" /\ job[r].runAt <= now
       /\ job' = [job EXCEPT ![r].state = "running", ![r].by = w, ![r].attempts = @ + 1]
       /\ slot' = [slot EXCEPT ![w] = [pc |-> "handler", job |-> r]]
  /\ UNCHANGED <<now, process, stopping, todo, chain, gaveUp, spent>>

\* Slip: a retry that succeeds does not chain.
HandlerReturns_FirstAttempt(w) ==
  /\ slot[w].pc = "handler"
  /\ chain' = IF job[slot[w].job].attempts = 1
                THEN chain \cup {[job |-> slot[w].job, runAt |-> NextRunAt(now)]} ELSE chain
  /\ slot' = [slot EXCEPT ![w].pc = "complete"]
  /\ UNCHANGED <<now, process, stopping, todo, job, gaveUp, spent>>

\* The next occurrence is computed at once and its schedule() is not awaited.
HandlerReturns(w) ==
  /\ slot[w].pc = "handler"
  /\ chain' = chain \cup {[job |-> slot[w].job, runAt |-> NextRunAt(now)]}
  /\ slot' = [slot EXCEPT ![w].pc = "complete"]
  /\ UNCHANGED <<now, process, stopping, todo, job, gaveUp, spent>>

\* markRunning fails: no attempt is made, and BullMQ counts one.
NotClaimed(j) ==
  IF j.failures + 1 < Attempts THEN [j EXCEPT !.failures = @ + 1] ELSE Stranded(j)

ClaimFails ==
  /\ WorkerRuns /\ \E w \in Slots : slot[w].pc = "idle"
  /\ Fault
  /\ \E r \in JobIds :
       /\ job[r].state = "armed" /\ job[r].runAt <= now
       /\ job' = [job EXCEPT ![r] = NotClaimed(@)]
  /\ UNCHANGED <<now, process, stopping, todo, slot, chain, gaveUp>>

\* schedule() took so long over its markQueued that the occurrence came first.
MarkedLate(w) ==
  /\ slot[w].pc # "idle" /\ job[slot[w].job].by = w
  /\ Fault
  /\ job' = [job EXCEPT ![slot[w].job].state = "queued"]
  /\ UNCHANGED <<now, process, stopping, todo, slot, chain, gaveUp>>

HandlerThrows(w) ==
  /\ slot[w].pc = "handler"
  /\ Settle(w, AfterFailure(job[slot[w].job]))
  /\ UNCHANGED <<now, process, stopping, todo, chain, gaveUp, spent>>

Complete(w) ==
  /\ slot[w].pc = "complete"
  /\ Settle(w, AfterSuccess(job[slot[w].job]))
  /\ UNCHANGED <<now, process, stopping, todo, chain, gaveUp, spent>>

\* A status update of the worker fails: the attempt fails, or BullMQ has no
\* attempt left that the document knows of.
UpdateFails(w) ==
  /\ slot[w].pc # "idle"
  /\ Fault
  /\ LET j == job[slot[w].job] IN
     \/ slot[w].pc = "complete" /\ Settle(w, AfterFailure(j))
     \/ Settle(w, Stranded(j))
  /\ UNCHANGED <<now, process, stopping, todo, chain, gaveUp>>

\* Even if the job was cancelled meanwhile.
ChainScheduled ==
  \E c \in chain :
    /\ chain' = chain \ {c}
    /\ job' = [job EXCEPT ![c.job] = Armed(c.runAt)]
    /\ gaveUp' = gaveUp \ {c.job}
    /\ UNCHANGED <<now, process, stopping, todo, slot, spent>>

ChainFails ==
  \E c \in chain :
    /\ Rejects
    /\ chain' = chain \ {c}
    /\ \E j \in Rejected(job[c.job], c.runAt) : job' = [job EXCEPT ![c.job] = j]
    /\ gaveUp' = gaveUp \cup {c.job}
    /\ UNCHANGED <<now, process, stopping, todo, slot>>

-----------------------------------------------------------------------------
(* Cancellations and the end of the process                                *)

Cancel(r) ==
  /\ process = "up" /\ job[r].state \in OPEN
  /\ Spend("cancels", MaxCancels)
  /\ job' = [job EXCEPT ![r].state = "cancelled", ![r].by = Nobody]
  /\ UNCHANGED <<now, process, stopping, todo, slot, chain, gaveUp>>

\* SIGTERM: the worker takes no more jobs and those it runs end first.  A startup
\* that is under way goes on beside it.
Shutdown ==
  /\ process \in {"starting", "setup", "up"} /\ ~stopping
  /\ Spend("exits", MaxExits)
  /\ stopping' = TRUE
  /\ UNCHANGED <<now, process, todo, job, slot, chain, gaveUp>>

\* Schedules under way, which nobody waits for, are dropped.
Exit ==
  /\ stopping /\ \A w \in Slots : slot[w].pc = "idle"
  /\ process' = "down"
  /\ stopping' = FALSE
  /\ todo' = <<>>
  /\ chain' = {}
  /\ UNCHANGED <<now, job, slot, gaveUp, spent>>

\* BullMQ delivers a job again whose worker died, once, and is refused if the
\* document says running.
Recoverable(j) == j.state = "queued" /\ j.attempts < Attempts
CutOff(j, recovered) ==
  IF recovered THEN [j EXCEPT !.state = "armed", !.by = Nobody]
  ELSE IF j.state = "queued" THEN Stranded(j) ELSE [j EXCEPT !.by = Nobody]

\* A startup that finds its connections closed ends like a crash, and so does a
\* signal that finds no worker to close.
Crash ==
  /\ process # "down"
  /\ Spend("exits", MaxExits) \/ (stopping /\ UNCHANGED spent)
  /\ process' = "down"
  /\ stopping' = FALSE
  /\ todo' = <<>>
  /\ chain' = {}
  /\ slot' = [w \in Slots |-> [slot[w] EXCEPT !.pc = "idle"]]
  /\ \E recovered \in SUBSET {r \in JobIds : Recoverable(job[r])} :
       job' = [r \in JobIds |-> CutOff(job[r], r \in recovered)]
  /\ UNCHANGED <<now, gaveUp>>

Tick ==
  /\ now < MaxTime
  /\ now' = now + 1
  /\ UNCHANGED <<process, stopping, todo, job, slot, chain, gaveUp, spent>>

Idle == now = MaxTime /\ UNCHANGED vars

RunStep(w) == HandlerReturns(w) \/ HandlerThrows(w) \/ Complete(w)
BootStep   == Start \/ Reconcile \/ SetUp \/ Listen

Next ==
  \/ BootStep \/ SetUpFails
  \/ \E w \in Slots : Deliver(w) \/ RunStep(w) \/ UpdateFails(w) \/ MarkedLate(w)
  \/ ClaimFails \/ ChainScheduled \/ ChainFails
  \/ \E r \in JobIds : Cancel(r)
  \/ Shutdown \/ Exit \/ Crash
  \/ Tick \/ Idle

\* systemd restarts the server, startup and handlers end, BullMQ delivers what
\* is due, commands return, time passes.
Fairness ==
  /\ WF_vars(BootStep) /\ WF_vars(Exit) /\ WF_vars(ChainScheduled) /\ WF_vars(Tick)
  /\ \A w \in Slots : WF_vars(RunStep(w))
  /\ WF_vars(\E w \in Slots : Deliver(w))

Spec     == Init /\ [][Next]_vars
FairSpec == Spec /\ Fairness

-----------------------------------------------------------------------------
Times == 0 .. MaxTime + Period + 1

RecurringTypeOK ==
  /\ now \in 0 .. MaxTime
  /\ process \in {"down", "starting", "setup", "up"} /\ stopping \in BOOLEAN
  /\ todo \in Seq(JobIds)
  /\ job \in [JobIds -> [state : OPEN \cup {"none", "completed", "dead_letter", "cancelled"},
                         runAt : Times, attempts : 0 .. Attempts, failures : 0 .. Attempts - 1,
                         by : Slots \cup {Nobody}]]
  /\ slot \in [Slots -> [pc : {"idle", "handler", "complete"}, job : JobIds]]
  /\ chain \subseteq [job : JobIds, runAt : Times]
  /\ gaveUp \subseteq JobIds
  /\ spent \in [exits : 0 .. MaxExits, faults : 0 .. MaxFaults, cancels : 0 .. MaxCancels]

Chaining(r) == \E c \in chain : c.job = r
Awaiting(r) == \E i \in DOMAIN todo : todo[i] = r

(* Once a startup has set a recurring job up, its chain has no gap: a job   *)
(* is without an open schedule only while the next one is being made, after *)
(* a cancellation or a dead letter, or when an error was logged.            *)
ChainHasNoGap ==
  process \in {"setup", "up"} =>
    \A r \in JobIds : \/ job[r].state \in OPEN \cup {"cancelled", "dead_letter"}
                      \/ Chaining(r) \/ Awaiting(r) \/ r \in gaveUp

\* The places where the chain of r goes on: a schedule that waits for a delivery
\* or a repair, a handler that runs, a schedule() under way (Chaining).
Waits(r)    == job[r].state \in OPEN /\ job[r].by = Nobody
Handling(r) == {w \in Slots : slot[w].pc = "handler" /\ slot[w].job = r}

\* It goes on in two places at once; two handlers of r running are a case of it.
Forked(r) ==
  \/ Waits(r) /\ (Handling(r) # {} \/ Chaining(r))
  \/ Handling(r) # {} /\ Chaining(r)
  \/ \E v, w \in Handling(r) : v # w
  \/ \E c, d \in chain : c.job = r /\ d.job = r /\ c # d

\* markCompleted of a run of r misses: a late markQueued came between.
SuccessMissed(r) ==
  \E w \in Slots : Complete(w) /\ slot[w].job = r /\ job[r].state = "queued" /\ job[r].by = w

(* A recurring job has one chain, so that two of its handlers never run at  *)
(* once.  A second chain begins in three ways only: the setup at startup    *)
(* replaces an occurrence that the worker has begun; markCompleted fails    *)
(* after the next occurrence was asked for, so that the run is made again;  *)
(* or it misses, because the occurrence was put back to queued while it     *)
(* ran, so that a later startup may make the run again.                     *)
ForkedOnlyByRepetition ==
  [][\A r \in JobIds :
       Forked(r)' => \/ Forked(r)
                     \/ (SetUp \/ SetUpFails) /\ r = Head(todo)
                     \/ SuccessMissed(r)
                     \/ \E w \in Slots : /\ UpdateFails(w)
                                         /\ slot[w].pc = "complete" /\ slot[w].job = r]_vars

\* The chain of r was ended, and what was under way then is through.
Ended(r) == /\ job[r].state \in {"cancelled", "dead_letter"}
            /\ Handling(r) = {} /\ ~Chaining(r)

(* A chain that a cancellation or a dead letter has ended does not go on    *)
(* before the next startup, whatever updates are still to fail or succeed;  *)
(* but a run that was under way may have scheduled the next occurrence.     *)
EndedUntilStartup ==
  [][\A r \in JobIds : Ended(r) /\ process = "up" => Ended(r)' \/ process' # "up"]_vars

(* Every occurrence of a recurring job is followed by a later one, whatever *)
(* the handler's duration and wherever the process exits, unless the job is *)
(* cancelled or becomes a dead letter or a command failed.                  *)
ChainGoesOn ==
  \A r \in JobIds, o \in {NextRunAt(t) : t \in 0 .. MaxTime} \cap 0 .. MaxTime :
    job[r].state = "armed" /\ job[r].runAt = o ~>
      \/ job[r].runAt > o
      \/ job[r].state \in {"cancelled", "dead_letter", "stranded"}
      \/ r \in gaveUp
=============================================================================
