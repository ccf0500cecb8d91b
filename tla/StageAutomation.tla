---------------------------- MODULE StageAutomation ----------------------------
(***************************************************************************)
(* The status checks of stages: handleStageStatusCheck, the chain of       *)
(* checks it keeps up by scheduling the next one, and scheduleStageStatus, *)
(* by which the admin backend asks for a check.  One action is what        *)
(* happens between two awaits.                                             *)
(*                                                                         *)
(* The scheduler is what DurableSchedule promises of it: a job id has at   *)
(* most one schedule, a new one replaces it even while its job runs, and a *)
(* delivered job runs once, or again after an error or a startup's         *)
(* reconciliation.  Time is in ticks of half a second.                     *)
(***************************************************************************)
EXTENDS Integers

CONSTANTS
  Stages,
  Drafts,         \* the documents a stage may start as
  Checkers,       \* worker slots of the server
  Requests,       \* invocations of scheduleStageStatus
  Delays,         \* how long before their runAt they may be made
  Attempts,       \* attempts of a status check job
  MaxTime, MaxEdits, MaxFaults, MaxUpsets   \* bounds; the last of both together

Off    == -1                        \* a date the document does not have
Epoch  == -2                        \* a null that is stored as one
Times  == 0 .. MaxTime
Date   == {Off, Epoch} \cup Times
DATES  == {"preRegistrationWindowStart", "preRegistrationWindowEnd",
           "registrationWindowStart", "registrationWindowEnd", "startDate", "endDate"}
WINDOW == 1

ASSUME StageAssumption ==
  /\ {MaxTime, MaxEdits, MaxFaults, MaxUpsets} \subseteq Nat
  /\ Attempts \in Nat \ {0} /\ Delays \subseteq Nat
  /\ Drafts \subseteq [status : {"UPCOMING"}, dates : [DATES -> Date],
                      isPreRegistrationAllowed : BOOLEAN, full : {FALSE}, pending : {FALSE}]

VARIABLES
  now,
  stage,     \* stage[s]: the document of stage s
  job,       \* job[s]: the schedule of "stage-status-" s
  check,     \* check[w]: the handleStageStatusCheck that slot w runs
  request,   \* request[r]: progress of invocation r
  edits,     \* changes made by the admin backend so far
  faults     \* errors and crashes so far

vars == <<now, stage, job, check, request, edits, faults>>

-----------------------------------------------------------------------------
(* Dates and statuses                                                      *)

STAGE_STATUS == {"UPCOMING", "PRE_REGISTRATION_OPEN", "PRE_REGISTRATION_CLOSED", "OPEN",
                 "FILLED", "IN_PROGRESS", "COMPLETED", "POSTPONED", "DELETED"}
\* Nobody asks for a check of these; a check itself passes over the first and
\* the last only.
OUT_OF_TOURNAMENT == {"COMPLETED", "POSTPONED", "DELETED"}

\* full: the main slots and the waiting list are.
Timetables == {d.dates : d \in Drafts}
StageDoc == [status : STAGE_STATUS, dates : Timetables, isPreRegistrationAllowed : BOOLEAN,
             full : BOOLEAN, pending : BOOLEAN]

\* Comparisons with a date that is missing are false; a stored null is long past.
After(t, date)  == date # Off /\ t > date
Before(t, date) == date # Off /\ t < date
Within(t, from, to) == from # Off /\ to # Off /\ from <= t /\ t <= to

\* The status that registration and pre-registration windows give.
RegistrationStatus(d, t) ==
  LET regStart == d.dates.registrationWindowStart
      preStart == d.dates.preRegistrationWindowStart
      preEnd   == d.dates.preRegistrationWindowEnd
      pre      == d.isPreRegistrationAllowed /\ {preStart, preEnd} \subseteq Times IN
  IF Within(t, regStart, d.dates.registrationWindowEnd) THEN "OPEN"
  ELSE IF pre /\ Within(t, preStart, preEnd) THEN "PRE_REGISTRATION_OPEN"
  ELSE IF pre /\ After(t, preEnd) /\ Before(t, regStart) THEN "PRE_REGISTRATION_CLOSED"
  ELSE "UPCOMING"

\* Slip: a filled stage is left alone before its dates are looked at.
DeriveStageStatus_StickyFirst(d, t) ==
  IF d.status = "FILLED" THEN "FILLED"
  ELSE IF After(t, d.dates.endDate) THEN "COMPLETED"
  ELSE IF Within(t, d.dates.startDate, d.dates.endDate) THEN "IN_PROGRESS"
  ELSE IF d.full THEN "FILLED"
  ELSE RegistrationStatus(d, t)

DeriveStageStatus(d, t) ==
  IF After(t, d.dates.endDate) THEN "COMPLETED"
  ELSE IF Within(t, d.dates.startDate, d.dates.endDate) THEN "IN_PROGRESS"
  ELSE IF d.full \/ (d.status = "FILLED" /\ Before(t, d.dates.startDate)) THEN "FILLED"
  ELSE RegistrationStatus(d, t)

Boundaries(d) == {d.dates[b] : b \in DATES} \cap Times

\* A check for time from that schedules the next one at time to has not seen a
\* boundary of between, or of the half second after, and was too early for a
\* window that is open at its last instant.
ENDS == {"preRegistrationWindowEnd", "registrationWindowEnd", "endDate"}
Missed(d, from, to) ==
  \E b \in DATES : /\ d.dates[b] \in Times /\ d.dates[b] <= to + WINDOW
                   /\ from < d.dates[b] \/ (b \in ENDS /\ from = d.dates[b])

\* Slip: the end of registration is no boundary.
GetNextStageRunAt_NoEnd(d, t) ==
  LET later == {b \in Boundaries(d) \ {d.dates.registrationWindowEnd} : b > t + WINDOW} IN
  IF later = {} THEN Off ELSE CHOOSE b \in later : \A o \in later : b <= o

\* Slip: a check in a second when no boundary is left.
GetNextStageRunAt_Always(d, t) ==
  LET later == {b \in Boundaries(d) : b > t + WINDOW} IN
  IF later = {} THEN t + 2 ELSE CHOOSE b \in later : \A o \in later : b <= o

\* The first boundary that is more than half a second away, or Off.
GetNextStageRunAt(d, t) ==
  LET later == {b \in Boundaries(d) : b > t + WINDOW} IN
  IF later = {} THEN Off ELSE CHOOSE b \in later : \A o \in later : b <= o

-----------------------------------------------------------------------------
(* The scheduler                                                           *)

\* What the next check was scheduled for: the document as the last one left it,
\* or NoChain when that one may have missed a boundary.
NoChain == [known |-> FALSE]
Chained(d) == [known |-> TRUE, doc |-> d]

Nobody == "nobody"
ASSUME NobodyAssumption == Nobody \notin Checkers

\* attempts are those the document counts, failures those BullMQ does.
NoJob == [state |-> "none", runAt |-> Off, attempts |-> 0, failures |-> 0, by |-> Nobody,
          chain |-> NoChain]
Armed(t, chain) == [NoJob EXCEPT !.state = "armed", !.runAt = t, !.chain = chain]

\* "queued": a slot runs the job, and a markQueued that came late has hidden that.
RUNNING == {"running", "queued"}

\* A dead letter, or a document whose attempts are used up: it is not run again.
Dead == [NoJob EXCEPT !.state = "dead"]

\* A document with attempts left and no delivery to make them: it waits for the
\* next reconciliation.
Stranded(j, failures) ==
  IF j.attempts < Attempts
    THEN [j EXCEPT !.state = "stranded", !.failures = failures, !.by = Nobody] ELSE Dead

Again(j, failures) == [j EXCEPT !.state = "armed", !.failures = failures, !.by = Nobody]

\* The job of a check that threw.  BullMQ tries again while it counts attempts
\* left, and is refused if the document has none; markDeadLetter and markFailed
\* match a document that says running.
AfterFailure(j) ==
  IF j.failures + 1 < Attempts /\ j.attempts < Attempts THEN Again(j, j.failures + 1)
  ELSE IF j.state = "queued" THEN Stranded(j, 0)
  ELSE Dead

\* The worker's own update may fail like the check.
AfterError(j) == {AfterFailure(j), Stranded(j, 0)}

\* markCompleted matches a document that says running, too.
AfterSuccess(j) == IF j.state = "queued" THEN Stranded(j, 0) ELSE NoJob

\* markRunning failed: no attempt is made, and BullMQ counts one.
NotClaimed(j) ==
  IF j.failures + 1 < Attempts THEN Again(j, j.failures + 1) ELSE Stranded(j, 0)

\* What a cancel() that fails leaves of schedule j: the BullMQ job is removed first.
HalfCancelled(j) == {j} \cup IF j.state = "armed" THEN {Stranded(j, 0)} ELSE {}

\* What a schedule() that fails leaves of j: that, or the new schedule, which
\* nothing delivers unless only markQueued failed.
Rejected(j, new) == HalfCancelled(j) \cup {new, Stranded(new, 0)}

\* What the death of the process leaves of schedule j.  The BullMQ job of a check
\* that was under way is delivered again, and taken if the document allows it.
CutOff(j) ==
  IF j.state \notin RUNNING THEN {j}
  ELSE {Stranded(j, 0), Stranded(j, j.failures)}
         \cup IF j.state = "queued" /\ j.attempts < Attempts THEN {Again(j, j.failures)} ELSE {}

-----------------------------------------------------------------------------
IdleCheck == [pc |-> "idle"]
NoRequest == [pc |-> "idle"]

Init ==
  /\ now = 0
  /\ stage \in [Stages -> Drafts]
  /\ job = [s \in Stages |-> NoJob]
  /\ check = [w \in Checkers |-> IdleCheck]
  /\ request = [r \in Requests |-> NoRequest]
  /\ edits = 0 /\ faults = 0

Fault == faults < MaxFaults /\ edits + faults < MaxUpsets /\ faults' = faults + 1

-----------------------------------------------------------------------------
(* handleStageStatusCheck                                                  *)

\* Slip: the update looks at the job id alone.
EndCheck_ByJobId(w, s, j) ==
  /\ check' = [check EXCEPT ![w] = IdleCheck]
  /\ job' = [job EXCEPT ![s] = j]

\* Slot w ends its check of s with job j, unless a newer schedule took its place.
EndCheck(w, s, j) ==
  /\ check' = [check EXCEPT ![w] = IdleCheck]
  /\ job' = [job EXCEPT ![s] = IF @.by = w THEN j ELSE @]

\* markRunning counts the attempt.  The check takes the time before it reads the
\* stage.
StartCheck(w) ==
  /\ check[w].pc = "idle"
  /\ \E s \in Stages :
       /\ job[s].state = "armed" /\ job[s].runAt <= now
       /\ job' = [job EXCEPT ![s] = [NoJob EXCEPT !.state = "running", !.by = w,
                                                   !.attempts = job[s].attempts + 1,
                                                   !.failures = job[s].failures]]
       /\ check' = [check EXCEPT ![w] = [pc |-> "find", stageId |-> s, now |-> now]]
  /\ UNCHANGED <<now, stage, request, edits, faults>>

\* Without a change, or on a stage that is over, the chain of checks ends here.
FindStage(w) ==
  /\ check[w].pc = "find"
  /\ LET s == check[w].stageId
         newStatus == DeriveStageStatus(stage[s], check[w].now) IN
     check' = [check EXCEPT ![w] =
                 IF stage[s].status \in {"COMPLETED", "DELETED", newStatus}
                   THEN [pc |-> "complete", stageId |-> s]
                   ELSE [pc |-> "update", stageId |-> s, now |-> check[w].now,
                         previous |-> stage[s], newStatus |-> newStatus]]
  /\ UNCHANGED <<now, stage, job, request, edits, faults>>

\* Whatever the status is by now.
UpdateStage(w) ==
  /\ check[w].pc = "update"
  /\ stage' = [stage EXCEPT ![check[w].stageId].status = check[w].newStatus]
  /\ check' = [check EXCEPT ![w].pc = "refresh"]
  /\ UNCHANGED <<now, job, request, edits, faults>>

RefreshStage(w) ==
  /\ check[w].pc = "refresh"
  /\ check' = [check EXCEPT ![w] =
                 [pc |-> "sideEffects", stageId |-> @.stageId, now |-> @.now, previous |-> @.previous,
                  newStatus |-> @.newStatus, refreshed |-> stage[@.stageId]]]
  /\ UNCHANGED <<now, stage, job, request, edits, faults>>

\* Only a check that completes the stage has registrations left to reject.
AfterSideEffects(w, j) ==
  /\ check' = [check EXCEPT ![w] =
                 [pc |-> IF check[w].newStatus = "COMPLETED" THEN "reject" ELSE "complete",
                  stageId |-> check[w].stageId]]
  /\ job' = [job EXCEPT ![check[w].stageId] = j]

Cancels(w) == check[w].refreshed.status \in OUT_OF_TOURNAMENT

Chains(w) ==
  /\ ~Cancels(w)
  /\ GetNextStageRunAt(check[w].refreshed, now) # Off
  /\ check[w].refreshed.status # check[w].previous.status

\* The schedule of the next check.
NextCheck(w, chain) == Armed(GetNextStageRunAt(check[w].refreshed, now), chain)

\* After cache invalidation and the schedule of the tournament's check, whose
\* errors are swallowed.  The chain goes on from the time it is by now.
RunStageSideEffects(w) ==
  /\ check[w].pc = "sideEffects"
  /\ LET d == check[w].refreshed
         chain == IF /\ d = [check[w].previous EXCEPT !.status = check[w].newStatus]
                     /\ ~Missed(d, check[w].now, now)
                    THEN Chained(d) ELSE NoChain IN
     \/ Cancels(w) /\ AfterSideEffects(w, NoJob)
     \/ Chains(w) /\ AfterSideEffects(w, NextCheck(w, chain))
     \/ ~Cancels(w) /\ ~Chains(w) /\ AfterSideEffects(w, job[check[w].stageId])
  /\ UNCHANGED <<now, stage, request, edits, faults>>

RejectPending(w) ==
  /\ check[w].pc = "reject"
  /\ stage' = [stage EXCEPT ![check[w].stageId].pending = FALSE]
  /\ check' = [check EXCEPT ![w].pc = "complete"]
  /\ UNCHANGED <<now, job, request, edits, faults>>

\* The worker's markCompleted.
CompleteCheck(w) ==
  /\ check[w].pc = "complete"
  /\ EndCheck(w, check[w].stageId, AfterSuccess(job[check[w].stageId]))
  /\ UNCHANGED <<now, stage, request, edits, faults>>

\* The error of a cancel() is swallowed.
CancelFails(w) ==
  /\ check[w].pc = "sideEffects" /\ Cancels(w)
  /\ Fault
  /\ \E j \in HalfCancelled(job[check[w].stageId]) : AfterSideEffects(w, j)
  /\ UNCHANGED <<now, stage, request, edits>>

\* The schedule() of the next check fails, and with it the check.
ChainFails(w) ==
  /\ check[w].pc = "sideEffects" /\ Chains(w)
  /\ Fault
  /\ check' = [check EXCEPT ![w] = IdleCheck]
  /\ \E k \in Rejected(job[check[w].stageId], NextCheck(w, NoChain)) :
       \E j \in (IF k.by = w THEN AfterError(k) ELSE {k}) :
         job' = [job EXCEPT ![check[w].stageId] = j]
  /\ UNCHANGED <<now, stage, request, edits>>

\* A command that fails throws out of the handler.
CheckFails(w) ==
  /\ check[w].pc \notin {"idle", "sideEffects"}
  /\ Fault
  /\ \E j \in AfterError(job[check[w].stageId]) : EndCheck(w, check[w].stageId, j)
  /\ UNCHANGED <<now, stage, request, edits>>

\* The worker's markRunning fails.
ClaimFails(s) ==
  /\ job[s].state = "armed" /\ job[s].runAt <= now
  /\ Fault
  /\ job' = [job EXCEPT ![s] = NotClaimed(job[s])]
  /\ UNCHANGED <<now, stage, check, request, edits>>

-----------------------------------------------------------------------------
(* scheduleStageStatus                                                     *)

\* Slip: only the stages that a check passes over are left alone.
FindFor_Postponed(r, s, runAt) ==
  /\ request[r].pc = "idle"
  /\ request' = [request EXCEPT ![r] =
                   IF stage[s].status \in OUT_OF_TOURNAMENT \ {"POSTPONED"}
                     THEN [pc |-> "cancel", stageId |-> s]
                     ELSE [pc |-> "schedule", stageId |-> s, runAt |-> runAt]]
  /\ UNCHANGED <<now, stage, job, check, edits, faults>>

\* The stage is read, and decides between cancel() and schedule().
FindFor(r, s, runAt) ==
  /\ request[r].pc = "idle"
  /\ request' = [request EXCEPT ![r] =
                   IF stage[s].status \in OUT_OF_TOURNAMENT
                     THEN [pc |-> "cancel", stageId |-> s]
                     ELSE [pc |-> "schedule", stageId |-> s, runAt |-> runAt]]
  /\ UNCHANGED <<now, stage, job, check, edits, faults>>

FindRequested(r) ==
  \E s \in Stages, delay \in Delays : now + delay \in Times /\ FindFor(r, s, now + delay)

\* Whatever became of the stage meanwhile.
ScheduleRequested(r) ==
  /\ request[r].pc = "schedule"
  /\ job' = [job EXCEPT ![request[r].stageId] = Armed(request[r].runAt, NoChain)]
  /\ request' = [request EXCEPT ![r] = [pc |-> "done"]]
  /\ UNCHANGED <<now, stage, check, edits, faults>>

CancelRequested(r) ==
  /\ request[r].pc = "cancel"
  /\ job' = [job EXCEPT ![request[r].stageId] = NoJob]
  /\ request' = [request EXCEPT ![r] = [pc |-> "done"]]
  /\ UNCHANGED <<now, stage, check, edits, faults>>

\* The error of a cancel() is swallowed.
RequestFails(r) ==
  /\ request[r].pc \in {"schedule", "cancel"}
  /\ Fault
  /\ LET j == job[request[r].stageId] IN
     \E k \in IF request[r].pc = "cancel" THEN HalfCancelled(j)
               ELSE Rejected(j, Armed(request[r].runAt, NoChain)) :
       job' = [job EXCEPT ![request[r].stageId] = k]
  /\ request' = [request EXCEPT ![r] = [pc |-> IF @.pc = "cancel" THEN "done" ELSE "failed"]]
  /\ UNCHANGED <<now, stage, check, edits>>

\* The stage cannot be read.
FindFails(r) ==
  /\ request[r].pc = "idle"
  /\ Fault
  /\ request' = [request EXCEPT ![r] = [pc |-> "failed"]]
  /\ UNCHANGED <<now, stage, job, check, edits>>

RequestStep(r) == ScheduleRequested(r) \/ CancelRequested(r)

-----------------------------------------------------------------------------
(* Reconciliation, and the death of the process                            *)

\* The startup of a server, this one or another, enqueues a stranded job again.
Repair(s) ==
  /\ job[s].state = "stranded"
  /\ job' = [job EXCEPT ![s] = Again(job[s], job[s].failures)]
  /\ UNCHANGED <<now, stage, check, request, edits, faults>>

\* The markQueued of a schedule(), or of a reconciliation that read the document
\* before, comes after the worker's markRunning.
MarkedLate(s) ==
  /\ job[s].state = "running"
  /\ Fault
  /\ job' = [job EXCEPT ![s].state = "queued"]
  /\ UNCHANGED <<now, stage, check, request, edits>>

\* Slots W have come to the cancel() or the schedule() of their side effects.
Cancelling(s, W) ==
  \/ \E r \in Requests : request[r].pc = "cancel" /\ request[r].stageId = s
  \/ \E w \in W : check[w].pc = "sideEffects" /\ check[w].stageId = s /\ Cancels(w)

Scheduling(s, W) ==
  {Armed(request[r].runAt, NoChain) :
     r \in {q \in Requests : request[q].pc = "schedule" /\ request[q].stageId = s}}
  \cup {NextCheck(w, NoChain) :
          w \in {v \in W : check[v].pc = "sideEffects" /\ check[v].stageId = s /\ Chains(v)}}

\* What is left of the schedule of s with the calls that are under way.
LeftByCrash(s, W) ==
  UNION {CutOff(j) : j \in
    {job[s]} \cup (IF Cancelling(s, W) THEN HalfCancelled(job[s]) ELSE {})
             \cup UNION {Rejected(job[s], new) : new \in Scheduling(s, W)}}

\* The server dies, with every check and request under way.
Crash(W) ==
  /\ Fault
  /\ job' \in {f \in [Stages -> UNION {LeftByCrash(s, W) : s \in Stages}] :
                 \A s \in Stages : f[s] \in LeftByCrash(s, W)}
  /\ check' = [w \in Checkers |-> IdleCheck]
  /\ request' = [r \in Requests |-> IF request[r].pc \in {"schedule", "cancel"}
                                       THEN [pc |-> "failed"] ELSE request[r]]
  /\ UNCHANGED <<now, stage, edits>>

-----------------------------------------------------------------------------
(* The admin backend and the clock                                         *)

\* Teams register and withdraw; a stage is postponed, deleted or moved.
Edit ==
  /\ edits < MaxEdits /\ edits + faults < MaxUpsets
  /\ edits' = edits + 1
  /\ \E s \in Stages :
       \/ \E full \in BOOLEAN : stage' = [stage EXCEPT ![s].full = full, ![s].pending = TRUE]
       \/ \E status \in {"POSTPONED", "DELETED"} : stage' = [stage EXCEPT ![s].status = status]
       \/ \E dates \in Timetables : stage' = [stage EXCEPT ![s].dates = dates]
  /\ stage' # stage
  /\ UNCHANGED <<now, job, check, request, faults>>

Tick ==
  /\ now < MaxTime
  /\ now' = now + 1
  /\ UNCHANGED <<stage, job, check, request, edits, faults>>

\* Time is over and every schedule has been run.
Idle ==
  /\ now = MaxTime
  /\ \A w \in Checkers : check[w].pc = "idle"
  /\ \A s \in Stages : job[s].state # "armed"
  /\ UNCHANGED vars

CheckStep(w) ==
  \/ FindStage(w) \/ UpdateStage(w) \/ RefreshStage(w) \/ RunStageSideEffects(w)
  \/ RejectPending(w) \/ CompleteCheck(w)

\* Slots that are free are alike, and so are invocations that have not begun.
AnyOf(S) == {x \in S : x = CHOOSE y \in S : TRUE}
IdleSlots == {w \in Checkers : check[w].pc = "idle"}
Unmade    == {r \in Requests : request[r].pc = "idle"}

Next ==
  \/ \E w \in AnyOf(IdleSlots) : StartCheck(w)
  \/ \E w \in Checkers : CheckStep(w) \/ CancelFails(w) \/ ChainFails(w) \/ CheckFails(w)
  \/ \E r \in AnyOf(Unmade) : FindRequested(r) \/ FindFails(r)
  \/ \E r \in Requests : RequestStep(r) \/ RequestFails(r)
  \/ \E s \in Stages : ClaimFails(s) \/ Repair(s) \/ MarkedLate(s)
  \/ Crash(Checkers)
  \/ Edit \/ Tick \/ Idle

\* BullMQ delivers what is due, commands return, time passes.
Fairness ==
  /\ \A w \in Checkers : WF_vars(CheckStep(w))
  /\ WF_vars(\E w \in Checkers : StartCheck(w))
  /\ \A r \in Requests : WF_vars(RequestStep(r))
  /\ WF_vars(Tick)

Spec     == Init /\ [][Next]_vars
FairSpec == Spec /\ Fairness

-----------------------------------------------------------------------------
StageTypeOK ==
  /\ now \in Times
  /\ stage \in [Stages -> StageDoc]
  /\ \A s \in Stages : /\ job[s].state \in {"none", "armed", "stranded", "dead"} \cup RUNNING
                       /\ job[s].runAt \in Date
                       /\ job[s].attempts \in 0 .. Attempts
                       /\ job[s].state \in {"armed", "stranded"} => job[s].attempts < Attempts
                       /\ job[s].failures \in 0 .. Attempts - 1
                       /\ job[s].by \in Checkers \cup {Nobody}
  /\ \A w \in Checkers :
       /\ check[w].pc \in {"idle", "find", "update", "refresh", "sideEffects", "reject", "complete"}
       /\ check[w].pc # "idle" => check[w].stageId \in Stages
       /\ check[w].pc \notin {"idle", "reject", "complete"} => check[w].now \in Times
       /\ check[w].pc \in {"update", "refresh", "sideEffects"} => check[w].newStatus \in STAGE_STATUS
  /\ \A r \in Requests : request[r].pc \in {"idle", "schedule", "cancel", "done", "failed"}
  /\ edits \in 0 .. MaxEdits /\ faults \in 0 .. MaxFaults

(* The next boundary is soon enough: as long as nobody changes the stage, a *)
(* chained check comes before its status is out of date.  The exception is  *)
(* a boundary that passed while the last check ran, or in the half second   *)
(* after it, which no check looks at.                                       *)
ChainSkipsNothing ==
  \A s \in Stages :
    LET chain == job[s].chain IN
    chain.known /\ chain.doc = stage[s] /\ now < job[s].runAt =>
      stage[s].status = DeriveStageStatus(stage[s], now)

\* Somebody saw stage s out of the tournament and is about to cancel its check.
CancelUnderWay(s) == Cancelling(s, Checkers)

(* A check of a stage that is scheduled is made: checks that overlap,       *)
(* retries and requests only put a later one in its place.  It is lost to a *)
(* fault, or to somebody who saw the stage out of the tournament.           *)
ScheduledCheckIsMade ==
  [][\A s \in Stages :
       job[s].state = "armed" /\ job'[s].state # "armed" =>
         \/ \E w \in Checkers : StartCheck(w) /\ check'[w].stageId = s
         \/ CancelUnderWay(s) \/ Fault]_vars

\* Stage s is out of the tournament, nobody checks it or is about to, and no
\* document is left for a reconciliation to have it checked.
Retired(s) ==
  /\ stage[s].status \in OUT_OF_TOURNAMENT
  /\ job[s].state \in {"none", "dead"}
  /\ \A w \in Checkers : check[w].pc # "idle" => check[w].stageId # s
  /\ \A r \in Requests : request[r].pc = "schedule" => request[r].stageId # s

(* A postponed, deleted or completed stage stays so, and is not checked any *)
(* more, once the checks and requests of before are through and no schedule *)
(* of it is left.  (A check that is armed, or that a later startup arms     *)
(* again, still gives a postponed stage its calendar's status.)             *)
RetiredForGood == [][\A s \in Stages : Retired(s) => Retired(s)']_vars

(* A stage that is over while a check of it is scheduled is completed,      *)
(* unless the admin backend postpones, deletes or moves it or the check is  *)
(* given up, for good or until the next reconciliation: overlapping checks  *)
(* and retries do not lose it.  (A cancel() decided on before another check *)
(* wrote the status may.)                                                   *)
EndedStageCompletes ==
  \A s \in Stages, dates \in Timetables :
    /\ job[s].state = "armed" /\ ~CancelUnderWay(s)
    /\ stage[s].dates = dates /\ After(now, dates.endDate)
    ~> \/ stage[s].status \in OUT_OF_TOURNAMENT
       \/ stage[s].dates # dates
       \/ job[s].state \in {"dead", "stranded"}

(* "Sticky FILLED: once stage becomes FILLED, keep it FILLED until actual   *)
(* stage start": a filled stage that will be checked does not stay FILLED   *)
(* for ever.                                                                *)
FilledUntilStart ==
  \A s \in Stages :
    stage[s].status = "FILLED" /\ job[s].state = "armed" /\ Before(now, stage[s].dates.startDate) ~>
      stage[s].status # "FILLED"
=============================================================================
